\* The system may stop: nobody is obliged to send a message.
SPECIFICATION Spec
CONSTANTS
    s1 = s1
    s2 = s2
    NoMsg = NoMsg
    u1 = u1
    c1 = c1
    k1 = k1
    a2 = a2
    a1 = a1
    y1 = y1
    d1 = d1
    Users = {u1, c1, k1}
    Autos = {a1, a2}
    Systems = {y1}
    Directs = {d1}
    StopTexts = {k1}
    StatusTexts = {u1}
    CommandTexts = {c1, y1}
    SecondSession = {}
    Sessions = {s1}
    Temporary = {c1}
    GoalSessions = {}
    QueueCap = 1
    MaxConcurrent = 1
    MaxPerDrain = 1
    MaxCycles = 1
    MaxRounds = 1
    WaitForSuspends = TRUE
    Msgs <- MCMsgs
    SessionOf <- MCSessionOf
    KindOf <- MCKindOf
    TextOf <- MCTextOf
CHECK_DEADLOCK FALSE
INVARIANTS
    DeferredHasPublisher
