\* The system may stop: nobody is obliged to send a message.
SPECIFICATION Spec
CONSTANTS
    s1 = s1
    s2 = s2
    NoMsg = NoMsg
    u1 = u1
    u2 = u2
    k1 = k1
    v1 = v1
    a1 = a1
    Users = {u1, u2, k1, v1}
    Autos = {a1}
    Systems = {}
    Directs = {}
    StopTexts = {k1}
    StatusTexts = {}
    CommandTexts = {}
    SecondSession = {v1}
    Sessions = {s1, s2}
    Temporary = {}
    GoalSessions = {s1}
    QueueCap = 1
    MaxConcurrent = 1
    MaxPerDrain = 1
    MaxCycles = 1
    MaxRounds = 1
    WaitForSuspends = FALSE
    Msgs <- MCMsgs
    SessionOf <- MCSessionOf
    KindOf <- MCKindOf
    TextOf <- MCTextOf
CHECK_DEADLOCK FALSE
INVARIANTS
    TypeOK
    TurnsExclusive
    AutomationNeverInjected
    OneHolderPerMessage
PROPERTIES
    ImplementsMailbox
