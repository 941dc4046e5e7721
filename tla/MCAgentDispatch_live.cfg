\* The system may stop: nobody is obliged to send a message.
SPECIFICATION FairSpec
CONSTANTS
    s1 = s1
    s2 = s2
    NoMsg = NoMsg
    u1 = u1
    v1 = v1
    a1 = a1
    a2 = a2
    Users = {u1, v1}
    Autos = {a1, a2}
    Systems = {}
    Directs = {}
    StopTexts = {}
    StatusTexts = {}
    CommandTexts = {}
    SecondSession = {v1}
    Sessions = {s1, s2}
    Temporary = {}
    GoalSessions = {s1}
    QueueCap = 4
    MaxConcurrent = 1
    MaxPerDrain = 1
    MaxCycles = 1
    MaxRounds = 1
    WaitForSuspends = FALSE
    Msgs <- MCMsgs
    SessionOf <- MCSessionOf
    KindOf <- MCKindOf
    TextOf <- MCTextOf
CHECK_DEADLOCK FALSE
PROPERTIES
    AutomationTurnReported
    EveryMessageHandled
