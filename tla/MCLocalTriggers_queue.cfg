\* The system may stop: nobody is obliged to enqueue, and faults are bounded.
SPECIFICATION FairSpec
CONSTANTS
    t1 = t1
    t2 = t2
    Triggers = {t1, t2}
    TriggerOf <- MCTriggerOf
    NDeliveries = 3
    DownChannels = {t2}
    BatchSize = 2
    MaxAttempts = 3
    MaxFaults = 3
CHECK_DEADLOCK FALSE
INVARIANTS
    TypeOK
    NoDeliveryLost
    RerunsNeedFault
    OneAttemptPerFault
PROPERTIES
    ImplementsQueue
    EveryDeliverySettled
