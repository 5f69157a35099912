SPECIFICATION FairSpec
CONSTANTS
    e1 = e1
    e2 = e2
    d1 = d1
    d2 = d2
    Executions <- Both
    Cancellable <- One
    Dispatchers <- OneDispatcher
    BatchLimit = 2
    MaxFaults = 0
PROPERTIES
    AcceptedIsStarted
CHECK_DEADLOCK FALSE
