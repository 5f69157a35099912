SPECIFICATION FairSpec
CONSTANTS
    e1 = e1
    e2 = e2
    d1 = d1
    d2 = d2
    Executions <- Both
    Cancellable <- One
    Dispatchers <- TwoDispatchers
    BatchLimit = 2
    MaxFaults = 1
INVARIANTS
    NoCommandIsLost
    StartedBeforeSignalled
PROPERTIES
    ApprovedIsWorkedOn
CHECK_DEADLOCK FALSE
