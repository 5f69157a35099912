SPECIFICATION AnyFairSpec
CONSTANTS
    s1 = s1
    s2 = s2
    i1 = i1
    i2 = i2
    e1 = e1
    e2 = e2
    good = good
    better = better
    unknown = unknown
    p1 = p1
    w1 = w1
    w2 = w2
    NoTerms = NoTerms
    NoItem = NoItem
    Nobody = Nobody
    Sessions <- OneSession
    Items <- OneItem
    Events <- TwoEvents
    Terms <- OneTerms
    Known <- OneTerms
    Publishers <- OnePublisher
    Workers <- TwoWorkers
    BatchLimit = 1
    FetchLimit = 2
    MaxMessages = 3
    MaxFaults = 1
    MaxDirect = 1
INVARIANTS
    NoEventIsLost
    AppliedAtMostOnce
    OneExecutionPerWorkItem
PROPERTIES
    ReadyIsAccepted
CHECK_DEADLOCK FALSE
