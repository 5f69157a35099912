SPECIFICATION AnyFairSpec
CONSTANTS
    s1 = s1
    s2 = s2
    i1 = i1
    i2 = i2
    e1 = e1
    e2 = e2
    good = good
    better = better
    unknown = unknown
    p1 = p1
    w1 = w1
    w2 = w2
    NoTerms = NoTerms
    NoItem = NoItem
    Nobody = Nobody
    Sessions <- OneSession
    Items <- TwoItems
    Events <- TwoEvents
    Terms <- SomeUnknown
    Known <- OneTerms
    Publishers <- OnePublisher
    Workers <- OneWorker
    BatchLimit = 2
    FetchLimit = 2
    MaxMessages = 2
    MaxFaults = 0
    MaxDirect = 0
PROPERTIES
    ReadyStartsAWorkflow
CHECK_DEADLOCK FALSE
