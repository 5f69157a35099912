SPECIFICATION Spec
CONSTANTS
    s1 = s1
    s2 = s2
    i1 = i1
    i2 = i2
    e1 = e1
    e2 = e2
    good = good
    better = better
    unknown = unknown
    p1 = p1
    w1 = w1
    w2 = w2
    NoTerms = NoTerms
    NoItem = NoItem
    Nobody = Nobody
    Sessions <- TwoSessions
    Items <- TwoItems
    Events <- TwoEvents
    Terms <- TwoTerms
    Known <- TwoTerms
    Publishers <- OnePublisher
    Workers <- OneWorker
    BatchLimit = 2
    FetchLimit = 1
    MaxMessages = 2
    MaxFaults = 0
    MaxDirect = 1
INVARIANTS
    TablesAgree
    ExecutionHasTheRecordedTerms
PROPERTIES
    AnnouncedAfterReview
SYMMETRY Alike
CHECK_DEADLOCK FALSE
