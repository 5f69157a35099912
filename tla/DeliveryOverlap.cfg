SPECIFICATION Spec
CONSTANTS
    a1 = a1
    a2 = a2
    c1 = c1
    c2 = c2
    MaxAttempts = 2
    MaxCost = 1
    MaxActivityAttempts = 1
    MaxStarts = 2
    MaxScheduled = 2
    ApproveRequests <- OneApproval
    CancelRequests <- OneCancellation
    Costs <- NoCost
    Overlap = TRUE
    Faults <- NoCrash
INVARIANTS
    NoWorkBeforeApproval
    DeliveredOnlyIfVerified
    DeliveredHasPullRequest
    CancelledIsWorkedOnOnlyIfRestarted
CHECK_DEADLOCK FALSE
