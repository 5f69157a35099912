SPECIFICATION FairSpec
CONSTANTS
    a1 = a1
    a2 = a2
    c1 = c1
    c2 = c2
    MaxAttempts = 3
    MaxCost = 1
    MaxActivityAttempts = 2
    MaxStarts = 2
    MaxScheduled = 2
    ApproveRequests <- OneApproval
    CancelRequests <- TwoCancellations
    Costs <- NoCost
    Overlap = FALSE
    Faults <- OvertakenReport
INVARIANTS
    DeliveredOnlyIfVerified
PROPERTIES
    ApprovedSettles
    CancellationIsCarriedOut
CHECK_DEADLOCK FALSE
