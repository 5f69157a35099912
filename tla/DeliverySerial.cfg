SPECIFICATION Spec
CONSTANTS
    a1 = a1
    a2 = a2
    c1 = c1
    c2 = c2
    MaxAttempts = 2
    MaxCost = 1
    MaxActivityAttempts = 2
    MaxStarts = 2
    MaxScheduled = 3
    ApproveRequests <- OneApproval
    CancelRequests <- OneCancellation
    Costs <- SomeCost
    Overlap = FALSE
    Faults <- AllFaults
INVARIANTS
    EveryJudgementIsCounted
    ColumnsAgree
    RecordedUsageWithinBudget
PROPERTIES
    TerminalIsFinal
    ImplementsContract
CHECK_DEADLOCK FALSE
