SPECIFICATION FairSpec
CONSTANTS
    r1 = r1
    r2 = r2
    NoRunner = NoRunner
    Runners <- TwoRunners
    MaxRounds = 3
    MaxFaults = 2
INVARIANTS
    ResultOfThisRound
    OvertakenAfterFault
PROPERTIES
    ImplementsRunnerJob
    QueuedIsCompleted
CHECK_DEADLOCK FALSE
