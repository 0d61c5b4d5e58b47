SPECIFICATION FairSpec
CONSTANTS
    Refusable <- MCRefusable
    MaxRetry = 2
    MaxLoss = 2
    MaxCommands = 2
    MaxLate = 1
INVARIANTS
    TypeOK
    WaitedFor
PROPERTIES
    SuccessIsTrue
    Answered
CHECK_DEADLOCK FALSE
