SPECIFICATION Spec
CONSTANTS
    Refusable <- MCNone
    MaxRetry = 2
    MaxCommands = 2
    MaxLoss = 0
    MaxLate = 0
INVARIANT AlreadyUnlockedIsTrue
CHECK_DEADLOCK FALSE
