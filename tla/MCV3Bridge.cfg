SPECIFICATION FairSpec
CONSTANTS
    g1 = g1
    g2 = g2
    Grp <- MCGrp
    MaxRequests = 3
    MaxLoss = 1
    MaxDamage = 1
    MaxLate = 1
INVARIANTS
    TypeOK
    WaitedFor
PROPERTIES
    TimeoutNames
    Answered
CHECK_DEADLOCK FALSE
