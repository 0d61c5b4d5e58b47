SPECIFICATION Spec
CONSTANTS
    g1 = g1
    g2 = g2
    Grp <- MCGrp
    MaxRequests = 3
    MaxLoss = 1
    MaxDamage = 1
    MaxLate = 1
PROPERTY NoReplyMeansSilence
CHECK_DEADLOCK FALSE
