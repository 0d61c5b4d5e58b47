SPECIFICATION MCFairSpec
CONSTANTS
    a = a
    b = b
    c = c
    Chunk <- MCChunk
    Capacity = 4
    RefusedLen <- MCRefusedLen
    MaxWire = 3
    MaxLate = 2
    MaxFrameLoss = 1
    MaxDamage = 1
    MaxReplyLoss = 1
    MaxBoot = 1
INVARIANTS
    CtrlOtaTypeOK
    ClearedOnlyWhenInstalled
    LoopLeftOnlyWhenDone
    CtrlOtaPosition
    AckedWasTaken
PROPERTY
    Delivered
CHECK_DEADLOCK FALSE
