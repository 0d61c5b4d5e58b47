SPECIFICATION MCSpec
CONSTANTS
    a = a
    b = b
    c = c
    Chunk <- MCChunk
    AppFile <- MCAppFile
    Capacity = 2
    MaxResend = 1
    RefusedLen <- MCNone
    MaxWire = 1
    MaxLate = 0
    MaxFrameLoss = 0
    MaxDamage = 0
    MaxReplyLoss = 0
    MaxBoot = 1
INVARIANT StagesExclude
CHECK_DEADLOCK FALSE
