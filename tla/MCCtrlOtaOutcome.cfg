SPECIFICATION MCSpec
CONSTANTS
    a = a
    b = b
    c = c
    Chunk <- MCChunk
    Capacity = 4
    RefusedLen <- MCNone
    MaxWire = 2
    MaxLate = 0
    MaxFrameLoss = 0
    MaxDamage = 0
    MaxReplyLoss = 0
    MaxBoot = 0
PROPERTY OutcomeStands
CHECK_DEADLOCK FALSE
