SPECIFICATION Spec
CONSTANTS
    a = a
    b = b
    Chunk <- MCChunk
    AppFile <- MCAppFile
    Capacity = 3
    MaxResend = 2
INVARIANTS
    TypeOK
    ReadyImage
    ReadyCrc
    NoDownloadUnderReady
    AckedIsStored
PROPERTY
    SlotSpec
