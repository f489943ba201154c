SPECIFICATION PlayerFairSpec
CONSTANTS
    Word = 64
    FileSizes = {11, 12, 27, 46, 47, 55, 60, 63}
    Formats <- SomeFormats
    ClipLengths = {1, 4, 5}
    ChunkFrames = 2
    DmaFrames = 6
    MaxPlays = 2
INVARIANTS
    TypeOK
    InStep
    WholeClip
    ClipInside
    OnGrid
PROPERTIES
    Ends
    Returns
