SPECIFICATION Spec
CONSTANTS
    ClipLengths = {1, 4, 5}
    ChunkFrames = 2
    DmaFrames = 6
    MaxPlays = 1
INVARIANTS
    NeverCut
