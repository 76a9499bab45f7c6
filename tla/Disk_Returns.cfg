SPECIFICATION Spec
CONSTANTS
    Threads = {1, 2}
    SectorsPerTrack = 4
    NumTracks = 2
    SeekTime = 2
    RotationTime = 3
    MaxTicks = 48
INVARIANT
    ReturnsWhenDone
