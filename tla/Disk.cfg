\* Two tracks of four sectors; a seek does not end on a sector's boundary.
SPECIFICATION Spec
CONSTANTS
    Threads = {1, 2}
    SectorsPerTrack = 4
    NumTracks = 2
    SeekTime = 2
    RotationTime = 3
    MaxTicks = 48
INVARIANTS
    Timely
    TokensMatch
