\* Two processes, one shared page each: frames are short with none, one or both of
\* them shared.
SPECIFICATION Spec
CONSTANTS
    MAX_THREAD_COUNT = 2
    NumPhysPages = 2
    NumPages = 1
    FilePages = 1
    VMPages = 2
    NameLengths = {1}
    MissingFiles = FALSE
    Algorithms = {1, 2, 3, 4}
INVARIANTS
    ScanEnds
