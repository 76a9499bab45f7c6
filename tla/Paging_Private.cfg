SPECIFICATION Spec
CONSTANTS
    MAX_THREAD_COUNT = 2
    NumPhysPages = 2
    NumPages = 2
    FilePages = 1
    VMPages = 2
    NameLengths = {1}
    MissingFiles = FALSE
    Algorithms = {1, 2, 3, 4}
INVARIANTS
    TypeOK
    OwnedFrames
    CountsFrames
    DirtyIntact
