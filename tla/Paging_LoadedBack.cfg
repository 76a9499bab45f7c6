SPECIFICATION Spec
CONSTANTS
    MAX_THREAD_COUNT = 1
    NumPhysPages = 2
    NumPages = 3
    FilePages = 2
    VMPages = 3
    NameLengths = {1}
    MissingFiles = FALSE
    Algorithms = {3}
INVARIANTS
    LoadedBack
