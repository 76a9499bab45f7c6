\* One process with frames to spare: no page ever needs to be replaced.
SPECIFICATION Spec
CONSTANTS
    MAX_THREAD_COUNT = 1
    NumPhysPages = 3
    NumPages = 2
    FilePages = 1
    VMPages = 3
    NameLengths = {1}
    MissingFiles = FALSE
    Algorithms = {1, 2, 3, 4}
INVARIANTS
    SharedKept
