SPECIFICATION FairSpec
CONSTANTS
    MAX_THREAD_COUNT = 1
    NumPhysPages = 2
    NumPages = 3
    FilePages = 2
    VMPages = 3
    NameLengths = {1}
    MissingFiles = TRUE
    Algorithms = {2, 3, 4}
INVARIANT RunsOn
PROPERTY InstructionCompletes
