\* A parent and its child, a general register beside register 0, two words.
SPECIFICATION Spec
CONSTANTS
    DataRegs = {0, 2}
    Words = {0, 1}
    Values = {1}
    Next4 <- TwoWords
    Threads = {1, 2}
    Main = 1
    NoSpace = 2
INVARIANTS
    TypeOK
    HasMachine
    ZeroRegister
PROPERTY
    ImplementsPrivateMachines
