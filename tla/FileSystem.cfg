\* Sectors of four bytes, Writes of three, a directory of two entries; a
\* large file fits beside an empty one, not beside one of a byte.
SPECIFICATION Spec
CONSTANTS
    Names = {a, b, c}
    a = a
    b = b
    c = c
    Sources <- SmallSources
    NumSectors = 9
    SectorSize = 4
    NumDirEntries = 2
    Straddler = 1
    NumDirect = 3
    TransferSize = 3
    NoName = NoName
    Junk = 0
    NoFile = NoFile
SYMMETRY NameSymmetry
INVARIANTS
    TypeOK
    NoSharedSector
    MapExact
    NoLeak
    PrintsFile
PROPERTY
    ImplementsFileStore
