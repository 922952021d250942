SPECIFICATION Spec
CONSTANTS
    p1 = p1
    p2 = p2
    f1 = f1
    f2 = f2
    i1 = i1
    i2 = i2
    r1 = r1
    r2 = r2
    Paths <- TwoPaths
    FileOf <- Apart
    Ids <- TwoIds
    Rows <- TwoRows
    Careful = TRUE
SYMMETRY Symmetry
INVARIANTS
    TypeOK
    FilesWhole
PROPERTIES
    FilesGrow
    ShutdownSavesAll
