SPECIFICATION Spec
CONSTANTS
    r1 = r1
    r2 = r2
    r3 = r3
    Rows <- ThreeRows
    AtomicMove = FALSE
    StatementErrors = TRUE
PROPERTIES
    ImageKept
    IdleDumpIsComplete
