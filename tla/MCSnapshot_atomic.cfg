SPECIFICATION Spec
CONSTANTS
    r1 = r1
    r2 = r2
    r3 = r3
    Rows <- ThreeRows
    AtomicMove = TRUE
    StatementErrors = TRUE
INVARIANTS
    TypeOK
    SavedWasCommitted
PROPERTIES
    StoreSpec
    IdleDumpIsComplete
