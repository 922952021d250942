SPECIFICATION Spec
CONSTANTS
    c1 = c1
    c2 = c2
    Conns <- TwoConns
    Queriers <- TwoConns
    Quitters <- TwoConns
    Persistent = TRUE
    DumpFailures <- AnyFailure
SYMMETRY Symmetry
INVARIANTS
    TypeOK
    SerializedUse
    OnlyQueriesServed
    NoReaderLeftBehind
    FinalDumpCoversAcks
PROPERTIES
    StartupOnce
