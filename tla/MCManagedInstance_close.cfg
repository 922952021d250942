SPECIFICATION FairSpec
CONSTANTS
    c1 = c1
    c2 = c2
    Conns <- TwoConns
    Queriers <- First
    Quitters <- Second
    Persistent = TRUE
    DumpFailures <- NoFailure
PROPERTIES
    CloseCompletes
