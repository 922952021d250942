SPECIFICATION Spec
CONSTANTS
    c1 = c1
    c2 = c2
    Conns <- TwoConns
    Queriers <- TwoConns
    Quitters <- TwoConns
    Persistent = TRUE
    DumpFailures <- NoFailure
INVARIANTS
    NoRaceWithHandlers
