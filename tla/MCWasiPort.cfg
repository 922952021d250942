\* The process may exit.
CHECK_DEADLOCK FALSE
SPECIFICATION PortSpec
CONSTANTS
    MaxBytes = 4
    Total = 9
    WatchdogLimit = 2
    MaxLists = 2
    Lengths <- MCLengths
    NSIG = 4
    SetBits = 2
    WordBits = 3
    Refused = {2}
    MaxDepth = 2
    Library = {plpgsql, lib2, lib3}
    Plpgsql = plpgsql
    NoLibrary = none
    Name = {n1, n2}
    Segment = {s1, s2}
    MaxIndex = 1
    Setting = {0, 7, 8}
    ExitCode = {0, 66, 256}
    MaxRuns = 3
INVARIANTS
    PortTypeOK
    ReceivedInOrder
    NothingStranded
    KilledOnlyIdle
    LookupsLeakNothing
    HandlersRestored
    NothingLost
    InitOnce
    OwnFilesKept
    NotLockedOut
