SPECIFICATION Spec
CONSTANTS
    Chunks <- OneBatch
    CmaSize = 8
    MaxTicks = 256
INVARIANTS
    TypeOK
    RepliesFollowProtocol
    CleanBetweenCalls
    LoopEndsByItself
