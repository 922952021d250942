\* The clients have sent what they may.
CHECK_DEADLOCK FALSE
SPECIFICATION Spec
CONSTANTS
    Conn = {c1, c2}
    NoOne = none
    MaxBatches = 2
INVARIANT OwnStatement
