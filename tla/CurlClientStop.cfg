SPECIFICATION Spec
CONSTANTS
    Requests = {r1}
    Uses <- MCUses
    Stream <- MCStream
    BufSize = 1
    None = none
CHECK_DEADLOCK FALSE
INVARIANTS ResumedByOne 
