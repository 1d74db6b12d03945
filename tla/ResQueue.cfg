SPECIFICATION Spec
CONSTANTS
    Enq = {e1}
    Deq = {d1, d2}
    Callers = {c1}
    Items = {i1, i2}
    InitCap = 1
    MaxCap = 2
    StopInInitiate = FALSE
    WithClear = FALSE
    Null = null
SYMMETRY Symmetry
INVARIANTS TypeOK Integrity OneOwner ValuesConserved NoDequeueWaitsPastEnd
PROPERTIES FifoSpec
