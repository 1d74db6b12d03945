SPECIFICATION Spec
CONSTANTS
    Enq = {e1}
    Deq = {d1}
    Callers = {c1}
    Items = {i1}
    InitCap = 1
    MaxCap = 2
    StopInInitiate = TRUE
    WithClear = FALSE
    Null = null
INVARIANTS NeverRelocks
