SPECIFICATION FairSpec
CONSTANTS
    Enq = {e1, e2}
    Deq = {d1}
    Callers = {c1}
    Items = {i1}
    InitCap = 1
    MaxCap = 1
    StopInInitiate = FALSE
    WithClear = TRUE
    Null = null
PROPERTIES StoppedOpFinishes EndFinishesDequeue
