SPECIFICATION Spec
CONSTANTS
    Ops = {o1, o2, o3}
    GenOp = genop
    MaxDepth = 2
    Reuse = TRUE
INVARIANTS ResumedWhenScopeDone
\* A task that has ended takes no further step.
CHECK_DEADLOCK FALSE
