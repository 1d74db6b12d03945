SPECIFICATION Spec
CONSTANTS
    Tasks = {t1, t2, t3}
    Res = {x1, x2}
    InitCap = 1
    MinCap = 1
    MaxCap = 2
    Ratios <- HalfOrDouble
    HoldAndWait = TRUE
    StopInInitiate = TRUE
    InlineResume = TRUE
    Null = null
    Keys = {"j", "k"}
    Users = {u1, u2, u3}
    Caps = {1}
    Kinds = {"until_all_done", "until_first_done", "until_first_succeeded", "until_first_failed", "until_all_succeeded", "seq_until_succeeded", "seq_until_failed"}
    Sizes = {0, 1, 2, 3}
    MaxSize = 3
    Endless = {1, 3}
    ParentStops = TRUE
    CleanupOps = {o1, o2}
    GenOp = genop
    MaxDepth = 2
    Reuse = FALSE
    Scheds = {"A", "B"}
    MaxWraps = 2
INVARIANTS ExclusiveLoan ResumedOnceAtTheEnd OutcomeUnlessStopped InnermostFirst FailureReported RunsWhereAsked
PROPERTIES WaiterServed UntilEnds LeaverEnds
\* Ops that have ended, and a thread that locks the mutex it holds, take no further step.
CHECK_DEADLOCK FALSE
