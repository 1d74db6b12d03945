SPECIFICATION Spec
CONSTANTS
    N = 2
    NaiveThreads = {t1, t2, t3}
    Jobs = {j1, j2}
    MaxStarts = 2
    Owner = owner
    PoolKinds = {"asio", "asio_io", "tbb", "tbb_implicit", "win"}
    NThread = 2
    NCq = 2
    MaxCalls = 2
INVARIANTS NoLostWakeup NothingLeftBehind
PROPERTIES IsScheduler PostedJobRuns JoinReturns
\* A pool that has been stopped for good takes no further step.
CHECK_DEADLOCK FALSE
