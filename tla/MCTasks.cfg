SPECIFICATION Spec
CONSTANTS
    Ops = {o1, o2, o3}
    MaxSize = 3
    BufSize = 2
    MaxReqs = 2
    Apps = {"compr_conv", "wiki_hist"}
    Files <- WikiFiles
    Cap = 1
    Batch = 2
    Faults = TRUE
INVARIANTS OneWillResume DestroyedWhenDone ResumedByTheLast TimeoutIffTimerFirst InStep NothingLost
PROPERTIES OwnerLeaves TimedOpEnds PipelineEnds
\* A group that is destroyed, a timed op that ended, a closed connection and a pipeline take no further step.
CHECK_DEADLOCK FALSE
