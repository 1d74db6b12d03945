SPECIFICATION Spec
CONSTANTS
    Requests = {r1, r2}
    Uses <- UsesOf
    Stream <- Response
    BufSize = 1
    None = none
    Sockets = {s1, s2}
    MaxId = 2
    MaxCmds = 3
    MaxGuards = 3
    MaxRows = 2
    PerScope = 1
    Named = TRUE
    Faults = TRUE
    Schemas = {"main", "aux"}
    Sizes = {1, 2}
    Kinds = {"client_unary", "client_client_stream", "client_server_stream", "client_bidi", "server_unary", "server_client_stream", "server_server_stream", "server_bidi"}
    StoppableRpcs = {"client_unary", "client_client_stream", "client_server_stream", "server_unary", "server_client_stream", "server_server_stream", "server_bidi"}
    EarlyOk = FALSE
    MaxOps = 2
    MaxCalls = 3
    RedisCmds = 1
    MaxElms = 3
    Nested = FALSE
INVARIANTS ResumedByOne DataInOrder PollHasWait AnswersInStep  FinishedOnce
PROPERTIES ReadEnds
\* Calls that have ended take no further step.
CHECK_DEADLOCK FALSE
