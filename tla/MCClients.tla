------------------------------ MODULE MCClients ------------------------------
(*****************************************************************************)
(* The clients of other libraries, one at a time: requests over curl and the *)
(* sockets they wait for, the connections to PostgreSQL, MySQL and Redis,    *)
(* the SQLite connection, its statements and settings, and gRPC calls.       *)
(* "part" says which one a behaviour is of; variables that it does not have  *)
(* stay empty.                                                               *)
(*****************************************************************************)
EXTENDS Integers, Sequences

CONSTANTS
    Requests, Uses, Stream, BufSize, None, Sockets, MaxId, MaxCmds,
    MaxGuards, MaxRows, PerScope, Named, Faults, Schemas, Sizes, Kinds, StoppableRpcs, EarlyOk,
    MaxOps, MaxCalls, RedisCmds, MaxElms, Nested

VARIABLES
    part,   \* the component this behaviour is of
    req, done, pausedReq, todo, live, sds, idSeq, waits, fired, kick, polled, unheld, link, fd, skt, queue, pipe,
    sent, read, flushed, srv, trxn, call, frames, disk, guards, scopes, rows, leaving, asserted, vm,
    needReset, stepErr, misuse, params, last, raw, newPage, asked, resetting, topic, kind, stop, sts, fin, ops, pc, n,
    bad, pool, held, open, r, calls, tuple, cmd, due, elm, i, stored, owners, ec

vars == <<part, req, done, pausedReq, todo, live, sds, idSeq, waits, fired, kick, polled, unheld, link, fd, skt,
        queue, pipe, sent, read, flushed, srv, trxn, call, frames, disk, guards, scopes, rows, leaving,
        asserted, vm, needReset, stepErr, misuse, params, last, raw, newPage, asked, resetting, topic, kind, stop, sts,
        fin, ops, pc, n, bad, pool, held, open, r, calls, tuple, cmd, due, elm, i, stored, owners, ec>>

Curl == INSTANCE CurlClient
Socks == INSTANCE CurlSockets
Pq == INSTANCE PqConn
Lite == INSTANCE SqliteConn
Stmt == INSTANCE SqliteStmt
Setting == INSTANCE SqliteSettings
Rpc == INSTANCE GrpcRpc WITH Stoppable <- StoppableRpcs
Mysql == INSTANCE MysqlConn
Redis == INSTANCE RedisReply WITH MaxCmds <- RedisCmds

ASSUME ClientAssumption ==
    /\ Curl!CurlAssumption /\ Socks!SocketAssumption /\ Setting!SettingAssumption
    /\ Rpc!RpcAssumption /\ Redis!RedisAssumption

\* A header and a body, larger than one and than two buffers of a pausing read.
Response == <<[t |-> "hd", n |-> 2], [t |-> "wd", n |-> 3]>>

\* Of two requests, one is read piece by piece, and the other may be stopped; or both are read piece by
\* piece, so that both are paused; or curl cuts off the one that is paused.  Three reads pause a
\* chunk twice, or the chunks of both kinds.
UsesOf ==
    LET one == CHOOSE q \in Requests : TRUE
        Two(a, b) == [q \in Requests |-> IF q = one THEN a ELSE b]
        Use(ways, left) == [ways |-> ways, left |-> left]
    IN {Two(Use({"pieces"}, 3), Use({"stop"}, 1)),
        Two(Use({"pieces"}, 2), Use({"pieces"}, 1)),
        Two(Use({"pieces", "cut"}, 2), Use({}, 1))}

\* the variables of the other components
Unused ==
    /\ IF part = "curl" THEN TRUE
       ELSE req = <<>> /\ done = <<>> /\ pausedReq = <<>> /\ todo = <<>>
    /\ IF part = "sockets" THEN TRUE
       ELSE live = <<>> /\ sds = <<>> /\ idSeq = <<>> /\ waits = <<>> /\ fired = <<>> /\ kick = <<>>
           /\ polled = <<>> /\ unheld = <<>>
    /\ IF part \in {"pq", "mysql"} THEN TRUE
       ELSE link = <<>> /\ trxn = <<>>
    /\ IF part = "pq" THEN TRUE
       ELSE fd = <<>> /\ skt = <<>> /\ queue = <<>> /\ pipe = <<>> /\ sent = <<>> /\ read = <<>>
           /\ flushed = <<>> /\ srv = <<>> /\ call = <<>>
    /\ IF part = "sqlite" THEN TRUE
       ELSE frames = <<>> /\ disk = <<>> /\ guards = <<>> /\ scopes = <<>> /\ rows = <<>>
           /\ leaving = <<>>
    /\ IF part \in {"curl", "sqlite", "mysql"} THEN TRUE
       ELSE asserted = <<>>
    /\ IF part = "stmt" THEN TRUE
       ELSE vm = <<>> /\ needReset = <<>> /\ stepErr = <<>> /\ misuse = <<>> /\ params = <<>>
    /\ IF part \in {"stmt", "settings", "mysql"} THEN TRUE
       ELSE last = <<>>
    /\ IF part = "settings" THEN TRUE
       ELSE raw = <<>> /\ newPage = <<>> /\ asked = <<>> /\ resetting = <<>>
           /\ topic = <<>>
    /\ IF part = "rpc" THEN TRUE
       ELSE kind = <<>> /\ stop = <<>> /\ sts = <<>> /\ fin = <<>> /\ ops = <<>> /\ pc = <<>>
           /\ bad = <<>>
    /\ IF part \in {"rpc", "redis"} THEN TRUE
       ELSE n = <<>>
    /\ IF part = "mysql" THEN TRUE
       ELSE pool = <<>> /\ held = <<>> /\ open = <<>> /\ r = <<>> /\ calls = <<>>
    /\ IF part = "redis" THEN TRUE
       ELSE tuple = <<>> /\ cmd = <<>> /\ due = <<>> /\ elm = <<>> /\ i = <<>> /\ stored = <<>>
           /\ owners = <<>> /\ ec = <<>>
OthersStay ==
    /\ UNCHANGED part
    /\ IF part = "curl" THEN TRUE
       ELSE UNCHANGED <<req, done, pausedReq, todo>>
    /\ IF part = "sockets" THEN TRUE
       ELSE UNCHANGED <<live, sds, idSeq, waits, fired, kick, polled, unheld>>
    /\ IF part \in {"pq", "mysql"} THEN TRUE
       ELSE UNCHANGED <<link, trxn>>
    /\ IF part = "pq" THEN TRUE
       ELSE UNCHANGED <<fd, skt, queue, pipe, sent, read, flushed, srv, call>>
    /\ IF part = "sqlite" THEN TRUE
       ELSE UNCHANGED <<frames, disk, guards, scopes, rows, leaving>>
    /\ IF part \in {"curl", "sqlite", "mysql"} THEN TRUE
       ELSE UNCHANGED <<asserted>>
    /\ IF part = "stmt" THEN TRUE
       ELSE UNCHANGED <<vm, needReset, stepErr, misuse, params>>
    /\ IF part \in {"stmt", "settings", "mysql"} THEN TRUE
       ELSE UNCHANGED <<last>>
    /\ IF part = "settings" THEN TRUE
       ELSE UNCHANGED <<raw, newPage, asked, resetting, topic>>
    /\ IF part = "rpc" THEN TRUE
       ELSE UNCHANGED <<kind, stop, sts, fin, ops, pc, bad>>
    /\ IF part \in {"rpc", "redis"} THEN TRUE
       ELSE UNCHANGED <<n>>
    /\ IF part = "mysql" THEN TRUE
       ELSE UNCHANGED <<pool, held, open, r, calls>>
    /\ IF part = "redis" THEN TRUE
       ELSE UNCHANGED <<tuple, cmd, due, elm, i, stored, owners, ec>>

Init ==
    \/ part = "curl" /\ Curl!Init /\ Unused
    \/ part = "sockets" /\ Socks!Init /\ Unused
    \/ part = "pq" /\ Pq!Init /\ Unused
    \/ part = "sqlite" /\ Lite!Init /\ Unused
    \/ part = "stmt" /\ Stmt!Init /\ Unused
    \/ part = "settings" /\ Setting!Init /\ Unused
    \/ part = "rpc" /\ Rpc!Init /\ Unused
    \/ part = "mysql" /\ Mysql!Init /\ Unused
    \/ part = "redis" /\ Redis!Init /\ Unused

\* a step of one component
InCurl(A) == part = "curl" /\ A /\ OthersStay
InSocks(A) == part = "sockets" /\ A /\ OthersStay
InPq(A) == part = "pq" /\ A /\ OthersStay
InLite(A) == part = "sqlite" /\ A /\ OthersStay
InStmt(A) == part = "stmt" /\ A /\ OthersStay
InSetting(A) == part = "settings" /\ A /\ OthersStay
InRpc(A) == part = "rpc" /\ A /\ OthersStay
InMysql(A) == part = "mysql" /\ A /\ OthersStay
InRedis(A) == part = "redis" /\ A /\ OthersStay

Next ==
    \/ InCurl(Curl!Next)
    \/ InSocks(Socks!Next)
    \/ InPq(Pq!Next)
    \/ InLite(Lite!Next)
    \/ InStmt(Stmt!Next)
    \/ InSetting(Setting!Next)
    \/ InRpc(Rpc!Next)
    \/ InMysql(Mysql!Next)
    \/ InRedis(Redis!Next)

\* Socket actions come while there is something to do (CurlSockets), a thread inside a call goes on,
\* and curl advances a running transfer (it has timeouts).
Fairness ==
    /\ WF_vars(InCurl(Curl!Goes(\E t \in Curl!Transfers : Curl!SocketAction(t))))
    /\ \A q \in Requests :
          /\ WF_vars(InCurl(Curl!Goes(\/ Curl!Register(q) \/ Curl!AddTransfer(q) \/ Curl!Unpause(q)
                                      \/ Curl!TakeResult(q) \/ Curl!StopCallback(q))))
          /\ WF_vars(InCurl(Curl!Goes(\E src \in {"ioc", "done", "stop"} : Curl!Resume(src, q))))
          /\ SF_vars(InCurl(Curl!Goes(Curl!Advances(q))))

Spec == Init /\ [][Next]_vars /\ Fairness

-----------------------------------------------------------------------------
\* A curl request is resumed by one thread only, which finds a continuation: events of the sockets
\* and the stop callback never both take it, however requests pause, end and are stopped.  Only the
\* end of a transfer that curl cut off while it was paused may find no read.
ResumedByOne == part = "curl" => Curl!ResumedByOne

\* The buffers of successive reads of a curl request get the bytes of the transfer in their order,
\* none twice, whatever was left in a chunk when a buffer was full, unless the chunk is paused
\* again, or curl has cut the transfer off or would not let it go on.
DataInOrder == part = "curl" => Curl!DataInOrder

\* Whenever curl wants events of a socket, a wait for them is under way or a callback that starts
\* one is about to run, however sockets are closed and their numbers used again.  A socket that
\* could not be assigned is polled by nobody.
PollHasWait == part = "sockets" => Socks!PollHasWait

\* What a call gives back belongs to that call.  PostgreSQL: results are read in the order of the
\* commands, exec() leaves none behind, and each wait is for the socket libpq uses now.  Redis:
\* each node goes to the element of the tuple it is for.  SQLite: a statement with
\* parameters starts from its beginning when it is used again, and the cache has the size that was asked for.
AnswersInStep ==
    /\ part = "pq"       => Pq!ResultsInStep /\ Pq!ExecLeavesReady /\ Pq!WaitsForItsSocket
    /\ part = "redis"    => Redis!NodesWhereTheyBelong
    /\ part = "stmt"     => Stmt!StatementReady
    /\ part = "settings" => Setting!CacheAsAsked

\* Transactions end with their guard: none is left open by a scope that was left, with success or with a
\* failure, but for the cases TrxnClosed and MysqlTrxnClosed name, and what SQLite has on disk is what
\* guards committed.
TrxnsClosed ==
    /\ part = "pq"     => Pq!TrxnClosed
    /\ part = "mysql"  => Mysql!MysqlTrxnClosed
    /\ part = "sqlite" => Lite!DiskIsCommitted

\* A gRPC call is finished once, by the lane whose op failed or by the last one, no op is under way
\* when the call is given back, and none is started that the library forbids.
FinishedOnce == part = "rpc" => Rpc!FinishedOnce /\ Rpc!EndsQuiet /\ Rpc!InitiatedOk

\* A read of a curl request that waits is resumed: by data that fills its buffer, the end of the
\* transfer, or a stop.  Nobody resumes it if another request took its place in _pausedReq, or a
\* socket could not be assigned ("stranded"), and nothing goes on once an assertion has failed.
ReadEnds ==
    \A q \in Requests :
        (part = "curl" /\ req[q].pc = "waiting")
            ~> (part # "curl" \/ asserted \/ req[q].pc # "waiting" \/ "stranded" \in req[q].odd)
=============================================================================
