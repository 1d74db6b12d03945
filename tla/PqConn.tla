------------------------------- MODULE PqConn -------------------------------
(***************************************************************************)
(* pq_conn of include/dsk/pq/conn.hpp: a PostgreSQL connection driven      *)
(* through libpq without blocking, used by one task at a time.  A call     *)
(* waits for its socket between steps, and can be canceled or lose the     *)
(* connection there; what it has not read by then stays in libpq and meets *)
(* the next call.                                                          *)
(*                                                                         *)
(* libpq and the server are external: a command has one of the result      *)
(* sequences of Results, read through PQgetResult, ended by a null.        *)
(***************************************************************************)
EXTENDS Naturals, Sequences, SequencesExt

CONSTANT MaxCmds \* bound on the commands sent over one connection

VARIABLES
    link,  \* PQstatus: "none" (no handle), "connecting", "ok", "bad"
    fd,    \* PQsocket, 0 if closed
    skt,   \* the descriptor that _skt waits for, 0 if it was released
    queue, \* results not yet got: [cmd, k]
    pipe,  \* pipeline mode: "off", "on", "failed" (until the next sync), "stale" (left when failed)
    flushed,   \* the last command of a pipeline whose results the server was asked to send
    sent,  \* number of commands sent over the connection
    read,  \* number of commands whose results the caller saw end
    srv,   \* the server's transaction: "none", "open", "failed"
    trxn,  \* transaction_t: "none", "open", "done", "ended", "void" (done or ended, by a
           \* command the server has skipped), "leaked" (destroyed without done)
    call   \* the call under way (pc # "idle"), or the last one with its outcome, and with the
           \* command it sent (cmd) if it gave back a result (r) or an error

vars == <<link, fd, skt, queue, pipe, flushed, sent, read, srv, trxn, call>>
session == <<queue, pipe, flushed, sent, read, srv>>

NullResult == [cmd |-> 0, k |-> "null"]
NewCall == [pc |-> "idle", for |-> "user", want |-> "all", last |-> FALSE, cmd |-> 0,
            ran |-> TRUE, skt |-> 0, r |-> NullResult, res |-> "none"]

Init ==
    /\ link = "none" /\ fd = 0 /\ skt = 0
    /\ queue = <<>> /\ pipe = "off" /\ flushed = 0 /\ sent = 0 /\ read = 0 /\ srv = "none"
    /\ trxn = "none"
    /\ call = NewCall

\* The call is over, without a result, or with the one of "from".
Ended(res) == [NewCall EXCEPT !.for = call.for, !.ran = call.ran, !.res = res]
Gives(res, from) == [Ended(res) EXCEPT !.cmd = call.cmd, !.r = from]

-----------------------------------------------------------------------------
(* Connecting. *)

\* A round of do_connect(), whose skt is assigned the descriptor libpq has now, or cannot be.
Round == /\ fd' \in {1, 2}
         /\ \/ call' = [NewCall EXCEPT !.pc = "connect", !.skt = fd']
            \/ call' = [NewCall EXCEPT !.res = "failed"]

\* connect(), whose close() releases _skt and finishes the old connection, and reconnect(), which
\* resets it: a new session, or a failure at once.
ConnectStart(again) ==
    /\ call.pc = "idle" /\ trxn \notin {"open", "done"}
    /\ again => link # "none"
    /\ skt' = 0
    /\ queue' = <<>> /\ pipe' = "off" /\ flushed' = 0 /\ sent' = 0 /\ read' = 0 /\ srv' = "none"
    /\ \/ link' = "connecting" /\ Round
       \/ /\ link' = "bad" /\ fd' = 0
          /\ call' = [NewCall EXCEPT !.res = "failed"]
    /\ UNCHANGED trxn

\* Connected: _skt is assigned the descriptor, or cannot be and stays empty.
Connected ==
    /\ link' = "ok" /\ fd' \in {1, 2}
    /\ \/ skt' = fd' /\ call' = Ended("value")
       \/ skt' = 0 /\ call' = Ended("failed")

\* Mutant: skt is assigned before the first round only.
PollKeepsSkt ==
    /\ call.pc = "connect"
    /\ \/ fd' \in {1, 2} /\ UNCHANGED <<link, skt, call>>
       \/ Connected
       \/ link' = "bad" /\ fd' = 0 /\ skt' = skt /\ call' = Ended("failed")
    /\ UNCHANGED <<session, trxn>>

\* The socket of this round is ready: Poll() may replace it, goes on, ends, or fails.
Poll ==
    /\ call.pc = "connect"
    /\ \/ Round /\ UNCHANGED <<link, skt>>
       \/ Connected
       \/ link' = "bad" /\ fd' = 0 /\ skt' = skt /\ call' = Ended("failed")
    /\ UNCHANGED <<session, trxn>>

\* The wait of do_connect() fails or is canceled: the destructor of its local socket closes libpq's
\* descriptor.
ConnectStopped ==
    /\ call.pc = "connect"
    /\ fd' = 0
    /\ call' = Ended("canceled")
    /\ UNCHANGED <<link, skt, session, trxn>>

\* close()
Close ==
    /\ call.pc = "idle" /\ trxn \notin {"open", "done"} /\ link # "none"
    /\ link' = "none" /\ fd' = 0 /\ skt' = 0
    /\ queue' = <<>> /\ pipe' = "off" /\ flushed' = 0 /\ sent' = 0 /\ read' = 0 /\ srv' = "none"
    /\ call' = NewCall
    /\ UNCHANGED trxn

-----------------------------------------------------------------------------
(* Sending. *)

\* Result kinds of a command, in their order: a query in one result or row by row with the end marker
\* "tuples", several commands in one string, or the start of a COPY.
Results(cmd) ==
    IF srv = "failed" /\ cmd \notin {"commit", "rollback"} THEN {<<"err">>}
    ELSE CASE cmd = "query"    -> {<<"tuples">>, <<"empty">>, <<"err">>}
           [] cmd = "rows"     -> {<<"row", "row", "empty">>, <<"empty">>, <<"row", "err">>}
           [] cmd = "multi"    -> {<<"tuples", "ok">>, <<"tuples", "err">>}
           [] cmd = "copy_in"  -> {<<"copy_in">>, <<"err">>}
           [] cmd = "copy_out" -> {<<"copy_out">>, <<"err">>}
           [] cmd \in {"begin", "commit"} -> {<<"ok">>, <<"err">>}
           [] cmd = "rollback" -> {<<"ok">>}

Tagged(ks, c) == [i \in 1 .. Len(ks) |-> [cmd |-> c, k |-> ks[i]]]

\* Results of command number sent + 1, with the null that ends them; a COPY has not ended yet.
Queued(ks) ==
    LET tail == IF ks \in {<<"copy_in">>, <<"copy_out">>} THEN ks ELSE Append(ks, "null")
    IN queue \o Tagged(tail, sent + 1)

\* A failed pipeline skips commands up to its sync.  One that was left in this state skips the next
\* command, up to the sync that this one brings if it is not a simple query.
Skipped == {<<"aborted">>, <<>>}
Answers(cmd) == CASE pipe = "failed" -> {<<"aborted">>}
                  [] pipe = "stale"  -> {<<>>}
                  [] OTHER           -> Results(cmd)
PipeAfter(cmd, ks) ==
    IF pipe = "on" /\ ks # <<>> /\ Last(ks) = "err" THEN "failed"
    ELSE IF pipe = "stale" /\ cmd # "multi" THEN "off" ELSE pipe

\* What the command does to the server's transaction.
SrvAfter(cmd, ks) ==
    IF ks \in Skipped THEN srv
    ELSE IF cmd = "begin" /\ ks = <<"ok">> THEN "open"
    ELSE IF cmd \in {"commit", "rollback"} THEN "none"
    ELSE IF srv = "open" /\ Last(ks) = "err" THEN "failed" ELSE srv

\* libpq refuses commands on a connection that is not ok, a command while another one is under way if
\* they are no pipeline, and simple queries in a pipeline.
Refuses(cmd) == link # "ok" \/ IF pipe \in {"off", "stale"} THEN queue # <<>> ELSE cmd = "multi"

\* do_send() with the init of start_exec_multi(), start_exec(), exec...(), prepare() and describe...():
\* what is wanted, of which batch, for whom.  set_batch() fails if a result of another command waits;
\* the command is sent all the same.
Send(cmd, for, want, last) ==
    /\ call.pc = "idle" /\ link # "none"
    /\ LET c == [NewCall EXCEPT !.for = for]
           refused == [c EXCEPT !.res = "refused"] IN
       \/ /\ Refuses(cmd)
          /\ call' = refused
          /\ UNCHANGED session
       \/ /\ ~Refuses(cmd)
          /\ sent < MaxCmds
          /\ \E ks \in Answers(cmd) :
                /\ queue' = Queued(ks) /\ srv' = SrvAfter(cmd, ks) /\ pipe' = PipeAfter(cmd, ks)
                /\ \/ call' = [c EXCEPT !.pc = "flush", !.want = want, !.last = last,
                                         !.cmd = sent + 1, !.ran = ks \notin Skipped]
                   \/ cmd = "rows" /\ queue # <<>> /\ call' = refused
          /\ sent' = sent + 1
          /\ UNCHANGED <<flushed, read>>
    /\ UNCHANGED <<link, fd, skt, trxn>>

\* start_exec_multi() and exec_multi...(); start_exec() and exec...(), whole or row by row; prepare() and
\* describe...(); start_copy_to(), start_copy_from(), which libpq forbids in a pipeline; listen(),
\* unlisten() and notify()
ExecMulti(w)    == Send("multi", "user", w, TRUE)
ExecAll(w)      == Send("query", "user", w, TRUE)
ExecRows(w)     == Send("rows", "user", w, TRUE)
Prepare         == Send("query", "user", "all", TRUE)
StartCopy(cmd)  == pipe = "off" /\ Send(cmd, "user", "all", TRUE)
Notify          == Send("query", "user", "all", TRUE)

\* PQflush() is through: start_exec() and the other calls that want nothing return, the others go on.
Flushed ==
    /\ call.pc = "flush"
    /\ call' = IF call.want = "none" THEN Ended("value") ELSE [call EXCEPT !.pc = "get"]
    /\ UNCHANGED <<link, fd, skt, session, trxn>>

-----------------------------------------------------------------------------
(* Results. *)

Copies == {"copy_in", "copy_out"}

\* Rows of a result; the outcome of a call in each of the forms it can be asked for.
HasRow(r) == r.k \in {"row", "tuples"}
Outcome(r, form) ==
    CASE form = "result" -> IF r.k = "null" THEN "null" ELSE "value"
      [] form = "refs" /\ r.k = "null" -> "null"
      [] form = "optional" /\ ~HasRow(r) -> "nullopt"
      [] OTHER -> IF HasRow(r) THEN "value" ELSE "out_of_bound"

\* next_...() and last_...(): calls that only read
Fetch(want, last) ==
    /\ call.pc = "idle" /\ link # "none"
    /\ call' = [NewCall EXCEPT !.pc = "get", !.want = want, !.last = last]
    /\ UNCHANGED <<link, fd, skt, session, trxn>>

\* The head of the queue, which a COPY under way stays.
Head0 == IF queue = <<>> THEN NullResult ELSE queue[1]
Tail0 == IF queue = <<>> \/ Head0.k \in Copies THEN queue ELSE Tail(queue)

\* Mutant: what follows the error is left to the next call.
NotDrained(q) == Tail(q)

\* The rest of the queue after an error of its first command, whose results are got up to the null.
Drained(q) ==
    LET end == Min({i \in DOMAIN q : q[i].k = "null"} \cup {Len(q)})
    IN SubSeq(q, end + 1, Len(q))

\* Results of a pipeline come once pipeline_sync() or flush_request() asks for them.
Available == pipe = "off" \/ Head0.cmd <= flushed

\* One PQgetResult() of do_get_result(): an error drains its command and ends the call, the end marker
\* of rows is skipped, and the last result is looked for up to the null or a COPY.
GetResult ==
    LET t     == Head0
        skips == call.want = "row" /\ t.k \in {"empty", "tuples"}
        keeps == call.last /\ t.k \notin {"null"} \cup Copies /\ link # "bad"
    IN
    /\ call.pc = "get"
    /\ Available
    /\ \/ /\ t.k = "err"
          /\ queue' = Drained(queue) /\ read' = read + 1
          /\ call' = Gives("error", NullResult)
       \/ /\ t.k # "err" /\ (skips \/ keeps)
          /\ queue' = Tail0 /\ UNCHANGED read
          /\ call' = IF skips THEN call ELSE [call EXCEPT !.r = t]
       \/ /\ t.k # "err" /\ ~skips /\ ~keeps
          /\ queue' = Tail0
          /\ read' = IF t.k = "null" /\ queue # <<>> THEN read + 1 ELSE read
          /\ LET r == IF call.last /\ t.k = "null" THEN call.r ELSE t IN
             \E form \in IF call.for = "user" THEN {"result", "refs", "value", "optional"} ELSE {"result"} :
                call' = Gives(Outcome(r, form), [NullResult EXCEPT !.cmd = r.cmd])
    /\ UNCHANGED <<link, fd, skt, pipe, flushed, sent, srv, trxn>>

-----------------------------------------------------------------------------
(* COPY and notifications. *)

\* do_send_copy(): data is put, or refused where no COPY is under way.
SendCopy ==
    /\ call.pc = "idle" /\ link # "none"
    /\ call' = IF Head0.k = "copy_in" THEN [NewCall EXCEPT !.pc = "flush", !.want = "none"]
               ELSE [NewCall EXCEPT !.res = "refused"]
    /\ UNCHANGED <<link, fd, skt, session, trxn>>

\* The server's answer to the whole COPY.
CopyAnswer ==
    \E k \in {"ok", "err"} :
        /\ queue' = Tagged(<<k, "null">>, queue[1].cmd)
        /\ srv' = IF k = "err" /\ srv = "open" THEN "failed" ELSE srv

\* send_copy_end(), which goes on to get the answer
SendCopyEnd ==
    /\ call.pc = "idle" /\ link # "none"
    /\ \/ /\ Head0.k = "copy_in"
          /\ CopyAnswer
          /\ call' = [NewCall EXCEPT !.pc = "flush", !.last = TRUE, !.cmd = queue[1].cmd]
       \/ /\ Head0.k # "copy_in"
          /\ call' = [NewCall EXCEPT !.res = "refused"]
          /\ UNCHANGED <<queue, srv>>
    /\ UNCHANGED <<link, fd, skt, pipe, flushed, sent, read, trxn>>

\* get_copy_row(): waits while there is none, for a row, the end, after which last_result() gets the
\* answer, or a refusal.
GetCopyRow ==
    /\ call.pc \in {"idle", "copy"} /\ link # "none"
    /\ \/ /\ Head0.k = "copy_out"
          /\ CopyAnswer
          /\ call' = [NewCall EXCEPT !.pc = "get", !.last = TRUE, !.cmd = queue[1].cmd]
       \/ /\ call' \in IF Head0.k = "copy_out"
                       THEN {[NewCall EXCEPT !.pc = "copy"], [NewCall EXCEPT !.res = "value"]}
                       ELSE {[NewCall EXCEPT !.res = "refused"]}
          /\ UNCHANGED <<queue, srv>>
    /\ UNCHANGED <<link, fd, skt, pipe, flushed, sent, read, trxn>>

\* get_notify(): waits until there is one
GetNotify ==
    /\ link # "none"
    /\ \/ call.pc = "idle" /\ call' = [NewCall EXCEPT !.pc = "notify"]
       \/ call.pc = "notify" /\ call' = Ended("value")
    /\ UNCHANGED <<link, fd, skt, session, trxn>>

-----------------------------------------------------------------------------
(* Pipelines. *)

\* enter_pipeline_mode(), exit_pipeline_mode(): refused while results are left.  libpq does not tell
\* the server, which goes on skipping if the pipeline has failed.
SetPipeline(mode) ==
    /\ call.pc = "idle" /\ link = "ok"
    /\ IF mode = "on" THEN pipe \in {"off", "stale"} ELSE pipe \in {"on", "failed"}
    /\ IF queue # <<>>
       THEN /\ call' = [NewCall EXCEPT !.res = "refused"]
            /\ UNCHANGED pipe
       ELSE /\ call' = [NewCall EXCEPT !.res = "value"]
            /\ pipe' = CASE pipe = "off" -> "on" [] pipe = "stale"  -> "failed"
                         [] pipe = "on"  -> "off" [] pipe = "failed" -> "stale"
    /\ UNCHANGED <<link, fd, skt, queue, flushed, sent, read, srv, trxn>>

\* add_exec() and the other add_...()
AddExec(cmd) ==
    /\ call.pc = "idle" /\ link = "ok" /\ pipe \in {"on", "failed"}
    /\ sent < MaxCmds
    /\ \E ks \in Answers(cmd) :
          /\ queue' = Queued(ks) /\ srv' = SrvAfter(cmd, ks) /\ pipe' = PipeAfter(cmd, ks)
    /\ sent' = sent + 1
    /\ UNCHANGED <<link, fd, skt, flushed, read, trxn, call>>

\* pipeline_sync(), which is refused outside of a pipeline
PipelineSync ==
    /\ call.pc = "idle" /\ link = "ok"
    /\ \/ /\ pipe \in {"on", "failed"}
          /\ sent < MaxCmds
          /\ queue' = Queued(<<"sync">>)
          /\ pipe' = "on"
          /\ sent' = sent + 1 /\ flushed' = sent + 1
          /\ call' = [NewCall EXCEPT !.pc = "flush", !.want = "none"]
       \/ /\ pipe \in {"off", "stale"}
          /\ call' = [NewCall EXCEPT !.res = "refused"]
          /\ UNCHANGED <<queue, pipe, sent, flushed>>
    /\ UNCHANGED <<link, fd, skt, read, srv, trxn>>

\* flush_request(): the server sends the results it holds back; a pipeline that has failed has it skip
\* this too.
FlushRequest ==
    /\ call.pc = "idle" /\ link = "ok" /\ pipe \in {"on", "failed"}
    /\ flushed' = IF pipe = "on" THEN sent ELSE flushed
    /\ call' = [NewCall EXCEPT !.pc = "flush", !.want = "none"]
    /\ UNCHANGED <<link, fd, skt, queue, pipe, sent, read, srv, trxn>>

-----------------------------------------------------------------------------
(* A wait for _skt ends in another way. *)

Waiting == call.pc \in {"flush", "get", "notify", "copy"}

\* The caller is stopped; cleanup ops are not.
Canceled ==
    /\ Waiting /\ call.for # "cleanup"
    /\ call' = Ended("canceled")
    /\ UNCHANGED <<link, fd, skt, session, trxn>>

\* A wait of a socket that could not be assigned fails.
WaitFails ==
    /\ Waiting /\ skt = 0
    /\ call' = Ended("failed")
    /\ UNCHANGED <<link, fd, skt, session, trxn>>

\* PQflush() or PQconsumeInput() fails: libpq ends the commands under way with an error.
ConnectionLost ==
    /\ Waiting /\ link = "ok"
    /\ link' = "bad" /\ pipe' = "off" /\ srv' = "none"
    /\ queue' = IF queue = <<>> THEN queue ELSE Tagged(<<"err", "null">>, queue[1].cmd)
    /\ sent' = IF queue = <<>> THEN sent ELSE read + 1
    /\ call' = Ended("lost")
    /\ UNCHANGED <<fd, skt, flushed, read, trxn>>

-----------------------------------------------------------------------------
(* transaction_t *)

\* make_transaction(), commit(), rollback() and the cleanup rollback_if_uncommited(): exec(), and then
\* what follows its success.
TrxnExec(cmd, for) ==
    /\ Send(cmd, for, "all", TRUE)
    /\ trxn \in IF for = "begin" THEN {"none", "ended", "void"} ELSE {"open"}

\* exec() succeeds with whatever result, or none.
Succeeded == call.res \in {"value", "null"}

\* Mutant: the transaction is done whatever became of the command.
TrxnDoneAnyway ==
    /\ call.pc = "idle" /\ call.for # "user"
    /\ trxn' = CASE call.for = "begin" -> IF Succeeded THEN "open" ELSE "none"
                 [] call.for = "end"     -> "done"
                 [] call.for = "cleanup" -> "ended"
                 [] OTHER -> trxn
    /\ call' = [call EXCEPT !.for = "user"]
    /\ UNCHANGED <<link, fd, skt, session>>

\* done is set when the command has succeeded; after the cleanup transaction_t is destroyed.
TrxnExeced ==
    /\ call.pc = "idle" /\ call.for # "user"
    /\ trxn' = CASE call.for = "begin" -> IF Succeeded THEN "open" ELSE "none"
                 [] call.for = "end" /\ Succeeded -> IF call.ran THEN "done" ELSE "void"
                 [] call.for = "cleanup" -> IF ~Succeeded THEN "leaked" ELSE IF call.ran THEN "ended" ELSE "void"
                 [] OTHER -> trxn
    /\ call' = [call EXCEPT !.for = "user"]
    /\ UNCHANGED <<link, fd, skt, session>>

\* The cleanup of a transaction that is done has nothing to do.
ScopeEnds ==
    /\ call.pc = "idle" /\ call.for = "user" /\ trxn = "done"
    /\ trxn' = "ended"
    /\ UNCHANGED <<link, fd, skt, session, call>>

-----------------------------------------------------------------------------
\* The task is between calls; the assertion of ~transaction_t() ends the program.
User == call.for = "user" /\ trxn # "leaked"

Next ==
    \/ User /\ \E again \in BOOLEAN : ConnectStart(again)
    \/ Poll \/ ConnectStopped \/ (User /\ Close)
    \/ User /\ \E w \in {"none", "all"} : ExecMulti(w) \/ ExecAll(w)
    \/ User /\ \E w \in {"none", "row"} : ExecRows(w)
    \/ User /\ (Prepare \/ Notify \/ \E cmd \in Copies : StartCopy(cmd))
    \/ Flushed \/ GetResult
    \/ User /\ \E w \in {"all", "row"}, last \in BOOLEAN : Fetch(w, last)
    \/ User /\ (SendCopy \/ SendCopyEnd \/ GetCopyRow)
    \/ User /\ GetNotify
    \/ User /\ \E mode \in {"on", "off"} : SetPipeline(mode)
    \/ User /\ \E cmd \in {"query", "rows"} : AddExec(cmd)
    \/ User /\ (PipelineSync \/ FlushRequest)
    \/ Canceled \/ WaitFails \/ ConnectionLost
    \/ User /\ TrxnExec("begin", "begin")
    \/ User /\ \E cmd \in {"commit", "rollback"} : TrxnExec(cmd, "end")
    \/ User /\ TrxnExec("rollback", "cleanup")
    \/ TrxnExeced \/ ScopeEnds

Spec == Init /\ [][Next]_vars

-----------------------------------------------------------------------------
(* Properties *)

\* The results that come next are those of the command after the ones whose end the caller has seen, in
\* pipelines and after errors, cancellations and COPYs too: a caller never takes a result for that
\* of another command (do_get_result()).
ResultsInStep == IF queue = <<>> THEN read = sent ELSE queue[1].cmd = read + 1

\* A call that sends a command outside of pipelines and gets its last result returns a result of that
\* command, and leaves the connection ready for the next one, or in its COPY, if the command fails too.
ExecLeavesReady ==
    (call.pc = "idle" /\ call.cmd # 0 /\ pipe = "off" /\ sent = call.cmd)
       => /\ call.r.cmd \in {0, call.cmd}
          /\ (queue # <<>> => queue[1].k \in Copies)

\* do_connect() waits for the descriptor libpq uses in that round, and _skt for the one it uses while the
\* connection is up, if that could be assigned, whatever sockets connect() and reconnect() went
\* through.
WaitsForItsSocket ==
    /\ call.pc = "connect" => call.skt = fd
    /\ link = "ok" => fd # 0 /\ skt \in {0, fd}

\* A transaction whose scope has ended is closed on the server.  It stays open only if the connection
\* still has results of a canceled call, or if a failed pipeline has the server skip the COMMIT or
\* ROLLBACK (trxn is "void", call.ran false).
TrxnClosed ==
    /\ (trxn = "ended" /\ call.for = "user") => srv = "none"
    /\ (trxn = "leaked" /\ srv # "none") => queue # <<>> \/ ~call.ran
=============================================================================
