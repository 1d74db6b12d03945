----------------------------- MODULE CurlClient -----------------------------
(***************************************************************************)
(* curl_client and curl_request of include/dsk/curl/client.hpp: transfers  *)
(* of one curl multi handle, driven by socket and timer events of an asio  *)
(* io_context, awaited by tasks that read a response piece by piece, and   *)
(* stopped at any time.                                                    *)
(*                                                                         *)
(* A critical section of _mtx is one action, with the callbacks curl makes *)
(* inside it.  curl is external: in any call it may advance one transfer   *)
(* and change what it wants to poll.  Requests taken out of a critical     *)
(* section are resumed outside of it; they are in "todo" meanwhile.        *)
(***************************************************************************)
EXTENDS Naturals, Sequences, SequencesExt, FiniteSetsExt

CONSTANTS
    Requests,
    Uses,    \* the ways requests are used: per request [ways, left], its ways and a bound on its reads
    Stream,  \* what a transfer delivers: a sequence of [t |-> "hd" or "wd", n |-> bytes]
    BufSize, \* size of the buffers of pausing reads
    None

\* A request may be read piece by piece, or else as a whole; its awaiter may be stopped; curl may end its
\* transfer while it is paused.
Ways == {"pieces", "stop", "cut"}

CurlAssumption ==
    /\ Uses \subseteq [Requests -> [ways : SUBSET Ways, left : Nat]]
    /\ None \notin Requests
    /\ BufSize \in Nat
    /\ Stream \in Seq([t : {"hd", "wd"}, n : Nat \ {0}])

VARIABLES
    req,       \* per request, the members of curl_request and of its op
    done,      \* messages of _multi that next_done() has not taken
    pausedReq, \* _pausedReq
    todo,      \* requests that a thread resumes next, with the reason: "ioc" (it was paused), "done", "stop"
    asserted   \* did resume() find no read that waits?

vars == <<req, done, pausedReq, todo, asserted>>

\* What may befall a request that its reads do not get over ("odd"): curl ended its transfer while it
\* was paused ("cut"), or would not let it go on ("refused"), a chunk was paused a second time
\* ("twice"), nobody will resume it ("stranded").
Oddities == {"cut", "refused", "twice", "stranded"}

Added     == {"running", "paused"}
Removed   == {"reseted", "finished"}
Resumable == {"paused", "finished"}

\* The data a read wants; a read "until" pauses at other data that follows.
Wanted(rt) == CASE rt \in {"hd", "hd_until_wd"} -> {"hd"}
                [] rt \in {"wd", "wd_until_hd"} -> {"wd"}
                [] rt = "hd_wd" -> {"hd", "wd"}
Until(rt) == rt \in {"hd_until_wd", "wd_until_hd"}

Init ==
    /\ \E u \in Uses :
       req = [r \in Requests |->
                [ways |-> u[r].ways, left |-> u[r].left, state |-> "reseted", st |-> "reseted", cont |-> FALSE, ec |-> "ok",
                 pauseType |-> "none", used |-> 0, rt |-> "hd_wd", room |-> 0, armed |-> FALSE,
                 pc |-> "idle", stop |-> FALSE, scb |-> "none",
                 pos |-> 1, at |-> 0, inOrder |-> TRUE, odd |-> {}]]
    /\ done = <<>>
    /\ pausedReq = None
    /\ todo = {}
    /\ asserted = FALSE

-----------------------------------------------------------------------------
(* Callbacks that curl makes for transfer data. *)

\* remove_from_multi(): the first error is kept.
RemovedReq(q, err) ==
    [q EXCEPT !.ec = IF @ = "ok" THEN err ELSE @, !.state = "finished", !.pos = 1, !.at = 0]

\* mark_paused()
MarkPaused(q, t, used) == [q EXCEPT !.pauseType = t, !.used = used, !.state = "paused"]

\* What is copied of m bytes: all into a buffer that grows, those there is room for into another.
Copied(q, m) == IF q.rt = "hd_wd" \/ m < q.room THEN m ELSE q.room
RoomLeft(q, copied) == IF q.rt = "hd_wd" THEN q.room ELSE q.room - copied

\* Mutant: the data used before the pause is not skipped.
WriteToBwAgain(q) ==
    LET c      == Stream[q.pos]
        copied == Copied(q, c.n)
        filled == [q EXCEPT !.room = RoomLeft(q, copied), !.used = 0, !.inOrder = @ /\ q.at = 0]
    IN IF copied < c.n THEN [MarkPaused(filled, c.t, copied) EXCEPT !.at = copied]
       ELSE [filled EXCEPT !.pos = @ + 1, !.at = 0]

\* resumed_write_to_bw(): the chunk is passed again from its start after a pause; "at" and
\* "inOrder" record whether the bytes that are copied are the ones that come next.
WriteToBw(q) ==
    LET c      == Stream[q.pos]
        m      == c.n - q.used
        copied == Copied(q, m)
        filled == [q EXCEPT !.room = RoomLeft(q, copied), !.used = 0, !.inOrder = @ /\ q.at = q.used]
        again  == IF q.used > 0 THEN {"twice"} ELSE {}
    IN IF copied < m THEN [MarkPaused(filled, c.t, copied) EXCEPT !.at = @ + copied, !.odd = @ \cup again]
       ELSE [filled EXCEPT !.pos = @ + 1, !.at = 0]

\* The callback that init_callbacks() has set for the chunk: copy it, pause, or none (curl drops it).
Callback(q) ==
    CASE Stream[q.pos].t \in Wanted(q.rt) -> "copy"
      [] Stream[q.pos].t \notin Wanted(q.rt) /\ q.armed -> "pause"
      [] OTHER -> "drop"

\* The next chunk of a running transfer is passed to its callback; the first wanted data of a read
\* "until" sets the callback that pauses.
Deliver(q) ==
    CASE Callback(q) = "copy"  -> WriteToBw([q EXCEPT !.armed = Until(q.rt)])
      [] Callback(q) = "pause" -> MarkPaused(q, CHOOSE t \in Wanted(q.rt) : TRUE, 0)
      [] Callback(q) = "drop"  -> [q EXCEPT !.pos = @ + 1, !.at = 0]

HasData(q) == q.pos <= Len(Stream)

-----------------------------------------------------------------------------
(* The io_context. *)

\* Transfers that have not ended.
Live == {r \in Requests : req[r].state \in Added /\ ~\E i \in DOMAIN done : done[i][1] = r}

\* A transfer that curl may advance.
Moving(r) == r \in Live /\ req[r].state = "running"

Odd(q, what) == [q EXCEPT !.odd = @ \cup {what}]

\* The requests once r is q: if it has paused, it takes the place of another one in _pausedReq, which
\* is not resumed then.
Passed(r, q) ==
    LET rq == [req EXCEPT ![r] = q] IN
    IF q.state # "paused" \/ pausedReq \in {None, r} THEN rq
    ELSE [rq EXCEPT ![pausedReq] = Odd(@, "stranded")]
PausedAfter(r, q) == IF q.state = "paused" THEN r ELSE pausedReq

\* What the socket action does to the transfers: nothing, data of one of them, its end, a timeout of a
\* paused one, or a socket that cannot be assigned, for which multi_sock_cb() removes the transfer.
Transfers ==
    {[rq |-> req, dn |-> done, pr |-> pausedReq]}
    \cup {LET q == Deliver(req[r]) IN [rq |-> Passed(r, q), dn |-> done, pr |-> PausedAfter(r, q)]
          : r \in {r \in Requests : Moving(r) /\ HasData(req[r])}}
    \cup {[rq |-> req, dn |-> Append(done, m), pr |-> pausedReq]
          : m \in {m \in Requests \X {"ok", "failed"} :
                     Moving(m[1]) /\ (m[2] = "ok" => ~HasData(req[m[1]]))}}
    \cup {[rq |-> [req EXCEPT ![r] = Odd(@, "cut")], dn |-> Append(done, <<r, "failed">>), pr |-> pausedReq]
          : r \in {r \in Live : req[r].state = "paused" /\ "cut" \in req[r].ways}}
    \cup {[rq |-> [req EXCEPT ![r] = Odd(RemovedReq(@, "failed"), "stranded")], dn |-> done, pr |-> pausedReq]
          : r \in {r \in Requests : Moving(r)}}

\* Mutant: a request that is done is resumed, but stays in _multi.
TakeOneKeepsIt(t) ==
    LET isDone == t.pr = None /\ t.dn # <<>>
        taken  == IF isDone THEN t.dn[1][1] ELSE t.pr
    IN /\ req' = t.rq
       /\ done' = IF isDone THEN Tail(t.dn) ELSE t.dn
       /\ pausedReq' = None
       /\ todo' = todo \cup ({<<IF isDone THEN "done" ELSE "ioc", taken>>} \ {<<"ioc", None>>})

\* Mutant: a request that is done is removed, but not resumed.
TakeOneForgets(t) ==
    LET isDone == t.pr = None /\ t.dn # <<>>
    IN /\ req' = IF isDone THEN [t.rq EXCEPT ![t.dn[1][1]] = RemovedReq(@, t.dn[1][2])] ELSE t.rq
       /\ done' = IF isDone THEN Tail(t.dn) ELSE t.dn
       /\ pausedReq' = None
       /\ todo' = todo \cup ({<<"ioc", t.pr>>} \ {<<"ioc", None>>})

\* process_socket_action_nolock() after socket_action(): the paused request, or else one that is
\* done, is taken to be resumed.
TakeOne(t) ==
    LET isDone == t.pr = None /\ t.dn # <<>>
        taken  == IF isDone THEN t.dn[1][1] ELSE t.pr
    IN /\ req' = IF isDone THEN [t.rq EXCEPT ![taken] = RemovedReq(@, t.dn[1][2])] ELSE t.rq
       /\ done' = IF isDone THEN Tail(t.dn) ELSE t.dn
       /\ pausedReq' = None
       /\ todo' = todo \cup ({<<IF isDone THEN "done" ELSE "ioc", taken>>} \ {<<"ioc", None>>})

\* process_socket_action() and process_io(), as far as transfers are concerned: CurlSockets says when
\* they come.
SocketAction(t) == TakeOne(t) /\ UNCHANGED asserted

\* curl_request::resume(), outside of the critical section, and its assertions: without them, what
\* becomes of a resumption that no read waits for is undefined.
Resume(src, r) ==
    /\ <<src, r>> \in todo
    /\ todo' = todo \ {<<src, r>>}
    /\ IF req[r].cont /\ req[r].pc = "waiting" /\ req[r].state \in Resumable
       THEN /\ req' = [req EXCEPT ![r].cont = FALSE, ![r].pc = "resumed"]
            /\ UNCHANGED asserted
       ELSE /\ asserted' = TRUE
            /\ UNCHANGED req
    /\ UNCHANGED <<done, pausedReq>>

-----------------------------------------------------------------------------
(* The awaiter: async_req_op, and the recycler of the pool. *)

\* The reads of a request: as a whole, or piece by piece; a read "until" does not follow a read of the
\* other data that was left in the middle.
ReadTypes(r) ==
    IF "pieces" \in req[r].ways
    THEN {"hd", "wd"} \cup {rt \in {"hd_until_wd", "wd_until_hd"} :
                              req[r].pauseType \in Wanted(rt) \cup {"none"}}
    ELSE {"hd_wd"}

\* curl drops the message of a transfer that is removed.
Without(r) ==
    LET of == {k \in DOMAIN done : done[k][1] = r} IN
    IF of = {} THEN done ELSE RemoveAt(done, Min(of))

\* initiate(): the check of the stop token, and what is stored before the stop callback.
StartRead(r, rt) ==
    LET q == req[r] IN
    /\ q.pc = "idle"
    /\ q.left > 0
    /\ req' = [req EXCEPT ![r] =
                 IF q.stop THEN [q EXCEPT !.ec = "canceled", !.pc = "resumed", !.left = @ - 1]
                 ELSE [q EXCEPT !.st = q.state, !.cont = TRUE, !.rt = rt, !.pc = "register",
                                !.left = @ - 1]]
    /\ UNCHANGED <<done, pausedReq, todo, asserted>>

\* _scb.emplace(); a stop meanwhile calls it at once: it finds nothing to do if the request is not
\* added, removes and resumes one that is paused.
Register(r) ==
    LET q == [req[r] EXCEPT !.pc = "lock"] IN
    /\ req[r].pc = "register"
    /\ IF q.stop /\ q.state \in Added
       THEN /\ req' = [req EXCEPT ![r] = [RemovedReq(q, "canceled") EXCEPT !.scb = "ran"]]
            /\ todo' = todo \cup {<<"stop", r>>}
            /\ done' = Without(r)
       ELSE /\ req' = [req EXCEPT ![r] = [q EXCEPT !.scb = IF q.stop THEN "ran" ELSE "armed"]]
            /\ UNCHANGED <<todo, done>>
    /\ UNCHANGED <<pausedReq, asserted>>

\* init_callbacks()
InitCallbacks(q) ==
    LET kept == q.rt \notin {"hd", "wd"} \/ q.pauseType = q.rt
    IN [q EXCEPT !.room = BufSize, !.armed = FALSE,
                 !.pauseType = IF kept THEN @ ELSE "none", !.used = IF kept THEN @ ELSE 0]

\* The critical section of initiate() for a new transfer: _multi.add(), which sets a timeout of 0,
\* or fails, which leaves the continuation and the resumer where they are.
AddTransfer(r) ==
    LET q == InitCallbacks(req[r]) IN
    /\ q.pc = "lock"
    /\ q.st \in Removed
    /\ \/ req' = [req EXCEPT ![r] = [q EXCEPT !.state = "running", !.pc = "waiting"]]
       \/ req' = [req EXCEPT ![r] = [q EXCEPT !.ec = "failed", !.pc = "resumed"]]
    /\ UNCHANGED <<done, pausedReq, todo, asserted>>

\* The same for a paused one: pause(CURLPAUSE_CONT) passes the remaining data to the callbacks,
\* which may pause it again, and sets a timeout of 0.
Remaining(q) == IF HasData(q) THEN Deliver(q) ELSE q
UnpauseOk(r, q) ==
    /\ req' = Passed(r, Remaining(q))
    /\ pausedReq' = PausedAfter(r, Remaining(q))

\* It fails, with data passed or not, or a stop callback that ran at once has set _ec: the request is
\* paused as before.
UnpauseFails(r, q) ==
    /\ \E d \in {q, Remaining(q)} :
          /\ d.state = "running"
          /\ req' = [req EXCEPT ![r] = [Odd(d, "refused") EXCEPT !.state = "paused", !.pc = "resumed",
                                                                !.ec = IF @ = "ok" THEN "failed" ELSE @]]
    /\ UNCHANGED pausedReq

Unpause(r) ==
    LET q == [InitCallbacks(req[r]) EXCEPT !.state = "running", !.pc = "waiting"] IN
    /\ req[r].pc = "lock"
    /\ req[r].st = "paused"
    /\ (q.ec = "ok" /\ UnpauseOk(r, q)) \/ UnpauseFails(r, q)
    /\ UNCHANGED <<done, todo, asserted>>

\* take_result(), and the destruction of the op with its stop callback, which waits for a callback
\* that runs on another thread.
TakeResult(r) ==
    /\ req[r].pc = "resumed"
    /\ req[r].scb # "called"
    /\ req' = [req EXCEPT ![r].ec = "ok", ![r].scb = "none", ![r].pc = "idle", ![r].st = "reseted",
                          ![r].rt = "hd_wd", ![r].room = 0, ![r].armed = FALSE,
                          ![r].odd = @ \ {"stranded"}]
    /\ UNCHANGED <<done, pausedReq, todo, asserted>>

\* on_recycle(), which removes a paused transfer, and reset_all() when the request goes back to the pool
Recycle(r) ==
    /\ req[r].pc = "idle"
    /\ req[r].state # "reseted"
    /\ req' = [req EXCEPT ![r].state = "reseted", ![r].pauseType = "none", ![r].used = 0,
                          ![r].stop = FALSE, ![r].pos = 1, ![r].at = 0, ![r].inOrder = TRUE,
                          ![r].odd = @ \cap {"cut"}]
    /\ done' = Without(r)
    /\ UNCHANGED <<pausedReq, todo, asserted>>

\* The awaiter's stop_source; a registered callback runs on this thread.
RequestStop(r) ==
    LET q == req[r] IN
    /\ "stop" \in q.ways
    /\ ~q.stop
    /\ req' = [req EXCEPT ![r].stop = TRUE, ![r].scb = IF q.scb = "armed" THEN "called" ELSE q.scb]
    /\ UNCHANGED <<done, pausedReq, todo, asserted>>

\* The stop callback: nothing, or removal of the transfer.
StopCallback(r) ==
    /\ req[r].scb = "called"
    /\ IF req[r].state \in Added
       THEN /\ req' = [req EXCEPT ![r] = [RemovedReq(@, "canceled") EXCEPT !.scb = "ran"]]
            /\ todo' = todo \cup {<<"stop", r>>}
            /\ done' = Without(r)
       ELSE /\ req' = [req EXCEPT ![r].scb = "ran"]
            /\ UNCHANGED <<todo, done>>
    /\ UNCHANGED <<pausedReq, asserted>>

-----------------------------------------------------------------------------
Awaiter(r) ==
    \/ \E rt \in ReadTypes(r) : StartRead(r, rt)
    \/ Register(r) \/ AddTransfer(r) \/ Unpause(r) \/ TakeResult(r) \/ Recycle(r)

Next ==
    /\ ~asserted
    /\ \/ \E t \in Transfers : SocketAction(t)
       \/ \E r \in Requests : Awaiter(r) \/ RequestStop(r) \/ StopCallback(r)
       \/ \E x \in todo : Resume(x[1], x[2])

\* Data or the end of r's transfer in a socket action.
Advances(r) ==
    /\ Moving(r)
    /\ \E t \in Transfers \ {[rq |-> req, dn |-> done, pr |-> pausedReq]} :
          /\ t.rq[r] # req[r] \/ (t.dn # done /\ Last(t.dn)[1] = r)
          /\ SocketAction(t)

\* Socket actions come while there is something to do (CurlSockets), a thread inside a call goes on, and
\* curl advances a running transfer (it has timeouts).
Goes(A) == ~asserted /\ A
Fairness ==
    /\ WF_vars(Goes(\E t \in Transfers : SocketAction(t)))
    /\ \A r \in Requests :
          /\ WF_vars(Goes(Register(r) \/ AddTransfer(r) \/ Unpause(r) \/ TakeResult(r) \/ StopCallback(r)))
          /\ WF_vars(Goes(\E src \in {"ioc", "done", "stop"} : Resume(src, r)))
          /\ SF_vars(Goes(Advances(r)))

Spec == Init /\ [][Next]_vars /\ Fairness

-----------------------------------------------------------------------------
(* Properties *)

\* A request is resumed by one thread only, which finds a continuation and a state that resume()
\* asserts: events of the sockets and the stop callback never both take it.  Only the end of a
\* transfer that curl cut off while it was paused may find no read, which ends the program.
ResumedByOne ==
    /\ \A r \in {r \in Requests : "cut" \notin req[r].odd} :
          /\ Cardinality({x \in todo : x[2] = r}) <= 1
          /\ ({x \in todo : x[2] = r} # {} \/ pausedReq = r)
                => req[r].cont /\ req[r].pc = "waiting" /\ req[r].state \in Resumable
          /\ ({x \in todo : x[2] = r} # {} => pausedReq # r)
    /\ asserted => \E r \in Requests : "cut" \in req[r].odd

\* The buffers of successive reads get the bytes of the transfer in their order, none twice, but for
\* a chunk that is paused again (the data used before is forgotten) and transfers that curl cut off
\* or would not let go on.
DataInOrder ==
    \A r \in Requests : req[r].inOrder \/ req[r].odd \cap {"twice", "cut", "refused"} # {}

\* A read that waits is resumed: by data that fills its buffer, the end of the transfer, or a stop.  Nobody
\* resumes it if another request took its place in _pausedReq, or a socket could not be assigned.
ReadEnds ==
    \A r \in Requests :
        req[r].pc = "waiting" ~> req[r].pc # "waiting" \/ asserted \/ "stranded" \in req[r].odd
-----------------------------------------------------------------------------
(* A response and the use of the requests for TLC. *)

\* A header and a body, larger than one and than two buffers of pausing reads.
MCStream == <<[t |-> "hd", n |-> 2], [t |-> "wd", n |-> 3]>>

\* Reads piece by piece that may be stopped.
MCUses == {[r \in Requests |-> [ways |-> {"pieces", "stop"}, left |-> 3]]}
=============================================================================
