------------------------------- MODULE GrpcRpc -------------------------------
(***************************************************************************)
(* grpc_rpc (include/dsk/grpc/rpc.hpp): one call of one of the eight kinds *)
(* of client and server rpcs, used the way the comment at the end of the   *)
(* file prescribes.  Its ops post a tag to a completion queue and resume   *)
(* the awaiter from the handler of the tag; client ops that fail go on to  *)
(* Finish() by themselves, unless another op may be under way.             *)
(*                                                                         *)
(* gRPC is external: a tag completes with ok or not, Finish() with any     *)
(* status.  A lane is a task that awaits one op after the other: "m" the   *)
(* caller itself, "r" and "w" its reads and writes, which run side by side *)
(* in bidirectional calls.                                                 *)
(***************************************************************************)
EXTENDS Naturals, FiniteSetsExt

CONSTANTS
    Kinds,     \* the kinds of rpcs to be used
    Stoppable, \* those whose caller may be stopped
    EarlyOk,   \* may a server end a call with OK before it has taken all of its requests?
    MaxOps     \* bound on the reads, and on the writes, of a call

VARIABLES
    kind,
    stop, \* has a stop been requested of the caller?
    sts,  \* _d.sts of a client, shared by all of its ops
    fin,  \* number of calls of Finish() of a client
    ops,  \* per lane, the last op: [act, st, ok, err]; st: "idle", "posted", "finishing", "resumed"
    pc,   \* per lane: "start", "run", "finish", "end"; "wait" before it runs
    n,    \* per lane, ops made
    bad   \* an assertion of initiate() or of a handler has failed

vars == <<kind, stop, sts, fin, ops, pc, n, bad>>

Client == {"client_unary", "client_client_stream", "client_server_stream", "client_bidi", "client_bidi_unary"}
Server == {"server_unary", "server_client_stream", "server_server_stream", "server_bidi"}
Lanes == {"m", "r", "w"}

RpcAssumption == Kinds \subseteq Client \cup Server

\* The lanes that read and write.
Streams(k) ==
    CASE k \in {"client_unary", "server_unary"} -> {}
      [] k \in {"client_server_stream", "server_client_stream"} -> {"r"}
      [] k \in {"client_client_stream", "server_server_stream"} -> {"w"}
      [] OTHER -> {"r", "w"}

NoOp == [act |-> "none", st |-> "idle", ok |-> FALSE, err |-> FALSE]

Init ==
    /\ kind \in Kinds
    /\ stop = FALSE /\ sts = "ok" /\ fin = 0 /\ bad = FALSE
    /\ ops = [l \in Lanes |-> NoOp]
    /\ pc = [l \in Lanes |-> IF l = "m" THEN "start" ELSE "wait"]
    /\ n = [l \in Lanes |-> 0]

IsClient == kind \in Client

\* Whether an op calls Finish() itself: always, only when its tag is not ok, or never because another op
\* may be under way.
FinishMode(act) ==
    CASE act \in {"finish", "unary"} -> "directly"
      [] act = "writes_done" /\ kind = "client_client_stream" -> "forced"
      [] act = "writes_done" /\ kind # "client_client_stream" -> "skip"
      [] act \in {"read", "write"} /\ kind = "client_bidi" -> "skip"
      [] OTHER -> "non_ok"

\* init_op::initiate(), with the posting of _init()
Initiate(l, act) ==
    LET first == IF IsClient /\ FinishMode(act) = "directly" THEN "finishing" ELSE "posted" IN
    /\ bad' = (bad \/ (IsClient /\ sts # "ok"))
    /\ IF stop
       THEN /\ ops' = [ops EXCEPT ![l] = [act |-> act, st |-> "resumed", ok |-> FALSE, err |-> ~IsClient]]
            /\ sts' = IF IsClient THEN "canceled" ELSE sts
            /\ UNCHANGED fin
       ELSE /\ ops' = [ops EXCEPT ![l] = [act |-> act, st |-> first, ok |-> FALSE, err |-> FALSE]]
            /\ fin' = IF first = "finishing" THEN fin + 1 ELSE fin
            /\ UNCHANGED sts
    /\ n' = [n EXCEPT ![l] = @ + 1]

\* Mutant: an op of a bidirectional call finishes it at once when its tag is not ok.
ClientActFinishes(l, ok) ==
    LET o == ops[l] IN
    IF FinishMode(o.act) = "forced" \/ ~ok
    THEN ops' = [ops EXCEPT ![l] = [o EXCEPT !.ok = ok, !.st = "finishing"]] /\ fin' = fin + 1
    ELSE ops' = [ops EXCEPT ![l] = [o EXCEPT !.ok = ok, !.st = "resumed"]] /\ UNCHANGED fin

\* The handler of init_client_act()
ClientAct(l, ok) ==
    LET o == ops[l] IN
    IF FinishMode(o.act) = "forced" \/ (FinishMode(o.act) = "non_ok" /\ ~ok)
    THEN ops' = [ops EXCEPT ![l] = [o EXCEPT !.ok = ok, !.st = "finishing"]] /\ fin' = fin + 1
    ELSE ops' = [ops EXCEPT ![l] = [o EXCEPT !.ok = ok, !.st = "resumed"]] /\ UNCHANGED fin

\* The handler of init_server_act(): only reads have no error for a tag that is not ok.
ServerAct(l, ok) ==
    /\ ops' = [ops EXCEPT ![l] = [@ EXCEPT !.ok = ok, !.err = ~ok /\ ops[l].act # "read", !.st = "resumed"]]
    /\ UNCHANGED fin

\* The tag of a posted op comes out of the completion queue.
Complete(l, ok) ==
    /\ ops[l].st = "posted"
    /\ IF IsClient THEN ClientAct(l, ok) ELSE ServerAct(l, ok)
    /\ UNCHANGED <<kind, stop, sts, pc, n, bad>>

\* The handler of init_client_finish(); the status of a call that was lost at its start is never OK.
FinishDone(l, s) ==
    /\ ops[l].st = "finishing"
    /\ s = "ok" /\ ~ops[l].ok /\ ops[l].act \in {"start", "write"} => EarlyOk /\ ops[l].act = "write"
    /\ sts' = s
    /\ ops' = [ops EXCEPT ![l].st = "resumed"]
    /\ UNCHANGED <<kind, stop, fin, pc, n, bad>>

-----------------------------------------------------------------------------
(* The callers. *)

Failed(l) == IF IsClient THEN sts # "ok" ELSE ops[l].err

\* What each lane awaits next.
StartAct == IF kind = "client_unary" THEN "unary" ELSE "start"
Acts(l) ==
    CASE l = "m" -> IF pc["m"] = "start" THEN {StartAct} ELSE {"finish"}
      [] l = "r" -> {"read"}
      [] l = "w" /\ kind = "client_bidi_unary" -> IF pc["r"] = "end" THEN {"writes_done"} ELSE {"write"}
      [] l = "w" /\ kind # "client_bidi_unary" -> {"write"} \cup (IF IsClient THEN {"writes_done"} ELSE {})

Await(l, act) ==
    /\ ~bad /\ pc[l] \in {"start", "run", "finish"} /\ ops[l].st = "idle"
    /\ act \in Acts(l)
    /\ n[l] < MaxOps \/ act \in {"start", "unary", "finish", "writes_done"}
    /\ Initiate(l, act)
    /\ UNCHANGED <<kind, stop, pc>>

\* After its streams the caller of a server rpc, and of a bidirectional client rpc, finishes it; the
\* others have been finished by their last op.  A DSK_TRY that fails ends a call without lanes.
AfterStreams(failed) ==
    IF kind \in {"client_client_stream", "client_server_stream"} THEN "end"
    ELSE IF failed /\ kind \notin {"client_bidi", "server_bidi"} THEN "end" ELSE "finish"

\* The streams run side by side, or the read after the write (get_response() of a bidirectional rpc).
First(k) == IF k = "client_bidi_unary" THEN {"w"} ELSE Streams(k)

\* The lanes after an op of the caller itself
AfterOwn ==
    IF pc["m"] = "finish" \/ Failed("m") \/ kind = "client_unary" THEN [pc EXCEPT !["m"] = "end"]
    ELSE IF Streams(kind) = {} THEN [pc EXCEPT !["m"] = "finish"]
    ELSE [x \in Lanes |-> IF x = "m" THEN "streams" ELSE IF x \in First(kind) THEN "run" ELSE pc[x]]

\* after one of get_response(): a write, the read, and without a response a WritesDone()
AfterResponse(l) ==
    IF Failed(l) THEN [pc EXCEPT ![l] = "end", !["m"] = "end"]
    ELSE IF l = "r" THEN IF ops[l].ok THEN [pc EXCEPT !["r"] = "end", !["m"] = "end"]
                         ELSE [pc EXCEPT !["r"] = "end", !["w"] = "run"]
    ELSE IF ops[l].act = "write" THEN [pc EXCEPT !["w"] = "end", !["r"] = "run"]
    ELSE [pc EXCEPT !["w"] = "end", !["m"] = "finish"]

\* and after one of a stream.
AfterStream(l) ==
    LET over == \/ Failed(l)
                \/ l = "r" /\ ~ops[l].ok
                \/ l = "w" /\ (ops[l].act = "writes_done" \/ (kind = "client_bidi" /\ ~ops[l].ok))
    IN
    IF ~over THEN pc
    ELSE IF \A x \in Streams(kind) \ {l} : pc[x] = "end"
         THEN [pc EXCEPT ![l] = "end", !["m"] = AfterStreams(Failed(l))]
    ELSE [pc EXCEPT ![l] = "end"]

\* A caller goes on: it uses an rpc as the comment at the end of rpc.hpp and test/grpc do.
Resumed(l) ==
    /\ ops[l].st = "resumed"
    /\ ops' = [ops EXCEPT ![l].st = "idle"]
    /\ pc' = IF l = "m" THEN AfterOwn
             ELSE IF kind = "client_bidi_unary" THEN AfterResponse(l) ELSE AfterStream(l)
    /\ UNCHANGED <<kind, stop, sts, fin, n, bad>>

\* A server has no more to write.
NoMoreWrites ==
    /\ kind \in Server /\ pc["w"] = "run" /\ ops["w"].st = "idle"
    /\ pc' = [pc EXCEPT !["w"] = "end",
                        !["m"] = IF \A x \in Streams(kind) \ {"w"} : pc[x] = "end" THEN "finish" ELSE @]
    /\ UNCHANGED <<kind, stop, sts, fin, ops, n, bad>>

\* The stop callback calls TryCancel(), after which gRPC completes what is posted.
RequestStop ==
    /\ kind \in Stoppable /\ ~stop
    /\ stop' = TRUE
    /\ UNCHANGED <<kind, sts, fin, ops, pc, n, bad>>

Statuses == {"ok", "error"}

Next ==
    \/ \E l \in Lanes : \/ \E act \in Acts(l) : Await(l, act)
                        \/ \E ok \in BOOLEAN : Complete(l, ok)
                        \/ \E s \in Statuses : FinishDone(l, s)
                        \/ Resumed(l)
    \/ NoMoreWrites \/ RequestStop

Spec == Init /\ [][Next]_vars

-----------------------------------------------------------------------------
(* Properties *)

Outstanding == {l \in Lanes : ops[l].st \in {"posted", "finishing"}}

\* Finish() is called once at most, and with no other op of the call under way, whichever op fails in
\* whatever order (init_client_act()).
FinishedOnce ==
    IsClient => /\ fin <= 1
                /\ (\E l \in Lanes : ops[l].st = "finishing") => Cardinality(Outstanding) = 1

\* The rpc is only destroyed, when its caller has ended, with no tag in the queue, and a client that was
\* not stopped has got its status by then.
EndsQuiet ==
    pc["m"] = "end" => Outstanding = {} /\ (IsClient /\ ~stop => fin = 1)

\* The assertion of initiate(): no op is begun on a call whose status is already an error.
InitiatedOk == ~bad
=============================================================================
