-------------------------------- MODULE Until --------------------------------
(***************************************************************************)
(* The combinators of include/dsk/until.hpp, which wait for a number of    *)
(* async ops: until_all_done, the until_first_ family, until_all_succeeded *)
(* and seq_until.  The ops finish on any thread, in any order, possibly    *)
(* inside their own initiation.  Each one's completion callback runs in    *)
(* steps: test of the condition, request_stop() of the ops' common         *)
(* stop_source, store of _firstIdx, decrement of _n; the one that takes    *)
(* _n to zero resumes the awaiter.                                         *)
(*                                                                         *)
(* Every op is an external party: it succeeds, fails, or is canceled once  *)
(* it sees a stop.  An endless one finishes only when stopped.             *)
(***************************************************************************)
EXTENDS Integers, FiniteSets

CONSTANTS
    Kinds,      \* which combinators are built
    Sizes,      \* how many ops they are given
    MaxSize,    \* bound of Sizes
    Endless,    \* indices of ops that may be endless: finish only when stopped
    ParentStops \* may the awaiter's context be stopped?

FirstKinds == {"until_first_done", "until_first_succeeded", "until_first_failed"}
SeqKinds   == {"seq_until_succeeded", "seq_until_failed"}
AllKinds   == FirstKinds \cup SeqKinds \cup {"until_all_done", "until_all_succeeded"}

KindAssumption == Kinds \subseteq AllKinds /\ Kinds # {}
SizeAssumption == MaxSize \in Nat /\ Sizes \subseteq 0..MaxSize /\ Sizes # {}
OpAssumption   == Endless \subseteq 1..MaxSize /\ ParentStops \in BOOLEAN

VARIABLES
    kind, size, \* what was built, never changed
    endless,    \* which of the ops only finish when stopped, never changed
    pc,         \* "idle", "checked" (the stop token), "starting" the ops, "left" initiate()
    next,       \* the op that initiate() (or the last callback of a seq) starts next
    st,         \* per op: "new", "running", or the step its callback is at
    res,        \* per op: its result
    n,          \* _n
    firstIdx,   \* _firstIdx, -1 when none
    idx,        \* _idx of seq_until_if_op
    opStop,     \* stop requested on _opSs
    parentStop, \* stop requested on the awaiter's stop_source
    scb,        \* _scb
    fin,        \* how the awaiter learns of the end: "no", "returned" false, "resumed"
    resumes,    \* how often the continuation was called
    err         \* _err

vars == <<kind, size, endless, pc, next, st, res, n, firstIdx, idx, opStop, parentStop, scb,
          fin, resumes, err>>

Ops == 1..size

\* until_if_op with two ops or more gives them a stop_source of their own.
OwnSource == kind \in FirstKinds \cup {"until_all_succeeded"} /\ size > 1
SeesStop == IF OwnSource THEN opStop ELSE parentStop

Failed(i) == res[i] # "ok"

\* _cancelCond
CancelCond(i) ==
    CASE kind = "until_first_done" -> TRUE
      [] kind \in {"until_first_succeeded", "seq_until_succeeded"} -> ~Failed(i)
      [] kind \in {"until_first_failed", "until_all_succeeded", "seq_until_failed"} -> Failed(i)
      [] OTHER -> FALSE

Init ==
    /\ kind \in Kinds
    /\ size \in Sizes
    /\ kind \in SeqKinds => size > 0      \* static_assert(Ops::count)
    /\ endless \in SUBSET (Endless \cap 1..size)
    /\ pc = "idle"
    /\ next = 1
    /\ st = [i \in 1..MaxSize |-> "new"]
    /\ res = [i \in 1..MaxSize |-> "none"]
    /\ n = size
    /\ firstIdx = -1
    /\ idx = 1
    /\ opStop = FALSE
    /\ parentStop = FALSE
    /\ scb = "none"
    /\ fin = "no"
    /\ resumes = 0
    /\ err = "none"

-----------------------------------------------------------------------------
(* initiate() *)

\* set_canceled_if_stop_requested(); seq_until_if_op has no such check.
CheckStop ==
    /\ pc = "idle"
    /\ IF parentStop /\ kind \notin SeqKinds
       THEN /\ pc' = "left"
            /\ err' = "canceled"
            /\ fin' = "returned"
       ELSE /\ pc' = "checked"
            /\ UNCHANGED <<err, fin>>
    /\ UNCHANGED <<kind, size, endless, next, st, res, n, firstIdx, idx, opStop, parentStop, scb, resumes>>

\* _scb.emplace(): its constructor runs the callback if a stop was requested.
\* Without ops initiate() returns true and nothing is left to call _cont.
Register ==
    /\ pc = "checked"
    /\ pc' = IF size = 0 THEN "left" ELSE "starting"
    /\ IF OwnSource
       THEN /\ opStop' = parentStop
            /\ scb' = IF parentStop THEN "over" ELSE "armed"
       ELSE UNCHANGED <<opStop, scb>>
    /\ UNCHANGED <<kind, size, endless, next, st, res, n, firstIdx, idx, parentStop, fin, resumes, err>>

\* One iteration of uforeach: manual_initiate() of the next op.
StartNext ==
    /\ pc = "starting"
    /\ st' = [st EXCEPT ![next] = "running"]
    /\ next' = next + 1
    /\ pc' = IF kind \in SeqKinds \/ next = size THEN "left" ELSE pc
    /\ UNCHANGED <<kind, size, endless, res, n, firstIdx, idx, opStop, parentStop, scb, fin, resumes, err>>

(* The ops, and the parent's stop. *)

\* Op i finishes and calls its continuation.
Finish(i) ==
    /\ st[i] = "running"
    /\ \E v \in {"ok", "failed", "canceled"} :
          /\ v = "canceled" => SeesStop
          /\ i \in endless => v = "canceled"
          /\ res' = [res EXCEPT ![i] = v]
    /\ st' = [st EXCEPT ![i] = IF kind \in SeqKinds THEN "seq"
                               ELSE IF OwnSource THEN "cond" ELSE "count"]
    /\ UNCHANGED <<kind, size, endless, pc, next, n, firstIdx, idx, opStop, parentStop, scb,
                   fin, resumes, err>>

ParentStop ==
    /\ ParentStops
    /\ ~parentStop
    /\ parentStop' = TRUE
    /\ scb' = IF scb = "armed" THEN "fired" ELSE scb
    /\ UNCHANGED <<kind, size, endless, pc, next, st, res, n, firstIdx, idx, opStop, fin, resumes, err>>

\* The stop callback: _opSs.request_stop().
ForwardStop ==
    /\ scb = "fired"
    /\ scb' = "over"
    /\ opStop' = TRUE
    /\ UNCHANGED <<kind, size, endless, pc, next, st, res, n, firstIdx, idx, parentStop, fin, resumes, err>>

-----------------------------------------------------------------------------
(* Completion callbacks of the parallel combinators. *)

\* Mutant: the other ops are not stopped.
TestCondNoStop(i) ==
    /\ st[i] = "cond"
    /\ st' = [st EXCEPT ![i] = IF CancelCond(i) /\ ~opStop THEN "won" ELSE "count"]
    /\ UNCHANGED <<kind, size, endless, pc, next, res, n, firstIdx, idx, opStop, parentStop, scb,
                   fin, resumes, err>>
\* if(_cancelCond(op)) if(_opSs.request_stop())
TestCond(i) ==
    /\ st[i] = "cond"
    /\ st' = [st EXCEPT ![i] = IF CancelCond(i) /\ ~opStop THEN "won" ELSE "count"]
    /\ opStop' = (opStop \/ CancelCond(i))
    /\ UNCHANGED <<kind, size, endless, pc, next, res, n, firstIdx, idx, parentStop, scb,
                   fin, resumes, err>>

\* _firstIdx = idx, by the callback whose request_stop() returned true.
StoreFirst(i) ==
    /\ st[i] = "won"
    /\ firstIdx' = i
    /\ st' = [st EXCEPT ![i] = "count"]
    /\ UNCHANGED <<kind, size, endless, pc, next, res, n, idx, opStop, parentStop, scb, fin, resumes, err>>

\* Mutant: until_all_succeeded forgotten.
ErrFromFirstOnly(first) ==
    IF kind \in FirstKinds /\ first < 0 THEN "not_found" ELSE err

\* set_err_from_first_idx()
ErrFrom(first) ==
    CASE kind \in FirstKinds /\ first < 0 -> "not_found"
      [] kind = "until_all_succeeded" /\ first >= 0 -> "failed"
      [] OTHER -> err

\* The index known when op i is counted: with a single op and no source of
\* its own the condition is tested right here.
FirstWith(i) ==
    IF ~OwnSource /\ kind # "until_all_done" /\ CancelCond(i) THEN i ELSE firstIdx

\* Mutant: the first one resumes.
CountResumesFirst(i) ==
    /\ st[i] = "count"
    /\ st' = [st EXCEPT ![i] = "done"]
    /\ n' = n - 1
    /\ firstIdx' = FirstWith(i)
    /\ IF n = size
       THEN /\ err' = ErrFrom(firstIdx')
            /\ fin' = "resumed"
            /\ resumes' = resumes + 1
       ELSE UNCHANGED <<err, fin, resumes>>
    /\ UNCHANGED <<kind, size, endless, pc, next, res, idx, opStop, parentStop, scb>>
\* The decrement of _n; the last one resumes.
Count(i) ==
    /\ st[i] = "count"
    /\ st' = [st EXCEPT ![i] = "done"]
    /\ n' = n - 1
    /\ firstIdx' = FirstWith(i)
    /\ IF n = 1
       THEN /\ err' = ErrFrom(firstIdx')
            /\ fin' = "resumed"
            /\ resumes' = resumes + 1
       ELSE UNCHANGED <<err, fin, resumes>>
    /\ UNCHANGED <<kind, size, endless, pc, next, res, idx, opStop, parentStop, scb>>

(* The callback of seq_until_if_op: resume, or start the next op. *)

SeqStep(i) ==
    /\ st[i] = "seq"
    /\ IF idx = size \/ CancelCond(i)
       THEN /\ st' = [st EXCEPT ![i] = "done"]
            /\ fin' = "resumed"
            /\ resumes' = resumes + 1
            /\ UNCHANGED <<idx, next>>
       ELSE /\ idx' = idx + 1
            /\ next' = next + 1
            /\ st' = [st EXCEPT ![i] = "done", ![idx + 1] = "running"]
            /\ UNCHANGED <<fin, resumes>>
    /\ UNCHANGED <<kind, size, endless, pc, res, n, firstIdx, opStop, parentStop, scb, err>>

-----------------------------------------------------------------------------
Callback(i) == TestCond(i) \/ StoreFirst(i) \/ Count(i) \/ SeqStep(i)

Next ==
    \/ CheckStop
    \/ Register
    \/ StartNext
    \/ ParentStop
    \/ ForwardStop
    \/ \E i \in Ops : Finish(i) \/ Callback(i)

Spec == Init /\ [][Next]_vars

(* The thread in initiate() and every running callback go on; an op that   *)
(* can finish does, which is the contract of an async op.                  *)
Fairness ==
    /\ WF_vars(CheckStop)
    /\ WF_vars(Register)
    /\ WF_vars(StartNext)
    /\ WF_vars(ForwardStop)
    /\ \A i \in 1..MaxSize : WF_vars(i \in Ops /\ Finish(i)) /\ WF_vars(i \in Ops /\ Callback(i))

FairSpec == Spec /\ Fairness

-----------------------------------------------------------------------------
TypeOK ==
    /\ kind \in Kinds
    /\ size \in Sizes
    /\ endless \subseteq 1..MaxSize
    /\ pc \in {"idle", "checked", "starting", "left"}
    /\ next \in 1..(MaxSize + 1)
    /\ st \in [1..MaxSize -> {"new", "running", "cond", "won", "count", "seq", "done"}]
    /\ res \in [1..MaxSize -> {"none", "ok", "failed", "canceled"}]
    /\ n \in 0..MaxSize
    /\ firstIdx \in {-1} \cup 1..MaxSize
    /\ idx \in 1..(MaxSize + 1)
    /\ opStop \in BOOLEAN
    /\ parentStop \in BOOLEAN
    /\ scb \in {"none", "armed", "fired", "over"}
    /\ fin \in {"no", "returned", "resumed"}
    /\ resumes \in Nat
    /\ err \in {"none", "canceled", "not_found", "failed"}

\* "NOTE: all ops are waited until finished": the awaiter, which owns the ops
\* and destroys them, is resumed once and only when no op is still running and
\* no callback still touches the combinator.
ResumedOnceAtTheEnd ==
    /\ resumes <= 1
    /\ fin = "resumed" =>
          /\ \A i \in Ops : st[i] \in {"done", "new"}
          /\ kind \notin SeqKinds => \A i \in Ops : st[i] = "done"

\* The variant index: what take_result() takes is the result of an op that met
\* the condition, and DSK_ASSERT(_firstIdx >= 0) / (_firstIdx == -1) hold.
FirstMeetsCondition ==
    fin = "resumed" =>
        /\ firstIdx > 0 => CancelCond(firstIdx)
        /\ kind \in FirstKinds /\ err = "none" => firstIdx > 0
        /\ kind = "until_all_succeeded" /\ err = "none" => firstIdx = -1

Met == {i \in Ops : st[i] = "done" /\ CancelCond(i)}

DocumentedOutcome ==
    /\ kind \in FirstKinds => (err = "not_found" <=> Met = {})
    /\ kind = "until_all_succeeded" => (err = "failed" <=> Met # {})

\* The documented outcome of the parallel combinators.  until_first_x: "If no
\* op met the condition, return errc::not_found", else the op's result.
\* until_all_succeeded: "If any op failed, unfinished ops are canceled and
\* errc::failed is returned".
OutcomeAsDocumented == fin = "resumed" => DocumentedOutcome

\* The same for an awaiter that was not stopped: whichever op comes first and
\* however many meet the condition at the same time.
OutcomeUnlessStopped == fin = "resumed" /\ ~parentStop => DocumentedOutcome

\* seq_until runs its ops one after the other and stops at the first that
\* meets the condition, or at the last: nothing before it met the condition,
\* nothing after it was started.
SeqStopsInTime ==
    kind \in SeqKinds =>
        /\ \A i \in Ops : i > idx => st[i] = "new"
        /\ \A i \in Ops : i < idx => st[i] = "done" /\ ~CancelCond(i)
        /\ fin = "resumed" => idx = size \/ CancelCond(idx)

SomeMet == OwnSource /\ \E i \in Ops : st[i] = "count" /\ CancelCond(i)

\* Once an op met the condition the endless ones are stopped, and the awaiter
\* is resumed.
MetEndsWait == SomeMet ~> (fin = "resumed")

\* A combinator that was given ops, all of which finish by themselves, ends:
\* its awaiter is resumed or told not to wait ("true for initiated, false for
\* finished").
AllWillFinish == pc = "left" /\ size > 0 /\ endless = {}
InitiatedEnds == AllWillFinish ~> (fin # "no")
=============================================================================
