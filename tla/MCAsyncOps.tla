------------------------------ MODULE MCAsyncOps ------------------------------
(*****************************************************************************)
(* Async operations that are shared, combined or wrapped, one component at a *)
(* time: the resource pool and the pools by key, the until combinators, the  *)
(* cleanup of coroutines, and what start_on, run_on and resume_on do to an   *)
(* op. "part" says which one a behaviour is of; variables that it does not   *)
(* have stay empty.                                                          *)
(*****************************************************************************)
EXTENDS Integers, Sequences

CONSTANTS
    Tasks, Res, InitCap, MinCap, MaxCap, Ratios, HoldAndWait, StopInInitiate, InlineResume, Null,
    Keys, Users, Caps, Kinds, Sizes, MaxSize, Endless, ParentStops, CleanupOps, GenOp, MaxDepth,
    Reuse, Scheds, MaxWraps

VARIABLES
    part,   \* the component this behaviour is of
    mtx, cap, unused, inuse, waiters, pc, held, busy, heir, stop, cb, autoAdd, perPool, pools,
    defCap, upc, wants, loan, ustop, kind, size, endless, next, st, res, n, firstIdx, idx, opStop,
    parentStop, scb, fin, resumes, err, stack, cerr, ost, home, ofail, old, op, stops,
    calls, r

vars == <<part, mtx, cap, unused, inuse, waiters, pc, held, busy, heir, stop, cb, autoAdd, perPool,
        pools, defCap, upc, wants, loan, ustop, kind, size, endless, next, st, res, n, firstIdx,
        idx, opStop, parentStop, scb, fin, resumes, err, stack, cerr, ost, home, ofail, old, op,
        stops, calls, r>>

Pool == INSTANCE ResPoolProofs
Map == INSTANCE ResPoolMap
Until == INSTANCE Until
Cleanup == INSTANCE CleanupProofs WITH Ops <- CleanupOps
Resume == INSTANCE Resumption

ASSUME PoolAssumption == Pool!Assumptions
ASSUME MapAssumption == Map!CapsAssumption
ASSUME UntilAssumption == Until!KindAssumption /\ Until!SizeAssumption /\ Until!OpAssumption
ASSUME CleanupAssumption == Cleanup!ConstAssumption
ASSUME ResumeAssumption == Resume!WrapsAssumption

\* Half and double the capacity.
HalfOrDouble == {<<1, 2>>, <<2, 1>>}

\* the variables of the other components
Unused ==
    /\ IF part = "pool" THEN TRUE
       ELSE mtx = <<>> /\ cap = <<>> /\ unused = <<>> /\ inuse = <<>> /\ waiters = <<>>
           /\ held = <<>> /\ busy = <<>> /\ heir = <<>> /\ stop = <<>> /\ cb = <<>>
    /\ IF part \in {"pool", "until", "cleanup"} THEN TRUE
       ELSE pc = <<>>
    /\ IF part = "map" THEN TRUE
       ELSE autoAdd = <<>> /\ perPool = <<>> /\ pools = <<>> /\ defCap = <<>> /\ upc = <<>>
           /\ wants = <<>> /\ loan = <<>> /\ ustop = <<>>
    /\ IF part = "until" THEN TRUE
       ELSE kind = <<>> /\ size = <<>> /\ endless = <<>> /\ st = <<>> /\ n = <<>> /\ firstIdx = <<>>
           /\ idx = <<>> /\ opStop = <<>> /\ parentStop = <<>> /\ scb = <<>> /\ fin = <<>>
           /\ resumes = <<>> /\ err = <<>>
    /\ IF part \in {"until", "cleanup"} THEN TRUE
       ELSE next = <<>> /\ res = <<>>
    /\ IF part = "cleanup" THEN TRUE
       ELSE stack = <<>> /\ cerr = <<>> /\ ost = <<>> /\ home = <<>> /\ ofail = <<>> /\ old = <<>>
    /\ IF part = "resume" THEN TRUE
       ELSE op = <<>> /\ stops = <<>> /\ calls = <<>> /\ r = <<>>
OthersStay ==
    /\ UNCHANGED part
    /\ IF part = "pool" THEN TRUE
       ELSE UNCHANGED <<mtx, cap, unused, inuse, waiters, held, busy, heir, stop, cb>>
    /\ IF part \in {"pool", "until", "cleanup"} THEN TRUE
       ELSE UNCHANGED <<pc>>
    /\ IF part = "map" THEN TRUE
       ELSE UNCHANGED <<autoAdd, perPool, pools, defCap, upc, wants, loan, ustop>>
    /\ IF part = "until" THEN TRUE
       ELSE UNCHANGED <<kind, size, endless, st, n, firstIdx, idx, opStop, parentStop, scb, fin,
           resumes, err>>
    /\ IF part \in {"until", "cleanup"} THEN TRUE
       ELSE UNCHANGED <<next, res>>
    /\ IF part = "cleanup" THEN TRUE
       ELSE UNCHANGED <<stack, cerr, ost, home, ofail, old>>
    /\ IF part = "resume" THEN TRUE
       ELSE UNCHANGED <<op, stops, calls, r>>

Init ==
    \/ part = "pool" /\ Pool!Init /\ Unused
    \/ part = "map" /\ Map!Init /\ Unused
    \/ part = "until" /\ Until!Init /\ Unused
    \/ part = "cleanup" /\ Cleanup!Init /\ Unused
    \/ part = "resume" /\ Resume!Init /\ Unused

\* a step of one component
InPool(A) == part = "pool" /\ A /\ OthersStay
InMap(A) == part = "map" /\ A /\ OthersStay
InUntil(A) == part = "until" /\ A /\ OthersStay
InCleanup(A) == part = "cleanup" /\ A /\ OthersStay
InResume(A) == part = "resume" /\ A /\ OthersStay

Next ==
    \/ InPool(Pool!Next)
    \/ InMap(Map!Next)
    \/ InUntil(Until!Next)
    \/ InCleanup(Cleanup!Next)
    \/ InResume(Resume!Next)

\* Threads go on, and give back what they acquired; ops finish unless they are endless.
Fairness ==
    /\ \A t \in Tasks :
         /\ WF_vars(InPool(Pool!AcquireLocked(t) \/ Pool!Cancel(t) \/ Pool!ContinuationReturns(t)))
         /\ WF_vars(InPool(Pool!StartRecycle(t) \/ Pool!RecycleLocked(t) \/ Pool!HandOver(t)))
    /\ WF_vars(InUntil(Until!CheckStop \/ Until!Register \/ Until!StartNext))
    /\ WF_vars(InUntil(Until!ForwardStop))
    /\ \A i \in 1 .. MaxSize : WF_vars(InUntil(i \in Until!Ops /\ (Until!Finish(i) \/ Until!Callback(i))))
    /\ \A c \in Cleanup!Coros : WF_vars(InCleanup(Cleanup!StartCleanup(c) \/ Cleanup!StartOp(c)))
    /\ \A o \in Cleanup!AllOps : WF_vars(InCleanup(Cleanup!CountOp(o) \/ Cleanup!CompareSize(o)))

Spec == Init /\ [][Next]_vars /\ Fairness

-----------------------------------------------------------------------------
\* A resource is lent to one user at a time, and an op that waits for one is known to the pool
\* exactly once: a recycled resource goes to the oldest waiter or back into the pool, whatever
\* stops and changes of the capacity come between, and a pool with waiters has one in use.  A pool
\* of a res_pool_map, found or added on the fly, lends within its capacity, to ops that asked for
\* its key.
ExclusiveLoan ==
    /\ part = "pool" => /\ Pool!ExclusiveLoan /\ Pool!OneOwner
                        /\ Pool!WithinCapacity /\ Pool!WaitersHaveHolder
    /\ part = "map"  => Map!PoolOfItsKey

\* "NOTE: all ops are waited until finished" (until.hpp): the awaiter, which owns the ops and
\* destroys them, is resumed once, when no op runs and no callback touches the combinator any more.
ResumedOnceAtTheEnd == part = "until" => Until!ResumedOnceAtTheEnd

\* An awaiter that was not stopped gets the documented outcome, whichever op comes first and
\* however many meet the condition at once; the op whose result it takes met the condition; a
\* sequence stops at the first op that does.
OutcomeUnlessStopped ==
    part = "until" => /\ Until!OutcomeUnlessStopped /\ Until!FirstMeetsCondition
                      /\ Until!SeqStopsInTime

\* Cleanup ops run group by group, the innermost scope first: none of an outer group is started
\* while an inner one is left, the body goes on only after those of its scope, and a coroutine is
\* destroyed only after all of them.
InnermostFirst ==
    part = "cleanup" => /\ Cleanup!InnermostFirst /\ Cleanup!ResumedWhenScopeDone
                        /\ Cleanup!DestroyedWhenClean

\* A coroutine ends with errc::cleanup_failed exactly if an op it cleaned up failed, the ops of a
\* generator it cleaned up for included.
FailureReported == part = "cleanup" => Cleanup!FailureReported

\* start_on, run_on, solely_run_on and resume_on, nested in any order around ops that complete at
\* once or later: the op is initiated on the innermost scheduler asked for, with the stop source
\* asked for, and solely_run_on() comes back to where the caller was.
RunsWhereAsked == part = "resume" => Resume!RunsWhereAsked

\* Every op that waits at a pool ends, by a hand-over or by its stop callback, unless the holders
\* wait for each other or a thread waits for itself.
WaiterServed ==
    \A t \in Tasks :
        (part = "pool" /\ pc[t] = "waiting")
           ~> (part # "pool" \/ pc[t] # "waiting" \/ [](part = "pool" /\ Pool!Jammed) \/ Pool!Relocked)

\* The awaiter of an until combinator is resumed, or told not to wait, if all of its ops finish by
\* themselves, and also if some are endless once an op has met the condition: they are stopped.
UntilEnds ==
    (part = "until" /\ (Until!SomeMet \/ Until!AllWillFinish)) ~> (part # "until" \/ fin # "no")

\* A coroutine that returns or fails is destroyed and its awaiter resumed.
LeaverEnds ==
    \A c \in Cleanup!Coros :
        (part = "cleanup" /\ pc[c] = "leaving") ~> (part # "cleanup" \/ pc[c] = "gone")
=============================================================================
