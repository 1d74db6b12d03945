------------------------------- MODULE ResPool -------------------------------
(***************************************************************************)
(* res_pool<T, Creator, Recycler> of include/dsk/res_pool.hpp: a pool that *)
(* creates up to _cap resources and lends each to one task at a time.      *)
(* acquire() is a cancellable async op that waits for a resource; a        *)
(* res_ref gives its resource back when destroyed, directly to the oldest  *)
(* waiting op if there is one.                                             *)
(*                                                                         *)
(* A task runs user code (pc "run"), one pool call at a time, and may call *)
(* again and again.  One action per critical section; what the code does   *)
(* before or after a critical section is an action of its own.  T = void   *)
(* is the pool whose unused resources are destroyed at once: its counter   *)
(* _size is the size of inuse.                                             *)
(***************************************************************************)
EXTENDS Naturals, Sequences, FiniteSetsExt

CONSTANTS
    Tasks,          \* users of the pool
    Res,            \* identities of resources, reused after destruction
    InitCap,        \* capacity given to the constructor
    MinCap, MaxCap, \* bounds of the capacities given to set_capacity, reserve
    Ratios,         \* ratios given to reserve_by, as pairs <<num, den>>
    HoldAndWait,    \* may a task that holds a resource wait for another?
    StopInInitiate, \* may a stop be requested between the check and the lock?
    InlineResume,   \* are continuations resumed inline (inline_resumer)?
    Null

CapAssumption ==
    /\ InitCap \in Nat \ {0}
    /\ MinCap \in Nat \ {0}
    /\ MaxCap \in Nat
    /\ \A p \in Ratios : p[1] \in Nat \ {0} /\ p[2] \in Nat \ {0}
FlagAssumption ==
    {HoldAndWait, StopInInitiate, InlineResume} \subseteq BOOLEAN
NullAssumption == Null \notin Tasks \cup Res

VARIABLES
    mtx,     \* _mtx: the task on whose behalf it is held between actions
    cap,     \* _cap
    unused,  \* _unused, front first
    inuse,   \* _inuse
    waiters, \* _waiterQueue; Null is a slot marked as deleted
    pc,      \* per task: where it is
    held,    \* per task: resources of the valid res_refs it owns
    busy,    \* per task: the resource its recycle() is about
    heir,    \* per task: the waiter taken by its recycle()
    stop,    \* per task: stop requested on the stop_source of its context
    cb       \* per task: the stop callback of its current acquire op

vars == <<mtx, cap, unused, inuse, waiters, pc, held, busy, heir, stop, cb>>

-----------------------------------------------------------------------------
LiveSlots(w) == {i \in 1..Len(w) : w[i] # Null}
Oldest(w) == IF LiveSlots(w) = {} THEN Null ELSE w[Min(LiveSlots(w))]
AfterOldest(w) ==
    IF LiveSlots(w) = {} THEN << >> ELSE SubSeq(w, Min(LiveSlots(w)) + 1, Len(w))

Unused == {unused[i] : i \in 1..Len(unused)}
Fresh  == Res \ (Unused \cup inuse)
OccupiedCap == Len(unused) + Cardinality(inuse)

Init ==
    /\ mtx = Null
    /\ cap = InitCap
    /\ unused = << >>
    /\ inuse = {}
    /\ waiters = << >>
    /\ pc = [t \in Tasks |-> "run"]
    /\ held = [t \in Tasks |-> {}]
    /\ busy = [t \in Tasks |-> Null]
    /\ heir = [t \in Tasks |-> Null]
    /\ stop = [t \in Tasks |-> FALSE]
    /\ cb = [t \in Tasks |-> "none"]

(* try_acquire<false>(), and its failure. *)

CannotAcquire == unused = << >> /\ Cardinality(inuse) >= cap

\* An unused resource is taken from the front, or one is created there first.
Acquires(t) ==
    /\ ~CannotAcquire
    /\ \E x \in IF unused = << >> THEN Fresh ELSE {Head(unused)} :
          /\ inuse' = inuse \cup {x}
          /\ held' = [held EXCEPT ![t] = @ \cup {x}]
    /\ unused' = IF unused = << >> THEN unused ELSE Tail(unused)

(* acquire(): the check of the stop token and the critical section. *)

Initiate(t) ==
    /\ pc[t] = "run"
    /\ mtx # t
    /\ cb[t] = "none"
    /\ ~stop[t]
    /\ HoldAndWait \/ held[t] = {}
    /\ pc' = [pc EXCEPT ![t] = "checked"]
    /\ UNCHANGED <<mtx, cap, unused, inuse, waiters, held, busy, heir, stop, cb>>

AcquireLocked(t) ==
    /\ pc[t] = "checked"
    /\ mtx = Null
    /\ \/ /\ Acquires(t)
          /\ pc' = [pc EXCEPT ![t] = "run"]
          /\ UNCHANGED <<mtx, waiters, cb>>
       \/ /\ CannotAcquire
          /\ ~stop[t]
          /\ pc' = [pc EXCEPT ![t] = "waiting"]
          /\ cb' = [cb EXCEPT ![t] = "armed"]
          /\ waiters' = Append(waiters, t)
          /\ UNCHANGED <<mtx, unused, inuse, held>>
       \/ \* _scb's constructor calls the callback, which locks _mtx again
          /\ CannotAcquire
          /\ stop[t]
          /\ pc' = [pc EXCEPT ![t] = "relocking"]
          /\ mtx' = t
          /\ UNCHANGED <<unused, inuse, waiters, held, cb>>
    /\ UNCHANGED <<cap, busy, heir, stop>>

TryAcquire(t) ==
    /\ pc[t] = "run"
    /\ mtx = Null
    /\ Acquires(t)
    /\ UNCHANGED <<mtx, cap, waiters, pc, busy, heir, stop, cb>>

(* recycle(): the recycler runs on the resource before the mutex is taken. *)

StartRecycle(t) ==
    /\ pc[t] = "run"
    /\ mtx # t
    /\ \E x \in held[t] : busy' = [busy EXCEPT ![t] = x]
    /\ pc' = [pc EXCEPT ![t] = "recycling"]
    /\ UNCHANGED <<mtx, cap, unused, inuse, waiters, held, heir, stop, cb>>

PutBack(t) ==
    /\ unused' = <<busy[t]>> \o unused
    /\ inuse' = inuse \ {busy[t]}
    /\ held' = [held EXCEPT ![t] = @ \ {busy[t]}]
    /\ busy' = [busy EXCEPT ![t] = Null]
    /\ pc' = [pc EXCEPT ![t] = "run"]
    /\ UNCHANGED heir

\* Mutant: puts back without looking for waiters.
RecycleForgetsWaiters(t) ==
    /\ pc[t] = "recycling"
    /\ mtx = Null
    /\ PutBack(t)
    /\ UNCHANGED <<mtx, cap, stop, cb, waiters>>
\* Mutant: hands over what it also puts back.
RecycleBothWays(t) ==
    /\ pc[t] = "recycling"
    /\ mtx = Null
    /\ IF LiveSlots(waiters) = {}
       THEN PutBack(t)
       ELSE /\ heir' = [heir EXCEPT ![t] = Oldest(waiters)]
            /\ pc' = [pc EXCEPT ![t] = "handing"]
            /\ unused' = <<busy[t]>> \o unused
            /\ UNCHANGED <<inuse, held, busy>>
    /\ waiters' = AfterOldest(waiters)
    /\ UNCHANGED <<mtx, cap, stop, cb>>

RecycleLocked(t) ==
    /\ pc[t] = "recycling"
    /\ mtx = Null
    /\ IF LiveSlots(waiters) = {}
       THEN PutBack(t)
       ELSE /\ heir' = [heir EXCEPT ![t] = Oldest(waiters)]
            /\ pc' = [pc EXCEPT ![t] = "handing"]
            /\ UNCHANGED <<unused, inuse, held, busy>>
    /\ waiters' = AfterOldest(waiters)
    /\ UNCHANGED <<mtx, cap, stop, cb>>

\* w->complete(mut_move(rr)): outside the mutex.  The op of the heir ends; its
\* callback is unregistered unless it already runs.
HandOver(t) ==
    /\ pc[t] = "handing"
    /\ LET w == heir[t] IN
       /\ held' = [held EXCEPT ![t] = @ \ {busy[t]}, ![w] = @ \cup {busy[t]}]
       /\ pc' = [pc EXCEPT ![t] = "run", ![w] = "run"]
       /\ cb' = [cb EXCEPT ![w] = IF @ = "armed" THEN "none" ELSE @]
    /\ busy' = [busy EXCEPT ![t] = Null]
    /\ heir' = [heir EXCEPT ![t] = Null]
    /\ UNCHANGED <<mtx, cap, unused, inuse, waiters, stop>>

-----------------------------------------------------------------------------
(* Cancellation. *)

RequestStop(t) ==
    /\ ~stop[t]
    /\ pc[t] = "checked" => StopInInitiate
    /\ stop' = [stop EXCEPT ![t] = TRUE]
    /\ cb' = [cb EXCEPT ![t] = IF @ = "armed" THEN "fired" ELSE @]
    /\ UNCHANGED <<mtx, cap, unused, inuse, waiters, pc, held, busy, heir>>

\* cancel(): complete_on_cancellation() is called with the mutex held, so that
\* a continuation resumed inline runs with the mutex held.
Cancel(t) ==
    /\ cb[t] = "fired"
    /\ mtx = Null
    /\ cb' = [cb EXCEPT ![t] = "none"]
    /\ IF \E i \in 1..Len(waiters) : waiters[i] = t
       THEN /\ waiters' = [i \in 1..Len(waiters) |->
                              IF waiters[i] = t THEN Null ELSE waiters[i]]
            /\ pc' = [pc EXCEPT ![t] = "run"]
            /\ mtx' = IF InlineResume THEN t ELSE mtx
       ELSE UNCHANGED <<waiters, pc, mtx>>
    /\ UNCHANGED <<cap, unused, inuse, held, busy, heir, stop>>

\* The continuation that runs inside cancel() suspends or ends: cancel()
\* returns and releases the mutex ...
ContinuationReturns(t) ==
    /\ mtx = t
    /\ pc[t] = "run"
    /\ mtx' = Null
    /\ UNCHANGED <<cap, unused, inuse, waiters, pc, held, busy, heir, stop, cb>>

\* ... or it destroys a res_ref that the task holds, which locks it again.
ContinuationRecycles(t) ==
    /\ mtx = t
    /\ pc[t] = "run"
    /\ held[t] # {}
    /\ pc' = [pc EXCEPT ![t] = "relocking"]
    /\ UNCHANGED <<mtx, cap, unused, inuse, waiters, held, busy, heir, stop, cb>>

-----------------------------------------------------------------------------
(* Capacity and population, called by any thread. *)

SetCapacity(n) ==
    /\ mtx = Null
    /\ n >= OccupiedCap         \* the caller's obligation, DSK_ASSERTed
    /\ cap' = n
    /\ UNCHANGED <<mtx, unused, inuse, waiters, pc, held, busy, heir, stop, cb>>

Reserve(n) ==
    /\ mtx = Null
    /\ n > OccupiedCap
    /\ cap' = n
    /\ UNCHANGED <<mtx, unused, inuse, waiters, pc, held, busy, heir, stop, cb>>

ReserveBy(p) ==
    /\ mtx = Null
    /\ LET newCap == Min({MaxCap, (cap * p[1]) \div p[2]}) IN
       /\ newCap > OccupiedCap
       /\ cap' = newCap
    /\ UNCHANGED <<mtx, unused, inuse, waiters, pc, held, busy, heir, stop, cb>>

ClearUnused ==
    /\ mtx = Null
    /\ unused' = << >>
    /\ UNCHANGED <<mtx, cap, inuse, waiters, pc, held, busy, heir, stop, cb>>

CreateAll ==
    /\ mtx = Null
    /\ LET n == cap - OccupiedCap IN
       \E s \in [1..n -> Fresh] :
          /\ \A i, j \in 1..n : s[i] = s[j] => i = j
          /\ unused' = s \o unused
    /\ UNCHANGED <<mtx, cap, inuse, waiters, pc, held, busy, heir, stop, cb>>

-----------------------------------------------------------------------------
Next ==
    \/ \E t \in Tasks :
          \/ Initiate(t)
          \/ AcquireLocked(t)
          \/ TryAcquire(t)
          \/ StartRecycle(t)
          \/ RecycleLocked(t)
          \/ HandOver(t)
          \/ RequestStop(t)
          \/ Cancel(t)
          \/ ContinuationReturns(t)
          \/ ContinuationRecycles(t)
    \/ \E n \in MinCap..MaxCap : SetCapacity(n) \/ Reserve(n)
    \/ \E p \in Ratios : ReserveBy(p)
    \/ ClearUnused
    \/ CreateAll

Spec == Init /\ [][Next]_vars

(* A task inside a pool call and a running callback make progress, and a   *)
(* res_ref is destroyed sooner or later (the obligation of its owner).     *)
Fairness ==
    \A t \in Tasks :
        /\ WF_vars(AcquireLocked(t))
        /\ WF_vars(StartRecycle(t))
        /\ WF_vars(RecycleLocked(t))
        /\ WF_vars(HandOver(t))
        /\ WF_vars(Cancel(t))
        /\ WF_vars(ContinuationReturns(t))

FairSpec == Spec /\ Fairness

-----------------------------------------------------------------------------
TypeOK ==
    /\ mtx \in Tasks \cup {Null}
    /\ cap \in Nat \ {0}
    /\ unused \in Seq(Res)
    /\ inuse \subseteq Res
    /\ waiters \in Seq(Tasks \cup {Null})
    /\ pc \in [Tasks -> {"run", "checked", "waiting", "recycling", "handing", "relocking"}]
    /\ held \in [Tasks -> SUBSET Res]
    /\ busy \in [Tasks -> Res \cup {Null}]
    /\ heir \in [Tasks -> Tasks \cup {Null}]
    /\ stop \in [Tasks -> BOOLEAN]
    /\ cb \in [Tasks -> {"none", "armed", "fired"}]

\* The pool never has more resources than its capacity, whatever the order of
\* acquisitions, hand-overs and changes of the capacity.
WithinCapacity == OccupiedCap <= cap

\* A resource is lent to exactly one task or is unused, once: a recycled
\* resource is either handed to a waiter or put back, never both or neither.
ExclusiveLoan ==
    /\ \A t, u \in Tasks : t # u => held[t] \cap held[u] = {}
    /\ UNION {held[t] : t \in Tasks} = inuse
    /\ Unused \cap inuse = {}
    /\ \A i, j \in 1..Len(unused) : unused[i] = unused[j] => i = j

\* A waiting acquire op is in exactly one place: one slot of the waiter queue
\* or the hands of one recycle() that took it, so that it is completed once
\* (the DSK_ASSERT(! _r) of complete and complete_on_cancellation).
OneOwner ==
    \A t \in Tasks :
        Cardinality(  {<<"slot", i>> : i \in {j \in 1..Len(waiters) : waiters[j] = t}}
                 \cup {<<"heir", u>> : u \in {v \in Tasks : heir[v] = t}})
          = IF pc[t] = "waiting" THEN 1 ELSE 0

\* Somebody will serve the waiters: a pool with waiter slots, even deleted
\* ones, has a resource in use, whose recycle() empties the queue in the end.
\* It is what the DSK_ASSERT of the destructor rests on.
WaitersHaveHolder == waiters # << >> => inuse # {}

(* Two ways in which a waiting op waits for good, both the callers' doing: *)
(* tasks that hold resources all wait for more, or a thread has locked the *)
(* mutex a second time.                                                    *)
Jammed == inuse # {} /\ \A t \in Tasks : held[t] # {} => pc[t] = "waiting"
Relocked == \E t \in Tasks : pc[t] = "relocking"

\* Every waiting op ends, by a hand-over or, if stopped, by its callback,
\* unless the holders wait for each other or a thread waits for itself.
WaiterServed ==
    \A t \in Tasks :
        pc[t] = "waiting" ~> (pc[t] # "waiting" \/ []Jammed \/ Relocked)
=============================================================================
