------------------------------ MODULE ResQueue ------------------------------
(***************************************************************************)
(* res_queue<T> of include/dsk/res_queue.hpp: a bounded FIFO queue whose   *)
(* enqueue and dequeue are cancellable async ops.  Any thread may initiate *)
(* an op, call a synchronous member or request the stop of an op; the      *)
(* queue is protected by one non-recursive mutex, and a waiting op is      *)
(* completed outside it by whoever took the op out of its waiter queue.    *)
(*                                                                         *)
(* Granularity: one action per critical section and one per completion,    *)
(* which is where threads can interleave.  The loops of the two force_     *)
(* members are taken one iteration at a time with the mutex held.  The     *)
(* value carried by async enqueue op e is e itself.  Statistics, resumers  *)
(* and the type of the values are left out: no control depends on them.    *)
(***************************************************************************)
EXTENDS Naturals, Sequences, FiniteSetsExt, TLC

CONSTANTS
    Enq,            \* async enqueue op objects, each initiated at most once
    Deq,            \* async dequeue op objects, each initiated at most once
    Callers,        \* threads that call the synchronous members
    Items,          \* values enqueued by Callers, each at most once
    InitCap,        \* capacity given to the constructor
    MaxCap,         \* bound: increase_capacity stops here
    StopInInitiate, \* may a stop be requested between the check and the lock?
    WithClear,      \* is clear() called?
    Null            \* null pointer, unlocked mutex, absent value

Ops    == Enq \cup Deq
Actors == Ops \cup Callers
Vals   == Enq \cup Items

ASSUME CapAssumption == InitCap \in Nat \ {0} /\ MaxCap \in Nat
ASSUME NameAssumption ==
    /\ Enq \cap Deq = {} /\ Enq \cap Items = {}
    /\ Ops \cap Callers = {}
    /\ Vals \cap {"expect", "canceled", "end_reached"} = {}
    /\ Null \notin Actors \cup Vals \cup {"expect", "canceled", "end_reached"}
ASSUME FlagAssumption == StopInInitiate \in BOOLEAN /\ WithClear \in BOOLEAN

VARIABLES
    mtx,      \* _mtx: the actor that holds it between two actions, or Null
    cap,      \* _cap
    endMarked,\* _endMarked
    resQueue, \* _resQueue
    enqW,     \* _enqueueWaiters.waiterQueue; Null is a slot marked as deleted
    deqW,     \* _dequeueWaiters.waiterQueue
    pc,       \* per op: how far initiate() got
    r,        \* per op: _r, Null while empty
    cb,       \* per op: its stop callback _scb
    stop,     \* per op: stop requested on the stop_source of its context
    loop,     \* per caller: the loop it executes with the mutex held
    todo,     \* per actor: <<op, result>> pairs it has still to complete, in order
    used,     \* Items handed to the queue so far
    out,      \* history: values that left the queue, in the order they left
    got,      \* history: values returned to callers of the synchronous members
    dropped   \* history: values destroyed by clear()

queue == <<mtx, cap, endMarked, resQueue, enqW, deqW>>
hist  == <<used, out, got, dropped>>
vars  == <<queue, pc, r, cb, stop, loop, todo, hist>>

-----------------------------------------------------------------------------
(* waiter_queue *)

LiveSlots(w) == {i \in 1..Len(w) : w[i] # Null}

\* Mutant: takes the front slot, deleted or not.
NaiveOldest(w) == IF w = << >> THEN Null ELSE Head(w)

\* take_oldest(): pops the deleted slots in front and the first live one.
Oldest(w) == IF LiveSlots(w) = {} THEN Null ELSE w[Min(LiveSlots(w))]
AfterOldest(w) ==
    IF LiveSlots(w) = {} THEN << >> ELSE SubSeq(w, Min(LiveSlots(w)) + 1, Len(w))

SlotsOf(o, w) == {i \in 1..Len(w) : w[i] = o}

\* erase(): the slot stays in the queue, marked as deleted.
Erase(o, w) == [i \in 1..Len(w) |-> IF w[i] = o THEN Null ELSE w[i]]

-----------------------------------------------------------------------------
Init ==
    /\ mtx = Null
    /\ cap = InitCap
    /\ endMarked = FALSE
    /\ resQueue = << >>
    /\ enqW = << >>
    /\ deqW = << >>
    /\ pc = [o \in Ops |-> "idle"]
    /\ r = [o \in Ops |-> Null]
    /\ cb = [o \in Ops |-> "none"]
    /\ stop = [o \in Ops |-> FALSE]
    /\ loop = [c \in Callers |-> "none"]
    /\ todo = [a \in Actors |-> << >>]
    /\ used = {}
    /\ out = << >>
    /\ got = {}
    /\ dropped = {}

(* initiate(): the check of the stop token, made without the mutex. *)

CheckStop(o) ==
    /\ pc[o] = "idle"
    /\ IF stop[o]
       THEN /\ r' = [r EXCEPT ![o] = "canceled"]
            /\ pc' = [pc EXCEPT ![o] = "returned"]
       ELSE /\ pc' = [pc EXCEPT ![o] = "checked"]
            /\ UNCHANGED r
    /\ UNCHANGED <<queue, cb, stop, loop, todo, hist>>

(* initiate(): the critical section.  Finishes(o, s) leaves it with the    *)
(* completions s still to do; the last of them is the op's own result,     *)
(* which initiate() stores before it returns false.                        *)

Finishes(o, s) ==
    /\ pc' = [pc EXCEPT ![o] = "returning"]
    /\ todo' = [todo EXCEPT ![o] = s]
    /\ UNCHANGED <<cb, mtx>>

\* The op has to wait.  _scb is constructed under the mutex: when a stop has
\* been requested meanwhile its constructor calls the callback on this thread,
\* which locks the mutex the thread already holds.
WaitsWithCallback(o) ==
    /\ IF stop[o]
       THEN /\ pc' = [pc EXCEPT ![o] = "relocking"]
            /\ cb' = [cb EXCEPT ![o] = "fired"]
            /\ mtx' = o
       ELSE /\ pc' = [pc EXCEPT ![o] = "waiting"]
            /\ cb' = [cb EXCEPT ![o] = "armed"]
            /\ UNCHANGED mtx
    /\ UNCHANGED todo

EnqueueFull == Len(resQueue) >= cap

EnqueueLocked(e) ==
    /\ pc[e] = "checked"
    /\ mtx = Null
    /\ \/ /\ endMarked
          /\ Finishes(e, << <<e, "end_reached">> >>)
          /\ UNCHANGED <<resQueue, enqW, deqW, out>>
       \/ /\ ~endMarked
          /\ EnqueueFull
          /\ WaitsWithCallback(e)
          /\ enqW' = IF stop[e] THEN enqW ELSE Append(enqW, e)
          /\ UNCHANGED <<resQueue, deqW, out>>
       \/ /\ ~endMarked
          /\ ~EnqueueFull
          /\ deqW' = AfterOldest(deqW)
          /\ IF Oldest(deqW) # Null
             THEN /\ Finishes(e, << <<Oldest(deqW), e>>, <<e, "expect">> >>)
                  /\ out' = Append(out, e)
                  /\ UNCHANGED resQueue
             ELSE /\ Finishes(e, << <<e, "expect">> >>)
                  /\ resQueue' = Append(resQueue, e)
                  /\ UNCHANGED out
          /\ UNCHANGED enqW
    /\ UNCHANGED <<cap, endMarked, r, stop, loop, used, got, dropped>>

\* Mutant: enqueue waiters are not moved in.
PopWithoutRefill ==
    /\ resQueue' = Tail(resQueue)
    /\ out' = Append(out, Head(resQueue))
    /\ UNCHANGED enqW
\* Mutant: the refill goes to the front.
RefillJumpsQueue ==
    /\ resQueue' = IF Oldest(enqW) # Null THEN <<Oldest(enqW)>> \o Tail(resQueue)
                                          ELSE Tail(resQueue)
    /\ enqW' = AfterOldest(enqW)
    /\ out' = Append(out, Head(resQueue))
\* Mutant: refills from the front slot even if deleted.
RefillFromDeleted ==
    /\ resQueue' = IF enqW # << >> THEN Append(Tail(resQueue), Head(enqW)) ELSE Tail(resQueue)
    /\ enqW' = AfterOldest(enqW)
    /\ out' = Append(out, Head(resQueue))

\* try_dequeue_no_lock() on a non-empty queue: the head leaves and the oldest
\* enqueue waiter, if any, moves its value in.
PopAndRefill ==
    /\ resQueue' = IF Oldest(enqW) # Null THEN Append(Tail(resQueue), Oldest(enqW))
                                          ELSE Tail(resQueue)
    /\ enqW' = AfterOldest(enqW)
    /\ out' = Append(out, Head(resQueue))

RefilledBy == IF Oldest(enqW) # Null THEN << <<Oldest(enqW), "expect">> >> ELSE << >>

DequeueLocked(d) ==
    /\ pc[d] = "checked"
    /\ mtx = Null
    /\ \/ /\ resQueue = << >>
          /\ endMarked
          /\ Finishes(d, << <<d, "end_reached">> >>)
          /\ UNCHANGED <<resQueue, enqW, deqW, out>>
       \/ /\ resQueue = << >>
          /\ ~endMarked
          /\ WaitsWithCallback(d)
          /\ deqW' = IF stop[d] THEN deqW ELSE Append(deqW, d)
          /\ UNCHANGED <<resQueue, enqW, out>>
       \/ /\ resQueue # << >>
          /\ PopAndRefill
          /\ Finishes(d, RefilledBy \o << <<d, Head(resQueue)>> >>)
          /\ UNCHANGED deqW
    /\ UNCHANGED <<cap, endMarked, r, stop, loop, used, got, dropped>>

\* complete() / complete_with_err() of a waiter, outside the mutex, or the
\* store of an op's own result at the end of its initiate().  The deleted
\* slots that take_all() gives to mark_end() are passed over.
Complete(a) ==
    /\ mtx # a
    /\ todo[a] # << >>
    /\ LET o == Head(todo[a])[1] IN
       IF o = Null
       THEN UNCHANGED <<r, pc>>
       ELSE /\ r' = [r EXCEPT ![o] = Head(todo[a])[2]]
            /\ pc' = [pc EXCEPT ![o] = IF o = a THEN "returned" ELSE "resumed"]
    /\ todo' = [todo EXCEPT ![a] = Tail(@)]
    /\ UNCHANGED <<queue, cb, stop, loop, hist>>

-----------------------------------------------------------------------------
(* Cancellation.  request_stop() runs on any thread; a registered callback *)
(* runs on the thread that requested the stop.                             *)

RequestStop(o) ==
    /\ ~stop[o]
    /\ pc[o] = "checked" => StopInInitiate
    /\ stop' = [stop EXCEPT ![o] = TRUE]
    /\ cb' = [cb EXCEPT ![o] = IF @ = "armed" THEN "fired" ELSE @]
    /\ UNCHANGED <<queue, pc, r, loop, todo, hist>>

\* thisExists: erase under the mutex.
CallbackErase(o) ==
    /\ cb[o] = "fired"
    /\ mtx = Null
    /\ IF SlotsOf(o, enqW) \cup SlotsOf(o, deqW) # {}
       THEN /\ enqW' = Erase(o, enqW)
            /\ deqW' = Erase(o, deqW)
            /\ cb' = [cb EXCEPT ![o] = "erased"]
       ELSE /\ cb' = [cb EXCEPT ![o] = "over"]
            /\ UNCHANGED <<enqW, deqW>>
    /\ UNCHANGED <<mtx, cap, endMarked, resQueue, pc, r, stop, loop, todo, hist>>

\* Mutant: erases without resuming.
CallbackCompleteWithoutResume(o) ==
    /\ cb[o] = "erased"
    /\ cb' = [cb EXCEPT ![o] = "over"]
    /\ UNCHANGED <<queue, pc, r, stop, loop, todo, hist>>

\* The rest of the callback, after it released the mutex.
CallbackComplete(o) ==
    /\ cb[o] = "erased"
    /\ r' = [r EXCEPT ![o] = "canceled"]
    /\ pc' = [pc EXCEPT ![o] = "resumed"]
    /\ cb' = [cb EXCEPT ![o] = "over"]
    /\ UNCHANGED <<queue, stop, loop, todo, hist>>

-----------------------------------------------------------------------------
(* Synchronous members.  A caller starts a call when it has left the last. *)

Enters(c) == mtx = Null /\ todo[c] = << >> /\ loop[c] = "none"

TryEnqueue(c, v) ==
    /\ Enters(c)
    /\ v \in Items \ used
    /\ ~endMarked
    /\ ~EnqueueFull
    /\ used' = used \cup {v}
    /\ deqW' = AfterOldest(deqW)
    /\ IF Oldest(deqW) # Null
       THEN /\ todo' = [todo EXCEPT ![c] = << <<Oldest(deqW), v>> >>]
            /\ out' = Append(out, v)
            /\ UNCHANGED resQueue
       ELSE /\ resQueue' = Append(resQueue, v)
            /\ UNCHANGED <<todo, out>>
    /\ UNCHANGED <<mtx, cap, endMarked, enqW, pc, r, cb, stop, loop, got, dropped>>

TryDequeue(c) ==
    /\ Enters(c)
    /\ resQueue # << >>
    /\ PopAndRefill
    /\ todo' = [todo EXCEPT ![c] = RefilledBy]
    /\ got' = got \cup {Head(resQueue)}
    /\ UNCHANGED <<mtx, cap, endMarked, deqW, pc, r, cb, stop, loop, used, dropped>>

\* force_enqueue_range(): the values are appended whatever the capacity...
ForceEnqueueRange(c, s) ==
    /\ Enters(c)
    /\ ~endMarked
    /\ mtx' = c
    /\ loop' = [loop EXCEPT ![c] = "feed"]
    /\ resQueue' = resQueue \o s
    /\ used' = used \cup {s[i] : i \in 1..Len(s)}
    /\ UNCHANGED <<cap, endMarked, enqW, deqW, pc, r, cb, stop, todo, out, got, dropped>>

\* ... then each iteration gives the head to the oldest dequeue waiter.
FeedWaiter(c) ==
    /\ loop[c] = "feed"
    /\ deqW' = AfterOldest(deqW)
    /\ LET last == Oldest(deqW) = Null \/ Len(resQueue) = 1 IN
       /\ loop' = [loop EXCEPT ![c] = IF last THEN "none" ELSE @]
       /\ mtx' = IF last THEN Null ELSE mtx
    /\ IF Oldest(deqW) # Null
       THEN /\ todo' = [todo EXCEPT ![c] = Append(@, <<Oldest(deqW), Head(resQueue)>>)]
            /\ out' = Append(out, Head(resQueue))
            /\ resQueue' = Tail(resQueue)
       ELSE UNCHANGED <<todo, out, resQueue>>
    /\ UNCHANGED <<cap, endMarked, enqW, pc, r, cb, stop, used, got, dropped>>

\* force_dequeue_all(): everything leaves the queue...
ForceDequeueAll(c) ==
    /\ Enters(c)
    /\ resQueue # << >>
    /\ mtx' = c
    /\ loop' = [loop EXCEPT ![c] = "refill"]
    /\ resQueue' = << >>
    /\ out' = out \o resQueue
    /\ got' = got \cup {resQueue[i] : i \in 1..Len(resQueue)}
    /\ UNCHANGED <<cap, endMarked, enqW, deqW, pc, r, cb, stop, todo, used, dropped>>

\* ... then each iteration moves in the value of the oldest enqueue waiter.
RefillFromWaiter(c) ==
    /\ loop[c] = "refill"
    /\ enqW' = AfterOldest(enqW)
    /\ LET last == Oldest(enqW) = Null \/ Len(resQueue) + 1 >= cap IN
       /\ loop' = [loop EXCEPT ![c] = IF last THEN "none" ELSE @]
       /\ mtx' = IF last THEN Null ELSE mtx
    /\ IF Oldest(enqW) # Null
       THEN /\ todo' = [todo EXCEPT ![c] = Append(@, <<Oldest(enqW), "expect">>)]
            /\ resQueue' = Append(resQueue, Oldest(enqW))
       ELSE UNCHANGED <<todo, resQueue>>
    /\ UNCHANGED <<cap, endMarked, deqW, pc, r, cb, stop, hist>>

IncreaseCapacity(c) ==
    /\ Enters(c)
    /\ cap < MaxCap
    /\ cap' = cap + 1
    /\ UNCHANGED <<mtx, endMarked, resQueue, enqW, deqW, pc, r, cb, stop, loop, todo, hist>>

Clear(c) ==
    /\ WithClear
    /\ Enters(c)
    /\ dropped' = dropped \cup {resQueue[i] : i \in 1..Len(resQueue)}
    /\ resQueue' = << >>
    /\ UNCHANGED <<mtx, cap, endMarked, enqW, deqW, pc, r, cb, stop, loop, todo, used, out, got>>

\* What take_all() hands to mark_end(), deleted slots included.
EndReached(w) == [i \in 1..Len(w) |-> <<w[i], "end_reached">>]

\* Mutant: take_all() is forgotten.
MarkEndKeepsWaiters(c) ==
    /\ Enters(c)
    /\ ~endMarked
    /\ endMarked' = TRUE
    /\ UNCHANGED <<mtx, cap, resQueue, enqW, deqW, pc, r, cb, stop, loop, todo, hist>>

MarkEnd(c) ==
    /\ Enters(c)
    /\ ~endMarked
    /\ endMarked' = TRUE
    /\ deqW' = << >>
    /\ todo' = [todo EXCEPT ![c] = EndReached(deqW)]
    /\ UNCHANGED <<mtx, cap, resQueue, enqW, pc, r, cb, stop, loop, hist>>

ClearEndMark(c) ==
    /\ Enters(c)
    /\ endMarked
    /\ endMarked' = FALSE
    /\ UNCHANGED <<mtx, cap, resQueue, enqW, deqW, pc, r, cb, stop, loop, todo, hist>>

-----------------------------------------------------------------------------
\* Bound: ranges of one or two values.
Ranges == {s \in [{1} -> Items \ used] \cup [{1, 2} -> Items \ used] :
              Len(s) = 2 => s[1] # s[2]}

Next ==
    \/ \E o \in Ops : CheckStop(o) \/ RequestStop(o) \/ CallbackErase(o) \/ CallbackComplete(o)
    \/ \E e \in Enq : EnqueueLocked(e)
    \/ \E d \in Deq : DequeueLocked(d)
    \/ \E a \in Actors : Complete(a)
    \/ \E c \in Callers :
          \/ \E v \in Items : TryEnqueue(c, v)
          \/ TryDequeue(c)
          \/ \E s \in Ranges : ForceEnqueueRange(c, s)
          \/ FeedWaiter(c)
          \/ ForceDequeueAll(c)
          \/ RefillFromWaiter(c)
          \/ IncreaseCapacity(c)
          \/ Clear(c)
          \/ MarkEnd(c)
          \/ ClearEndMark(c)

Spec == Init /\ [][Next]_vars

(* A thread inside a call, a completion or a callback keeps running, and a *)
(* free mutex is eventually obtained by a thread that waits for it.  No op *)
(* has to be initiated, no member called and no stop requested.            *)
Fairness ==
    /\ \A o \in Ops : WF_vars(CallbackErase(o)) /\ WF_vars(CallbackComplete(o))
    /\ \A e \in Enq : WF_vars(EnqueueLocked(e))
    /\ \A d \in Deq : WF_vars(DequeueLocked(d))
    /\ \A a \in Actors : WF_vars(Complete(a))
    /\ \A c \in Callers : WF_vars(FeedWaiter(c)) /\ WF_vars(RefillFromWaiter(c))

FairSpec == Spec /\ Fairness

-----------------------------------------------------------------------------
Results == {"expect", "canceled", "end_reached"} \cup Vals
Completions == (Ops \cup {Null}) \X Results

TypeOK ==
    /\ mtx \in Actors \cup {Null}
    /\ cap \in Nat \ {0}
    /\ endMarked \in BOOLEAN
    /\ resQueue \in Seq(Vals)
    /\ enqW \in Seq(Enq \cup {Null})
    /\ deqW \in Seq(Deq \cup {Null})
    /\ pc \in [Ops -> {"idle", "checked", "returning", "waiting", "relocking",
                       "returned", "resumed"}]
    /\ r \in [Ops -> Results \cup {Null}]
    /\ cb \in [Ops -> {"none", "armed", "fired", "erased", "over"}]
    /\ stop \in [Ops -> BOOLEAN]
    /\ loop \in [Callers -> {"none", "feed", "refill"}]
    /\ todo \in [Actors -> Seq(Completions)]
    /\ used \subseteq Items
    /\ out \in Seq(Vals)
    /\ got \subseteq Vals
    /\ dropped \subseteq Vals

\* integrity_assert_no_lock(), checked on every entry of the critical sections:
\* an empty queue has no enqueue waiter and a non-empty one no dequeue waiter,
\* slots marked as deleted included.  It is what makes a waiting op reachable:
\* the next dequeue (enqueue) finds the oldest enqueue (dequeue) waiter.
Integrity ==
    mtx = Null => IF resQueue = << >> THEN enqW = << >> ELSE deqW = << >>

\* Who is responsible for completing op o: a slot of a waiter queue, an entry
\* of some actor's pending completions, or the stop callback that erased it.
Entries(o, a)    == {i \in 1..Len(todo[a]) : todo[a][i][1] = o}
SlotOwners(o)    == {<<"slot", i>> : i \in SlotsOf(o, enqW) \cup SlotsOf(o, deqW)}
TodoOwners(o)    == UNION {{<<a, i>> : i \in Entries(o, a)} : a \in Actors}
CallbackOwner(o) == IF cb[o] = "erased" THEN {<<"callback", 0>>} ELSE {}
Owners(o)        == SlotOwners(o) \cup TodoOwners(o) \cup CallbackOwner(o)

\* A waiting op has exactly one owner, so that it is neither completed twice
\* (the DSK_ASSERT(! _r) of complete, complete_with_err and the stop callback)
\* nor forgotten; an op that has its result has none.
OneOwner ==
    \A o \in Ops :
        /\ pc[o] = "waiting" => r[o] = Null /\ Cardinality(Owners(o)) = 1
        /\ r[o] # Null => Owners(o) = {}

Entered == {resQueue[i] : i \in 1..Len(resQueue)} \cup {out[i] : i \in 1..Len(out)} \cup dropped

\* Places where a value that left the queue is, or was, handed over.
Receivers(v) ==
         {d \in Deq : r[d] = v}
    \cup {d \in Deq : \E a \in Actors : \E i \in 1..Len(todo[a]) : todo[a][i] = <<d, v>>}
    \cup {x \in {Null} : v \in got}

\* No value is lost, duplicated or invented between the queue, the direct
\* hand-over to a waiting dequeue and the refill from a waiting enqueue: every
\* value that left has one receiver, a value that did not leave has none, and
\* an enqueue reports success exactly when its value went in.
ValuesConserved ==
    /\ \A i, j \in 1..Len(out \o resQueue) :
          (out \o resQueue)[i] = (out \o resQueue)[j] => i = j
    /\ \A v \in Vals :
          Cardinality(Receivers(v)) = IF v \in {out[i] : i \in 1..Len(out)} THEN 1 ELSE 0
    /\ \A e \in Enq :
          /\ r[e] = "expect" => e \in Entered
          /\ r[e] \in {"canceled", "end_reached"} => e \notin Entered

\* After mark_end() no dequeue op is left waiting for a value that nobody may
\* enqueue any more, however dequeue, cancellation and mark_end interleave.
NoDequeueWaitsPastEnd == endMarked => LiveSlots(deqW) = {}

\* Seen from outside, the queue only moves values from its head to the output
\* and new values to its tail, in whichever way waiters take part in it.
Fifo == INSTANCE FifoQueue WITH q <- resQueue, seen <- Entered
FifoSpec == Fifo!Spec

\* A waiting op whose stop is requested is resumed.
StoppedOpFinishes == \A o \in Ops : (pc[o] = "waiting" /\ stop[o]) ~> (r[o] # Null)

\* mark_end() resumes the dequeue ops that were waiting.
EndFinishesDequeue == \A d \in Deq : (pc[d] = "waiting" /\ endMarked) ~> (r[d] # Null)

\* No thread locks the mutex it already holds (README: "The cancellation is
\* thread-safe as long as the stop callback is thread-safe").
NeverRelocks == \A o \in Ops : pc[o] # "relocking"

\* Ops of one kind, callers and items are interchangeable.
Symmetry == Permutations(Enq) \cup Permutations(Deq) \cup Permutations(Items)
=============================================================================
