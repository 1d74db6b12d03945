--------------------------- MODULE ResQueueProofs ---------------------------
(***************************************************************************)
(* Proofs about ResQueue, for any number of ops, callers, values and any   *)
(* capacity.                                                               *)
(***************************************************************************)
EXTENDS ResQueue, SequenceTheorems, FiniteSetTheorems, WellFoundedInduction, TLAPS

-----------------------------------------------------------------------------
(* The waiter queue. *)

\* Min of FiniteSetsExt is what its name says on sets of naturals.
LEMMA MinOfNaturals ==
    ASSUME NEW S \in SUBSET Nat, S # {}
    PROVE  Min(S) \in S /\ \A y \in S : Min(S) <= y
<1> DEFINE LessThan == {ss \in Nat \X Nat : ss[1] < ss[2]}
<1>0. IsWellFoundedOn(LessThan, Nat)
  BY NatLessThanWellFounded DEF OpToRel
<1>1. PICK x \in S : \A y \in S : ~(<<y, x>> \in LessThan)
  <2> HIDE DEF LessThan
  <2> QED
    BY <1>0, WFMin
<1>2. \A y \in S : ~(y < x)
  BY <1>1
<1>3. \A y \in S : x <= y
  BY <1>2
<1> QED
  BY <1>3 DEF Min

\* take_oldest() returns an op of the queue, and returns null exactly when
\* nothing but deleted slots was left, all of which it has then removed.
LEMMA TakeOldest ==
    ASSUME NEW S, NEW w \in Seq(S \cup {Null}), Null \notin S
    PROVE  /\ Oldest(w) \in S \cup {Null}
           /\ AfterOldest(w) \in Seq(S \cup {Null})
           /\ Oldest(w) = Null <=> LiveSlots(w) = {}
           /\ Oldest(w) = Null => AfterOldest(w) = << >>
           /\ w = << >> => Oldest(w) = Null
<1>1. LiveSlots(w) \in SUBSET Nat
  BY DEF LiveSlots
<1>2. CASE LiveSlots(w) = {}
  <2>1. Oldest(w) = Null /\ AfterOldest(w) = << >>
    BY <1>2 DEF Oldest, AfterOldest
  <2>2. << >> \in Seq(S \cup {Null})
    OBVIOUS
  <2> QED
    BY <2>1, <2>2, <1>2
<1>3. CASE LiveSlots(w) # {}
  <2> DEFINE m == Min(LiveSlots(w))
  <2>1. m \in LiveSlots(w)
    BY <1>1, <1>3, MinOfNaturals
  <2>2. m \in 1..Len(w) /\ w[m] # Null
    BY <2>1 DEF LiveSlots
  <2>3. w[m] \in S \cup {Null}
    BY <2>2, ElementOfSeq
  <2>4. Oldest(w) = w[m] /\ AfterOldest(w) = SubSeq(w, m + 1, Len(w))
    BY <1>3 DEF Oldest, AfterOldest
  <2>5. SubSeq(w, m + 1, Len(w)) \in Seq(S \cup {Null})
    BY <2>2, SubSeqProperties
  <2>6. w # << >>
    BY <2>2
  <2> QED
    BY <2>2, <2>3, <2>4, <2>5, <2>6, <1>3
<1> QED
  BY <1>2, <1>3

\* erase() keeps the slots and makes no op live.
LEMMA EraseKeepsSlots ==
    ASSUME NEW S, NEW w \in Seq(S \cup {Null}), NEW o
    PROVE  /\ Erase(o, w) \in Seq(S \cup {Null})
           /\ Erase(o, w) = << >> <=> w = << >>
           /\ LiveSlots(Erase(o, w)) \subseteq LiveSlots(w)
<1>1. \A i \in 1..Len(w) : w[i] \in S \cup {Null}
  BY ElementOfSeq
<1>2. Len(w) \in Nat
  OBVIOUS
<1>3. /\ Erase(o, w) \in Seq(S \cup {Null})
      /\ Len(Erase(o, w)) = Len(w)
  BY <1>1, <1>2 DEF Erase
<1>4. \A i \in 1..Len(w) : Erase(o, w)[i] # Null => w[i] # Null
  BY DEF Erase
<1> QED
  BY <1>3, <1>4, EmptySeq DEF LiveSlots

-----------------------------------------------------------------------------
(* Type correctness.  It needs to know that the loop of                    *)
(* force_enqueue_range() runs with the mutex held and never on an empty    *)
(* queue, whose head it would read.                                        *)

LoopInv ==
    \A c \in Callers :
        /\ loop[c] # "none" => mtx = c
        /\ loop[c] = "feed" => resQueue # << >>

\* The facts about the waiter queues that every action needs.
LEMMA WaiterTypes ==
    ASSUME TypeOK
    PROVE  /\ Oldest(enqW) \in Enq \cup {Null}
           /\ AfterOldest(enqW) \in Seq(Enq \cup {Null})
           /\ Oldest(deqW) \in Deq \cup {Null}
           /\ AfterOldest(deqW) \in Seq(Deq \cup {Null})
<1>1. Null \notin Enq /\ Null \notin Deq
  BY NameAssumption DEF Actors, Ops
<1>2. enqW \in Seq(Enq \cup {Null}) /\ deqW \in Seq(Deq \cup {Null})
  BY DEF TypeOK
<1> QED
  BY <1>1, <1>2, TakeOldest

\* The constructor's state has the types.
LEMMA TypeInit == Init => TypeOK
<1> SUFFICES ASSUME Init PROVE TypeOK
  OBVIOUS
<1>1. << >> \in Seq(Vals) /\ << >> \in Seq(Completions)
  OBVIOUS
<1>2. << >> \in Seq(Enq \cup {Null}) /\ << >> \in Seq(Deq \cup {Null})
  OBVIOUS
<1> QED
  BY <1>1, <1>2, CapAssumption DEF Init, TypeOK

\* The check of the stop token, request_stop() and the stop callback keep the
\* types.
LEMMA TypeInitiate ==
    ASSUME TypeOK, NEW o \in Ops,
           \/ CheckStop(o) \/ RequestStop(o)
           \/ CallbackErase(o) \/ CallbackComplete(o)
    PROVE  TypeOK'
<1>1. CASE CheckStop(o)
  BY <1>1 DEF CheckStop, TypeOK, queue, hist, Results
<1>2. CASE RequestStop(o)
  BY <1>2 DEF RequestStop, TypeOK, queue, hist
<1>3. CASE CallbackErase(o)
  <2>1. /\ Erase(o, enqW) \in Seq(Enq \cup {Null})
        /\ Erase(o, deqW) \in Seq(Deq \cup {Null})
    BY EraseKeepsSlots DEF TypeOK
  <2> QED
    BY <1>3, <2>1 DEF CallbackErase, TypeOK, hist
<1>4. CASE CallbackComplete(o)
  BY <1>4 DEF CallbackComplete, TypeOK, queue, hist, Results
<1> QED
  BY <1>1, <1>2, <1>3, <1>4

\* What an initiate() does to the state of its op besides the queues.
LEMMA TypeFinishes ==
    ASSUME TypeOK, NEW o \in Ops, NEW s \in Seq(Completions), Finishes(o, s)
    PROVE  /\ mtx' = mtx
           /\ cb' = cb
           /\ pc' \in [Ops -> {"idle", "checked", "returning", "waiting", "relocking",
                               "returned", "resumed"}]
           /\ todo' \in [Actors -> Seq(Completions)]
  BY DEF Finishes, TypeOK

\* The branch of initiate() that leaves the op waiting keeps the types of what
\* it sets.
LEMMA TypeWaits ==
    ASSUME TypeOK, NEW o \in Ops, WaitsWithCallback(o)
    PROVE  /\ mtx' \in Actors \cup {Null}
           /\ cb' \in [Ops -> {"none", "armed", "fired", "erased", "over"}]
           /\ pc' \in [Ops -> {"idle", "checked", "returning", "waiting", "relocking",
                               "returned", "resumed"}]
           /\ todo' \in [Actors -> Seq(Completions)]
  BY DEF WaitsWithCallback, TypeOK, Actors

\* The critical section of an enqueue op keeps the types.
LEMMA TypeEnqueue ==
    ASSUME TypeOK, NEW e \in Enq, EnqueueLocked(e)
    PROVE  TypeOK'
<1>0. e \in Ops /\ e \in Vals
  BY DEF Ops, Vals
<1>e. {<<e, "end_reached">>, <<e, "expect">>} \subseteq Completions
  BY <1>0 DEF Completions, Results
<1>1. CASE endMarked
  <2>1. << <<e, "end_reached">> >> \in Seq(Completions)
    BY <1>e
  <2>2. Finishes(e, << <<e, "end_reached">> >>) /\ UNCHANGED <<resQueue, enqW, deqW, out>>
    BY <1>1 DEF EnqueueLocked
  <2> QED
    BY <1>0, <2>1, <2>2, TypeFinishes DEF EnqueueLocked, TypeOK
<1>2. CASE ~endMarked /\ EnqueueFull
  <2>1. WaitsWithCallback(e) /\ UNCHANGED <<resQueue, deqW, out>>
    BY <1>2 DEF EnqueueLocked
  <2>a. enqW' = enqW \/ enqW' = Append(enqW, e)
    BY <1>2 DEF EnqueueLocked
  <2>b. enqW \in Seq(Enq \cup {Null}) /\ e \in Enq \cup {Null}
    BY DEF TypeOK
  <2>2. enqW' \in Seq(Enq \cup {Null})
    BY <2>a, <2>b, AppendProperties
  <2> QED
    BY <1>0, <2>1, <2>2, TypeWaits DEF EnqueueLocked, TypeOK
<1>3. CASE ~endMarked /\ ~EnqueueFull
  <2>1. /\ enqW' \in Seq(Enq \cup {Null})
        /\ deqW' \in Seq(Deq \cup {Null})
    BY <1>3, WaiterTypes DEF EnqueueLocked, TypeOK
  <2>a. /\ resQueue' = resQueue \/ resQueue' = Append(resQueue, e)
        /\ out' = out \/ out' = Append(out, e)
    BY <1>3 DEF EnqueueLocked
  <2>b. resQueue \in Seq(Vals) /\ out \in Seq(Vals)
    BY DEF TypeOK
  <2>c. Append(resQueue, e) \in Seq(Vals) /\ Append(out, e) \in Seq(Vals)
    BY <1>0, <2>b, AppendProperties
  <2>2. resQueue' \in Seq(Vals) /\ out' \in Seq(Vals)
    BY <2>a, <2>b, <2>c
  <2>3. PICK s \in Seq(Completions) : Finishes(e, s)
    <3>1. CASE Oldest(deqW) # Null
      <4>1. <<Oldest(deqW), e>> \in Completions
        BY <1>0, WaiterTypes DEF Completions, Results, Ops
      <4>2. << <<Oldest(deqW), e>>, <<e, "expect">> >> \in Seq(Completions)
        BY <4>1, <1>e
      <4> QED
        BY <1>3, <3>1, <4>2 DEF EnqueueLocked
    <3>2. CASE Oldest(deqW) = Null
      <4>1. << <<e, "expect">> >> \in Seq(Completions)
        BY <1>e
      <4> QED
        BY <1>3, <3>2, <4>1 DEF EnqueueLocked
    <3> QED
      BY <3>1, <3>2
  <2> QED
    BY <1>0, <2>1, <2>2, <2>3, TypeFinishes DEF EnqueueLocked, TypeOK
<1> QED
  BY <1>1, <1>2, <1>3

\* try_dequeue_no_lock() of a non-empty queue.
LEMMA TypePop ==
    ASSUME TypeOK, resQueue # << >>, PopAndRefill
    PROVE  /\ Head(resQueue) \in Vals
           /\ resQueue' \in Seq(Vals)
           /\ enqW' \in Seq(Enq \cup {Null})
           /\ out' \in Seq(Vals)
           /\ RefilledBy \in Seq(Completions)
<1>1. resQueue \in Seq(Vals) /\ out \in Seq(Vals)
  BY DEF TypeOK
<1>2. Head(resQueue) \in Vals /\ Tail(resQueue) \in Seq(Vals)
  BY <1>1, HeadTailProperties
<1>3. enqW' \in Seq(Enq \cup {Null})
  BY WaiterTypes DEF PopAndRefill
<1>4. out' \in Seq(Vals)
  BY <1>1, <1>2, AppendProperties DEF PopAndRefill
<1>5. CASE Oldest(enqW) = Null
  <2>1. resQueue' = Tail(resQueue) /\ RefilledBy = << >>
    BY <1>5 DEF PopAndRefill, RefilledBy
  <2>2. << >> \in Seq(Completions)
    OBVIOUS
  <2> QED
    BY <1>2, <1>3, <1>4, <2>1, <2>2
<1>6. CASE Oldest(enqW) # Null
  <2>1. Oldest(enqW) \in Vals /\ Oldest(enqW) \in Ops
    BY <1>6, WaiterTypes DEF Vals, Ops
  <2>2. Append(Tail(resQueue), Oldest(enqW)) \in Seq(Vals)
    BY <1>2, <2>1, AppendProperties
  <2>3. <<Oldest(enqW), "expect">> \in Completions
    BY <2>1 DEF Completions, Results
  <2>4. << <<Oldest(enqW), "expect">> >> \in Seq(Completions)
    BY <2>3
  <2>5. /\ resQueue' = Append(Tail(resQueue), Oldest(enqW))
        /\ RefilledBy = << <<Oldest(enqW), "expect">> >>
    BY <1>6 DEF PopAndRefill, RefilledBy
  <2> QED
    BY <1>2, <1>3, <1>4, <2>2, <2>4, <2>5
<1> QED
  BY <1>5, <1>6

\* The critical section of a dequeue op keeps the types.
LEMMA TypeDequeue ==
    ASSUME TypeOK, NEW d \in Deq, DequeueLocked(d)
    PROVE  TypeOK'
<1>0. d \in Ops
  BY DEF Ops
<1>1. CASE resQueue = << >> /\ endMarked
  <2>1. <<d, "end_reached">> \in Completions
    BY <1>0 DEF Completions, Results
  <2>2. << <<d, "end_reached">> >> \in Seq(Completions)
    BY <2>1
  <2>3. Finishes(d, << <<d, "end_reached">> >>) /\ UNCHANGED <<resQueue, enqW, deqW, out>>
    BY <1>1 DEF DequeueLocked
  <2> QED
    BY <1>0, <2>2, <2>3, TypeFinishes DEF DequeueLocked, TypeOK
<1>2. CASE resQueue = << >> /\ ~endMarked
  <2>1. WaitsWithCallback(d) /\ UNCHANGED <<resQueue, enqW, out>>
    BY <1>2 DEF DequeueLocked
  <2>2. deqW' = deqW \/ deqW' = Append(deqW, d)
    BY <1>2 DEF DequeueLocked
  <2>3. deqW \in Seq(Deq \cup {Null}) /\ d \in Deq \cup {Null}
    BY DEF TypeOK
  <2>4. deqW' \in Seq(Deq \cup {Null})
    BY <2>2, <2>3, AppendProperties
  <2> QED
    BY <1>0, <2>1, <2>4, TypeWaits DEF DequeueLocked, TypeOK
<1>3. CASE resQueue # << >>
  <2>1. /\ PopAndRefill
        /\ Finishes(d, RefilledBy \o << <<d, Head(resQueue)>> >>)
        /\ UNCHANGED deqW
    BY <1>3 DEF DequeueLocked
  <2>2. /\ Head(resQueue) \in Vals
        /\ resQueue' \in Seq(Vals)
        /\ enqW' \in Seq(Enq \cup {Null})
        /\ out' \in Seq(Vals)
        /\ RefilledBy \in Seq(Completions)
    BY <1>3, <2>1, TypePop
  <2>3. <<d, Head(resQueue)>> \in Completions
    BY <1>0, <2>2 DEF Completions, Results
  <2>4. << <<d, Head(resQueue)>> >> \in Seq(Completions)
    BY <2>3
  <2>5. RefilledBy \o << <<d, Head(resQueue)>> >> \in Seq(Completions)
    BY <2>2, <2>4, ConcatProperties
  <2> QED
    BY <1>0, <2>1, <2>2, <2>5, TypeFinishes DEF DequeueLocked, TypeOK
<1> QED
  BY <1>1, <1>2, <1>3

\* Completing an op, or passing over a deleted slot, keeps the types.
LEMMA TypeComplete ==
    ASSUME TypeOK, NEW a \in Actors, Complete(a)
    PROVE  TypeOK'
<1>1. todo[a] \in Seq(Completions) /\ todo[a] # << >>
  BY DEF TypeOK, Complete
<1>2. Head(todo[a]) \in Completions /\ Tail(todo[a]) \in Seq(Completions)
  BY <1>1, HeadTailProperties
<1>3. todo' \in [Actors -> Seq(Completions)]
  BY <1>2 DEF Complete, TypeOK
<1>4. Head(todo[a])[1] \in Ops \cup {Null} /\ Head(todo[a])[2] \in Results
  BY <1>2 DEF Completions
<1>5. CASE Head(todo[a])[1] = Null
  BY <1>3, <1>5 DEF Complete, TypeOK, queue, hist
<1>6. CASE Head(todo[a])[1] # Null
  <2>1. /\ r' \in [Ops -> Results \cup {Null}]
        /\ pc' \in [Ops -> {"idle", "checked", "returning", "waiting", "relocking",
                            "returned", "resumed"}]
    BY <1>4, <1>6 DEF Complete, TypeOK
  <2> QED
    BY <1>3, <2>1 DEF Complete, TypeOK, queue, hist
<1> QED
  BY <1>5, <1>6

\* try_enqueue() and try_dequeue() keep the types.
LEMMA TypeTry ==
    ASSUME TypeOK, NEW c \in Callers,
           (\E v \in Items : TryEnqueue(c, v)) \/ TryDequeue(c)
    PROVE  TypeOK'
<1>0. c \in Actors
  BY DEF Actors
<1>1. ASSUME NEW v \in Items, TryEnqueue(c, v)
      PROVE  TypeOK'
  <2>1. /\ v \in Vals
        /\ resQueue \in Seq(Vals) /\ out \in Seq(Vals)
    BY DEF Vals, TypeOK
  <2>2. Append(resQueue, v) \in Seq(Vals) /\ Append(out, v) \in Seq(Vals)
    BY <2>1, AppendProperties
  <2>3. used' \subseteq Items /\ deqW' \in Seq(Deq \cup {Null})
    BY <1>1, WaiterTypes DEF TryEnqueue, TypeOK
  <2>4. CASE Oldest(deqW) # Null
    <3>1. <<Oldest(deqW), v>> \in Completions
      BY <2>1, WaiterTypes DEF Completions, Results, Ops
    <3>2. << <<Oldest(deqW), v>> >> \in Seq(Completions)
      BY <3>1
    <3>3. /\ todo' = [todo EXCEPT ![c] = << <<Oldest(deqW), v>> >>]
          /\ out' = Append(out, v)
          /\ resQueue' = resQueue
      BY <1>1, <2>4 DEF TryEnqueue
    <3>4. todo' \in [Actors -> Seq(Completions)]
      BY <1>0, <3>2, <3>3 DEF TypeOK
    <3> QED
      BY <1>1, <2>2, <2>3, <3>3, <3>4 DEF TryEnqueue, TypeOK
  <2>5. CASE Oldest(deqW) = Null
    <3>1. resQueue' = Append(resQueue, v) /\ UNCHANGED <<todo, out>>
      BY <1>1, <2>5 DEF TryEnqueue
    <3> QED
      BY <1>1, <2>2, <2>3, <3>1 DEF TryEnqueue, TypeOK
  <2> QED
    BY <2>4, <2>5
<1>2. CASE TryDequeue(c)
  <2>1. /\ Head(resQueue) \in Vals
        /\ resQueue' \in Seq(Vals)
        /\ enqW' \in Seq(Enq \cup {Null})
        /\ out' \in Seq(Vals)
        /\ RefilledBy \in Seq(Completions)
    BY <1>2, TypePop DEF TryDequeue
  <2>2. todo' \in [Actors -> Seq(Completions)]
    BY <1>0, <1>2, <2>1 DEF TryDequeue, TypeOK
  <2> QED
    BY <1>2, <2>1, <2>2 DEF TryDequeue, TypeOK
<1> QED
  BY <1>1, <1>2

\* The ranges given to force_enqueue_range() are sequences of items.
LEMMA RangesAreSequences ==
    ASSUME NEW s \in Ranges
    PROVE  s \in Seq(Items) /\ s # << >>
<1>1. s \in [{1} -> Items] \/ s \in [{1, 2} -> Items]
  BY DEF Ranges
<1>2. {1} = 1..1 /\ {1, 2} = 1..2 /\ 1 \in Nat /\ 2 \in Nat
  OBVIOUS
<1>3. s \in Seq(Items)
  <2>1. \A n \in Nat : [1..n -> Items] \subseteq Seq(Items)
    BY SeqDef
  <2>2. s \in [1..1 -> Items] \/ s \in [1..2 -> Items]
    BY <1>1, <1>2, Zenon
  <2> QED
    BY <1>2, <2>1, <2>2, Zenon
<1>4. 1 \in DOMAIN s
  BY <1>1
<1> QED
  BY <1>3, <1>4, LenProperties, EmptySeq

\* The two force_ members and the iterations of their loops keep the types.
LEMMA TypeForce ==
    ASSUME TypeOK, LoopInv, NEW c \in Callers,
           \/ \E s \in Ranges : ForceEnqueueRange(c, s)
           \/ FeedWaiter(c)
           \/ ForceDequeueAll(c)
           \/ RefillFromWaiter(c)
    PROVE  TypeOK'
<1>0. c \in Actors
  BY DEF Actors
<1>a. resQueue \in Seq(Vals) /\ out \in Seq(Vals) /\ todo[c] \in Seq(Completions)
  BY <1>0 DEF TypeOK
<1>1. ASSUME NEW s \in Ranges, ForceEnqueueRange(c, s)
      PROVE  TypeOK'
  <2>1. s \in Seq(Items)
    BY RangesAreSequences
  <2>2. s \in Seq(Vals)
    BY <2>1, SeqMonotonic DEF Vals
  <2>3. resQueue \o s \in Seq(Vals)
    BY <1>a, <2>2, ConcatProperties
  <2>4. {s[i] : i \in 1..Len(s)} \subseteq Items
    BY <2>1, ElementOfSeq
  <2>5. used' \subseteq Items
    BY <1>1, <2>4 DEF ForceEnqueueRange, TypeOK
  <2> QED
    BY <1>0, <1>1, <2>3, <2>5 DEF ForceEnqueueRange, TypeOK
<1>2. CASE FeedWaiter(c)
  <2>1. /\ deqW' \in Seq(Deq \cup {Null})
        /\ loop' \in [Callers -> {"none", "feed", "refill"}]
        /\ mtx' \in Actors \cup {Null}
    BY <1>2, WaiterTypes DEF FeedWaiter, TypeOK
  <2>2. CASE Oldest(deqW) = Null
    BY <1>2, <2>1, <2>2 DEF FeedWaiter, TypeOK
  <2>3. CASE Oldest(deqW) # Null
    <3>1. resQueue # << >>
      BY <1>2 DEF FeedWaiter, LoopInv
    <3>2. Head(resQueue) \in Vals /\ Tail(resQueue) \in Seq(Vals)
      BY <1>a, <3>1, HeadTailProperties
    <3>3. <<Oldest(deqW), Head(resQueue)>> \in Completions
      BY <2>3, <3>2, WaiterTypes DEF Completions, Results, Ops
    <3>4. /\ Append(out, Head(resQueue)) \in Seq(Vals)
          /\ Append(todo[c], <<Oldest(deqW), Head(resQueue)>>) \in Seq(Completions)
      BY <1>a, <3>2, <3>3, AppendProperties
    <3>5. /\ todo' = [todo EXCEPT ![c] = Append(@, <<Oldest(deqW), Head(resQueue)>>)]
          /\ out' = Append(out, Head(resQueue))
          /\ resQueue' = Tail(resQueue)
      BY <1>2, <2>3 DEF FeedWaiter
    <3>6. todo' \in [Actors -> Seq(Completions)]
      BY <1>0, <3>4, <3>5 DEF TypeOK
    <3> QED
      BY <1>2, <2>1, <3>2, <3>4, <3>5, <3>6 DEF FeedWaiter, TypeOK
  <2> QED
    BY <2>2, <2>3
<1>3. CASE ForceDequeueAll(c)
  <2>1. << >> \in Seq(Vals) /\ out \o resQueue \in Seq(Vals)
    BY <1>a, ConcatProperties
  <2>2. {resQueue[i] : i \in 1..Len(resQueue)} \subseteq Vals
    BY <1>a, ElementOfSeq
  <2>3. got' \subseteq Vals
    BY <1>3, <2>2 DEF ForceDequeueAll, TypeOK
  <2> QED
    BY <1>0, <1>3, <2>1, <2>3 DEF ForceDequeueAll, TypeOK
<1>4. CASE RefillFromWaiter(c)
  <2>1. /\ enqW' \in Seq(Enq \cup {Null})
        /\ loop' \in [Callers -> {"none", "feed", "refill"}]
        /\ mtx' \in Actors \cup {Null}
    BY <1>4, WaiterTypes DEF RefillFromWaiter, TypeOK
  <2>2. CASE Oldest(enqW) = Null
    BY <1>4, <2>1, <2>2 DEF RefillFromWaiter, TypeOK, hist
  <2>3. CASE Oldest(enqW) # Null
    <3>1. Oldest(enqW) \in Vals /\ Oldest(enqW) \in Ops
      BY <2>3, WaiterTypes DEF Vals, Ops
    <3>2. <<Oldest(enqW), "expect">> \in Completions
      BY <3>1 DEF Completions, Results
    <3>3. /\ Append(resQueue, Oldest(enqW)) \in Seq(Vals)
          /\ Append(todo[c], <<Oldest(enqW), "expect">>) \in Seq(Completions)
      BY <1>a, <3>1, <3>2, AppendProperties
    <3>4. /\ todo' = [todo EXCEPT ![c] = Append(@, <<Oldest(enqW), "expect">>)]
          /\ resQueue' = Append(resQueue, Oldest(enqW))
      BY <1>4, <2>3 DEF RefillFromWaiter
    <3>5. todo' \in [Actors -> Seq(Completions)]
      BY <1>0, <3>3, <3>4 DEF TypeOK
    <3> QED
      BY <1>4, <2>1, <3>3, <3>4, <3>5 DEF RefillFromWaiter, TypeOK, hist
  <2> QED
    BY <2>2, <2>3
<1> QED
  BY <1>1, <1>2, <1>3, <1>4

\* increase_capacity(), clear(), mark_end() and clear_end_mark() keep the
\* types.
LEMMA TypeMisc ==
    ASSUME TypeOK, NEW c \in Callers,
           IncreaseCapacity(c) \/ Clear(c) \/ MarkEnd(c) \/ ClearEndMark(c)
    PROVE  TypeOK'
<1>0. c \in Actors
  BY DEF Actors
<1>1. CASE IncreaseCapacity(c)
  BY <1>1 DEF IncreaseCapacity, TypeOK, hist
<1>2. CASE Clear(c)
  <2>1. resQueue \in Seq(Vals)
    BY DEF TypeOK
  <2>2. << >> \in Seq(Vals) /\ {resQueue[i] : i \in 1..Len(resQueue)} \subseteq Vals
    BY <2>1, ElementOfSeq
  <2>3. dropped' \subseteq Vals
    BY <1>2, <2>2 DEF Clear, TypeOK
  <2> QED
    BY <1>2, <2>2, <2>3 DEF Clear, TypeOK
<1>3. CASE MarkEnd(c)
  <2>1. deqW \in Seq(Deq \cup {Null})
    BY DEF TypeOK
  <2>2. /\ Len(deqW) \in Nat
        /\ \A i \in 1..Len(deqW) : deqW[i] \in Deq \cup {Null}
    BY <2>1, ElementOfSeq, LenProperties
  <2>3. \A i \in 1..Len(deqW) : <<deqW[i], "end_reached">> \in Completions
    BY <2>2 DEF Completions, Results, Ops
  <2>4. EndReached(deqW) \in Seq(Completions)
    BY <2>2, <2>3 DEF EndReached
  <2>5. << >> \in Seq(Deq \cup {Null})
    OBVIOUS
  <2>6. todo' \in [Actors -> Seq(Completions)]
    BY <1>0, <1>3, <2>4 DEF MarkEnd, TypeOK
  <2> QED
    BY <1>3, <2>5, <2>6 DEF MarkEnd, TypeOK, hist
<1>4. CASE ClearEndMark(c)
  BY <1>4 DEF ClearEndMark, TypeOK, hist
<1> QED
  BY <1>1, <1>2, <1>3, <1>4

\* One step preserves LoopInv: whoever else changes the queue takes the mutex.
LEMMA LoopStep ==
    ASSUME TypeOK, LoopInv, [Next]_vars
    PROVE  LoopInv'
<1> SUFFICES ASSUME NEW b \in Callers
             PROVE  /\ loop'[b] # "none" => mtx' = b
                    /\ loop'[b] = "feed" => resQueue' # << >>
  BY DEF LoopInv
<1>0. Null \notin Callers /\ \A o \in Ops : o \notin Callers
  BY NameAssumption DEF Actors
<1>i. /\ loop[b] # "none" => mtx = b
      /\ loop[b] = "feed" => resQueue # << >>
  BY DEF LoopInv
<1>1. ASSUME NEW o \in Ops,
             CheckStop(o) \/ RequestStop(o) \/ CallbackErase(o) \/ CallbackComplete(o)
      PROVE  UNCHANGED <<mtx, loop, resQueue>>
  BY <1>1 DEF CheckStop, RequestStop, CallbackErase, CallbackComplete, queue
<1>2. ASSUME NEW e \in Enq, EnqueueLocked(e)
      PROVE  loop' = loop /\ mtx = Null
  BY <1>2 DEF EnqueueLocked
<1>3. ASSUME NEW d \in Deq, DequeueLocked(d)
      PROVE  loop' = loop /\ mtx = Null
  BY <1>3 DEF DequeueLocked
<1>4. ASSUME NEW a \in Actors, Complete(a)
      PROVE  UNCHANGED <<mtx, loop, resQueue>>
  BY <1>4 DEF Complete, queue
<1>5. ASSUME NEW c \in Callers,
             \/ \E v \in Items : TryEnqueue(c, v)
             \/ TryDequeue(c) \/ IncreaseCapacity(c) \/ Clear(c)
             \/ MarkEnd(c) \/ ClearEndMark(c)
      PROVE  loop' = loop /\ mtx = Null
  BY <1>5 DEF TryEnqueue, TryDequeue, IncreaseCapacity, Clear, MarkEnd, ClearEndMark, Enters
<1>6. CASE UNCHANGED <<mtx, loop, resQueue>>
  BY <1>6, <1>i
<1>7. CASE loop' = loop /\ mtx = Null
  BY <1>7, <1>i, <1>0
<1>8. ASSUME NEW c \in Callers, NEW s \in Ranges, ForceEnqueueRange(c, s)
      PROVE  /\ loop'[b] # "none" => mtx' = b
             /\ loop'[b] = "feed" => resQueue' # << >>
  <2>1. loop' = [loop EXCEPT ![c] = "feed"] /\ mtx = Null /\ mtx' = c
    BY <1>8 DEF ForceEnqueueRange, Enters
  <2>2. resQueue' # << >>
    <3>1. s \in Seq(Items) /\ s # << >>
      BY RangesAreSequences
    <3>2. s \in Seq(Vals)
      BY <3>1, SeqMonotonic DEF Vals
    <3>3. resQueue' = resQueue \o s /\ resQueue \in Seq(Vals)
      BY <1>8 DEF ForceEnqueueRange, TypeOK
    <3> QED
      BY <3>1, <3>2, <3>3, ConcatEmptySeq, ConcatProperties, EmptySeq
  <2> QED
    BY <1>0, <1>i, <2>1, <2>2 DEF TypeOK
<1>9. ASSUME NEW c \in Callers, FeedWaiter(c)
      PROVE  /\ loop'[b] # "none" => mtx' = b
             /\ loop'[b] = "feed" => resQueue' # << >>
  <2>1. /\ loop[c] = "feed" /\ mtx = c
        /\ resQueue # << >> /\ resQueue \in Seq(Vals)
    BY <1>9 DEF FeedWaiter, LoopInv, TypeOK
  <2>2. CASE Oldest(deqW) = Null \/ Len(resQueue) = 1
    <3>1. loop' = [loop EXCEPT ![c] = "none"] /\ mtx' = Null
      BY <1>9, <2>2 DEF FeedWaiter
    <3> QED
      BY <1>i, <2>1, <3>1 DEF TypeOK
  <2>3. CASE Oldest(deqW) # Null /\ Len(resQueue) # 1
    <3>1. loop' = [loop EXCEPT ![c] = loop[c]] /\ mtx' = mtx /\ resQueue' = Tail(resQueue)
      BY <1>9, <2>3 DEF FeedWaiter
    <3>2. Len(Tail(resQueue)) = Len(resQueue) - 1 /\ Len(resQueue) \in Nat
      BY <2>1, HeadTailProperties, LenProperties
    <3>3. Len(resQueue) # 0 /\ Tail(resQueue) \in Seq(Vals)
      BY <2>1, EmptySeq, HeadTailProperties
    <3>a. Len(Tail(resQueue)) # 0
      BY <2>3, <3>2, <3>3
    <3>4. Tail(resQueue) # << >>
      BY <3>a, <3>3, EmptySeq
    <3> QED
      BY <1>i, <2>1, <3>1, <3>4 DEF TypeOK
  <2> QED
    BY <2>2, <2>3
<1>10. ASSUME NEW c \in Callers, ForceDequeueAll(c)
       PROVE  /\ loop'[b] # "none" => mtx' = b
              /\ loop'[b] = "feed" => resQueue' # << >>
  <2>1. loop' = [loop EXCEPT ![c] = "refill"] /\ mtx = Null /\ mtx' = c
    BY <1>10 DEF ForceDequeueAll, Enters
  <2> QED
    BY <1>0, <1>i, <2>1 DEF TypeOK
<1>11. ASSUME NEW c \in Callers, RefillFromWaiter(c)
       PROVE  /\ loop'[b] # "none" => mtx' = b
              /\ loop'[b] = "feed" => resQueue' # << >>
  <2>1. loop[c] = "refill" /\ mtx = c
    BY <1>11 DEF RefillFromWaiter, LoopInv
  <2>2. \/ loop' = [loop EXCEPT ![c] = "none"]
        \/ loop' = [loop EXCEPT ![c] = loop[c]] /\ mtx' = mtx
    BY <1>11 DEF RefillFromWaiter
  <2> QED
    BY <1>i, <2>1, <2>2 DEF TypeOK
<1>12. CASE UNCHANGED vars
  BY <1>12, <1>6 DEF vars, queue
<1> QED
  BY <1>1, <1>2, <1>3, <1>4, <1>5, <1>6, <1>7, <1>8, <1>9, <1>10, <1>11, <1>12 DEF Next

\* The step of type correctness, by the lemmas above.
LEMMA TypeStep ==
    ASSUME TypeOK, LoopInv, [Next]_vars
    PROVE  TypeOK'
<1>1. CASE UNCHANGED vars
  BY <1>1 DEF vars, queue, hist, TypeOK
<1>2. CASE Next
  BY <1>2, TypeInitiate, TypeEnqueue, TypeDequeue, TypeComplete, TypeTry, TypeForce,
     TypeMisc DEF Next
<1> QED
  BY <1>1, <1>2

\* Every reachable state is well typed: in particular no slot of a waiter
\* queue, no pending completion and no value of the queue is ever a dangling
\* or foreign one, and Head is never taken of an empty queue.
THEOREM TypeCorrect == Spec => []TypeOK
<1>1. Init => TypeOK /\ LoopInv
  BY TypeInit DEF Init, LoopInv
<1>2. TypeOK /\ LoopInv /\ [Next]_vars => (TypeOK /\ LoopInv)'
  BY TypeStep, LoopStep
<1> QED
  BY <1>1, <1>2, PTL DEF Spec

-----------------------------------------------------------------------------
(* The integrity assertion.  Inside the loops of the force_ members it     *)
(* does not hold; what does is that one of the two waiter queues stays     *)
(* empty, so that it holds again when the mutex is released.               *)

QueueInv ==
    /\ resQueue = << >> => enqW = << >>
    /\ resQueue # << >> => deqW = << >>

IntegrityInv ==
    /\ (\A c \in Callers : loop[c] = "none") => QueueInv
    /\ \A c \in Callers :
          /\ loop[c] = "feed" => enqW = << >> \/ deqW = << >>
          /\ loop[c] = "refill" => deqW = << >>

\* Appending makes a queue non-empty, and the capacity is never zero.
LEMMA NonEmpty ==
    ASSUME TypeOK
    PROVE  /\ \A v \in Vals : Append(resQueue, v) # << >>
           /\ EnqueueFull => resQueue # << >>
<1>1. resQueue \in Seq(Vals) /\ cap \in Nat \ {0}
  BY DEF TypeOK
<1>2. \A v \in Vals : Append(resQueue, v) # << >>
  BY <1>1, AppendProperties
<1>3. Len(<< >>) = 0
  BY EmptySeq
<1>4. ASSUME resQueue = << >> PROVE ~(Len(resQueue) >= cap)
  BY <1>1, <1>3, <1>4
<1> QED
  BY <1>2, <1>4 DEF EnqueueFull

\* Taking the oldest waiter, in the terms QueueInv needs.
LEMMA TakeWaiters ==
    ASSUME TypeOK
    PROVE  /\ Oldest(enqW) = Null => AfterOldest(enqW) = << >>
           /\ Oldest(deqW) = Null => AfterOldest(deqW) = << >>
           /\ enqW = << >> => Oldest(enqW) = Null
           /\ deqW = << >> => Oldest(deqW) = Null
           /\ LiveSlots(deqW) = {} => Oldest(deqW) = Null
<1>1. Null \notin Enq /\ Null \notin Deq
  BY NameAssumption DEF Actors, Ops
<1>2. enqW \in Seq(Enq \cup {Null}) /\ deqW \in Seq(Deq \cup {Null})
  BY DEF TypeOK
<1> QED
  BY <1>1, <1>2, TakeOldest

\* An enqueue op meets dequeue waiters only when the queue is empty, and
\* leaves none behind a value.
LEMMA IntegrityEnqueue ==
    ASSUME TypeOK, QueueInv, NEW e \in Enq, EnqueueLocked(e)
    PROVE  QueueInv'
<1>0. e \in Vals
  BY DEF Vals
<1>1. CASE endMarked
  BY <1>1 DEF EnqueueLocked, QueueInv
<1>2. CASE ~endMarked /\ EnqueueFull
  <2>1. resQueue # << >> /\ UNCHANGED <<resQueue, deqW>>
    BY <1>2, NonEmpty DEF EnqueueLocked
  <2> QED
    BY <2>1 DEF QueueInv
<1>3. CASE ~endMarked /\ ~EnqueueFull
  <2>1. deqW' = AfterOldest(deqW) /\ enqW' = enqW
    BY <1>3 DEF EnqueueLocked
  <2>2. CASE Oldest(deqW) # Null
    <3>1. resQueue = << >> /\ resQueue' = resQueue
      BY <1>3, <2>2, TakeWaiters DEF EnqueueLocked, QueueInv
    <3> QED
      BY <2>1, <3>1 DEF QueueInv
  <2>3. CASE Oldest(deqW) = Null
    <3>1. resQueue' # << >>
      BY <1>0, <1>3, <2>3, NonEmpty DEF EnqueueLocked
    <3> QED
      BY <2>1, <2>3, <3>1, TakeWaiters DEF QueueInv
  <2> QED
    BY <2>2, <2>3
<1> QED
  BY <1>1, <1>2, <1>3

\* try_dequeue_no_lock() refills from the enqueue waiters before it can leave
\* the queue empty.
LEMMA IntegrityPop ==
    ASSUME TypeOK, QueueInv, resQueue # << >>, PopAndRefill, deqW' = deqW
    PROVE  QueueInv'
<1>1. deqW' = << >>
  BY DEF QueueInv
<1>2. CASE Oldest(enqW) = Null
  <2>1. enqW' = << >>
    BY <1>2, TakeWaiters DEF PopAndRefill
  <2> QED
    BY <1>1, <2>1 DEF QueueInv
<1>3. CASE Oldest(enqW) # Null
  <2>1. Tail(resQueue) \in Seq(Vals) /\ Oldest(enqW) \in Vals
    BY <1>3, WaiterTypes, HeadTailProperties DEF TypeOK, Vals
  <2>2. Append(Tail(resQueue), Oldest(enqW)) # << >>
    BY <2>1, AppendProperties
  <2>3. resQueue' = Append(Tail(resQueue), Oldest(enqW))
    BY <1>3 DEF PopAndRefill
  <2> QED
    BY <1>1, <2>2, <2>3 DEF QueueInv
<1> QED
  BY <1>2, <1>3

\* A dequeue op waits only at an empty queue.
LEMMA IntegrityDequeue ==
    ASSUME TypeOK, QueueInv, NEW d \in Deq, DequeueLocked(d)
    PROVE  QueueInv'
<1>1. CASE resQueue = << >>
  <2>1. resQueue' = resQueue /\ enqW' = enqW
    BY <1>1 DEF DequeueLocked
  <2> QED
    BY <1>1, <2>1 DEF QueueInv
<1>2. CASE resQueue # << >>
  BY <1>2, IntegrityPop DEF DequeueLocked
<1> QED
  BY <1>1, <1>2

\* try_enqueue() and try_dequeue() keep what the two async ops keep.
LEMMA IntegrityTry ==
    ASSUME TypeOK, QueueInv, NEW c \in Callers,
           \/ \E v \in Items : TryEnqueue(c, v)
           \/ TryDequeue(c) \/ IncreaseCapacity(c) \/ MarkEnd(c) \/ ClearEndMark(c)
    PROVE  QueueInv'
<1>1. ASSUME NEW v \in Items, TryEnqueue(c, v)
      PROVE  QueueInv'
  <2>1. deqW' = AfterOldest(deqW) /\ enqW' = enqW /\ v \in Vals
    BY <1>1 DEF TryEnqueue, Vals
  <2>2. CASE Oldest(deqW) # Null
    <3>1. resQueue = << >> /\ resQueue' = resQueue
      BY <1>1, <2>2, TakeWaiters DEF TryEnqueue, QueueInv
    <3> QED
      BY <2>1, <3>1 DEF QueueInv
  <2>3. CASE Oldest(deqW) = Null
    <3>1. resQueue' # << >>
      BY <1>1, <2>1, <2>3, NonEmpty DEF TryEnqueue
    <3> QED
      BY <2>1, <2>3, <3>1, TakeWaiters DEF QueueInv
  <2> QED
    BY <2>2, <2>3
<1>2. CASE TryDequeue(c)
  BY <1>2, IntegrityPop DEF TryDequeue
<1>3. CASE IncreaseCapacity(c) \/ ClearEndMark(c)
  BY <1>3 DEF IncreaseCapacity, ClearEndMark, QueueInv
<1>4. CASE MarkEnd(c)
  BY <1>4 DEF MarkEnd, QueueInv
<1> QED
  BY <1>1, <1>2, <1>3, <1>4

\* A stop callback turns slots into deleted ones and adds none.
LEMMA IntegrityErase ==
    ASSUME TypeOK, NEW o \in Ops, CallbackErase(o)
    PROVE  /\ resQueue' = resQueue
           /\ enqW' = << >> <=> enqW = << >>
           /\ deqW' = << >> <=> deqW = << >>
<1>1. enqW \in Seq(Enq \cup {Null}) /\ deqW \in Seq(Deq \cup {Null})
  BY DEF TypeOK
<1>2. /\ Erase(o, enqW) = << >> <=> enqW = << >>
      /\ Erase(o, deqW) = << >> <=> deqW = << >>
  BY <1>1, EraseKeepsSlots
<1> QED
  BY <1>2 DEF CallbackErase

\* The loops: force_enqueue_range() and force_dequeue_all().
LEMMA IntegrityFeed ==
    ASSUME TypeOK, LoopInv, NEW c \in Callers, FeedWaiter(c),
           enqW = << >> \/ deqW = << >>
    PROVE  /\ enqW' = << >> \/ deqW' = << >>
           /\ loop'[c] = "none" => QueueInv'
<1>0. /\ resQueue # << >> /\ resQueue \in Seq(Vals)
      /\ enqW' = enqW /\ deqW' = AfterOldest(deqW)
  BY DEF LoopInv, FeedWaiter, TypeOK
<1>1. CASE Oldest(deqW) = Null
  <2>1. deqW' = << >> /\ resQueue' = resQueue
    BY <1>0, <1>1, TakeWaiters DEF FeedWaiter
  <2> QED
    BY <1>0, <2>1 DEF QueueInv
<1>2. CASE Oldest(deqW) # Null
  <2>1. enqW' = << >>
    BY <1>0, <1>2, TakeWaiters
  <2>2. loop'[c] = "none" => Len(resQueue) = 1
    BY <1>2 DEF FeedWaiter, TypeOK
  <2>3. resQueue' = Tail(resQueue)
    BY <1>2 DEF FeedWaiter
  <2>4. Tail(resQueue) \in Seq(Vals) /\ Len(Tail(resQueue)) = Len(resQueue) - 1
    BY <1>0, HeadTailProperties
  <2>a. Tail(resQueue) # << >> => Len(Tail(resQueue)) \in Nat \ {0}
    BY <2>4, EmptySeq
  <2>5. Len(resQueue) = 1 => Tail(resQueue) = << >>
    BY <2>4, <2>a
  <2> QED
    BY <2>1, <2>2, <2>3, <2>5 DEF QueueInv
<1> QED
  BY <1>1, <1>2

\* The loop of force_dequeue_all() ends with enqueue waiters left only if the
\* queue is not empty.
LEMMA IntegrityRefill ==
    ASSUME TypeOK, NEW c \in Callers, RefillFromWaiter(c), deqW = << >>
    PROVE  /\ deqW' = << >>
           /\ loop'[c] = "none" => QueueInv'
<1>0. deqW' = << >> /\ enqW' = AfterOldest(enqW)
  BY DEF RefillFromWaiter
<1>1. CASE Oldest(enqW) = Null
  BY <1>0, <1>1, TakeWaiters DEF QueueInv
<1>2. CASE Oldest(enqW) # Null
  <2>1. Oldest(enqW) \in Vals
    BY <1>2, WaiterTypes DEF Vals
  <2>2. resQueue' # << >>
    BY <1>2, <2>1, NonEmpty DEF RefillFromWaiter
  <2> QED
    BY <1>0, <2>2 DEF QueueInv
<1> QED
  BY <1>1, <1>2

\* Every step but clear() keeps the relation between queue and waiters.
LEMMA IntegrityStep ==
    ASSUME ~WithClear, TypeOK, LoopInv, IntegrityInv, [Next]_vars, LoopInv'
    PROVE  IntegrityInv'
<1> DEFINE Idle == \A c \in Callers : loop[c] = "none"
<1>0. mtx = Null => Idle
  BY NameAssumption DEF LoopInv, Actors
<1>1. CASE UNCHANGED <<loop, resQueue, enqW, deqW>>
  BY <1>1 DEF IntegrityInv, QueueInv
<1>2. CASE mtx = Null /\ loop' = loop /\ QueueInv'
  BY <1>0, <1>2 DEF IntegrityInv
<1>q. mtx = Null => QueueInv
  BY <1>0 DEF IntegrityInv
<1>3. ASSUME NEW o \in Ops, CheckStop(o) \/ RequestStop(o) \/ CallbackComplete(o)
      PROVE  UNCHANGED <<loop, resQueue, enqW, deqW>>
  BY <1>3 DEF CheckStop, RequestStop, CallbackComplete, queue
<1>4. ASSUME NEW o \in Ops, CallbackErase(o)
      PROVE  mtx = Null /\ loop' = loop /\ QueueInv'
  <2>1. mtx = Null /\ loop' = loop /\ QueueInv
    BY <1>4, <1>q DEF CallbackErase
  <2> QED
    BY <1>4, <2>1, IntegrityErase DEF QueueInv
<1>5. ASSUME NEW e \in Enq, EnqueueLocked(e)
      PROVE  mtx = Null /\ loop' = loop /\ QueueInv'
  <2>1. mtx = Null /\ loop' = loop
    BY <1>5 DEF EnqueueLocked
  <2> QED
    BY <1>5, <1>q, <2>1, IntegrityEnqueue
<1>6. ASSUME NEW d \in Deq, DequeueLocked(d)
      PROVE  mtx = Null /\ loop' = loop /\ QueueInv'
  <2>1. mtx = Null /\ loop' = loop
    BY <1>6 DEF DequeueLocked
  <2> QED
    BY <1>6, <1>q, <2>1, IntegrityDequeue
<1>7. ASSUME NEW a \in Actors, Complete(a)
      PROVE  UNCHANGED <<loop, resQueue, enqW, deqW>>
  BY <1>7 DEF Complete, queue
<1>8. ASSUME NEW c \in Callers,
             \/ \E v \in Items : TryEnqueue(c, v)
             \/ TryDequeue(c) \/ IncreaseCapacity(c) \/ MarkEnd(c) \/ ClearEndMark(c)
      PROVE  mtx = Null /\ loop' = loop /\ QueueInv'
  <2>1. mtx = Null /\ loop' = loop
    BY <1>8 DEF TryEnqueue, TryDequeue, IncreaseCapacity, MarkEnd, ClearEndMark, Enters
  <2> QED
    BY <1>8, <1>q, <2>1, IntegrityTry
<1>9. ASSUME NEW c \in Callers, NEW s \in Ranges, ForceEnqueueRange(c, s)
      PROVE  IntegrityInv'
  <2>1. /\ loop' = [loop EXCEPT ![c] = "feed"] /\ enqW' = enqW /\ deqW' = deqW
        /\ Idle /\ QueueInv
    BY <1>9, <1>0, <1>q DEF ForceEnqueueRange, Enters
  <2>2. enqW' = << >> \/ deqW' = << >>
    BY <2>1 DEF QueueInv
  <2>3. loop'[c] = "feed" /\ \A b \in Callers : loop'[b] # "refill"
    BY <2>1 DEF TypeOK
  <2> QED
    BY <2>2, <2>3 DEF IntegrityInv
<1>10. ASSUME NEW c \in Callers, ForceDequeueAll(c)
       PROVE  IntegrityInv'
  <2>1. /\ loop' = [loop EXCEPT ![c] = "refill"] /\ deqW' = deqW
        /\ resQueue # << >> /\ QueueInv
    BY <1>10, <1>q DEF ForceDequeueAll, Enters
  <2>2. deqW' = << >> /\ loop'[c] = "refill"
    BY <2>1 DEF QueueInv, TypeOK
  <2> QED
    BY <2>2 DEF IntegrityInv
<1>11. ASSUME NEW c \in Callers, FeedWaiter(c)
       PROVE  IntegrityInv'
  <2>1. /\ enqW = << >> \/ deqW = << >>
        /\ mtx = c /\ loop[c] = "feed"
    BY <1>11 DEF FeedWaiter, IntegrityInv, LoopInv
  <2>2. /\ enqW' = << >> \/ deqW' = << >>
        /\ loop'[c] = "none" => QueueInv'
    BY <1>11, <2>1, IntegrityFeed
  <2>3. \A b \in Callers : b # c => loop[b] = "none" /\ loop'[b] = "none"
    BY <1>11, <2>1 DEF LoopInv, FeedWaiter, TypeOK
  <2>4. loop'[c] # "refill"
    BY <1>11, <2>1 DEF FeedWaiter, TypeOK
  <2> QED
    BY <2>2, <2>3, <2>4 DEF IntegrityInv
<1>12. ASSUME NEW c \in Callers, RefillFromWaiter(c)
       PROVE  IntegrityInv'
  <2>1. deqW = << >>
    BY <1>12 DEF RefillFromWaiter, IntegrityInv
  <2>2. deqW' = << >> /\ (loop'[c] = "none" => QueueInv')
    BY <1>12, <2>1, IntegrityRefill
  <2> QED
    BY <2>2 DEF IntegrityInv
<1>13. ASSUME NEW c \in Callers PROVE ~Clear(c)
  BY DEF Clear
<1>14. CASE UNCHANGED vars
  BY <1>1, <1>14 DEF vars, queue
<1> QED
  BY <1>1, <1>2, <1>3, <1>4, <1>5, <1>6, <1>7, <1>8, <1>9, <1>10, <1>11, <1>12, <1>13,
     <1>14 DEF Next

\* As long as clear() is not called, integrity_assert_no_lock() holds whenever
\* a critical section is entered: a waiter is never queued on the side that
\* nobody will look at.  (With clear() it fails, see the README.)
THEOREM IntegrityHolds == ~WithClear => (Spec => []Integrity)
<1> SUFFICES ASSUME ~WithClear PROVE Spec => []Integrity
  OBVIOUS
<1> DEFINE IInv == TypeOK /\ LoopInv /\ IntegrityInv
<1>1. Init => IInv
  <2>1. Init => TypeOK
    BY TypeInit
  <2>2. Init => LoopInv /\ IntegrityInv
    BY DEF Init, LoopInv, IntegrityInv, QueueInv
  <2> QED
    BY <2>1, <2>2
<1>2. IInv /\ [Next]_vars => IInv'
  BY TypeStep, LoopStep, IntegrityStep
<1>3. IInv => Integrity
  <2> SUFFICES ASSUME IInv, mtx = Null
               PROVE  IF resQueue = << >> THEN enqW = << >> ELSE deqW = << >>
    BY DEF Integrity
  <2>1. \A c \in Callers : loop[c] = "none"
    BY NameAssumption DEF LoopInv, Actors
  <2> QED
    BY <2>1 DEF IntegrityInv, QueueInv
<1> QED
  BY <1>1, <1>2, <1>3, PTL DEF Spec

-----------------------------------------------------------------------------
(* mark_end(). *)

\* Every step keeps a marked queue free of live dequeue waiters.
LEMMA EndStep ==
    ASSUME TypeOK, LoopInv, NoDequeueWaitsPastEnd, [Next]_vars
    PROVE  NoDequeueWaitsPastEnd'
<1>0. LiveSlots(<< >>) = {}
  BY EmptySeq DEF LiveSlots
<1>1. CASE UNCHANGED <<endMarked, deqW>>
  BY <1>1 DEF NoDequeueWaitsPastEnd, LiveSlots
<1>2. CASE ~endMarked'
  BY <1>2 DEF NoDequeueWaitsPastEnd
<1>3. CASE endMarked' = endMarked /\ deqW' = AfterOldest(deqW)
  <2>1. CASE endMarked
    <3>1. deqW' = << >>
      BY <1>3, <2>1, TakeWaiters DEF NoDequeueWaitsPastEnd
    <3> QED
      BY <1>0, <3>1 DEF NoDequeueWaitsPastEnd
  <2> QED
    BY <1>3, <2>1 DEF NoDequeueWaitsPastEnd
<1>4. ASSUME NEW o \in Ops,
             CheckStop(o) \/ RequestStop(o) \/ CallbackComplete(o)
      PROVE  UNCHANGED <<endMarked, deqW>>
  BY <1>4 DEF CheckStop, RequestStop, CallbackComplete, queue
<1>5. ASSUME NEW o \in Ops, CallbackErase(o)
      PROVE  NoDequeueWaitsPastEnd'
  <2>1. LiveSlots(Erase(o, deqW)) \subseteq LiveSlots(deqW)
    BY EraseKeepsSlots DEF TypeOK
  <2>2. endMarked' = endMarked /\ (deqW' = deqW \/ deqW' = Erase(o, deqW))
    BY <1>5 DEF CallbackErase
  <2>3. LiveSlots(deqW)' \subseteq LiveSlots(deqW)
    BY <2>1, <2>2 DEF LiveSlots
  <2> QED
    BY <2>2, <2>3 DEF NoDequeueWaitsPastEnd
<1>6. ASSUME NEW e \in Enq, EnqueueLocked(e)
      PROVE  endMarked' = endMarked /\ (deqW' = deqW \/ deqW' = AfterOldest(deqW))
  BY <1>6 DEF EnqueueLocked
<1>7. ASSUME NEW d \in Deq, DequeueLocked(d)
      PROVE  endMarked' = endMarked /\ (deqW' = deqW \/ ~endMarked)
  BY <1>7 DEF DequeueLocked
<1>8. ASSUME NEW a \in Actors, Complete(a)
      PROVE  UNCHANGED <<endMarked, deqW>>
  BY <1>8 DEF Complete, queue
<1>9. ASSUME NEW c \in Callers,
             \/ TryDequeue(c) \/ IncreaseCapacity(c) \/ Clear(c)
             \/ \E s \in Ranges : ForceEnqueueRange(c, s)
             \/ ForceDequeueAll(c) \/ RefillFromWaiter(c)
      PROVE  UNCHANGED <<endMarked, deqW>>
  BY <1>9 DEF TryDequeue, IncreaseCapacity, Clear, ForceEnqueueRange, ForceDequeueAll,
              RefillFromWaiter
<1>10. ASSUME NEW c \in Callers,
              FeedWaiter(c) \/ \E v \in Items : TryEnqueue(c, v)
       PROVE  endMarked' = endMarked /\ deqW' = AfterOldest(deqW)
  BY <1>10 DEF FeedWaiter, TryEnqueue
<1>11. ASSUME NEW c \in Callers, MarkEnd(c) \/ ClearEndMark(c)
       PROVE  NoDequeueWaitsPastEnd'
  <2>1. ~endMarked' \/ deqW' = << >>
    BY <1>11 DEF MarkEnd, ClearEndMark
  <2> QED
    BY <1>0, <2>1 DEF NoDequeueWaitsPastEnd
<1>12. CASE UNCHANGED vars
  BY <1>1, <1>12 DEF vars, queue
<1> QED
  BY <1>1, <1>2, <1>3, <1>4, <1>5, <1>6, <1>7, <1>8, <1>9, <1>10, <1>11, <1>12 DEF Next

\* Once the end is marked no dequeue op waits in the queue, whatever enqueue,
\* dequeue, force_ calls, clear() and cancellations do before, meanwhile and
\* after: mark_end() need not run again to resume late comers.
THEOREM EndLeavesNoDequeueWaiter == Spec => []NoDequeueWaitsPastEnd
<1> DEFINE IInv == TypeOK /\ LoopInv /\ NoDequeueWaitsPastEnd
<1>1. Init => IInv
  BY TypeInit DEF Init, LoopInv, NoDequeueWaitsPastEnd
<1>2. IInv /\ [Next]_vars => IInv'
  BY TypeStep, LoopStep, EndStep
<1> QED
  BY <1>1, <1>2, PTL DEF Spec

-----------------------------------------------------------------------------
(* Who completes an op.  A waiting op is in a slot of a waiter queue, in   *)
(* the pending completions of one actor, or in the hands of the stop       *)
(* callback that erased it; taking, erasing and completing pass it on.     *)

\* op o has a slot of w; no op has two
Waits(o, w) == \E i \in 1..Len(w) : w[i] = o
Once(w)     == \A i, j \in 1..Len(w) : w[i] = w[j] /\ w[i] # Null => i = j

\* the completions s have one of op o; none has two
Due(o, s)  == \E i \in 1..Len(s) : s[i][1] = o
DueOnce(s) == \A i, j \in 1..Len(s) : s[i][1] = s[j][1] /\ s[i][1] # Null => i = j

\* take_oldest() removes the op it returns and no other one.
LEMMA TakesOne ==
    ASSUME NEW S, NEW w \in Seq(S \cup {Null}), Null \notin S, Once(w)
    PROVE  /\ Once(AfterOldest(w))
           /\ Oldest(w) # Null => Waits(Oldest(w), w)
           /\ \A o : o # Null => (Waits(o, AfterOldest(w)) <=> Waits(o, w) /\ o # Oldest(w))
<1>1. LiveSlots(w) \in SUBSET Nat
  BY DEF LiveSlots
<1>2. CASE LiveSlots(w) = {}
  <2>1. Oldest(w) = Null /\ AfterOldest(w) = << >>
    BY <1>2 DEF Oldest, AfterOldest
  <2>2. \A o : o # Null => ~Waits(o, w)
    BY <1>2 DEF Waits, LiveSlots
  <2>3. Once(<< >>) /\ \A o : ~Waits(o, << >>)
    BY DEF Once, Waits
  <2> QED
    BY <2>1, <2>2, <2>3
<1>3. CASE LiveSlots(w) # {}
  <2> DEFINE m == Min(LiveSlots(w))
             v == AfterOldest(w)
  <2>1. m \in LiveSlots(w) /\ \A y \in LiveSlots(w) : m <= y
    BY <1>1, <1>3, MinOfNaturals
  <2>2. /\ m \in 1..Len(w) /\ w[m] # Null
        /\ \A i \in 1..Len(w) : i < m => w[i] = Null
    <3> HIDE DEF m
    <3>1. Len(w) \in Nat
      BY LenProperties
    <3> QED
      BY <2>1, <3>1 DEF LiveSlots
  <2>3. Oldest(w) = w[m] /\ v = SubSeq(w, m + 1, Len(w))
    BY <1>3 DEF Oldest, AfterOldest
  <2>4. /\ Len(v) = Len(w) - m
        /\ \A i \in 1..Len(v) : v[i] = w[m + i]
    <3>1. Len(w) \in Nat /\ m \in 1..Len(w) /\ m + 1 \in Int /\ Len(w) \in Int
      BY <2>2, LenProperties
    <3>2. \A i \in m + 1 .. Len(w) : w[i] \in S \cup {Null}
      BY <3>1, ElementOfSeq
    <3> HIDE DEF v, m
    <3>3. /\ Len(SubSeq(w, m + 1, Len(w))) = IF m + 1 <= Len(w) THEN Len(w) - (m + 1) + 1 ELSE 0
          /\ \A i \in 1 .. Len(w) - (m + 1) + 1 : SubSeq(w, m + 1, Len(w))[i] = w[(m + 1) + i - 1]
      BY <3>1, <3>2, SubSeqProperties
    <3>4. Len(v) = Len(w) - m
      BY <3>1, <3>3, <2>3
    <3>5. ASSUME NEW i \in 1..Len(v) PROVE v[i] = w[m + i]
      <4>1. i \in 1 .. Len(w) - (m + 1) + 1 /\ (m + 1) + i - 1 = m + i
        BY <3>1, <3>4
      <4> QED
        BY <4>1, <3>3, <2>3
    <3> QED
      BY <3>4, <3>5
  <2>5. Once(v)
    <3> SUFFICES ASSUME NEW i \in 1..Len(v), NEW j \in 1..Len(v), v[i] = v[j], v[i] # Null
                 PROVE  i = j
      BY DEF Once
    <3>1. m + i \in 1..Len(w) /\ m + j \in 1..Len(w)
      BY <2>2, <2>4
    <3>2. m + i = m + j
      BY <3>1, <2>4 DEF Once
    <3> QED
      BY <3>2, <2>2
  <2>6. Waits(Oldest(w), w)
    BY <2>2, <2>3 DEF Waits
  <2>7. ASSUME NEW o, o # Null, Waits(o, v)
        PROVE  Waits(o, w) /\ o # Oldest(w)
    <3>1. PICK i \in 1..Len(v) : v[i] = o
      BY <2>7 DEF Waits
    <3>2. m + i \in 1..Len(w) /\ m + i # m /\ w[m + i] = o
      BY <3>1, <2>2, <2>4
    <3> QED
      BY <3>2, <2>2, <2>3 DEF Waits, Once
  <2>8. ASSUME NEW o, o # Null, Waits(o, w), o # Oldest(w)
        PROVE  Waits(o, v)
    <3>1. PICK i \in 1..Len(w) : w[i] = o
      BY <2>8 DEF Waits
    <3>2. i > m
      BY <3>1, <2>2, <2>3, <2>8
    <3>3. i - m \in 1..Len(v) /\ m + (i - m) = i
      BY <3>2, <2>2, <2>4
    <3>4. v[i - m] = o
      BY <3>1, <3>3, <2>4
    <3> QED
      BY <3>3, <3>4 DEF Waits
  <2> HIDE DEF v
  <2> QED
    BY <2>5, <2>6, <2>7, <2>8 DEF v
<1> QED
  BY <1>2, <1>3

\* An op that begins to wait is added.
LEMMA AddsOne ==
    ASSUME NEW S, NEW w \in Seq(S \cup {Null}), NEW e \in S, Null \notin S, Once(w), ~Waits(e, w)
    PROVE  /\ Once(Append(w, e))
           /\ \A o : Waits(o, Append(w, e)) <=> Waits(o, w) \/ o = e
<1> DEFINE v == Append(w, e)
<1>1. Len(v) = Len(w) + 1 /\ v[Len(w) + 1] = e /\ \A i \in 1..Len(w) : v[i] = w[i]
  BY AppendProperties
<1>2. Len(w) \in Nat
  BY LenProperties
<1> HIDE DEF v
<1>3. \A i \in 1..Len(v) : i \in 1..Len(w) \/ i = Len(w) + 1
  BY <1>1, <1>2
<1>4. Once(v)
  BY <1>1, <1>3 DEF Once, Waits
<1>5. \A o : Waits(o, v) <=> Waits(o, w) \/ o = e
  BY <1>1, <1>2, <1>3 DEF Waits
<1> QED
  BY <1>4, <1>5 DEF v

\* erase() removes the op.
LEMMA ErasesOne ==
    ASSUME NEW S, NEW w \in Seq(S \cup {Null}), Null \notin S, NEW e, e # Null, Once(w)
    PROVE  /\ Once(Erase(e, w))
           /\ \A o : o # Null => (Waits(o, Erase(e, w)) <=> Waits(o, w) /\ o # e)
<1> DEFINE v == Erase(e, w)
<1>1. Len(v) = Len(w) /\ \A i \in 1..Len(w) : v[i] = IF w[i] = e THEN Null ELSE w[i]
  BY LenProperties DEF Erase
<1> HIDE DEF v
<1>2. Once(v) /\ \A o : o # Null => (Waits(o, v) <=> Waits(o, w) /\ o # e)
  BY <1>1 DEF Once, Waits
<1> QED
  BY <1>2 DEF v

LEMMA PairOf == ASSUME NEW x, NEW y PROVE <<x>> \o <<y>> = <<x, y>>
<1>1. <<x>> \in Seq({x, y}) /\ <<y>> \in Seq({x, y}) /\ <<x, y>> \in Seq({x, y})
  OBVIOUS
<1>2. <<x>> \o <<y>> \in Seq({x, y}) /\ Len(<<x>> \o <<y>>) = 2
  BY <1>1, ConcatProperties
<1>3. (<<x>> \o <<y>>)[1] = x /\ (<<x>> \o <<y>>)[2] = y
  BY <1>1, ConcatProperties
<1>4. \A i \in 1..2 : (<<x>> \o <<y>>)[i] = <<x, y>>[i]
  BY <1>3
<1> QED
  BY <1>1, <1>2, <1>4, SeqEqual

\* Completions: none, one, two, one more, all but the first, and those of all
\* slots of a waiter queue.
LEMMA DueFacts ==
    /\ DueOnce(<< >>) /\ \A o : ~Due(o, << >>)
    /\ \A p : DueOnce(<<p>>) /\ \A o : Due(o, <<p>>) <=> o = p[1]
    /\ \A p, q : /\ p[1] # q[1] => DueOnce(<<p, q>>)
                 /\ \A o : Due(o, <<p, q>>) <=> o = p[1] \/ o = q[1]
<1>1. DueOnce(<< >>) /\ \A o : ~Due(o, << >>)
  BY DEF DueOnce, Due
<1>2. \A p : DueOnce(<<p>>) /\ \A o : Due(o, <<p>>) <=> o = p[1]
  BY DEF DueOnce, Due
<1>3. ASSUME NEW p, NEW q
      PROVE  /\ p[1] # q[1] => DueOnce(<<p, q>>)
             /\ \A o : Due(o, <<p, q>>) <=> o = p[1] \/ o = q[1]
  <2>1. \A i \in 1..Len(<<p, q>>) : i = 1 \/ i = 2
    OBVIOUS
  <2>2. <<p, q>>[1] = p /\ <<p, q>>[2] = q /\ 1 \in 1..Len(<<p, q>>) /\ 2 \in 1..Len(<<p, q>>)
    OBVIOUS
  <2> QED
    BY <2>1, <2>2 DEF DueOnce, Due
<1> QED
  BY <1>1, <1>2, <1>3

LEMMA DueAppend ==
    ASSUME NEW s \in Seq(Completions), NEW p \in Completions, DueOnce(s), ~Due(p[1], s)
    PROVE  /\ DueOnce(Append(s, p))
           /\ \A o : Due(o, Append(s, p)) <=> Due(o, s) \/ o = p[1]
<1> DEFINE v == Append(s, p)
<1>1. Len(v) = Len(s) + 1 /\ v[Len(s) + 1] = p /\ \A i \in 1..Len(s) : v[i] = s[i]
  BY AppendProperties
<1>2. Len(s) \in Nat
  BY LenProperties
<1> HIDE DEF v
<1>3. \A i \in 1..Len(v) : i \in 1..Len(s) \/ i = Len(s) + 1
  BY <1>1, <1>2
<1>4. DueOnce(v)
  BY <1>1, <1>3 DEF DueOnce, Due
<1>5. \A o : Due(o, v) <=> Due(o, s) \/ o = p[1]
  BY <1>1, <1>2, <1>3 DEF Due
<1> QED
  BY <1>4, <1>5 DEF v

LEMMA DueTail ==
    ASSUME NEW s \in Seq(Completions), s # << >>, DueOnce(s)
    PROVE  /\ DueOnce(Tail(s))
           /\ Due(Head(s)[1], s)
           /\ \A o : o # Null => (Due(o, Tail(s)) <=> Due(o, s) /\ o # Head(s)[1])
           /\ s[Len(s)][1] = Head(s)[1] /\ Head(s)[1] # Null => Tail(s) = << >>
           /\ Tail(s) # << >> => Tail(s)[Len(Tail(s))] = s[Len(s)]
<1> DEFINE v == Tail(s)
<1>1. /\ v \in Seq(Completions) /\ Len(v) = Len(s) - 1 /\ Len(s) \in Nat \ {0} /\ Head(s) = s[1]
      /\ \A i \in 1..Len(v) : v[i] = s[i + 1]
  BY HeadTailProperties, LenProperties, EmptySeq
<1>2. Len(v) = 0 => v = << >>
  BY <1>1, EmptySeq
<1>e. v # << >> => Len(v) \in Nat \ {0}
  BY <1>1, EmptySeq, LenProperties
<1> HIDE DEF v
<1>3. \A i \in 1..Len(v) : i + 1 \in 1..Len(s)
  BY <1>1
<1>4. \A i \in 1..Len(s) : i = 1 \/ (i - 1 \in 1..Len(v) /\ v[i - 1] = s[i])
  <2> SUFFICES ASSUME NEW i \in 1..Len(s), i # 1 PROVE i - 1 \in 1..Len(v) /\ v[i - 1] = s[i]
    OBVIOUS
  <2>1. i - 1 \in 1..Len(v) /\ (i - 1) + 1 = i
    BY <1>1
  <2> QED
    BY <1>1, <2>1
<1>5. DueOnce(v)
  BY <1>1, <1>3 DEF DueOnce
<1>6. 1 \in 1..Len(s) /\ Due(Head(s)[1], s)
  BY <1>1 DEF Due
<1>7. ASSUME NEW o, o # Null PROVE Due(o, v) => Due(o, s) /\ o # Head(s)[1]
  <2> SUFFICES ASSUME NEW i \in 1..Len(v), v[i][1] = o PROVE Due(o, s) /\ o # Head(s)[1]
    BY DEF Due
  <2>1. i + 1 \in 1..Len(s) /\ i + 1 # 1 /\ s[i + 1][1] = o
    BY <1>1, <1>3
  <2> QED
    BY <1>1, <1>6, <1>7, <2>1 DEF Due, DueOnce
<1>8. \A o : Due(o, s) /\ o # Head(s)[1] => Due(o, v)
  BY <1>1, <1>4 DEF Due
<1>9. s[Len(s)][1] = Head(s)[1] /\ Head(s)[1] # Null => Len(v) = 0
  BY <1>1, <1>6 DEF DueOnce
<1>10. v # << >> => v[Len(v)] = s[Len(s)]
  <2> SUFFICES ASSUME v # << >> PROVE v[Len(v)] = s[Len(s)]
    OBVIOUS
  <2>1. Len(v) \in 1..Len(v) /\ Len(v) + 1 = Len(s)
    BY <1>1, <1>e
  <2> QED
    BY <1>1, <2>1
<1> QED
  BY <1>2, <1>5, <1>6, <1>7, <1>8, <1>9, <1>10 DEF v

LEMMA DueEnd ==
    ASSUME NEW S, NEW w \in Seq(S \cup {Null}), Once(w)
    PROVE  /\ DueOnce(EndReached(w))
           /\ \A o : Due(o, EndReached(w)) <=> Waits(o, w)
<1>1. Len(EndReached(w)) = Len(w) /\ \A i \in 1..Len(w) : EndReached(w)[i] = <<w[i], "end_reached">>
  BY LenProperties DEF EndReached
<1>2. \A i \in 1..Len(w) : EndReached(w)[i][1] = w[i]
  BY <1>1
<1> QED
  BY <1>1, <1>2 DEF DueOnce, Due, Once, Waits

-----------------------------------------------------------------------------
InQueue(o) == Waits(o, enqW) \/ Waits(o, deqW)

\* No op has two owners.
Exclusive ==
    /\ Once(enqW) /\ Once(deqW)
    /\ \A a \in Actors : DueOnce(todo[a])
    /\ \A o \in Ops : \A a, b \in Actors : Due(o, todo[a]) /\ Due(o, todo[b]) => a = b
    /\ \A o \in Ops : \A a \in Actors : Due(o, todo[a]) => ~InQueue(o) /\ cb[o] # "erased"
    /\ \A o \in Ops : InQueue(o) => cb[o] # "erased"

\* Ops that have an owner wait, or are about to store their own result: it is
\* the last completion their initiate() does.
Owned(o) ==
    /\ pc[o] \in {"idle", "checked", "returning", "waiting", "relocking"} => r[o] = Null
    /\ InQueue(o) \/ cb[o] = "erased" => pc[o] = "waiting"
    /\ \A a \in Actors : Due(o, todo[a]) => pc[o] = IF a = o THEN "returning" ELSE "waiting"
    /\ pc[o] = "waiting" => \/ InQueue(o) \/ cb[o] = "erased"
                            \/ \E a \in Actors : Due(o, todo[a])
    /\ pc[o] = "returning" => todo[o] # << >> /\ todo[o][Len(todo[o])][1] = o
    /\ pc[o] # "returning" => todo[o] = << >>

OwnInv == Exclusive /\ \A o \in Ops : Owned(o)

\* Names, and where an op can be found.
LEMMA OwnNames ==
    ASSUME TypeOK
    PROVE  /\ Null \notin Enq /\ Null \notin Deq /\ Null \notin Ops
           /\ \A o \in Ops : o \in Actors /\ o \notin Callers
           /\ \A e \in Enq : e \in Ops /\ ~Waits(e, deqW)
           /\ \A d \in Deq : d \in Ops /\ ~Waits(d, enqW)
           /\ Callers \subseteq Actors
<1>1. /\ \A i \in 1..Len(enqW) : enqW[i] \in Enq \cup {Null}
      /\ \A i \in 1..Len(deqW) : deqW[i] \in Deq \cup {Null}
  BY ElementOfSeq DEF TypeOK
<1>2. Enq \cap Deq = {} /\ Ops \cap Callers = {} /\ Null \notin Ops
  BY NameAssumption DEF Actors
<1> QED
  BY <1>1, <1>2 DEF Ops, Actors, Waits

\* Taking the oldest waiter of one queue.
LEMMA TakeOne ==
    ASSUME TypeOK, OwnInv
    PROVE  /\ Oldest(enqW) # Null => InQueue(Oldest(enqW)) /\ Oldest(enqW) \in Ops
           /\ Oldest(deqW) # Null => InQueue(Oldest(deqW)) /\ Oldest(deqW) \in Ops
           /\ enqW' = AfterOldest(enqW) /\ deqW' = deqW =>
                /\ Once(enqW') /\ Once(deqW')
                /\ \A o \in Ops : InQueue(o)' <=> InQueue(o) /\ ~(o = Oldest(enqW))
           /\ deqW' = AfterOldest(deqW) /\ enqW' = enqW =>
                /\ Once(enqW') /\ Once(deqW')
                /\ \A o \in Ops : InQueue(o)' <=> InQueue(o) /\ ~(o = Oldest(deqW))
<1>0. /\ enqW \in Seq(Enq \cup {Null}) /\ Once(enqW)
      /\ deqW \in Seq(Deq \cup {Null}) /\ Once(deqW)
  BY DEF TypeOK, OwnInv, Exclusive
<1>1. /\ Once(AfterOldest(enqW)) /\ (Oldest(enqW) # Null => Waits(Oldest(enqW), enqW))
      /\ \A o : o # Null => (Waits(o, AfterOldest(enqW)) <=> Waits(o, enqW) /\ o # Oldest(enqW))
  BY <1>0, TakesOne, OwnNames
<1>2. /\ Once(AfterOldest(deqW)) /\ (Oldest(deqW) # Null => Waits(Oldest(deqW), deqW))
      /\ \A o : o # Null => (Waits(o, AfterOldest(deqW)) <=> Waits(o, deqW) /\ o # Oldest(deqW))
  BY <1>0, TakesOne, OwnNames
<1>3. Oldest(enqW) \in Enq \cup {Null} /\ Oldest(deqW) \in Deq \cup {Null}
  BY WaiterTypes
<1>4. \A o \in Ops : o # Null /\ ~(Waits(o, deqW) /\ o = Oldest(enqW)) /\ ~(Waits(o, enqW) /\ o = Oldest(deqW))
  BY <1>3, OwnNames
<1> QED
  BY <1>0, <1>1, <1>2, <1>3, <1>4, OwnNames DEF InQueue

\* A call passes the ops in T from the waiter queues to its completions.
LEMMA OwnPass ==
    ASSUME TypeOK, OwnInv, NEW c \in Callers, NEW T, NEW s,
           UNCHANGED <<pc, r, cb>>,
           todo' = [todo EXCEPT ![c] = s],
           Once(enqW'), Once(deqW'), DueOnce(s),
           \A o \in T : InQueue(o),
           \A o \in Ops : InQueue(o)' <=> InQueue(o) /\ o \notin T,
           \A o \in Ops : Due(o, s) <=> Due(o, todo[c]) \/ o \in T
    PROVE  OwnInv'
<1>1. c \in Actors /\ \A o \in Ops : o # c /\ o \in Actors
  BY OwnNames
<1>2. todo'[c] = s /\ \A a \in Actors : a # c => todo'[a] = todo[a]
  BY <1>1 DEF TypeOK
<1>3. \A o \in Ops : todo'[o] = todo[o]
  BY <1>1, <1>2
<1>4. \A o \in Ops : \A a \in Actors : Due(o, todo'[a]) <=> Due(o, todo[a]) \/ (a = c /\ o \in T)
  BY <1>2
<1>5. Exclusive'
  <2>1. Once(enqW') /\ Once(deqW') /\ \A a \in Actors : DueOnce(todo'[a])
    BY <1>2 DEF OwnInv, Exclusive
  <2>2. \A o \in Ops : \A a, b \in Actors : Due(o, todo'[a]) /\ Due(o, todo'[b]) => a = b
    BY <1>4 DEF OwnInv, Exclusive
  <2>3. \A o \in Ops : \A a \in Actors : Due(o, todo'[a]) => ~InQueue(o)' /\ cb'[o] # "erased"
    BY <1>4 DEF OwnInv, Exclusive
  <2>4. \A o \in Ops : InQueue(o)' => cb'[o] # "erased"
    BY DEF OwnInv, Exclusive
  <2> QED
    BY <2>1, <2>2, <2>3, <2>4 DEF Exclusive
<1>6. ASSUME NEW o \in Ops PROVE Owned(o)'
  <2> USE DEF OwnInv, Owned
  <2>1. pc'[o] \in {"idle", "checked", "returning", "waiting", "relocking"} => r'[o] = Null
    OBVIOUS
  <2>2. InQueue(o)' \/ cb'[o] = "erased" => pc'[o] = "waiting"
    OBVIOUS
  <2>3. \A a \in Actors : Due(o, todo'[a]) => pc'[o] = IF a = o THEN "returning" ELSE "waiting"
    BY <1>1, <1>4
  <2>4. pc'[o] = "waiting" => \/ InQueue(o)' \/ cb'[o] = "erased"
                              \/ \E a \in Actors : Due(o, todo'[a])
    BY <1>1, <1>4
  <2>5. /\ pc'[o] = "returning" => todo'[o] # << >> /\ todo'[o][Len(todo'[o])][1] = o
        /\ pc'[o] # "returning" => todo'[o] = << >>
    BY <1>3
  <2> QED
    BY <2>1, <2>2, <2>3, <2>4, <2>5 DEF Owned
<1> QED
  BY <1>5, <1>6 DEF OwnInv

\* An initiate() that does not wait: the ops it takes out come before its own
\* result.
LEMMA OwnFinishes ==
    ASSUME TypeOK, OwnInv, NEW x \in Ops, pc[x] = "checked", NEW T, NEW s, s # << >>,
           Finishes(x, s), r' = r,
           Once(enqW'), Once(deqW'), DueOnce(s), s[Len(s)][1] = x,
           \A o \in T : InQueue(o),
           \A o \in Ops : InQueue(o)' <=> InQueue(o) /\ o \notin T,
           \A o \in Ops : Due(o, s) <=> o = x \/ o \in T
    PROVE  OwnInv'
<1>1. x \in Actors /\ \A o \in Ops : o \in Actors
  BY OwnNames
<1>2. /\ todo'[x] = s /\ \A a \in Actors : a # x => todo'[a] = todo[a]
      /\ pc'[x] = "returning" /\ \A o \in Ops : o # x => pc'[o] = pc[o]
      /\ cb' = cb /\ r' = r
  BY <1>1 DEF TypeOK, Finishes
<1>3. x \notin T /\ ~InQueue(x) /\ cb[x] # "erased" /\ todo[x] = << >> /\ r[x] = Null
      /\ \A a \in Actors : ~Due(x, todo[a])
  BY DEF OwnInv, Owned
<1>4. \A o \in Ops : \A a \in Actors :
          Due(o, todo'[a]) <=> Due(o, todo[a]) \/ (a = x /\ (o \in T \/ o = x))
  BY <1>2, <1>3, DueFacts
<1>5. Exclusive'
  <2>1. Once(enqW') /\ Once(deqW') /\ \A a \in Actors : DueOnce(todo'[a])
    BY <1>2 DEF OwnInv, Exclusive
  <2>2. \A o \in Ops : \A a, b \in Actors : Due(o, todo'[a]) /\ Due(o, todo'[b]) => a = b
    BY <1>3, <1>4 DEF OwnInv, Exclusive
  <2>3. \A o \in Ops : \A a \in Actors : Due(o, todo'[a]) => ~InQueue(o)' /\ cb'[o] # "erased"
    BY <1>2, <1>3, <1>4 DEF OwnInv, Exclusive
  <2>4. \A o \in Ops : InQueue(o)' => cb'[o] # "erased"
    BY <1>2 DEF OwnInv, Exclusive
  <2> QED
    BY <2>1, <2>2, <2>3, <2>4 DEF Exclusive
<1>6. ASSUME NEW o \in Ops PROVE Owned(o)'
  <2> USE DEF OwnInv, Owned
  <2>1. pc'[o] \in {"idle", "checked", "returning", "waiting", "relocking"} => r'[o] = Null
    BY <1>2, <1>3
  <2>2. InQueue(o)' \/ cb'[o] = "erased" => pc'[o] = "waiting"
    BY <1>2, <1>3
  <2>3. \A a \in Actors : Due(o, todo'[a]) => pc'[o] = IF a = o THEN "returning" ELSE "waiting"
    BY <1>1, <1>2, <1>3, <1>4
  <2>4. pc'[o] = "waiting" => \/ InQueue(o)' \/ cb'[o] = "erased"
                              \/ \E a \in Actors : Due(o, todo'[a])
    BY <1>1, <1>2, <1>4
  <2>5. /\ pc'[o] = "returning" => todo'[o] # << >> /\ todo'[o][Len(todo'[o])][1] = o
        /\ pc'[o] # "returning" => todo'[o] = << >>
    BY <1>1, <1>2
  <2> QED
    BY <2>1, <2>2, <2>3, <2>4, <2>5 DEF Owned
<1> QED
  BY <1>5, <1>6 DEF OwnInv

\* An initiate() that waits is added to a waiter queue, unless its stop was
\* requested meanwhile.
LEMMA OwnWaits ==
    ASSUME TypeOK, OwnInv, NEW x \in Ops, pc[x] = "checked", WaitsWithCallback(x), r' = r,
           Once(enqW'), Once(deqW'),
           \A o \in Ops : InQueue(o)' <=> InQueue(o) \/ (o = x /\ ~stop[x])
    PROVE  OwnInv'
<1>1. /\ todo' = todo /\ r' = r
      /\ \A o \in Ops : o # x => pc'[o] = pc[o] /\ cb'[o] = cb[o]
      /\ stop[x] => pc'[x] = "relocking" /\ cb'[x] = "fired"
      /\ ~stop[x] => pc'[x] = "waiting" /\ cb'[x] = "armed"
  BY DEF TypeOK, WaitsWithCallback
<1>2. /\ ~InQueue(x) /\ cb[x] # "erased" /\ todo[x] = << >> /\ r[x] = Null
      /\ \A a \in Actors : ~Due(x, todo[a])
  BY OwnNames DEF OwnInv, Owned
<1>3. Exclusive'
  <2> USE DEF OwnInv, Exclusive
  <2>1. \A o \in Ops : \A a \in Actors : Due(o, todo'[a]) => ~InQueue(o)' /\ cb'[o] # "erased"
    BY <1>1, <1>2
  <2>2. \A o \in Ops : InQueue(o)' => cb'[o] # "erased"
    BY <1>1, <1>2
  <2>3. /\ \A a \in Actors : DueOnce(todo'[a])
        /\ \A o \in Ops : \A a, b \in Actors : Due(o, todo'[a]) /\ Due(o, todo'[b]) => a = b
    BY <1>1
  <2> QED
    BY <2>1, <2>2, <2>3
<1>4. ASSUME NEW o \in Ops PROVE Owned(o)'
  <2>1. CASE o = x
    BY <1>1, <1>2, <2>1 DEF Owned
  <2>2. CASE o # x
    BY <1>1, <2>2 DEF Owned, OwnInv
  <2> QED
    BY <2>1, <2>2
<1> QED
  BY <1>3, <1>4 DEF OwnInv

\* The critical sections of the two ops.
LEMMA OwnEnqueue ==
    ASSUME TypeOK, OwnInv, NEW e \in Enq, EnqueueLocked(e)
    PROVE  OwnInv'
<1>0. /\ e \in Ops /\ e # Null /\ pc[e] = "checked" /\ r' = r
      /\ enqW \in Seq(Enq \cup {Null}) /\ deqW \in Seq(Deq \cup {Null})
      /\ Once(enqW) /\ Once(deqW) /\ ~InQueue(e)
  BY OwnNames DEF EnqueueLocked, TypeOK, OwnInv, Exclusive, Owned
<1>1. CASE endMarked
  <2> DEFINE s == << <<e, "end_reached">> >>
  <2>1. Finishes(e, s) /\ enqW' = enqW /\ deqW' = deqW
    BY <1>1 DEF EnqueueLocked
  <2>2. s # << >> /\ s[Len(s)][1] = e /\ DueOnce(s) /\ \A o : Due(o, s) <=> o = e
    BY DueFacts
  <2> DEFINE T == {}
  <2>3. /\ \A o \in T : InQueue(o)
        /\ \A o \in Ops : InQueue(o)' <=> InQueue(o) /\ o \notin T
        /\ \A o \in Ops : Due(o, s) <=> o = e \/ o \in T
    BY <2>1, <2>2 DEF InQueue
  <2> HIDE DEF s, T
  <2> QED
    BY <1>0, <2>1, <2>2, <2>3, OwnFinishes
<1>2. CASE ~endMarked /\ EnqueueFull
  <2>1. WaitsWithCallback(e) /\ deqW' = deqW /\ enqW' = IF stop[e] THEN enqW ELSE Append(enqW, e)
    BY <1>2 DEF EnqueueLocked
  <2>2. /\ Once(Append(enqW, e))
        /\ \A o : Waits(o, Append(enqW, e)) <=> Waits(o, enqW) \/ o = e
    BY <1>0, AddsOne, OwnNames DEF InQueue
  <2>3. \A o \in Ops : InQueue(o)' <=> InQueue(o) \/ (o = e /\ ~stop[e])
    BY <2>1, <2>2 DEF InQueue
  <2>4. Once(enqW') /\ Once(deqW')
    BY <1>0, <2>1, <2>2
  <2> QED
    BY <1>0, <2>1, <2>3, <2>4, OwnWaits
<1>3. CASE ~endMarked /\ ~EnqueueFull
  <2>1. deqW' = AfterOldest(deqW) /\ enqW' = enqW
    BY <1>3 DEF EnqueueLocked
  <2>2. Once(deqW') /\ \A o \in Ops : InQueue(o)' <=> InQueue(o) /\ ~(o = Oldest(deqW))
    BY <1>0, <2>1, TakeOne
  <2>3. CASE Oldest(deqW) # Null
    <3> DEFINE s == << <<Oldest(deqW), e>>, <<e, "expect">> >>
    <3>1. Finishes(e, s) /\ InQueue(Oldest(deqW)) /\ Oldest(deqW) # e
      BY <1>3, <1>0, <2>3, TakeOne DEF EnqueueLocked
    <3>2. s # << >> /\ s[Len(s)][1] = e
      OBVIOUS
    <3>3. DueOnce(s) /\ \A o : Due(o, s) <=> o = Oldest(deqW) \/ o = e
      BY <3>1, DueFacts
    <3> DEFINE T == {Oldest(deqW)}
    <3>4. /\ \A o \in T : InQueue(o)
          /\ \A o \in Ops : InQueue(o)' <=> InQueue(o) /\ o \notin T
          /\ \A o \in Ops : Due(o, s) <=> o = e \/ o \in T
      BY <2>2, <3>1, <3>3
    <3> HIDE DEF s, T
    <3> QED
      BY <1>0, <2>1, <2>2, <3>1, <3>2, <3>3, <3>4, OwnFinishes
  <2>4. CASE Oldest(deqW) = Null
    <3> DEFINE s == << <<e, "expect">> >>
    <3>1. Finishes(e, s)
      BY <1>3, <2>4 DEF EnqueueLocked
    <3>2. s # << >> /\ s[Len(s)][1] = e /\ DueOnce(s) /\ \A o : Due(o, s) <=> o = e
      BY DueFacts
    <3> DEFINE T == {}
    <3>3. /\ \A o \in T : InQueue(o)
          /\ \A o \in Ops : InQueue(o)' <=> InQueue(o) /\ o \notin T
          /\ \A o \in Ops : Due(o, s) <=> o = e \/ o \in T
      BY <2>2, <2>4, <3>2, OwnNames
    <3> HIDE DEF s, T
    <3> QED
      BY <1>0, <2>1, <2>2, <3>1, <3>2, <3>3, OwnFinishes
  <2> QED
    BY <2>3, <2>4
<1> QED
  BY <1>1, <1>2, <1>3

LEMMA OwnDequeue ==
    ASSUME TypeOK, OwnInv, NEW d \in Deq, DequeueLocked(d)
    PROVE  OwnInv'
<1>0. /\ d \in Ops /\ d # Null /\ pc[d] = "checked" /\ r' = r
      /\ enqW \in Seq(Enq \cup {Null}) /\ deqW \in Seq(Deq \cup {Null})
      /\ Once(enqW) /\ Once(deqW) /\ ~InQueue(d)
  BY OwnNames DEF DequeueLocked, TypeOK, OwnInv, Exclusive, Owned
<1>1. CASE resQueue = << >> /\ endMarked
  <2> DEFINE s == << <<d, "end_reached">> >>
  <2>1. Finishes(d, s) /\ enqW' = enqW /\ deqW' = deqW
    BY <1>1 DEF DequeueLocked
  <2>2. s # << >> /\ s[Len(s)][1] = d /\ DueOnce(s) /\ \A o : Due(o, s) <=> o = d
    BY DueFacts
  <2> DEFINE T == {}
  <2>3. /\ \A o \in T : InQueue(o)
        /\ \A o \in Ops : InQueue(o)' <=> InQueue(o) /\ o \notin T
        /\ \A o \in Ops : Due(o, s) <=> o = d \/ o \in T
    BY <2>1, <2>2 DEF InQueue
  <2> HIDE DEF s, T
  <2> QED
    BY <1>0, <2>1, <2>2, <2>3, OwnFinishes
<1>2. CASE resQueue = << >> /\ ~endMarked
  <2>1. WaitsWithCallback(d) /\ enqW' = enqW /\ deqW' = IF stop[d] THEN deqW ELSE Append(deqW, d)
    BY <1>2 DEF DequeueLocked
  <2>2. /\ Once(Append(deqW, d))
        /\ \A o : Waits(o, Append(deqW, d)) <=> Waits(o, deqW) \/ o = d
    BY <1>0, AddsOne, OwnNames DEF InQueue
  <2>3. \A o \in Ops : InQueue(o)' <=> InQueue(o) \/ (o = d /\ ~stop[d])
    BY <2>1, <2>2 DEF InQueue
  <2>4. Once(enqW') /\ Once(deqW')
    BY <1>0, <2>1, <2>2
  <2> QED
    BY <1>0, <2>1, <2>3, <2>4, OwnWaits
<1>3. CASE resQueue # << >>
  <2> DEFINE p == <<d, Head(resQueue)>>
             s == RefilledBy \o <<p>>
  <2>1. enqW' = AfterOldest(enqW) /\ deqW' = deqW /\ Finishes(d, s)
    BY <1>3 DEF DequeueLocked, PopAndRefill
  <2>2. Once(enqW') /\ \A o \in Ops : InQueue(o)' <=> InQueue(o) /\ ~(o = Oldest(enqW))
    BY <1>0, <2>1, TakeOne
  <2>3. CASE Oldest(enqW) # Null
    <3>1. InQueue(Oldest(enqW)) /\ Oldest(enqW) # d
      BY <1>0, <2>3, TakeOne
    <3> DEFINE q == <<Oldest(enqW), "expect">>
    <3>a. q[1] = Oldest(enqW) /\ p[1] = d
      OBVIOUS
    <3>b. RefilledBy = <<q>>
      BY <2>3 DEF RefilledBy
    <3> HIDE DEF q, p
    <3>2. s = <<q, p>>
      BY <3>b, PairOf
    <3> HIDE DEF s
    <3>3. s # << >> /\ s[Len(s)][1] = d
      BY <3>a, <3>2
    <3>4. DueOnce(s) /\ \A o : Due(o, s) <=> o = Oldest(enqW) \/ o = d
      BY <3>a, <3>1, <3>2, DueFacts
    <3> DEFINE T == {Oldest(enqW)}
    <3>5. /\ \A o \in T : InQueue(o)
          /\ \A o \in Ops : InQueue(o)' <=> InQueue(o) /\ o \notin T
          /\ \A o \in Ops : Due(o, s) <=> o = d \/ o \in T
      BY <2>2, <3>1, <3>4
    <3> HIDE DEF s, T
    <3> QED
      BY <1>0, <2>1, <2>2, <3>1, <3>3, <3>4, <3>5, OwnFinishes
  <2>4. CASE Oldest(enqW) = Null
    <3>1. s = <<p>>
      BY <2>4 DEF RefilledBy
    <3>2. s # << >> /\ s[Len(s)][1] = d /\ DueOnce(s) /\ \A o : Due(o, s) <=> o = d
      BY <3>1, DueFacts
    <3> DEFINE T == {}
    <3>3. /\ \A o \in T : InQueue(o)
          /\ \A o \in Ops : InQueue(o)' <=> InQueue(o) /\ o \notin T
          /\ \A o \in Ops : Due(o, s) <=> o = d \/ o \in T
      BY <2>2, <2>4, <3>2, OwnNames
    <3> HIDE DEF s, T
    <3> QED
      BY <1>0, <2>1, <2>2, <3>2, <3>3, OwnFinishes
  <2> QED
    BY <2>3, <2>4
<1> QED
  BY <1>1, <1>2, <1>3

\* complete(): the op that is due is resumed, or returns from its initiate().
LEMMA OwnComplete ==
    ASSUME TypeOK, OwnInv, NEW a \in Actors, Complete(a)
    PROVE  OwnInv'
<1> DEFINE o == Head(todo[a])[1]
           s == todo[a]
<1>0. /\ s \in Seq(Completions) /\ s # << >> /\ DueOnce(s) /\ o \in Ops \cup {Null}
      /\ todo' = [todo EXCEPT ![a] = Tail(s)] /\ UNCHANGED <<enqW, deqW, cb>>
  BY HeadTailProperties DEF Complete, TypeOK, OwnInv, Exclusive, Completions, queue
<1>1. /\ DueOnce(Tail(s)) /\ Due(o, s)
      /\ \A x : x # Null => (Due(x, Tail(s)) <=> Due(x, s) /\ x # o)
      /\ s[Len(s)][1] = o /\ o # Null => Tail(s) = << >>
      /\ Tail(s) # << >> => Tail(s)[Len(Tail(s))] = s[Len(s)]
  BY <1>0, DueTail
<1>2. /\ o = Null => r' = r /\ pc' = pc
      /\ o # Null => /\ r' = [r EXCEPT ![o] = Head(todo[a])[2]]
                     /\ pc' = [pc EXCEPT ![o] = IF o = a THEN "returned" ELSE "resumed"]
  BY DEF Complete
<1> HIDE DEF o, s
<1>3. /\ todo'[a] = Tail(s) /\ todo[a] = s /\ \A b \in Actors : b # a => todo'[b] = todo[b]
  BY <1>0 DEF TypeOK, s
<1>n. Null \notin Ops /\ \A x \in Ops : x \in Actors
  BY OwnNames
<1>4. \A x \in Ops : \A b \in Actors : Due(x, todo'[b]) <=> Due(x, todo[b]) /\ ~(b = a /\ x = o)
  BY <1>1, <1>3, <1>n
<1>5. Exclusive'
  <2> USE DEF OwnInv, Exclusive
  <2>1. \A b \in Actors : DueOnce(todo'[b])
    BY <1>1, <1>3
  <2>2. \A x \in Ops : InQueue(x)' <=> InQueue(x)
    BY <1>0 DEF InQueue
  <2> QED
    BY <1>0, <1>4, <2>1, <2>2
<1>6. ASSUME NEW x \in Ops PROVE Owned(x)'
  <2>0. InQueue(x)' <=> InQueue(x)
    BY <1>0 DEF InQueue
  <2>1. CASE x = o
    <3>1. /\ pc[o] = IF a = o THEN "returning" ELSE "waiting"
          /\ ~InQueue(o) /\ cb[o] # "erased"
          /\ \A b \in Actors : ~Due(o, todo'[b])
      BY <1>1, <1>3, <1>4, <2>1 DEF OwnInv, Owned, Exclusive
    <3>2. pc'[o] \in {"returned", "resumed"}
      BY <1>2, <1>n, <2>1 DEF TypeOK
    <3>3. todo'[o] = << >>
      BY <1>1, <1>3, <1>n, <2>1, <3>1 DEF OwnInv, Owned
    <3> QED
      BY <1>0, <2>0, <2>1, <3>1, <3>2, <3>3 DEF Owned
  <2>2. CASE x # o
    <3>1. pc'[x] = pc[x] /\ r'[x] = r[x] /\ cb'[x] = cb[x]
      BY <1>0, <1>2, <2>2 DEF TypeOK
    <3>2. pc[x] = "returning" => todo'[x] # << >> /\ todo'[x][Len(todo'[x])][1] = x
      <4>1. CASE x # a
        BY <1>3, <1>n, <4>1 DEF OwnInv, Owned
      <4>2. CASE x = a /\ pc[x] = "returning"
        <5>1. s # << >> /\ s[Len(s)][1] = x
          BY <1>3, <4>2 DEF OwnInv, Owned
        <5>2. Due(x, s)
          BY <1>4, <1>n, <4>2, <5>1, <1>0, LenProperties DEF Due
        <5>3. Due(x, Tail(s))
          BY <1>1, <1>n, <2>2, <5>2
        <5>4. Tail(s) # << >>
          BY <5>3, DueFacts
        <5> QED
          BY <1>1, <1>3, <4>2, <5>1, <5>4
      <4> QED
        BY <4>1, <4>2
    <3>3. pc[x] # "returning" => todo'[x] = << >>
      BY <1>0, <1>3, <1>n DEF OwnInv, Owned
    <3>4. \A b \in Actors : Due(x, todo'[b]) <=> Due(x, todo[b])
      BY <1>4, <2>2
    <3> QED
      BY <2>0, <3>1, <3>2, <3>3, <3>4 DEF OwnInv, Owned
  <2> QED
    BY <2>1, <2>2
<1> QED
  BY <1>5, <1>6 DEF OwnInv

\* Checks and cancellation.
LEMMA OwnCancel ==
    ASSUME TypeOK, OwnInv, NEW x \in Ops,
           CheckStop(x) \/ RequestStop(x) \/ CallbackErase(x) \/ CallbackComplete(x)
    PROVE  OwnInv'
<1>n. Null \notin Ops /\ \A o \in Ops : o \in Actors
  BY OwnNames
<1>1. CASE CheckStop(x)
  <2>1. /\ pc[x] = "idle" /\ UNCHANGED <<enqW, deqW, todo, cb>>
        /\ pc'[x] \in {"returned", "checked"} /\ (pc'[x] = "checked" => r'[x] = r[x])
        /\ \A o \in Ops : o # x => pc'[o] = pc[o] /\ r'[o] = r[o]
    BY <1>1 DEF CheckStop, TypeOK, queue
  <2>2. \A o \in Ops : InQueue(o)' <=> InQueue(o)
    BY <2>1 DEF InQueue
  <2>3. Exclusive'
    BY <2>1, <2>2 DEF OwnInv, Exclusive
  <2>4. \A o \in Ops : Owned(o)'
    BY <2>1, <2>2 DEF OwnInv, Owned
  <2> QED
    BY <2>3, <2>4 DEF OwnInv
<1>2. CASE RequestStop(x)
  <2>1. /\ UNCHANGED <<enqW, deqW, todo, pc, r>>
        /\ \A o \in Ops : cb'[o] = "erased" <=> cb[o] = "erased"
    BY <1>2 DEF RequestStop, TypeOK, queue
  <2>2. \A o \in Ops : InQueue(o)' <=> InQueue(o)
    BY <2>1 DEF InQueue
  <2>3. Exclusive'
    BY <2>1, <2>2 DEF OwnInv, Exclusive
  <2>4. \A o \in Ops : Owned(o)'
    BY <2>1, <2>2 DEF OwnInv, Owned
  <2> QED
    BY <2>3, <2>4 DEF OwnInv
<1>3. CASE CallbackErase(x)
  <2>1. /\ UNCHANGED <<todo, pc, r>> /\ cb[x] = "fired"
        /\ \A o \in Ops : o # x => cb'[o] = cb[o]
    BY <1>3 DEF CallbackErase, TypeOK
  <2>2. SlotsOf(x, enqW) \cup SlotsOf(x, deqW) # {} <=> InQueue(x)
    BY DEF SlotsOf, InQueue, Waits
  <2>3. CASE InQueue(x)
    <3>1. /\ cb'[x] = "erased" /\ enqW' = Erase(x, enqW) /\ deqW' = Erase(x, deqW)
      BY <1>3, <2>2, <2>3 DEF CallbackErase, TypeOK
    <3>2. /\ Once(Erase(x, enqW))
          /\ \A o : o # Null => (Waits(o, Erase(x, enqW)) <=> Waits(o, enqW) /\ o # x)
      BY ErasesOne, OwnNames DEF TypeOK, OwnInv, Exclusive
    <3>3. /\ Once(Erase(x, deqW))
          /\ \A o : o # Null => (Waits(o, Erase(x, deqW)) <=> Waits(o, deqW) /\ o # x)
      BY ErasesOne, OwnNames DEF TypeOK, OwnInv, Exclusive
    <3>4. \A o \in Ops : InQueue(o)' <=> InQueue(o) /\ o # x
      BY <1>n, <3>1, <3>2, <3>3 DEF InQueue
    <3>5. Exclusive'
      BY <2>1, <2>3, <3>1, <3>2, <3>3, <3>4 DEF OwnInv, Exclusive
    <3>6. \A o \in Ops : Owned(o)'
      BY <2>1, <2>3, <3>1, <3>4 DEF OwnInv, Owned
    <3> QED
      BY <3>5, <3>6 DEF OwnInv
  <2>4. CASE ~InQueue(x)
    <3>1. cb'[x] = "over" /\ enqW' = enqW /\ deqW' = deqW
      BY <1>3, <2>2, <2>4 DEF CallbackErase, TypeOK
    <3>2. \A o \in Ops : InQueue(o)' <=> InQueue(o)
      BY <3>1 DEF InQueue
    <3>5. Exclusive'
      BY <2>1, <3>1, <3>2 DEF OwnInv, Exclusive
    <3>6. \A o \in Ops : Owned(o)'
      BY <2>1, <2>4, <3>1, <3>2 DEF OwnInv, Owned
    <3> QED
      BY <3>5, <3>6 DEF OwnInv
  <2> QED
    BY <2>3, <2>4
<1>4. CASE CallbackComplete(x)
  <2>1. /\ UNCHANGED <<enqW, deqW, todo>> /\ cb[x] = "erased"
        /\ pc'[x] = "resumed" /\ cb'[x] = "over"
        /\ \A o \in Ops : o # x => pc'[o] = pc[o] /\ r'[o] = r[o] /\ cb'[o] = cb[o]
    BY <1>4 DEF CallbackComplete, TypeOK, queue
  <2>2. \A o \in Ops : InQueue(o)' <=> InQueue(o)
    BY <2>1 DEF InQueue
  <2>3. Exclusive'
    BY <2>1, <2>2 DEF OwnInv, Exclusive
  <2>4. \A o \in Ops : Owned(o)'
    BY <1>n, <2>1, <2>2 DEF OwnInv, Owned, Exclusive
  <2> QED
    BY <2>3, <2>4 DEF OwnInv
<1> QED
  BY <1>1, <1>2, <1>3, <1>4

\* Synchronous members that leave the waiters alone.
LEMMA OwnStays ==
    ASSUME TypeOK, OwnInv, UNCHANGED <<enqW, deqW, todo, pc, r, cb>>
    PROVE  OwnInv'
<1>1. \A o \in Ops : InQueue(o)' <=> InQueue(o)
  BY DEF InQueue
<1>2. Exclusive'
  BY <1>1 DEF OwnInv, Exclusive
<1>3. \A o \in Ops : Owned(o)'
  BY <1>1 DEF OwnInv, Owned
<1> QED
  BY <1>2, <1>3 DEF OwnInv

\* A call takes the oldest waiter x, if any, and appends its completion p.
LEMMA OwnTake ==
    ASSUME TypeOK, OwnInv, NEW c \in Callers, NEW x, NEW p \in Completions, p[1] = x,
           UNCHANGED <<pc, r, cb>>,
           \/ x = Oldest(enqW) /\ enqW' = AfterOldest(enqW) /\ deqW' = deqW
           \/ x = Oldest(deqW) /\ deqW' = AfterOldest(deqW) /\ enqW' = enqW,
           todo' = IF x # Null THEN [todo EXCEPT ![c] = Append(@, p)] ELSE todo
    PROVE  OwnInv'
<1>0. /\ Once(enqW') /\ Once(deqW')
      /\ \A o \in Ops : InQueue(o)' <=> InQueue(o) /\ ~(o = x)
      /\ x # Null => InQueue(x) /\ x \in Ops
  BY TakeOne
<1>c. c \in Actors /\ Null \notin Ops
  BY OwnNames
<1>1. CASE x = Null
  <2>1. \A o \in Ops : InQueue(o)' <=> InQueue(o)
    BY <1>0, <1>1, <1>c
  <2>2. Exclusive'
    BY <1>0, <1>1, <2>1 DEF OwnInv, Exclusive
  <2>3. \A o \in Ops : Owned(o)'
    BY <1>1, <2>1 DEF OwnInv, Owned
  <2> QED
    BY <2>2, <2>3 DEF OwnInv
<1>2. CASE x # Null
  <2> DEFINE s == Append(todo[c], p)
             T == {x}
  <2>1. todo' = [todo EXCEPT ![c] = s]
    BY <1>2
  <2>2. todo[c] \in Seq(Completions) /\ DueOnce(todo[c]) /\ ~Due(x, todo[c])
    BY <1>0, <1>2, <1>c DEF TypeOK, OwnInv, Exclusive
  <2>3. DueOnce(s) /\ \A o : Due(o, s) <=> Due(o, todo[c]) \/ o = x
    BY <2>2, DueAppend
  <2>4. /\ \A o \in T : InQueue(o)
        /\ \A o \in Ops : InQueue(o)' <=> InQueue(o) /\ o \notin T
        /\ \A o \in Ops : Due(o, s) <=> Due(o, todo[c]) \/ o \in T
    BY <1>0, <1>2, <2>3
  <2> HIDE DEF s, T
  <2> QED
    BY <1>0, <2>1, <2>3, <2>4, OwnPass
<1> QED
  BY <1>1, <1>2

LEMMA OwnCallers ==
    ASSUME TypeOK, LoopInv, OwnInv, NEW c \in Callers,
           \/ TryDequeue(c) \/ FeedWaiter(c) \/ RefillFromWaiter(c) \/ MarkEnd(c)
           \/ \E v \in Items : TryEnqueue(c, v)
    PROVE  OwnInv'
<1>t. /\ todo \in [Actors -> Seq(Completions)] /\ c \in Actors
      /\ Oldest(enqW) \in Enq \cup {Null} /\ Oldest(deqW) \in Deq \cup {Null}
      /\ resQueue \in Seq(Vals)
  BY WaiterTypes, OwnNames DEF TypeOK
<1>a. \A p : Append(<< >>, p) = <<p>>
  OBVIOUS
<1>1. ASSUME NEW v \in Items, TryEnqueue(c, v) PROVE OwnInv'
  <2> DEFINE p == <<Oldest(deqW), v>>
  <2>1. p \in Completions /\ p[1] = Oldest(deqW)
    BY <1>t, <1>1 DEF Completions, Results, Vals, Ops
  <2>2. deqW' = AfterOldest(deqW) /\ enqW' = enqW /\ UNCHANGED <<pc, r, cb>>
    BY <1>1 DEF TryEnqueue
  <2>3. /\ todo' = IF Oldest(deqW) # Null THEN [todo EXCEPT ![c] = <<p>>] ELSE todo
        /\ todo[c] = << >>
    BY <1>1 DEF TryEnqueue, Enters
  <2> HIDE DEF p
  <2>4. todo' = IF Oldest(deqW) # Null THEN [todo EXCEPT ![c] = Append(@, p)] ELSE todo
    BY <1>a, <2>3
  <2> QED
    BY <2>1, <2>2, <2>4, OwnTake
<1>2. CASE TryDequeue(c)
  <2> DEFINE p == <<Oldest(enqW), "expect">>
  <2>1. p \in Completions /\ p[1] = Oldest(enqW)
    BY <1>t DEF Completions, Results, Ops
  <2>2. enqW' = AfterOldest(enqW) /\ deqW' = deqW /\ UNCHANGED <<pc, r, cb>>
    BY <1>2 DEF TryDequeue, PopAndRefill
  <2>3. /\ todo' = [todo EXCEPT ![c] = IF Oldest(enqW) # Null THEN <<p>> ELSE << >>]
        /\ todo[c] = << >>
    BY <1>2 DEF TryDequeue, Enters, RefilledBy
  <2> HIDE DEF p
  <2>4. todo' = IF Oldest(enqW) # Null THEN [todo EXCEPT ![c] = Append(@, p)] ELSE todo
    BY <1>a, <1>t, <2>3
  <2> QED
    BY <2>1, <2>2, <2>4, OwnTake
<1>3. CASE FeedWaiter(c)
  <2> DEFINE p == <<Oldest(deqW), Head(resQueue)>>
  <2>1. p \in Completions /\ p[1] = Oldest(deqW)
    <3>1. resQueue # << >>
      BY <1>3 DEF LoopInv, FeedWaiter
    <3>2. Head(resQueue) \in Vals
      BY <1>t, <3>1, HeadTailProperties
    <3> QED
      BY <1>t, <3>2 DEF Completions, Results, Ops
  <2>2. /\ deqW' = AfterOldest(deqW) /\ enqW' = enqW /\ UNCHANGED <<pc, r, cb>>
        /\ todo' = IF Oldest(deqW) # Null THEN [todo EXCEPT ![c] = Append(@, p)] ELSE todo
    BY <1>3 DEF FeedWaiter
  <2> HIDE DEF p
  <2> QED
    BY <2>1, <2>2, OwnTake
<1>4. CASE RefillFromWaiter(c)
  <2> DEFINE p == <<Oldest(enqW), "expect">>
  <2>1. p \in Completions /\ p[1] = Oldest(enqW)
    BY <1>t DEF Completions, Results, Ops
  <2>2. /\ enqW' = AfterOldest(enqW) /\ deqW' = deqW /\ UNCHANGED <<pc, r, cb>>
        /\ todo' = IF Oldest(enqW) # Null THEN [todo EXCEPT ![c] = Append(@, p)] ELSE todo
    BY <1>4 DEF RefillFromWaiter
  <2> HIDE DEF p
  <2> QED
    BY <2>1, <2>2, OwnTake
<1>5. CASE MarkEnd(c)
  <2> DEFINE s == EndReached(deqW)
             T == {o \in Ops : Waits(o, deqW)}
  <2>1. /\ deqW' = << >> /\ enqW' = enqW /\ UNCHANGED <<pc, r, cb>>
        /\ todo' = [todo EXCEPT ![c] = s] /\ todo[c] = << >>
    BY <1>5 DEF MarkEnd, Enters
  <2>2. DueOnce(s) /\ \A o : Due(o, s) <=> Waits(o, deqW)
    BY DueEnd DEF TypeOK, OwnInv, Exclusive
  <2>3. Once(<< >>) /\ \A o : ~Waits(o, << >>) /\ ~Due(o, << >>)
    BY DEF Once, Waits, Due
  <2>4. Once(enqW') /\ Once(deqW')
    BY <2>1, <2>3 DEF OwnInv, Exclusive
  <2>5. \A o \in Ops : ~(Waits(o, enqW) /\ Waits(o, deqW))
    BY OwnNames DEF Ops
  <2>6. /\ \A o \in T : InQueue(o)
        /\ \A o \in Ops : InQueue(o)' <=> InQueue(o) /\ o \notin T
        /\ \A o \in Ops : Due(o, s) <=> Due(o, todo[c]) \/ o \in T
    BY <2>1, <2>2, <2>3, <2>5 DEF InQueue
  <2> HIDE DEF s, T
  <2> QED
    BY <2>1, <2>2, <2>4, <2>6, OwnPass
<1> QED
  BY <1>1, <1>2, <1>3, <1>4, <1>5

LEMMA OwnStep ==
    ASSUME TypeOK, LoopInv, OwnInv, [Next]_vars
    PROVE  OwnInv'
<1>1. ASSUME NEW c \in Callers,
             \/ IncreaseCapacity(c) \/ Clear(c) \/ ClearEndMark(c) \/ ForceDequeueAll(c)
             \/ \E s \in Ranges : ForceEnqueueRange(c, s)
      PROVE  OwnInv'
  BY <1>1, OwnStays DEF IncreaseCapacity, Clear, ClearEndMark, ForceDequeueAll, ForceEnqueueRange
<1>2. CASE UNCHANGED vars
  BY <1>2, OwnStays DEF vars, queue
<1> QED
  BY <1>1, <1>2, OwnCancel, OwnEnqueue, OwnDequeue, OwnComplete, OwnCallers DEF Next

LEMMA OwnInit == Init => TypeOK /\ LoopInv /\ OwnInv
<1> SUFFICES ASSUME Init PROVE OwnInv
  BY TypeInit DEF Init, LoopInv
<1>1. Once(<< >>) /\ \A o : ~Waits(o, << >>)
  BY DEF Once, Waits
<1>2. \A o \in Ops : ~InQueue(o) /\ \A a \in Actors : ~Due(o, todo[a])
  BY <1>1, DueFacts DEF Init, InQueue
<1>3. Exclusive
  BY <1>1, <1>2, DueFacts DEF Init, Exclusive
<1>4. \A o \in Ops : Owned(o)
  BY <1>2 DEF Init, Owned, Actors
<1> QED
  BY <1>3, <1>4 DEF OwnInv

\* Exactly one party completes a waiting op, and none an op that has its
\* result, for any number of ops, callers and any interleaving of hand-over,
\* cancellation and mark_end(): the assertions DSK_ASSERT(! _r) hold and no
\* waiting op is forgotten.
THEOREM OneCompletes == Spec => []OneOwner
<1> DEFINE IInv == TypeOK /\ LoopInv /\ OwnInv
<1>1. Init => IInv
  BY OwnInit
<1>2. IInv /\ [Next]_vars => IInv'
  BY TypeStep, LoopStep, OwnStep
<1>3. IInv => OneOwner
  <2> SUFFICES ASSUME IInv, NEW o \in Ops
               PROVE  /\ pc[o] = "waiting" => r[o] = Null /\ Cardinality(Owners(o)) = 1
                      /\ r[o] # Null => Owners(o) = {}
    BY DEF OneOwner
  <2>0. o # Null
    BY OwnNames
  <2>1. ~InQueue(o) => SlotOwners(o) = {}
    BY DEF SlotOwners, SlotsOf, InQueue, Waits
  <2>2. \A a \in Actors : Entries(o, a) # {} <=> Due(o, todo[a])
    BY DEF Due, Entries
  <2>3. (\A a \in Actors : ~Due(o, todo[a])) => TodoOwners(o) = {}
    BY <2>2 DEF TodoOwners
  <2>4. r[o] # Null => ~InQueue(o) /\ cb[o] # "erased" /\ \A a \in Actors : ~Due(o, todo[a])
    BY DEF OwnInv, Owned
  <2>5. ASSUME InQueue(o) PROVE \E x : Owners(o) = {x}
    <3>1. cb[o] # "erased" /\ \A a \in Actors : ~Due(o, todo[a])
      BY <2>5 DEF OwnInv, Exclusive
    <3>2. PICK i : SlotsOf(o, enqW) \cup SlotsOf(o, deqW) = {i}
      <4>1. \A i, j \in SlotsOf(o, enqW) : i = j
        BY <2>0 DEF SlotsOf, OwnInv, Exclusive, Once
      <4>2. \A i, j \in SlotsOf(o, deqW) : i = j
        BY <2>0 DEF SlotsOf, OwnInv, Exclusive, Once
      <4>3. SlotsOf(o, enqW) = {} \/ SlotsOf(o, deqW) = {}
        BY OwnNames DEF SlotsOf, Waits, Ops
      <4>4. SlotsOf(o, enqW) # {} \/ SlotsOf(o, deqW) # {}
        BY <2>5 DEF SlotsOf, InQueue, Waits
      <4> QED
        BY <4>1, <4>2, <4>3, <4>4
    <3>3. SlotOwners(o) = {<<"slot", i>>}
      BY <3>2 DEF SlotOwners
    <3> QED
      BY <2>3, <3>1, <3>3 DEF Owners, CallbackOwner
  <2>6. ASSUME NEW a \in Actors, Due(o, todo[a]) PROVE \E x : Owners(o) = {x}
    <3>1. /\ ~InQueue(o) /\ cb[o] # "erased"
          /\ \A b \in Actors : b # a => ~Due(o, todo[b])
      BY <2>6 DEF OwnInv, Exclusive
    <3>2. PICK i \in 1..Len(todo[a]) : todo[a][i][1] = o
      BY <2>6 DEF Due
    <3>3. DueOnce(todo[a])
      BY DEF OwnInv, Exclusive
    <3>4. Entries(o, a) = {i}
      BY <2>0, <3>2, <3>3 DEF DueOnce, Entries
    <3>5. \A b \in Actors : Entries(o, b) = IF b = a THEN {i} ELSE {}
      BY <3>1, <3>4, <2>2
    <3>6. TodoOwners(o) = {<<a, i>>}
      BY <3>5 DEF TodoOwners
    <3> QED
      BY <2>1, <3>1, <3>6 DEF Owners, CallbackOwner
  <2>7. ASSUME cb[o] = "erased" PROVE \E x : Owners(o) = {x}
    <3>1. ~InQueue(o) /\ \A a \in Actors : ~Due(o, todo[a])
      BY <2>7 DEF OwnInv, Exclusive
    <3> QED
      BY <2>1, <2>3, <2>7, <3>1 DEF Owners, CallbackOwner
  <2>8. pc[o] = "waiting" => \E x : Owners(o) = {x}
    BY <2>5, <2>6, <2>7 DEF OwnInv, Owned
  <2>9. pc[o] = "waiting" => r[o] = Null
    BY DEF OwnInv, Owned
  <2> QED
    BY <2>1, <2>3, <2>4, <2>8, <2>9, FS_Singleton DEF Owners, CallbackOwner
<1> QED
  BY <1>1, <1>2, <1>3, PTL DEF Spec
-----------------------------------------------------------------------------
(* Values.  A value that went in is reported to its enqueuer as such, and  *)
(* has a receiver from the moment it leaves.                               *)

Elems(s)    == {s[i] : i \in 1..Len(s)}
Distinct(s) == \A i, j \in 1..Len(s) : s[i] = s[j] => i = j

\* op o has result x, or is about to get it
Pend(p, s) == \E i \in 1..Len(s) : s[i] = p
Gets(o, x) == r[o] = x \/ \E a \in Actors : Pend(<<o, x>>, todo[a])

\* the caller of a synchronous member, or one dequeue op, but not both
Delivered(v) ==
    \/ v \in got /\ \A d \in Deq : ~Gets(d, v)
    \/ v \notin got /\ \E d \in Deq : Gets(d, v) /\ \A b \in Deq : Gets(b, v) => b = d

ValInv ==
    /\ Distinct(out \o resQueue)
    /\ \A v \in Items : v \in Entered => v \in used
    /\ \A e \in Enq : e \in Entered <=> Gets(e, "expect")
    /\ \A v \in Vals : v \in Elems(out) => Delivered(v)
    /\ \A v \in Vals : v \notin Elems(out) => v \notin got /\ \A d \in Deq : ~Gets(d, v)

\* Dequeue ops wait at an empty queue only, clear() or not.
SideInv ==
    /\ (\A c \in Callers : loop[c] = "none") => resQueue = << >> \/ deqW = << >>
    /\ \A c \in Callers : loop[c] = "refill" => deqW = << >>

\* Sequences of values.
LEMMA ElemsFacts ==
    ASSUME NEW S
    PROVE  /\ Elems(<< >>) = {} /\ \A v : Elems(<<v>>) = {v}
           /\ \A s, t \in Seq(S) : Elems(s \o t) = Elems(s) \cup Elems(t)
<1>1. Elems(<< >>) = {} /\ \A v : Elems(<<v>>) = {v}
  BY DEF Elems
<1>2. ASSUME NEW s \in Seq(S), NEW t \in Seq(S)
      PROVE  Elems(s \o t) = Elems(s) \cup Elems(t)
  <2>1. /\ Len(s) \in Nat /\ Len(t) \in Nat /\ Len(s \o t) = Len(s) + Len(t)
        /\ \A i \in 1..Len(s) + Len(t) : (s \o t)[i] = IF i <= Len(s) THEN s[i] ELSE t[i - Len(s)]
    BY ConcatProperties, LenProperties
  <2> DEFINE u == s \o t
  <2> HIDE DEF u
  <2>2. \A i \in 1..Len(s) : i \in 1..Len(u) /\ u[i] = s[i]
    BY <2>1 DEF u
  <2>3. ASSUME NEW i \in 1..Len(t) PROVE Len(s) + i \in 1..Len(u) /\ u[Len(s) + i] = t[i]
    <3>1. Len(s) + i \in 1..Len(s) + Len(t) /\ ~(Len(s) + i <= Len(s)) /\ (Len(s) + i) - Len(s) = i
      BY <2>1
    <3> QED
      BY <2>1, <3>1 DEF u
  <2>4. ASSUME NEW i \in 1..Len(u), ~(i <= Len(s)) PROVE i - Len(s) \in 1..Len(t) /\ u[i] = t[i - Len(s)]
    BY <2>1, <2>4 DEF u
  <2>5. \A i \in 1..Len(u) : i <= Len(s) => i \in 1..Len(s) /\ u[i] = s[i]
    BY <2>1 DEF u
  <2>6. \A x : x \in Elems(u) => x \in Elems(s) \cup Elems(t)
    BY <2>4, <2>5 DEF Elems
  <2>7. \A x : x \in Elems(s) \cup Elems(t) => x \in Elems(u)
    BY <2>2, <2>3 DEF Elems
  <2> QED
    BY <2>6, <2>7 DEF u
<1> QED
  BY <1>1, <1>2

LEMMA Associative == \A s, t, u \in Seq(Vals) : (s \o t) \o u = s \o (t \o u)
<1> SUFFICES ASSUME NEW s \in Seq(Vals), NEW t \in Seq(Vals), NEW u \in Seq(Vals)
             PROVE  (s \o t) \o u = s \o (t \o u)
  OBVIOUS
<1> QED
  BY ConcatAssociative

\* The same with the two sides named, which the provers can match.
Left(s, t, u) == (s \o t) \o u
Right(s, t, u) == s \o (t \o u)

LEMMA LeftIsRight == \A s, t, u \in Seq(Vals) : Left(s, t, u) = Right(s, t, u)
  BY Associative DEF Left, Right

LEMMA DistinctConcat ==
    ASSUME NEW S, NEW s \in Seq(S), NEW t \in Seq(S)
    PROVE  Distinct(s \o t) <=> Distinct(s) /\ Distinct(t) /\ Elems(s) \cap Elems(t) = {}
<1>1. /\ Len(s) \in Nat /\ Len(t) \in Nat /\ Len(s \o t) = Len(s) + Len(t)
      /\ \A i \in 1..Len(s) + Len(t) : (s \o t)[i] = IF i <= Len(s) THEN s[i] ELSE t[i - Len(s)]
  BY ConcatProperties, LenProperties
<1> DEFINE u == s \o t
<1> HIDE DEF u
<1>2. \A i \in 1..Len(s) : i \in 1..Len(u) /\ u[i] = s[i]
  BY <1>1 DEF u
<1>3. ASSUME NEW i \in 1..Len(t) PROVE Len(s) + i \in 1..Len(u) /\ u[Len(s) + i] = t[i]
  <2>1. Len(s) + i \in 1..Len(s) + Len(t) /\ ~(Len(s) + i <= Len(s)) /\ (Len(s) + i) - Len(s) = i
    BY <1>1
  <2> QED
    BY <1>1, <2>1 DEF u
<1>4. ASSUME NEW i \in 1..Len(u), ~(i <= Len(s)) PROVE i - Len(s) \in 1..Len(t) /\ u[i] = t[i - Len(s)]
  BY <1>1, <1>4 DEF u
<1>5. \A i \in 1..Len(u) : i <= Len(s) => i \in 1..Len(s) /\ u[i] = s[i]
  BY <1>1 DEF u
<1>6. ASSUME Distinct(u) PROVE Distinct(s) /\ Distinct(t) /\ Elems(s) \cap Elems(t) = {}
  <2>1. Distinct(s)
    BY <1>2, <1>6 DEF Distinct
  <2>2. Distinct(t)
    <3> SUFFICES ASSUME NEW i \in 1..Len(t), NEW j \in 1..Len(t), t[i] = t[j] PROVE i = j
      BY DEF Distinct
    <3>1. Len(s) + i = Len(s) + j
      BY <1>3, <1>6 DEF Distinct
    <3> QED
      BY <1>1, <3>1
  <2>3. ASSUME NEW i \in 1..Len(s), NEW j \in 1..Len(t) PROVE s[i] # t[j]
    <3>1. i # Len(s) + j
      BY <1>1
    <3> QED
      BY <1>2, <1>3, <1>6, <3>1 DEF Distinct
  <2> QED
    BY <2>1, <2>2, <2>3 DEF Elems
<1>7. ASSUME Distinct(s), Distinct(t), Elems(s) \cap Elems(t) = {} PROVE Distinct(u)
  <2> SUFFICES ASSUME NEW i \in 1..Len(u), NEW j \in 1..Len(u), u[i] = u[j] PROVE i = j
    BY DEF Distinct
  <2>0. \A a \in 1..Len(s), b \in 1..Len(t) : s[a] # t[b]
    BY <1>7 DEF Elems
  <2>1. CASE i <= Len(s) /\ j <= Len(s)
    BY <1>5, <1>7, <2>1 DEF Distinct
  <2>2. CASE ~(i <= Len(s)) /\ ~(j <= Len(s))
    <3>1. i - Len(s) = j - Len(s)
      BY <1>4, <1>7, <2>2 DEF Distinct
    <3> QED
      BY <1>1, <3>1
  <2>3. CASE i <= Len(s) /\ ~(j <= Len(s))
    BY <1>4, <1>5, <2>0, <2>3
  <2>4. CASE ~(i <= Len(s)) /\ j <= Len(s)
    BY <1>4, <1>5, <2>0, <2>4
  <2> QED
    BY <2>1, <2>2, <2>3, <2>4
<1> QED
  BY <1>6, <1>7 DEF u

\* A step that lets the values of s in and those of h out, in order.
Flow(h, s) ==
    /\ h \in Seq(Vals) /\ s \in Seq(Vals)
    /\ resQueue \o s = h \o resQueue'
    /\ out' = out \o h
    /\ dropped' = dropped

LEMMA FlowValues ==
    ASSUME TypeOK, TypeOK', NEW h, NEW s, Flow(h, s),
           Distinct(out \o resQueue), Distinct(s), Elems(s) \cap Entered = {}
    PROVE  /\ Distinct(out' \o resQueue')
           /\ Entered' = Entered \cup Elems(s)
           /\ Elems(out') = Elems(out) \cup Elems(h)
           /\ Elems(h) \cap Elems(out) = {}
<1>0. /\ h \in Seq(Vals) /\ s \in Seq(Vals) /\ resQueue \in Seq(Vals) /\ out \in Seq(Vals)
      /\ resQueue' \in Seq(Vals)
  BY DEF TypeOK, Flow
<1>1. out' \o resQueue' = (out \o resQueue) \o s
  <2>1. resQueue \o s = h \o resQueue' /\ out' = out \o h
    BY DEF Flow
  <2> DEFINE q == resQueue'
  <2>2. /\ out \in Seq(Vals) /\ h \in Seq(Vals) /\ q \in Seq(Vals)
        /\ resQueue \in Seq(Vals) /\ s \in Seq(Vals)
    BY <1>0
  <2> HIDE DEF q
  <2>3. Left(out, h, q) = Right(out, h, q) /\ Left(out, resQueue, s) = Right(out, resQueue, s)
    BY ONLY <2>2, LeftIsRight
  <2>4. /\ (out \o h) \o q = out \o (h \o q)
        /\ (out \o resQueue) \o s = out \o (resQueue \o s)
    BY ONLY <2>3 DEF Left, Right
  <2>5. resQueue \o s = h \o q
    BY <2>1 DEF q
  <2>6. (out \o h) \o q = (out \o resQueue) \o s
    BY ONLY <2>4, <2>5, Zenon
  <2> QED
    BY <2>1, <2>6 DEF q
<1>2. /\ Elems(out \o resQueue) = Elems(out) \cup Elems(resQueue)
      /\ Elems(resQueue \o s) = Elems(resQueue) \cup Elems(s)
      /\ Elems(h \o resQueue') = Elems(h) \cup Elems(resQueue')
      /\ Elems(out \o h) = Elems(out) \cup Elems(h)
  BY <1>0, ElemsFacts
<1>3. Entered = Elems(resQueue) \cup Elems(out) \cup dropped
  BY DEF Entered, Elems
<1>4. Entered' = Elems(resQueue') \cup Elems(out') \cup dropped'
  BY DEF Entered, Elems
<1>5. out \o resQueue \in Seq(Vals)
  BY <1>0, ConcatProperties
<1>6. Distinct(out' \o resQueue')
  <2>1. Elems(out \o resQueue) \cap Elems(s) = {}
    BY <1>2, <1>3
  <2>2. Distinct((out \o resQueue) \o s)
    BY <1>0, <1>5, <2>1, DistinctConcat
  <2> QED
    BY <1>1, <2>2
<1>7. out' \in Seq(Vals) /\ Distinct(out') /\ Distinct(out \o h)
  BY <1>0, <1>6, DistinctConcat DEF TypeOK, Flow
<1>8. Elems(out) \cap Elems(h) = {}
  BY <1>0, <1>7, DistinctConcat
<1>9. Entered' = Entered \cup Elems(s) /\ Elems(out') = Elems(out) \cup Elems(h)
  BY <1>2, <1>3, <1>4 DEF Flow
<1> QED
  BY <1>6, <1>8, <1>9

\* Such a step is a step of the abstract queue.
LEMMA FlowMoves ==
    ASSUME TypeOK, TypeOK', NEW h, NEW s, Flow(h, s), s \in Fifo!NewValues,
           Entered' = Entered \cup Elems(s)
    PROVE  Fifo!Next
<1>0. /\ h \in Seq(Vals) /\ s \in Seq(Vals) /\ resQueue \in Seq(Vals) /\ out \in Seq(Vals)
      /\ resQueue' \in Seq(Vals)
  BY DEF TypeOK, Flow
<1> DEFINE u == resQueue \o s
           n == Len(h)
<1>1. u = h \o resQueue' /\ u \in Seq(Vals)
  BY <1>0, ConcatProperties DEF Flow
<1> HIDE DEF u
<1>2. /\ Len(h) \in Nat /\ Len(resQueue') \in Nat /\ Len(u) = Len(h) + Len(resQueue')
      /\ \A i \in 1..Len(h) + Len(resQueue') : u[i] = IF i <= Len(h) THEN h[i] ELSE resQueue'[i - Len(h)]
  BY <1>0, <1>1, ConcatProperties, LenProperties
<1>3. n \in 0..Len(u)
  BY <1>2
<1>4. SubSeq(u, 1, n) = h
  <2>1. \A i \in 1..n : u[i] \in Vals
    BY <1>1, <1>2, ElementOfSeq
  <2>2. /\ SubSeq(u, 1, n) \in Seq(Vals) /\ Len(SubSeq(u, 1, n)) = n
        /\ \A i \in 1..n : SubSeq(u, 1, n)[i] = u[i]
    BY <1>2, <2>1, SubSeqProperties
  <2> QED
    BY <1>0, <1>2, <2>2, SeqEqual
<1>5. SubSeq(u, n + 1, Len(u)) = resQueue'
  <2>1. \A i \in n + 1..Len(u) : u[i] \in Vals
    BY <1>1, <1>2, ElementOfSeq
  <2> DEFINE t == SubSeq(u, n + 1, Len(u))
  <2>2. /\ t \in Seq(Vals) /\ Len(t) = Len(resQueue')
        /\ \A i \in 1..Len(resQueue') : t[i] = u[n + i]
    <3>1. n + 1 \in Int /\ Len(u) \in Int /\ Len(u) - (n + 1) + 1 = Len(resQueue')
      BY <1>2
    <3>2. /\ t \in Seq(Vals)
          /\ Len(t) = IF n + 1 <= Len(u) THEN Len(u) - (n + 1) + 1 ELSE 0
          /\ \A i \in 1 .. Len(u) - (n + 1) + 1 : t[i] = u[(n + 1) + i - 1]
      BY <2>1, <3>1, SubSeqProperties
    <3> HIDE DEF t
    <3>3. \A i \in 1..Len(resQueue') : (n + 1) + i - 1 = n + i
      BY <1>2
    <3> QED
      BY <1>2, <3>1, <3>2, <3>3
  <2> HIDE DEF t
  <2>3. ASSUME NEW i \in 1..Len(resQueue') PROVE t[i] = resQueue'[i]
    <3>1. n + i \in 1..Len(h) + Len(resQueue') /\ ~(n + i <= Len(h)) /\ (n + i) - Len(h) = i
      BY <1>2
    <3> QED
      BY <1>2, <2>2, <3>1
  <2> QED
    BY <1>0, <2>2, <2>3, SeqEqual DEF t
<1>6. Fifo!Move
  <2>1. /\ resQueue' = SubSeq(resQueue \o s, n + 1, Len(resQueue \o s))
        /\ out' = out \o SubSeq(resQueue \o s, 1, n)
        /\ n \in 0..Len(resQueue \o s)
    BY <1>3, <1>4, <1>5 DEF u, Flow
  <2>2. Entered' = Entered \cup {s[i] : i \in 1..Len(s)}
    BY DEF Elems
  <2> HIDE DEF n
  <2> QED
    BY <2>1, <2>2 DEF Fifo!Move
<1> QED
  BY <1>6 DEF Fifo!Next

\* Results on their way.
Good == {"expect"} \cup Vals

LEMMA PendFacts ==
    /\ \A p : ~Pend(p, << >>)
    /\ \A p, q : Pend(p, <<q>>) <=> p = q
    /\ \A p, q, t : Pend(p, <<q, t>>) <=> p = q \/ p = t
<1>1. \A p : ~Pend(p, << >>)
  BY DEF Pend
<1>2. \A p, q : Pend(p, <<q>>) <=> p = q
  BY DEF Pend
<1>3. ASSUME NEW p, NEW q, NEW t PROVE Pend(p, <<q, t>>) <=> p = q \/ p = t
  <2>1. \A i \in 1..Len(<<q, t>>) : i = 1 \/ i = 2
    OBVIOUS
  <2>2. <<q, t>>[1] = q /\ <<q, t>>[2] = t /\ 1 \in 1..Len(<<q, t>>) /\ 2 \in 1..Len(<<q, t>>)
    OBVIOUS
  <2> QED
    BY <2>1, <2>2 DEF Pend
<1> QED
  BY <1>1, <1>2, <1>3

LEMMA PendSeq ==
    ASSUME NEW s \in Seq(Completions)
    PROVE  /\ \A q \in Completions : \A p : Pend(p, Append(s, q)) <=> Pend(p, s) \/ p = q
           /\ s # << >> => \A p : Pend(p, s) <=> p = Head(s) \/ Pend(p, Tail(s))
           /\ \A o, x : Pend(<<o, x>>, s) => Due(o, s)
<1>0. Len(s) \in Nat
  BY LenProperties
<1>1. ASSUME NEW q \in Completions, NEW p PROVE Pend(p, Append(s, q)) <=> Pend(p, s) \/ p = q
  <2> DEFINE v == Append(s, q)
  <2>1. Len(v) = Len(s) + 1 /\ v[Len(s) + 1] = q /\ \A i \in 1..Len(s) : v[i] = s[i]
    BY AppendProperties
  <2> HIDE DEF v
  <2>2. \A i \in 1..Len(v) : i \in 1..Len(s) \/ i = Len(s) + 1
    BY <1>0, <2>1
  <2>3. \A i \in 1..Len(s) : i \in 1..Len(v)
    BY <1>0, <2>1
  <2>4. Len(s) + 1 \in 1..Len(v)
    BY <1>0, <2>1
  <2>5. Pend(p, v) <=> Pend(p, s) \/ p = q
    BY <2>1, <2>2, <2>3, <2>4 DEF Pend
  <2> QED
    BY <2>5 DEF v
<1>2. ASSUME s # << >>, NEW p PROVE Pend(p, s) <=> p = Head(s) \/ Pend(p, Tail(s))
  <2> DEFINE v == Tail(s)
  <2>1. /\ v \in Seq(Completions) /\ Len(v) = Len(s) - 1 /\ Len(s) \in Nat \ {0} /\ Head(s) = s[1]
        /\ \A i \in 1..Len(v) : v[i] = s[i + 1]
    BY <1>2, HeadTailProperties, LenProperties, EmptySeq
  <2> HIDE DEF v
  <2>2. \A i \in 1..Len(v) : i + 1 \in 1..Len(s)
    BY <2>1
  <2>3. \A i \in 1..Len(s) : i = 1 \/ (i - 1 \in 1..Len(v) /\ v[i - 1] = s[i])
    <3> SUFFICES ASSUME NEW i \in 1..Len(s), i # 1 PROVE i - 1 \in 1..Len(v) /\ v[i - 1] = s[i]
      OBVIOUS
    <3>1. i - 1 \in 1..Len(v) /\ (i - 1) + 1 = i
      BY <2>1
    <3> QED
      BY <2>1, <3>1
  <2>4. 1 \in 1..Len(s)
    BY <2>1
  <2>5. Pend(p, s) <=> p = Head(s) \/ Pend(p, v)
    BY <2>1, <2>2, <2>3, <2>4 DEF Pend
  <2> QED
    BY <2>5 DEF v
<1>3. \A o, x : Pend(<<o, x>>, s) => Due(o, s)
  BY DEF Pend, Due
<1> QED
  BY <1>1, <1>2, <1>3

\* An actor gets completions P to do.
LEMMA GetsMore ==
    ASSUME TypeOK, NEW a \in Actors, NEW s, NEW P, r' = r, todo' = [todo EXCEPT ![a] = s],
           \A o \in Ops, x \in Good : Pend(<<o, x>>, s) <=> Pend(<<o, x>>, todo[a]) \/ <<o, x>> \in P
    PROVE  \A o \in Ops, x \in Good : Gets(o, x)' <=> Gets(o, x) \/ <<o, x>> \in P
<1>1. \A b \in Actors : todo'[b] = IF b = a THEN s ELSE todo[b]
  BY DEF TypeOK
<1> QED
  BY <1>1 DEF Gets

\* Completing an op gives it the result it was to get, and cancelling it none
\* of these.
LEMMA GetsSame ==
    ASSUME TypeOK, OwnInv,
           \/ \E o \in Ops : \/ CheckStop(o) \/ RequestStop(o)
                             \/ CallbackErase(o) \/ CallbackComplete(o)
           \/ \E a \in Actors : Complete(a)
    PROVE  \A o \in Ops, x \in Good : Gets(o, x)' <=> Gets(o, x)
<1>0. Null \notin Good /\ "canceled" \notin Good /\ Null \notin Ops /\ \A o \in Ops : o \in Actors
  BY NameAssumption, OwnNames DEF Good
<1>1. ASSUME NEW o \in Ops, CheckStop(o) \/ RequestStop(o) \/ CallbackErase(o) \/ CallbackComplete(o)
      PROVE  \A b \in Ops, x \in Good : Gets(b, x)' <=> Gets(b, x)
  <2>1. /\ todo' = todo
        /\ \A b \in Ops : b # o => r'[b] = r[b]
        /\ r'[o] = r[o] \/ (r'[o] = "canceled" /\ (pc[o] = "idle" \/ cb[o] = "erased"))
    BY <1>1 DEF CheckStop, RequestStop, CallbackErase, CallbackComplete, TypeOK
  <2>2. pc[o] = "idle" \/ cb[o] = "erased" => r[o] = Null
    BY DEF OwnInv, Owned
  <2> QED
    BY <1>0, <2>1, <2>2 DEF Gets
<1>2. ASSUME NEW a \in Actors, Complete(a)
      PROVE  \A b \in Ops, x \in Good : Gets(b, x)' <=> Gets(b, x)
  <2> DEFINE s == todo[a]
             o == Head(s)[1]
  <2>1. /\ s \in Seq(Completions) /\ s # << >> /\ DueOnce(s) /\ o \in Ops \cup {Null}
        /\ Head(s) \in Completions /\ todo' = [todo EXCEPT ![a] = Tail(s)]
    BY <1>2, HeadTailProperties DEF Complete, TypeOK, OwnInv, Exclusive, Completions
  <2>2. Head(s) = <<o, Head(s)[2]>>
    BY <2>1 DEF Completions
  <2>3. /\ o = Null => r' = r
        /\ o # Null => r' = [r EXCEPT ![o] = Head(s)[2]]
    BY <1>2 DEF Complete
  <2>4. Due(o, s) /\ \A x : x # Null => (Due(x, Tail(s)) <=> Due(x, s) /\ x # o)
    BY <2>1, DueTail
  <2>5. \A p : Pend(p, s) <=> p = Head(s) \/ Pend(p, Tail(s))
    BY <2>1, PendSeq
  <2>6. o # Null => r[o] = Null /\ ~Due(o, Tail(s)) /\ \A b \in Actors : b # a => ~Due(o, todo[b])
    <3> SUFFICES ASSUME o # Null
                 PROVE  r[o] = Null /\ ~Due(o, Tail(s)) /\ \A b \in Actors : b # a => ~Due(o, todo[b])
      OBVIOUS
    <3>1. o \in Ops
      BY <2>1
    <3>2. pc[o] \in {"returning", "waiting"}
      BY <2>4, <3>1 DEF OwnInv, Owned
    <3>3. r[o] = Null
      BY <3>1, <3>2 DEF OwnInv, Owned
    <3>4. \A b \in Actors : b # a => ~Due(o, todo[b])
      BY <2>4, <3>1 DEF OwnInv, Exclusive
    <3> QED
      BY <2>4, <3>3, <3>4
  <2>7. /\ \A b \in Actors : todo'[b] = IF b = a THEN Tail(s) ELSE todo[b]
        /\ \A b \in Ops : b # o => r'[b] = r[b]
        /\ o \in Ops => r'[o] = Head(s)[2]
    BY <1>0, <2>1, <2>3 DEF TypeOK
  <2>8. \A b \in Actors : \A q, x : Pend(<<q, x>>, todo[b]) => Due(q, todo[b])
    BY PendSeq DEF TypeOK
  <2>9. \A q, x : Pend(<<q, x>>, Tail(s)) => Due(q, Tail(s))
    BY <2>1, HeadTailProperties, PendSeq
  <2>s. s = todo[a]
    OBVIOUS
  <2> HIDE DEF s, o
  <2>10. ASSUME NEW b \in Ops, NEW x \in Good, b # o PROVE Gets(b, x)' <=> Gets(b, x)
    <3>1. Pend(<<b, x>>, Tail(s)) <=> Pend(<<b, x>>, s)
      BY <2>2, <2>5, <2>10
    <3> QED
      BY <2>s, <2>7, <2>10, <3>1 DEF Gets
  <2>11. ASSUME NEW b \in Ops, NEW x \in Good, b = o PROVE Gets(b, x)' <=> Gets(b, x)
    <3>0. \A c \in Actors : ~Pend(<<b, x>>, todo'[c])
      BY <1>0, <2>6, <2>7, <2>8, <2>9, <2>11
    <3>1. Gets(b, x)' <=> Head(s)[2] = x
      BY <2>7, <2>11, <3>0 DEF Gets
    <3>2. Pend(<<b, x>>, s) <=> Head(s)[2] = x
      BY <1>0, <2>2, <2>5, <2>6, <2>9, <2>11
    <3>3. Gets(b, x) <=> Pend(<<b, x>>, s)
      BY <1>0, <2>s, <2>6, <2>8, <2>11 DEF Gets
    <3> QED
      BY <3>1, <3>2, <3>3
  <2> QED
    BY <2>10, <2>11
<1> QED
  BY <1>1, <1>2

\* A step that lets the values of s in and those of h out, completing P, keeps
\* the books and moves the values in order.
LEMMA ValKeeps ==
    ASSUME TypeOK, TypeOK', ValInv, NEW h, NEW s, NEW P,
           Flow(h, s), s \in Fifo!NewValues, used \subseteq used', Elems(s) \cap Items \subseteq used',
           \A o \in Ops, x \in Good : Gets(o, x)' <=> Gets(o, x) \/ <<o, x>> \in P,
           \A e \in Enq : e \in Elems(s) <=> <<e, "expect">> \in P,
           \A v \in Vals \ Elems(h) : (v \in got' <=> v \in got) /\ \A d \in Deq : <<d, v>> \notin P,
           \A v \in Elems(h) :
              \/ v \in got' /\ \A d \in Deq : <<d, v>> \notin P
              \/ got' = got /\ \E d \in Deq : <<d, v>> \in P /\ \A b \in Deq : <<b, v>> \in P => b = d
    PROVE  ValInv' /\ Fifo!Next
<1>1. Distinct(s) /\ Elems(s) \cap Entered = {}
  <2>1. s = << >> \/ s \in [{1} -> Vals \ Entered] \/ s \in [{1, 2} -> Vals \ Entered]
    BY DEF Fifo!NewValues
  <2>2. Len(s) = 2 => s[1] # s[2]
    BY DEF Fifo!NewValues
  <2>3. CASE s = << >>
    BY <2>3, ElemsFacts DEF Distinct
  <2>4. CASE s \in [{1} -> Vals \ Entered]
    <3>1. Len(s) = 1
      <4>1. DOMAIN s = 1..1 /\ 1 \in Nat /\ s \in Seq(Vals)
        BY <2>4 DEF Flow
      <4> QED
        BY <4>1, LenProperties
    <3> QED
      BY <2>4, <3>1 DEF Distinct, Elems
  <2>5. CASE s \in [{1, 2} -> Vals \ Entered]
    <3>1. Len(s) = 2
      <4>1. DOMAIN s = 1..2 /\ 2 \in Nat /\ s \in Seq(Vals)
        BY <2>5 DEF Flow
      <4> QED
        BY <4>1, LenProperties
    <3>2. \A i \in 1..2 : i = 1 \/ i = 2
      OBVIOUS
    <3> QED
      BY <2>2, <2>5, <3>1, <3>2 DEF Distinct, Elems
  <2> QED
    BY <2>1, <2>3, <2>4, <2>5
<1>2. /\ Distinct(out' \o resQueue')
      /\ Entered' = Entered \cup Elems(s)
      /\ Elems(out') = Elems(out) \cup Elems(h)
      /\ Elems(h) \cap Elems(out) = {}
  BY <1>1, FlowValues DEF ValInv
<1>3. Fifo!Next
  BY <1>2, FlowMoves
<1>4. \A v \in Items : v \in Entered' => v \in used'
  BY <1>2 DEF ValInv
<1>g. /\ "expect" \in Good /\ \A v \in Vals : v \in Good
      /\ \A e \in Enq : e \in Ops /\ e \in Vals
      /\ \A d \in Deq : d \in Ops
  BY DEF Good, Vals, Ops
<1>5. \A e \in Enq : e \in Entered' <=> Gets(e, "expect")'
  BY <1>2, <1>g DEF ValInv
<1>6. ASSUME NEW v \in Vals, v \notin Elems(h), NEW d \in Deq PROVE Gets(d, v)' <=> Gets(d, v)
  BY <1>6, <1>g
<1>7. ASSUME NEW v \in Vals, v \in Elems(out') PROVE Delivered(v)'
  <2>1. CASE v \in Elems(h)
    <3>1. v \notin got /\ \A d \in Deq : ~Gets(d, v)
      BY <1>2, <2>1 DEF ValInv
    <3>2. \A d \in Deq : Gets(d, v)' <=> <<d, v>> \in P
      BY <1>g, <3>1
    <3>3. CASE v \in got' /\ \A d \in Deq : <<d, v>> \notin P
      BY <3>2, <3>3 DEF Delivered
    <3>4. CASE got' = got /\ \E d \in Deq : <<d, v>> \in P /\ \A b \in Deq : <<b, v>> \in P => b = d
      BY <3>1, <3>2, <3>4 DEF Delivered
    <3> QED
      BY <2>1, <3>3, <3>4
  <2>2. CASE v \notin Elems(h)
    <3>1. Delivered(v) /\ (v \in got' <=> v \in got)
      BY <1>2, <1>7, <2>2 DEF ValInv
    <3>2. \A d \in Deq : Gets(d, v)' <=> Gets(d, v)
      BY <1>6, <2>2
    <3> QED
      BY <3>1, <3>2 DEF Delivered
  <2> QED
    BY <2>1, <2>2
<1>8. ASSUME NEW v \in Vals, v \notin Elems(out') PROVE v \notin got' /\ \A d \in Deq : ~Gets(d, v)'
  <2>1. v \notin Elems(h) /\ v \notin Elems(out)
    BY <1>2, <1>8
  <2> QED
    BY <1>6, <2>1 DEF ValInv
<1> QED
  BY <1>2, <1>3, <1>4, <1>5, <1>7, <1>8 DEF ValInv

\* Nothing moves.
LEMMA ValStill ==
    ASSUME TypeOK, TypeOK', ValInv, UNCHANGED <<resQueue, hist>>,
           \A o \in Ops, x \in Good : Gets(o, x)' <=> Gets(o, x)
    PROVE  ValInv' /\ Fifo!Next
<1> DEFINE h == << >>
           P == {}
<1>1. /\ UNCHANGED <<resQueue, out, used, got, dropped>>
      /\ resQueue \in Seq(Vals) /\ out \in Seq(Vals)
  BY DEF hist, TypeOK
<1>2. resQueue \o h = resQueue /\ h \o resQueue = resQueue /\ out \o h = out /\ h \in Seq(Vals)
  BY <1>1, ConcatEmptySeq
<1>3. Flow(h, h) /\ h \in Fifo!NewValues /\ Elems(h) = {}
  <2>1. h \in Fifo!NewValues
    BY DEF Fifo!NewValues
  <2>2. Elems(h) = {}
    BY ElemsFacts
  <2> QED
    BY <1>1, <1>2, <2>1, <2>2 DEF Flow
<1>4. \A o \in Ops, x \in Good : Gets(o, x)' <=> Gets(o, x) \/ <<o, x>> \in P
  OBVIOUS
<1>5. P = {}
  OBVIOUS
<1> HIDE DEF h, P
<1> QED
  BY <1>1, <1>3, <1>4, <1>5, ValKeeps

\* The ways in which the steps of the queue let values in and out.
LEMMA Flows ==
    ASSUME TypeOK, TypeOK', dropped' = dropped
    PROVE  /\ \A v \in Vals : resQueue' = Append(resQueue, v) /\ out' = out => Flow(<< >>, <<v>>)
           /\ \A v \in Vals : resQueue = << >> /\ resQueue' = << >> /\ out' = Append(out, v)
                              => Flow(<<v>>, <<v>>)
           /\ resQueue # << >> /\ resQueue' = Tail(resQueue) /\ out' = Append(out, Head(resQueue))
              => Flow(<<Head(resQueue)>>, << >>)
           /\ \A v \in Vals : /\ resQueue # << >> /\ resQueue' = Append(Tail(resQueue), v)
                              /\ out' = Append(out, Head(resQueue))
                              => Flow(<<Head(resQueue)>>, <<v>>)
           /\ resQueue' = << >> /\ out' = out \o resQueue => Flow(resQueue, << >>)
           /\ \A s \in Seq(Vals) : resQueue' = resQueue \o s /\ out' = out => Flow(<< >>, s)
<1>0. /\ resQueue \in Seq(Vals) /\ out \in Seq(Vals) /\ resQueue' \in Seq(Vals)
      /\ << >> \in Seq(Vals) /\ \A v \in Vals : <<v>> \in Seq(Vals)
  BY DEF TypeOK
<1>1. \A q \in Seq(Vals) : /\ << >> \o q = q /\ q \o << >> = q
                           /\ \A v \in Vals : Append(q, v) = q \o <<v>>
                           /\ q # << >> => /\ Head(q) \in Vals /\ Tail(q) \in Seq(Vals)
                                           /\ <<Head(q)>> \o Tail(q) = q
  <2> SUFFICES ASSUME NEW q \in Seq(Vals)
               PROVE  /\ << >> \o q = q /\ q \o << >> = q
                      /\ \A v \in Vals : Append(q, v) = q \o <<v>>
                      /\ q # << >> => /\ Head(q) \in Vals /\ Tail(q) \in Seq(Vals)
                                      /\ <<Head(q)>> \o Tail(q) = q
    OBVIOUS
  <2>1. << >> \o q = q /\ q \o << >> = q
    BY ConcatEmptySeq
  <2>2. \A v \in Vals : Append(q, v) = q \o <<v>>
    BY AppendIsConcat
  <2>3. q # << >> => Head(q) \in Vals /\ Tail(q) \in Seq(Vals) /\ <<Head(q)>> \o Tail(q) = q
    BY HeadTailProperties, HeadTailAppend
  <2> QED
    BY <2>1, <2>2, <2>3
<1>2. ASSUME NEW v \in Vals, resQueue # << >> PROVE resQueue \o <<v>> = <<Head(resQueue)>> \o Append(Tail(resQueue), v)
  <2> DEFINE hd == <<Head(resQueue)>>
             tl == Tail(resQueue)
             x  == <<v>>
  <2>1. hd \in Seq(Vals) /\ tl \in Seq(Vals) /\ resQueue = hd \o tl /\ Append(tl, v) = tl \o x
    BY <1>0, <1>1, <1>2
  <2>2. x \in Seq(Vals)
    BY <1>0
  <2> HIDE DEF hd, tl, x
  <2>3. (hd \o tl) \o x = hd \o (tl \o x)
    BY <2>1, <2>2, Associative
  <2>4. resQueue \o x = hd \o Append(tl, v)
    BY <2>1, <2>3
  <2> QED
    BY <2>4 DEF hd, tl, x
<1>3. \A v \in Vals : resQueue' = Append(resQueue, v) /\ out' = out => Flow(<< >>, <<v>>)
  BY <1>0, <1>1 DEF Flow
<1>4. \A v \in Vals : resQueue = << >> /\ resQueue' = << >> /\ out' = Append(out, v) => Flow(<<v>>, <<v>>)
  BY <1>0, <1>1 DEF Flow
<1>5. /\ resQueue # << >> /\ resQueue' = Tail(resQueue) /\ out' = Append(out, Head(resQueue))
      => Flow(<<Head(resQueue)>>, << >>)
  BY <1>0, <1>1 DEF Flow
<1>6. \A v \in Vals : /\ resQueue # << >> /\ resQueue' = Append(Tail(resQueue), v)
                      /\ out' = Append(out, Head(resQueue))
                      => Flow(<<Head(resQueue)>>, <<v>>)
  BY <1>0, <1>1, <1>2 DEF Flow
<1>7. resQueue' = << >> /\ out' = out \o resQueue => Flow(resQueue, << >>)
  BY <1>0, <1>1 DEF Flow
<1>8. \A s \in Seq(Vals) : resQueue' = resQueue \o s /\ out' = out => Flow(<< >>, s)
  BY <1>0, <1>1 DEF Flow
<1> QED
  BY <1>3, <1>4, <1>5, <1>6, <1>7, <1>8

\* What may enter.  The value of an op that has still to wait for its turn, or
\* to take it, never went in.
LEMMA Fresh ==
    ASSUME TypeOK, OwnInv, ValInv
    PROVE  /\ << >> \in Fifo!NewValues
           /\ \A v \in Vals : v \notin Entered => <<v>> \in Fifo!NewValues
           /\ \A e \in Enq : pc[e] = "checked" \/ InQueue(e) => e \notin Entered
           /\ \A v \in Items : v \notin used => v \notin Entered
<1>1. << >> \in Fifo!NewValues
  BY DEF Fifo!NewValues
<1>2. ASSUME NEW v \in Vals, v \notin Entered PROVE <<v>> \in Fifo!NewValues
  <2>1. <<v>> \in [{1} -> Vals \ Entered] /\ Len(<<v>>) # 2
    BY <1>2
  <2> QED
    BY <2>1 DEF Fifo!NewValues
<1>3. ASSUME NEW e \in Enq, pc[e] = "checked" \/ InQueue(e) PROVE e \notin Entered
  <2>1. e \in Ops /\ e \in Actors /\ "expect" # Null
    BY NameAssumption DEF Ops, Actors
  <2>2. r[e] = Null /\ \A a \in Actors : ~Due(e, todo[a])
    BY <1>3, <2>1 DEF OwnInv, Owned, Exclusive
  <2>3. \A a \in Actors : ~Pend(<<e, "expect">>, todo[a])
    BY <2>2, PendSeq DEF TypeOK
  <2> QED
    BY <2>1, <2>2, <2>3 DEF ValInv, Gets
<1>4. \A v \in Items : v \notin used => v \notin Entered
  BY DEF ValInv
<1> QED
  BY <1>1, <1>2, <1>3, <1>4

\* The names of ops, values and results are told apart.
LEMMA ValNames ==
    /\ "expect" \in Good /\ "canceled" \notin Good /\ "end_reached" \notin Good /\ Null \notin Good
    /\ Null \notin Vals /\ Null \notin Ops /\ Vals \subseteq Good /\ "expect" \notin Vals
    /\ \A e \in Enq : e \in Ops /\ e \in Vals /\ e \notin Deq /\ e \notin Items
    /\ \A d \in Deq : d \in Ops
    /\ \A v \in Items : v \in Vals
    /\ Ops \subseteq Actors /\ Callers \subseteq Actors
<1>1. /\ Enq \cap Deq = {} /\ Enq \cap Items = {}
      /\ Vals \cap {"expect", "canceled", "end_reached"} = {}
      /\ Null \notin Actors \cup Vals \cup {"expect", "canceled", "end_reached"}
  BY NameAssumption
<1> QED
  BY <1>1 DEF Good, Vals, Ops, Actors

\* A result of no consequence for the values, or a wait.
LEMMA ValNoMove ==
    ASSUME TypeOK, TypeOK', ValInv, NEW a \in Actors, NEW t, NEW o,
           UNCHANGED <<resQueue, hist, r>>,
           \/ todo' = todo
           \/ todo[a] = << >> /\ t = << <<o, "end_reached">> >> /\ todo' = [todo EXCEPT ![a] = t]
    PROVE  ValInv' /\ Fifo!Next
<1>1. ASSUME NEW b \in Ops, NEW x \in Good PROVE Gets(b, x)' <=> Gets(b, x)
  <2>1. CASE todo' = todo
    BY <2>1 DEF Gets
  <2>2. CASE todo[a] = << >> /\ t = << <<o, "end_reached">> >> /\ todo' = [todo EXCEPT ![a] = t]
    <3>1. ~Pend(<<b, x>>, t) /\ ~Pend(<<b, x>>, todo[a])
      BY <2>2, PendFacts, ValNames
    <3>2. \A c \in Actors : todo'[c] = IF c = a THEN t ELSE todo[c]
      BY <2>2 DEF TypeOK
    <3> QED
      BY <3>1, <3>2 DEF Gets
  <2> QED
    BY <2>1, <2>2
<1> QED
  BY <1>1, ValStill

\* A value enters: it is appended, or handed to the dequeue op d.
LEMMA ValEnter ==
    ASSUME TypeOK, TypeOK', OwnInv, ValInv, NEW a \in Actors, NEW v \in Vals, NEW t, NEW E, NEW d,
           v \notin Entered, UNCHANGED <<r, got, dropped>>,
           used \subseteq used', v \in Items => v \in used',
           (E = {<<v, "expect">>} /\ v \in Enq) \/ (E = {} /\ v \in Items),
           todo' = [todo EXCEPT ![a] = t],
           \/ /\ d = Null /\ resQueue' = Append(resQueue, v) /\ out' = out
              /\ \A o \in Ops, x \in Good : Pend(<<o, x>>, t) <=> Pend(<<o, x>>, todo[a]) \/ <<o, x>> \in E
           \/ /\ d \in Deq /\ resQueue = << >> /\ resQueue' = << >> /\ out' = Append(out, v)
              /\ \A o \in Ops, x \in Good :
                    Pend(<<o, x>>, t) <=> Pend(<<o, x>>, todo[a]) \/ <<o, x>> \in E \cup {<<d, v>>}
    PROVE  ValInv' /\ Fifo!Next
<1>1. <<v>> \in Fifo!NewValues /\ Elems(<<v>>) = {v} /\ Elems(<< >>) = {}
  BY Fresh, ElemsFacts
<1> DEFINE s == <<v>>
<1>2. s \in Fifo!NewValues /\ Elems(s) = {v}
  BY <1>1
<1>3. CASE d = Null /\ resQueue' = Append(resQueue, v) /\ out' = out
           /\ \A o \in Ops, x \in Good : Pend(<<o, x>>, t) <=> Pend(<<o, x>>, todo[a]) \/ <<o, x>> \in E
  <2> DEFINE h == << >>
  <2>1. Flow(h, s) /\ Elems(h) = {}
    BY <1>1, <1>3, Flows
  <2> HIDE DEF h, s
  <2>2. \A o \in Ops, x \in Good : Gets(o, x)' <=> Gets(o, x) \/ <<o, x>> \in E
    BY <1>3, GetsMore
  <2>3. \A e \in Enq : e \in Elems(s) <=> <<e, "expect">> \in E
    BY <1>2, ValNames
  <2>4. \A x \in Vals, b \in Deq : <<b, x>> \notin E
    BY ValNames
  <2>5. Elems(s) \cap Items \subseteq used'
    BY <1>2
  <2> QED
    BY <1>2, <2>1, <2>2, <2>3, <2>4, <2>5, ValKeeps
<1>4. CASE d \in Deq /\ resQueue = << >> /\ resQueue' = << >> /\ out' = Append(out, v)
           /\ \A o \in Ops, x \in Good :
                 Pend(<<o, x>>, t) <=> Pend(<<o, x>>, todo[a]) \/ <<o, x>> \in E \cup {<<d, v>>}
  <2> DEFINE P == E \cup {<<d, v>>}
  <2>1. Flow(s, s)
    BY <1>4, Flows
  <2>a. \A o \in Ops, x \in Good : Pend(<<o, x>>, t) <=> Pend(<<o, x>>, todo[a]) \/ <<o, x>> \in P
    BY <1>4
  <2> HIDE DEF s
  <2>3. \A e \in Enq : e \in Elems(s) <=> <<e, "expect">> \in P
    BY <1>2, <1>4, ValNames
  <2>4. \A x \in Vals, b \in Deq : <<b, x>> \in P <=> b = d /\ x = v
    BY <1>4, ValNames
  <2>5. /\ \A x \in Vals \ Elems(s) : (x \in got' <=> x \in got) /\ \A b \in Deq : <<b, x>> \notin P
        /\ \A x \in Elems(s) :
              \/ x \in got' /\ \A b \in Deq : <<b, x>> \notin P
              \/ got' = got /\ \E b \in Deq : <<b, x>> \in P /\ \A c \in Deq : <<c, x>> \in P => c = b
    BY <1>2, <1>4, <2>4
  <2> HIDE DEF P
  <2>6. \A o \in Ops, x \in Good : Gets(o, x)' <=> Gets(o, x) \/ <<o, x>> \in P
    BY <2>a, GetsMore
  <2>7. Elems(s) \cap Items \subseteq used'
    BY <1>2
  <2> QED
    BY <1>2, <2>1, <2>3, <2>5, <2>6, <2>7, ValKeeps
<1> QED
  BY <1>3, <1>4

\* The head v leaves, to a caller or to the dequeue op d, and the enqueue
\* waiter w, if any, moves its value in.
LEMMA ValLeave ==
    ASSUME TypeOK, TypeOK', OwnInv, ValInv, NEW a \in Actors, NEW v \in Vals, NEW w, NEW d,
           UNCHANGED <<r, used>>,
           \E s : /\ Flow(<<v>>, s)
                  /\ (w = Null /\ s = << >>) \/ (w \in Enq /\ InQueue(w) /\ s = <<w>>),
           (d = Null /\ got' = got \cup {v}) \/ (d \in Deq /\ got' = got),
           todo' = [todo EXCEPT ![a] = todo'[a]],
           \A o \in Ops, x \in Good :
              Pend(<<o, x>>, todo'[a]) <=> \/ Pend(<<o, x>>, todo[a])
                                           \/ o = d /\ x = v
                                           \/ o = w /\ x = "expect"
    PROVE  ValInv' /\ Fifo!Next
<1>s. PICK s : /\ Flow(<<v>>, s)
               /\ (w = Null /\ s = << >>) \/ (w \in Enq /\ InQueue(w) /\ s = <<w>>)
  OBVIOUS
<1> DEFINE t == todo'[a]
<1>t. todo' = [todo EXCEPT ![a] = t]
  OBVIOUS
<1> DEFINE h == <<v>>
           P == {<<d, v>>, <<w, "expect">>}
<1>1. Elems(h) = {v} /\ Elems(s) = IF w = Null THEN {} ELSE {w}
  BY <1>s, ElemsFacts, ValNames
<1>2. s \in Fifo!NewValues
  BY <1>s, Fresh, ValNames
<1>3. Flow(h, s)
  BY <1>s
<1>4. \A o \in Ops, x \in Good : Pend(<<o, x>>, t) <=> Pend(<<o, x>>, todo[a]) \/ <<o, x>> \in P
  OBVIOUS
<1> HIDE DEF h, t
<1>5. \A e \in Enq : e \in Elems(s) <=> <<e, "expect">> \in P
  BY <1>s, <1>1, ValNames
<1>6. \A x \in Vals, b \in Deq : <<b, x>> \in P <=> b = d /\ x = v
  BY ValNames
<1>7. /\ \A x \in Vals \ Elems(h) : (x \in got' <=> x \in got) /\ \A b \in Deq : <<b, x>> \notin P
      /\ \A x \in Elems(h) :
            \/ x \in got' /\ \A b \in Deq : <<b, x>> \notin P
            \/ got' = got /\ \E b \in Deq : <<b, x>> \in P /\ \A c \in Deq : <<c, x>> \in P => c = b
  <2> HIDE DEF P
  <2>1. CASE d = Null /\ got' = got \cup {v}
    BY <1>1, <1>6, <2>1, ValNames
  <2>2. CASE d \in Deq /\ got' = got
    BY <1>1, <1>6, <2>2
  <2> QED
    BY <2>1, <2>2
<1>8. Elems(s) \cap Items \subseteq used' /\ used \subseteq used'
  BY <1>s, <1>1, ValNames
<1> HIDE DEF P
<1>9. \A o \in Ops, x \in Good : Gets(o, x)' <=> Gets(o, x) \/ <<o, x>> \in P
  BY <1>t, <1>4, GetsMore
<1> QED
  BY <1>2, <1>3, <1>5, <1>7, <1>8, <1>9, ValKeeps

\* try_dequeue_no_lock(), in these terms.
LEMMA PopFlow ==
    ASSUME TypeOK, TypeOK', OwnInv, resQueue # << >>, PopAndRefill, dropped' = dropped
    PROVE  /\ Head(resQueue) \in Vals
           /\ \E s : /\ Flow(<<Head(resQueue)>>, s)
                     /\ \/ (Oldest(enqW) = Null /\ s = << >>)
                        \/ (Oldest(enqW) \in Enq /\ InQueue(Oldest(enqW)) /\ s = <<Oldest(enqW)>>)
<1>1. Head(resQueue) \in Vals
  BY HeadTailProperties DEF TypeOK
<1>2. Oldest(enqW) \in Enq \cup {Null} /\ (Oldest(enqW) # Null => InQueue(Oldest(enqW)))
  BY WaiterTypes, TakeOne
<1>3. CASE Oldest(enqW) = Null
  <2>1. Flow(<<Head(resQueue)>>, << >>)
    BY <1>3, Flows DEF PopAndRefill
  <2> QED
    BY <1>1, <1>3, <2>1
<1>4. CASE Oldest(enqW) # Null
  <2>1. Flow(<<Head(resQueue)>>, <<Oldest(enqW)>>)
    BY <1>2, <1>4, Flows, ValNames DEF PopAndRefill
  <2> QED
    BY <1>1, <1>2, <1>4, <2>1
<1> QED
  BY <1>3, <1>4

\* The critical sections of the two ops.
LEMMA ValEnqueue ==
    ASSUME TypeOK, TypeOK', OwnInv, ValInv, NEW e \in Enq, EnqueueLocked(e),
           resQueue = << >> \/ deqW = << >>
    PROVE  ValInv' /\ Fifo!Next
<1>0. /\ e \in Ops /\ e \in Actors /\ e \in Vals /\ pc[e] = "checked" /\ todo[e] = << >>
      /\ UNCHANGED <<r, used, got, dropped>> /\ e \notin Entered
      /\ Oldest(deqW) \in Deq \cup {Null} /\ (deqW = << >> => Oldest(deqW) = Null)
  BY ValNames, Fresh, WaiterTypes, TakeWaiters DEF EnqueueLocked, OwnInv, Owned
<1>1. CASE endMarked
  <2> DEFINE t == << <<e, "end_reached">> >>
  <2>1. UNCHANGED <<resQueue, out>> /\ todo' = [todo EXCEPT ![e] = t]
    BY <1>1 DEF EnqueueLocked, Finishes
  <2> QED
    BY <1>0, <2>1, ValNoMove DEF hist
<1>2. CASE ~endMarked /\ EnqueueFull
  <2>1. UNCHANGED <<resQueue, out>> /\ todo' = todo
    BY <1>2 DEF EnqueueLocked, WaitsWithCallback
  <2> QED
    BY <1>0, <2>1, ValNoMove DEF hist
<1>3. CASE ~endMarked /\ ~EnqueueFull
  <2> DEFINE d == Oldest(deqW)
             p == <<e, "expect">>
             E == {p}
  <2>1. (E = {<<e, "expect">>} /\ e \in Enq) \/ (E = {} /\ e \in Items)
    OBVIOUS
  <2>4. used \subseteq used' /\ (e \in Items => e \in used')
    BY <1>0, ValNames
  <2>2. CASE d = Null
    <3> DEFINE t == <<p>>
    <3>1. resQueue' = Append(resQueue, e) /\ out' = out /\ todo' = [todo EXCEPT ![e] = t]
      BY <1>3, <2>2 DEF EnqueueLocked, Finishes
    <3> HIDE DEF d, p
    <3>2. ASSUME NEW o \in Ops, NEW x \in Good
          PROVE  Pend(<<o, x>>, t) <=> Pend(<<o, x>>, todo[e]) \/ <<o, x>> \in E
      <4> DEFINE y == <<o, x>>
      <4> HIDE DEF y
      <4>1. Pend(y, t) <=> Pend(y, todo[e]) \/ y \in E
        BY <1>0, PendFacts
      <4> QED
        BY <4>1 DEF y
    <3> HIDE DEF E, t
    <3>3. \/ /\ d = Null /\ resQueue' = Append(resQueue, e) /\ out' = out
             /\ \A o \in Ops, x \in Good : Pend(<<o, x>>, t) <=> Pend(<<o, x>>, todo[e]) \/ <<o, x>> \in E
          \/ /\ d \in Deq /\ resQueue = << >> /\ resQueue' = << >> /\ out' = Append(out, e)
             /\ \A o \in Ops, x \in Good :
                   Pend(<<o, x>>, t) <=> Pend(<<o, x>>, todo[e]) \/ <<o, x>> \in E \cup {<<d, e>>}
      BY <2>2, <3>1, <3>2
    <3> QED
      BY <1>0, <2>1, <2>4, <3>1, <3>3, ValEnter
  <2>3. CASE d # Null
    <3> DEFINE q == <<d, e>>
               t == <<q, p>>
    <3>1. /\ resQueue = << >> /\ resQueue' = << >> /\ out' = Append(out, e)
          /\ todo' = [todo EXCEPT ![e] = t] /\ d \in Deq
      BY <1>0, <1>3, <2>3 DEF EnqueueLocked, Finishes
    <3> HIDE DEF d, p, q
    <3>2. ASSUME NEW o \in Ops, NEW x \in Good
          PROVE  Pend(<<o, x>>, t) <=> Pend(<<o, x>>, todo[e]) \/ <<o, x>> \in E \cup {q}
      <4> DEFINE y == <<o, x>>
      <4> HIDE DEF y
      <4>1. Pend(y, t) <=> Pend(y, todo[e]) \/ y \in E \cup {q}
        BY <1>0, PendFacts
      <4> QED
        BY <4>1 DEF y
    <3> HIDE DEF E, t
    <3>3. \/ /\ d = Null /\ resQueue' = Append(resQueue, e) /\ out' = out
             /\ \A o \in Ops, x \in Good : Pend(<<o, x>>, t) <=> Pend(<<o, x>>, todo[e]) \/ <<o, x>> \in E
          \/ /\ d \in Deq /\ resQueue = << >> /\ resQueue' = << >> /\ out' = Append(out, e)
             /\ \A o \in Ops, x \in Good :
                   Pend(<<o, x>>, t) <=> Pend(<<o, x>>, todo[e]) \/ <<o, x>> \in E \cup {<<d, e>>}
      BY <3>1, <3>2 DEF q
    <3> QED
      BY <1>0, <2>1, <2>4, <3>1, <3>3, ValEnter
  <2> QED
    BY <2>2, <2>3
<1> QED
  BY <1>1, <1>2, <1>3

LEMMA ValDequeue ==
    ASSUME TypeOK, TypeOK', OwnInv, ValInv, NEW d \in Deq, DequeueLocked(d)
    PROVE  ValInv' /\ Fifo!Next
<1>0. /\ d \in Ops /\ d \in Actors /\ pc[d] = "checked" /\ todo[d] = << >>
      /\ UNCHANGED <<r, used, got, dropped>>
      /\ Oldest(enqW) \in Enq \cup {Null} /\ (Oldest(enqW) # Null => InQueue(Oldest(enqW)))
  BY ValNames, WaiterTypes, TakeOne DEF DequeueLocked, OwnInv, Owned
<1>1. CASE resQueue = << >> /\ endMarked
  <2> DEFINE t == << <<d, "end_reached">> >>
  <2>1. UNCHANGED <<resQueue, out>> /\ todo' = [todo EXCEPT ![d] = t]
    BY <1>1 DEF DequeueLocked, Finishes
  <2> QED
    BY <1>0, <2>1, ValNoMove DEF hist
<1>2. CASE resQueue = << >> /\ ~endMarked
  <2>1. UNCHANGED <<resQueue, out>> /\ todo' = todo
    BY <1>2 DEF DequeueLocked, WaitsWithCallback
  <2> QED
    BY <1>0, <2>1, ValNoMove DEF hist
<1>3. CASE resQueue # << >>
  <2> DEFINE w == Oldest(enqW)
             v == Head(resQueue)
             p == <<d, v>>
             q == <<w, "expect">>
             t == RefilledBy \o <<p>>
  <2>1. PopAndRefill /\ todo' = [todo EXCEPT ![d] = t]
    BY <1>3 DEF DequeueLocked, Finishes
  <2>2. RefilledBy = IF w # Null THEN <<q>> ELSE << >>
    BY DEF RefilledBy
  <2>3. \A o \in Ops : \A x : <<o, x>> = q => w # Null
    BY ValNames
  <2>4. /\ v \in Vals
        /\ \E s : /\ Flow(<<v>>, s)
                  /\ (w = Null /\ s = << >>) \/ (w \in Enq /\ InQueue(w) /\ s = <<w>>)
    BY <1>0, <1>3, <2>1, PopFlow
  <2> HIDE DEF v, w
  <2>5. ASSUME NEW o \in Ops, NEW x \in Good
        PROVE  Pend(<<o, x>>, t) <=> \/ Pend(<<o, x>>, todo[d])
                                     \/ o = d /\ x = v
                                     \/ o = w /\ x = "expect"
    <3> DEFINE y == <<o, x>>
    <3>0. y = q => w # Null
      BY <2>3
    <3> HIDE DEF y, p, q
    <3>1. t = IF w # Null THEN <<q, p>> ELSE <<p>>
      <4>1. << >> \o <<p>> = <<p>>
        OBVIOUS
      <4> QED
        BY <2>2, <4>1, PairOf
    <3> HIDE DEF t
    <3>2. Pend(y, t) <=> y = p \/ (w # Null /\ y = q)
      BY <3>1, PendFacts
    <3>3. Pend(y, t) <=> Pend(y, todo[d]) \/ y = p \/ y = q
      BY <1>0, <3>0, <3>2, PendFacts
    <3> QED
      BY <3>3 DEF y, p, q
  <2> HIDE DEF t
  <2>6. todo'[d] = t /\ todo' = [todo EXCEPT ![d] = todo'[d]]
    BY <1>0, <2>1 DEF TypeOK
  <2>7. \A o \in Ops, x \in Good :
              Pend(<<o, x>>, todo'[d]) <=> \/ Pend(<<o, x>>, todo[d])
                                           \/ o = d /\ x = v
                                           \/ o = w /\ x = "expect"
    BY <2>5, <2>6
  <2> QED
    BY <1>0, <2>4, <2>6, <2>7, ValLeave
<1> QED
  BY <1>1, <1>2, <1>3

\* The synchronous members.
LEMMA ValTryEnqueue ==
    ASSUME TypeOK, TypeOK', OwnInv, ValInv, NEW c \in Callers, NEW v \in Items, TryEnqueue(c, v),
           resQueue = << >> \/ deqW = << >>
    PROVE  ValInv' /\ Fifo!Next
<1> DEFINE d == Oldest(deqW)
           E == {}
<1>0. /\ c \in Actors /\ v \in Vals /\ v \notin Entered /\ todo[c] = << >>
      /\ UNCHANGED <<r, got, dropped>> /\ used \subseteq used' /\ (v \in Items => v \in used')
      /\ d \in Deq \cup {Null} /\ (deqW = << >> => d = Null)
  BY ValNames, Fresh, WaiterTypes, TakeWaiters DEF TryEnqueue, Enters
<1>e. (E = {<<v, "expect">>} /\ v \in Enq) \/ (E = {} /\ v \in Items)
  OBVIOUS
<1>1. CASE d = Null
  <2> DEFINE t == todo[c]
  <2>1. resQueue' = Append(resQueue, v) /\ out' = out /\ todo' = [todo EXCEPT ![c] = t]
    BY <1>0, <1>1 DEF TryEnqueue, TypeOK
  <2>2. \A o \in Ops, x \in Good : Pend(<<o, x>>, t) <=> Pend(<<o, x>>, todo[c]) \/ <<o, x>> \in E
    OBVIOUS
  <2> HIDE DEF d, E, t
  <2>3. \/ /\ d = Null /\ resQueue' = Append(resQueue, v) /\ out' = out
           /\ \A o \in Ops, x \in Good : Pend(<<o, x>>, t) <=> Pend(<<o, x>>, todo[c]) \/ <<o, x>> \in E
        \/ /\ d \in Deq /\ resQueue = << >> /\ resQueue' = << >> /\ out' = Append(out, v)
           /\ \A o \in Ops, x \in Good :
                 Pend(<<o, x>>, t) <=> Pend(<<o, x>>, todo[c]) \/ <<o, x>> \in E \cup {<<d, v>>}
    BY <1>1, <2>1, <2>2
  <2> QED
    BY <1>0, <1>e, <2>1, <2>3, ValEnter
<1>2. CASE d # Null
  <2> DEFINE q == <<d, v>>
             t == <<q>>
  <2>1. /\ resQueue = << >> /\ resQueue' = << >> /\ out' = Append(out, v)
        /\ todo' = [todo EXCEPT ![c] = t] /\ d \in Deq
    BY <1>0, <1>2 DEF TryEnqueue
  <2> HIDE DEF d, q
  <2>2. ASSUME NEW o \in Ops, NEW x \in Good
        PROVE  Pend(<<o, x>>, t) <=> Pend(<<o, x>>, todo[c]) \/ <<o, x>> \in E \cup {q}
    <3> DEFINE y == <<o, x>>
    <3> HIDE DEF y
    <3>1. Pend(y, t) <=> Pend(y, todo[c]) \/ y \in E \cup {q}
      BY <1>0, PendFacts
    <3> QED
      BY <3>1 DEF y
  <2> HIDE DEF E, t
  <2>3. \/ /\ d = Null /\ resQueue' = Append(resQueue, v) /\ out' = out
           /\ \A o \in Ops, x \in Good : Pend(<<o, x>>, t) <=> Pend(<<o, x>>, todo[c]) \/ <<o, x>> \in E
        \/ /\ d \in Deq /\ resQueue = << >> /\ resQueue' = << >> /\ out' = Append(out, v)
           /\ \A o \in Ops, x \in Good :
                 Pend(<<o, x>>, t) <=> Pend(<<o, x>>, todo[c]) \/ <<o, x>> \in E \cup {<<d, v>>}
    BY <2>1, <2>2 DEF q
  <2> QED
    BY <1>0, <1>e, <2>1, <2>3, ValEnter
<1> QED
  BY <1>1, <1>2

LEMMA ValTryDequeue ==
    ASSUME TypeOK, TypeOK', OwnInv, ValInv, NEW c \in Callers, TryDequeue(c)
    PROVE  ValInv' /\ Fifo!Next
<1> DEFINE w == Oldest(enqW)
           v == Head(resQueue)
           q == <<w, "expect">>
           d == Null
<1>0. /\ c \in Actors /\ todo[c] = << >> /\ UNCHANGED <<r, used, dropped>>
      /\ (d = Null /\ got' = got \cup {v}) \/ (d \in Deq /\ got' = got)
      /\ resQueue # << >> /\ PopAndRefill /\ todo' = [todo EXCEPT ![c] = RefilledBy]
  BY ValNames DEF TryDequeue, Enters
<1>1. RefilledBy = IF w # Null THEN <<q>> ELSE << >>
  BY DEF RefilledBy
<1>2. \A o \in Ops : o # Null
  BY ValNames
<1>3. /\ v \in Vals
      /\ \E s : /\ Flow(<<v>>, s)
                /\ (w = Null /\ s = << >>) \/ (w \in Enq /\ InQueue(w) /\ s = <<w>>)
  BY <1>0, PopFlow
<1>4. todo'[c] = RefilledBy /\ todo' = [todo EXCEPT ![c] = todo'[c]]
  BY <1>0 DEF TypeOK
<1> HIDE DEF w, v
<1>5. ASSUME NEW o \in Ops, NEW x \in Good
      PROVE  Pend(<<o, x>>, todo'[c]) <=> \/ Pend(<<o, x>>, todo[c])
                                          \/ o = d /\ x = v
                                          \/ o = w /\ x = "expect"
  <2> DEFINE y == <<o, x>>
  <2>1. /\ y = q <=> o = w /\ x = "expect"
        /\ y = q => w # Null
        /\ ~(o = d /\ x = v)
    BY <1>2
  <2> HIDE DEF y, q
  <2>2. Pend(y, todo'[c]) <=> w # Null /\ y = q
    BY <1>1, <1>4, PendFacts
  <2>3. ~Pend(y, todo[c])
    BY <1>0, PendFacts
  <2>4. Pend(y, todo'[c]) <=> Pend(y, todo[c]) \/ (o = d /\ x = v) \/ (o = w /\ x = "expect")
    BY <2>1, <2>2, <2>3
  <2> QED
    BY <2>4 DEF y
<1>6. \A o \in Ops, x \in Good :
        Pend(<<o, x>>, todo'[c]) <=> \/ Pend(<<o, x>>, todo[c])
                                     \/ o = d /\ x = v
                                     \/ o = w /\ x = "expect"
  BY <1>5
<1>7. UNCHANGED <<r, used>> /\ c \in Actors /\ todo' = [todo EXCEPT ![c] = todo'[c]]
  BY <1>0, <1>4
<1>8. (d = Null /\ got' = got \cup {v}) \/ (d \in Deq /\ got' = got)
  BY <1>0
<1> HIDE DEF d
<1> QED
  BY ONLY TypeOK, TypeOK', OwnInv, ValInv, <1>3, <1>6, <1>7, <1>8, ValLeave

LEMMA ValFeeds ==
    ASSUME TypeOK, TypeOK', OwnInv, ValInv, NEW a \in Actors, NEW v \in Vals, NEW d \in Deq,
           UNCHANGED <<r, used, got>>, Flow(<<v>>, << >>),
           todo' = [todo EXCEPT ![a] = todo'[a]],
           \A o \in Ops, x \in Good :
              Pend(<<o, x>>, todo'[a]) <=> Pend(<<o, x>>, todo[a]) \/ (o = d /\ x = v)
    PROVE  ValInv' /\ Fifo!Next
<1> DEFINE w == Null
<1>1. \E s : /\ Flow(<<v>>, s)
             /\ (w = Null /\ s = << >>) \/ (w \in Enq /\ InQueue(w) /\ s = <<w>>)
  OBVIOUS
<1>2. \A o \in Ops, x \in Good :
         Pend(<<o, x>>, todo'[a]) <=> \/ Pend(<<o, x>>, todo[a])
                                      \/ o = d /\ x = v
                                      \/ o = w /\ x = "expect"
  BY ValNames
<1>3. (d = Null /\ got' = got \cup {v}) \/ (d \in Deq /\ got' = got)
  OBVIOUS
<1> HIDE DEF w
<1> QED
  BY <1>1, <1>2, <1>3, ValLeave

LEMMA ValFeed ==
    ASSUME TypeOK, TypeOK', LoopInv, OwnInv, ValInv, NEW c \in Callers, FeedWaiter(c)
    PROVE  ValInv' /\ Fifo!Next
<1>0. /\ c \in Actors /\ UNCHANGED <<r, used, got, dropped>> /\ resQueue # << >>
      /\ Oldest(deqW) \in Deq \cup {Null} /\ todo[c] \in Seq(Completions)
      /\ Head(resQueue) \in Vals
  BY ValNames, WaiterTypes, HeadTailProperties DEF FeedWaiter, LoopInv, TypeOK
<1>1. CASE Oldest(deqW) = Null
  <2>1. UNCHANGED <<resQueue, out, todo>>
    BY <1>1 DEF FeedWaiter
  <2> QED
    BY <1>0, <2>1, ValNoMove DEF hist
<1>2. CASE Oldest(deqW) # Null
  <2> DEFINE d == Oldest(deqW)
             v == Head(resQueue)
             p == <<d, v>>
             t == Append(todo[c], p)
  <2>1. /\ todo' = [todo EXCEPT ![c] = t] /\ out' = Append(out, v) /\ resQueue' = Tail(resQueue)
        /\ d \in Deq
    BY <1>0, <1>2 DEF FeedWaiter
  <2>2. Flow(<<v>>, << >>)
    BY <1>0, <2>1, Flows
  <2>3. \A y : Pend(y, t) <=> Pend(y, todo[c]) \/ y = p
    <3>1. p \in Completions
      BY <1>0, <2>1 DEF Completions, Results, Ops
    <3> HIDE DEF p
    <3> QED
      BY <1>0, <3>1, PendSeq
  <2>4. todo'[c] = t /\ todo' = [todo EXCEPT ![c] = todo'[c]]
    BY <1>0, <2>1 DEF TypeOK
  <2> HIDE DEF d, v, t
  <2>5. \A o \in Ops, x \in Good :
           Pend(<<o, x>>, todo'[c]) <=> Pend(<<o, x>>, todo[c]) \/ (o = d /\ x = v)
    BY <2>3, <2>4, ValNames
  <2>6. v \in Vals /\ Flow(<<v>>, << >>) /\ d \in Deq
    BY <1>0, <2>1, <2>2 DEF v
  <2>7. UNCHANGED <<r, used, got>> /\ c \in Actors /\ todo' = [todo EXCEPT ![c] = todo'[c]]
    BY <1>0, <2>4
  <2> QED
    BY <2>5, <2>6, <2>7, ValFeeds
<1> QED
  BY <1>1, <1>2

LEMMA ValRefill ==
    ASSUME TypeOK, TypeOK', OwnInv, ValInv, NEW c \in Callers, RefillFromWaiter(c)
    PROVE  ValInv' /\ Fifo!Next
<1>0. /\ c \in Actors /\ UNCHANGED <<r, used, got, dropped, out>>
      /\ Oldest(enqW) \in Enq \cup {Null} /\ todo[c] \in Seq(Completions)
      /\ Oldest(enqW) # Null => InQueue(Oldest(enqW))
  BY ValNames, WaiterTypes, TakeOne DEF RefillFromWaiter, TypeOK, hist
<1>1. CASE Oldest(enqW) = Null
  <2>1. UNCHANGED <<resQueue, todo>>
    BY <1>1 DEF RefillFromWaiter
  <2> QED
    BY <1>0, <2>1, ValNoMove DEF hist
<1>2. CASE Oldest(enqW) # Null
  <2> DEFINE w == Oldest(enqW)
             p == <<w, "expect">>
             t == Append(todo[c], p)
             E == {p}
             d == Null
  <2>1. /\ todo' = [todo EXCEPT ![c] = t] /\ resQueue' = Append(resQueue, w) /\ out' = out
        /\ w \in Enq /\ w \in Vals /\ w \notin Entered
    BY <1>0, <1>2, Fresh, ValNames DEF RefillFromWaiter
  <2>2. \A y : Pend(y, t) <=> Pend(y, todo[c]) \/ y = p
    <3>1. p \in Completions
      BY <1>0, <2>1 DEF Completions, Results, Ops
    <3> HIDE DEF p
    <3> QED
      BY <1>0, <3>1, PendSeq
  <2>3. (E = {<<w, "expect">>} /\ w \in Enq) \/ (E = {} /\ w \in Items)
    BY <2>1
  <2> HIDE DEF w, p, t
  <2>4. \A o \in Ops, x \in Good : Pend(<<o, x>>, t) <=> Pend(<<o, x>>, todo[c]) \/ <<o, x>> \in E
    BY <2>2
  <2>5. used \subseteq used' /\ (w \in Items => w \in used') /\ UNCHANGED <<r, got, dropped>>
    BY <1>0, <2>1, ValNames
  <2>6. \/ /\ d = Null /\ resQueue' = Append(resQueue, w) /\ out' = out
           /\ \A o \in Ops, x \in Good : Pend(<<o, x>>, t) <=> Pend(<<o, x>>, todo[c]) \/ <<o, x>> \in E
        \/ /\ d \in Deq /\ resQueue = << >> /\ resQueue' = << >> /\ out' = Append(out, w)
           /\ \A o \in Ops, x \in Good :
                 Pend(<<o, x>>, t) <=> Pend(<<o, x>>, todo[c]) \/ <<o, x>> \in E \cup {<<d, w>>}
    BY <2>1, <2>4
  <2> HIDE DEF E, d
  <2> QED
    BY <1>0, <2>1, <2>3, <2>5, <2>6, ValEnter
<1> QED
  BY <1>1, <1>2

\* force_dequeue_all() empties the queue to its caller, force_enqueue_range()
\* appends the range it is given.
LEMMA ValForce ==
    ASSUME TypeOK, TypeOK', OwnInv, ValInv, NEW c \in Callers,
           ForceDequeueAll(c) \/ \E s \in Ranges : ForceEnqueueRange(c, s)
    PROVE  ValInv' /\ Fifo!Next
<1> DEFINE P == {}
<1>0. /\ UNCHANGED <<r, todo, dropped>>
      /\ resQueue \in Seq(Vals) /\ P = {} /\ Elems(<< >>) = {}
  BY ElemsFacts DEF ForceDequeueAll, ForceEnqueueRange, TypeOK
<1>1. \A o \in Ops, x \in Good : Gets(o, x)' <=> Gets(o, x) \/ <<o, x>> \in P
  BY <1>0 DEF Gets
<1> HIDE DEF P
<1>2. CASE ForceDequeueAll(c)
  <2> DEFINE h == resQueue
             s == << >>
  <2>1. Flow(h, s) /\ s \in Fifo!NewValues /\ Elems(s) = {} /\ h \in Seq(Vals)
    BY <1>0, <1>2, Flows, Fresh DEF ForceDequeueAll
  <2>2. got' = got \cup Elems(h) /\ used' = used
    BY <1>2 DEF ForceDequeueAll, Elems
  <2> HIDE DEF h, s
  <2> QED
    BY <1>0, <1>1, <2>1, <2>2, ValKeeps
<1>3. ASSUME NEW s \in Ranges, ForceEnqueueRange(c, s) PROVE ValInv' /\ Fifo!Next
  <2> DEFINE h == << >>
  <2>1. s \in Seq(Items) /\ s \in Seq(Vals) /\ \A i \in 1..Len(s) : s[i] \in Items
    <3>1. s \in Seq(Items)
      BY RangesAreSequences
    <3>2. \A i \in 1..Len(s) : s[i] \in Items
      BY <3>1, ElementOfSeq
    <3>3. Items \subseteq Vals
      BY DEF Vals
    <3> QED
      BY <3>1, <3>2, <3>3
  <2>2. Flow(h, s) /\ Elems(h) = {}
    BY <1>0, <1>3, <2>1, Flows DEF ForceEnqueueRange
  <2>3. s \in Fifo!NewValues
    <3>1. Items \ used \subseteq Vals \ Entered
      BY Fresh DEF Vals
    <3>2. s \in [{1} -> Vals \ Entered] \cup [{1, 2} -> Vals \ Entered] /\ (Len(s) = 2 => s[1] # s[2])
      BY <3>1 DEF Ranges
    <3> QED
      BY <3>2 DEF Fifo!NewValues
  <2>4. used' = used \cup Elems(s) /\ got' = got
    BY <1>3 DEF ForceEnqueueRange, Elems
  <2>5. \A e \in Enq : e \notin Elems(s)
    BY <2>1, ValNames DEF Elems
  <2> HIDE DEF h
  <2> QED
    BY <1>0, <1>1, <2>2, <2>3, <2>4, <2>5, ValKeeps
<1> QED
  BY <1>2, <1>3

\* clear() drops what is queued, and does not forget that it went in.
LEMMA ValClear ==
    ASSUME TypeOK, TypeOK', ValInv, NEW c \in Callers, Clear(c)
    PROVE  ValInv' /\ Fifo!Next
<1>0. /\ UNCHANGED <<r, todo, out, got, used>> /\ resQueue' = << >>
      /\ dropped' = dropped \cup Elems(resQueue)
      /\ out \in Seq(Vals) /\ resQueue \in Seq(Vals) /\ Elems(<< >>) = {}
  BY ElemsFacts DEF Clear, TypeOK, Elems
<1>1. Entered = Elems(resQueue) \cup Elems(out) \cup dropped
  BY DEF Entered, Elems
<1>2. Entered' = Elems(resQueue') \cup Elems(out') \cup dropped'
  BY DEF Entered, Elems
<1>3. Entered' = Entered
  BY <1>0, <1>1, <1>2
<1>4. Distinct(out' \o resQueue')
  <2>1. out \o << >> = out
    BY <1>0, ConcatEmptySeq
  <2>2. Distinct(out)
    BY <1>0, DistinctConcat DEF ValInv
  <2> QED
    BY <1>0, <2>1, <2>2
<1>5. \A o, x : Gets(o, x)' <=> Gets(o, x)
  BY <1>0 DEF Gets
<1>6. \A v : Delivered(v)' <=> Delivered(v)
  BY <1>0, <1>5 DEF Delivered
<1>7. ValInv'
  BY <1>0, <1>3, <1>4, <1>5, <1>6 DEF ValInv
<1>8. Fifo!Discard
  BY <1>0, <1>3 DEF Fifo!Discard
<1> QED
  BY <1>7, <1>8 DEF Fifo!Next

\* mark_end() hands nothing but end_reached to those it wakes.
LEMMA ValEnd ==
    ASSUME TypeOK, TypeOK', ValInv, NEW c \in Callers, MarkEnd(c)
    PROVE  ValInv' /\ Fifo!Next
<1> DEFINE t == EndReached(deqW)
<1>0. /\ UNCHANGED <<resQueue, hist, r>> /\ todo[c] = << >> /\ todo' = [todo EXCEPT ![c] = t]
      /\ c \in Actors
  BY ValNames DEF MarkEnd, Enters
<1>1. \A i \in 1..Len(t) : t[i][2] = "end_reached"
  BY DEF EndReached, TypeOK
<1>2. \A b \in Actors : todo'[b] = IF b = c THEN t ELSE todo[b]
  BY <1>0 DEF TypeOK
<1> HIDE DEF t
<1>3. ASSUME NEW o \in Ops, NEW x \in Good PROVE ~Pend(<<o, x>>, t) /\ ~Pend(<<o, x>>, todo[c])
  <2>1. ~Pend(<<o, x>>, t)
    BY <1>1, ValNames DEF Pend
  <2> QED
    BY <1>0, <2>1, PendFacts
<1>4. ASSUME NEW o \in Ops, NEW x \in Good PROVE Gets(o, x)' <=> Gets(o, x)
  <2>1. \A b \in Actors : Pend(<<o, x>>, todo'[b]) <=> Pend(<<o, x>>, todo[b])
    BY <1>2, <1>3
  <2> QED
    BY <1>0, <2>1 DEF Gets
<1> QED
  BY <1>0, <1>4, ValStill

\* Every step keeps the books and is a step of the abstract queue.
LEMMA ValStep ==
    ASSUME TypeOK, TypeOK', LoopInv, OwnInv, SideInv, ValInv, Next
    PROVE  ValInv' /\ Fifo!Next
<1>0. mtx = Null => resQueue = << >> \/ deqW = << >>
  BY NameAssumption DEF LoopInv, SideInv, Actors
<1>1. ASSUME NEW o \in Ops, CheckStop(o) \/ RequestStop(o) \/ CallbackErase(o) \/ CallbackComplete(o)
      PROVE  ValInv' /\ Fifo!Next
  <2>1. UNCHANGED <<resQueue, hist>>
    BY <1>1 DEF CheckStop, RequestStop, CallbackErase, CallbackComplete, queue
  <2>2. \A b \in Ops, x \in Good : Gets(b, x)' <=> Gets(b, x)
    BY <1>1, GetsSame
  <2> QED
    BY <2>1, <2>2, ValStill
<1>2. ASSUME NEW a \in Actors, Complete(a) PROVE ValInv' /\ Fifo!Next
  <2>1. UNCHANGED <<resQueue, hist>>
    BY <1>2 DEF Complete, queue
  <2>2. \A b \in Ops, x \in Good : Gets(b, x)' <=> Gets(b, x)
    BY <1>2, GetsSame
  <2> QED
    BY <2>1, <2>2, ValStill
<1>3. ASSUME NEW e \in Enq, EnqueueLocked(e) PROVE ValInv' /\ Fifo!Next
  <2>1. mtx = Null
    BY <1>3 DEF EnqueueLocked
  <2> QED
    BY <1>0, <1>3, <2>1, ValEnqueue
<1>4. ASSUME NEW d \in Deq, DequeueLocked(d) PROVE ValInv' /\ Fifo!Next
  BY <1>4, ValDequeue
<1>5. ASSUME NEW c \in Callers, NEW v \in Items, TryEnqueue(c, v) PROVE ValInv' /\ Fifo!Next
  <2>1. mtx = Null
    BY <1>5 DEF TryEnqueue, Enters
  <2> QED
    BY <1>0, <1>5, <2>1, ValTryEnqueue
<1>6. ASSUME NEW c \in Callers, IncreaseCapacity(c) \/ ClearEndMark(c) PROVE ValInv' /\ Fifo!Next
  <2>1. UNCHANGED <<resQueue, hist, r, todo>>
    BY <1>6 DEF IncreaseCapacity, ClearEndMark
  <2>2. \A b \in Ops, x \in Good : Gets(b, x)' <=> Gets(b, x)
    BY <2>1 DEF Gets
  <2> QED
    BY <2>1, <2>2, ValStill
<1> QED
  BY <1>1, <1>2, <1>3, <1>4, <1>5, <1>6, ValTryDequeue, ValFeed, ValRefill, ValForce, ValClear,
     ValEnd DEF Next

\* Dequeue ops wait at an empty queue only: whoever puts a value in takes them
\* first, and the loop of force_enqueue_range() stops when one of the two is
\* exhausted.
LEMMA SideStep ==
    ASSUME TypeOK, LoopInv, SideInv, [Next]_vars
    PROVE  SideInv'
<1> DEFINE Idle == \A c \in Callers : loop[c] = "none"
           Side == resQueue = << >> \/ deqW = << >>
<1>0. (mtx = Null => Idle) /\ (Idle => Side) /\ \A c \in Callers : loop[c] = "refill" => deqW = << >>
  BY NameAssumption DEF LoopInv, SideInv, Actors
<1>1. ASSUME loop' = loop, resQueue' = resQueue, deqW = << >> => deqW' = << >> PROVE SideInv'
  BY <1>1 DEF SideInv
<1>2. ASSUME mtx = Null, loop' = loop, Side' PROVE SideInv'
  BY <1>0, <1>2 DEF SideInv
<1>3. ASSUME NEW o \in Ops, CheckStop(o) \/ RequestStop(o) \/ CallbackComplete(o) PROVE SideInv'
  BY <1>1, <1>3 DEF CheckStop, RequestStop, CallbackComplete, queue
<1>4. ASSUME NEW o \in Ops, CallbackErase(o) PROVE SideInv'
  <2>1. loop' = loop
    BY <1>4 DEF CallbackErase
  <2> QED
    BY <1>1, <1>4, <2>1, IntegrityErase
<1>5. ASSUME NEW e \in Enq, EnqueueLocked(e) PROVE SideInv'
  <2>0. mtx = Null /\ loop' = loop /\ Side
    BY <1>0, <1>5 DEF EnqueueLocked
  <2>1. CASE endMarked \/ EnqueueFull
    <3>1. UNCHANGED <<resQueue, deqW>>
      BY <1>5, <2>1 DEF EnqueueLocked
    <3> QED
      BY <1>2, <2>0, <3>1
  <2>2. CASE ~endMarked /\ ~EnqueueFull
    <3>1. deqW' = AfterOldest(deqW) /\ (Oldest(deqW) # Null => resQueue' = resQueue)
      BY <1>5, <2>2 DEF EnqueueLocked
    <3>2. Side'
      BY <2>0, <3>1, TakeWaiters
    <3> QED
      BY <1>2, <2>0, <3>2
  <2> QED
    BY <2>1, <2>2
<1>6. ASSUME NEW d \in Deq, DequeueLocked(d) PROVE SideInv'
  <2>1. mtx = Null /\ loop' = loop /\ Side
    BY <1>0, <1>6 DEF DequeueLocked
  <2>2. Side'
    BY <1>6, <2>1 DEF DequeueLocked
  <2> QED
    BY <1>2, <2>1, <2>2
<1>7. ASSUME NEW a \in Actors, Complete(a) PROVE SideInv'
  BY <1>1, <1>7 DEF Complete, queue
<1>8. ASSUME NEW c \in Callers, NEW v \in Items, TryEnqueue(c, v) PROVE SideInv'
  <2>0. /\ mtx = Null /\ loop' = loop /\ Side
        /\ deqW' = AfterOldest(deqW) /\ (Oldest(deqW) # Null => resQueue' = resQueue)
    BY <1>0, <1>8 DEF TryEnqueue, Enters
  <2>1. Side'
    BY <2>0, TakeWaiters
  <2> QED
    BY <1>2, <2>0, <2>1
<1>9. ASSUME NEW c \in Callers, TryDequeue(c) \/ IncreaseCapacity(c) \/ ClearEndMark(c) \/ MarkEnd(c) \/ Clear(c)
      PROVE  SideInv'
  <2>1. mtx = Null /\ loop' = loop /\ Side
    BY <1>0, <1>9 DEF TryDequeue, IncreaseCapacity, ClearEndMark, MarkEnd, Clear, Enters
  <2>2. Side'
    BY <1>9, <2>1 DEF TryDequeue, IncreaseCapacity, ClearEndMark, MarkEnd, Clear
  <2> QED
    BY <1>2, <2>1, <2>2
<1>10. ASSUME NEW c \in Callers, NEW s \in Ranges, ForceEnqueueRange(c, s) PROVE SideInv'
  <2>1. Idle /\ loop' = [loop EXCEPT ![c] = "feed"]
    BY <1>0, <1>10 DEF ForceEnqueueRange, Enters
  <2>2. loop'[c] = "feed" /\ \A b \in Callers : loop'[b] # "refill"
    BY <2>1 DEF TypeOK
  <2> QED
    BY <2>2 DEF SideInv
<1>11. ASSUME NEW c \in Callers, ForceDequeueAll(c) PROVE SideInv'
  <2>1. loop' = [loop EXCEPT ![c] = "refill"] /\ deqW' = << >>
    BY <1>0, <1>11 DEF ForceDequeueAll, Enters
  <2> QED
    BY <2>1 DEF SideInv
<1>12. ASSUME NEW c \in Callers, FeedWaiter(c) PROVE SideInv'
  <2>1. mtx = c /\ loop[c] = "feed" /\ resQueue # << >> /\ resQueue \in Seq(Vals)
    BY <1>12 DEF FeedWaiter, LoopInv, TypeOK
  <2>2. \A b \in Callers : loop'[b] # "refill"
    BY <1>12, <2>1 DEF LoopInv, FeedWaiter, TypeOK
  <2>3. loop'[c] = "none" => Side'
    <3> SUFFICES ASSUME loop'[c] = "none" PROVE Side'
      OBVIOUS
    <3>1. Oldest(deqW) = Null \/ Len(resQueue) = 1
      BY <1>12, <2>1 DEF FeedWaiter, TypeOK
    <3>2. CASE Oldest(deqW) = Null
      BY <1>12, <3>2, TakeWaiters DEF FeedWaiter
    <3>3. CASE Oldest(deqW) # Null
      <4>1. resQueue' = Tail(resQueue)
        BY <1>12, <3>3 DEF FeedWaiter
      <4>2. Tail(resQueue) \in Seq(Vals) /\ Len(Tail(resQueue)) = Len(resQueue) - 1
        BY <2>1, HeadTailProperties
      <4>3. Tail(resQueue) # << >> => Len(Tail(resQueue)) \in Nat \ {0}
        BY <4>2, EmptySeq
      <4> QED
        BY <3>1, <3>3, <4>1, <4>2, <4>3
    <3> QED
      BY <3>2, <3>3
  <2> QED
    BY <2>2, <2>3 DEF SideInv
<1>13. ASSUME NEW c \in Callers, RefillFromWaiter(c) PROVE SideInv'
  <2>1. deqW' = << >>
    BY <1>0, <1>13 DEF RefillFromWaiter
  <2> QED
    BY <2>1 DEF SideInv
<1>14. CASE UNCHANGED vars
  BY <1>1, <1>14 DEF vars, queue
<1> QED
  BY <1>3, <1>4, <1>5, <1>6, <1>7, <1>8, <1>9, <1>10, <1>11, <1>12, <1>13, <1>14 DEF Next

\* The inductive invariant behind both theorems on the values.
BooksInv == TypeOK /\ LoopInv /\ OwnInv /\ SideInv /\ ValInv

LEMMA BooksInit == Init => BooksInv
<1> SUFFICES ASSUME Init PROVE BooksInv
  OBVIOUS
<1>1. TypeOK /\ LoopInv /\ OwnInv
  BY OwnInit
<1>2. SideInv
  BY DEF Init, SideInv
<1>3. ValInv
  <2>1. << >> \o << >> = << >> /\ Elems(<< >>) = {} /\ Distinct(<< >>)
    BY ElemsFacts DEF Distinct
  <2>2. Entered = {}
    <3>1. Entered = Elems(resQueue) \cup Elems(out) \cup dropped
      BY DEF Entered, Elems
    <3> QED
      BY <2>1, <3>1 DEF Init
  <2>3. \A o \in Ops, x \in Good : ~Gets(o, x)
    BY PendFacts, ValNames DEF Init, Gets
  <2>4. \A e \in Enq : ~Gets(e, "expect")
    BY <2>3, ValNames
  <2>5. \A d \in Deq, v \in Vals : ~Gets(d, v)
    BY <2>3, ValNames
  <2> QED
    BY <2>1, <2>2, <2>4, <2>5 DEF ValInv, Init
<1> QED
  BY <1>1, <1>2, <1>3 DEF BooksInv

LEMMA BooksStep ==
    ASSUME BooksInv, [Next]_vars
    PROVE  BooksInv' /\ [Fifo!Next]_(Fifo!vars)
<1>0. TypeOK' /\ LoopInv' /\ OwnInv' /\ SideInv'
  BY TypeStep, LoopStep, OwnStep, SideStep DEF BooksInv
<1>1. CASE Next
  BY <1>0, <1>1, ValStep DEF BooksInv
<1>2. CASE UNCHANGED vars
  <2>1. UNCHANGED <<resQueue, hist, r, todo, out, dropped>>
    BY <1>2 DEF vars, queue, hist
  <2>2. \A o \in Ops, x \in Good : Gets(o, x)' <=> Gets(o, x)
    BY <2>1 DEF Gets
  <2>3. ValInv'
    BY <1>0, <2>1, <2>2, ValStill DEF BooksInv
  <2>4. UNCHANGED <<resQueue, out, Entered>>
    BY <2>1 DEF Entered
  <2> QED
    BY <1>0, <2>3, <2>4 DEF BooksInv, Fifo!vars
<1> QED
  BY <1>1, <1>2

\* No value is lost, duplicated or invented, for any number of ops, callers
\* and values and any capacity, clear() included: what left the queue has one
\* receiver, what did not has none, and an enqueue op that reports success (or
\* that it was cancelled, or that the end was reached) tells the truth.
THEOREM ValuesKept == Spec => []ValuesConserved
<1>1. BooksInv => ValuesConserved
  <2> SUFFICES ASSUME BooksInv PROVE ValuesConserved
    OBVIOUS
  <2>1. \A i, j \in 1..Len(out \o resQueue) : (out \o resQueue)[i] = (out \o resQueue)[j] => i = j
    BY DEF BooksInv, ValInv, Distinct
  <2>2. ASSUME NEW v \in Vals
        PROVE  Cardinality(Receivers(v)) = IF v \in {out[i] : i \in 1..Len(out)} THEN 1 ELSE 0
    <3> DEFINE G == {d \in Deq : Gets(d, v)}
    <3>1. Receivers(v) = G \cup {x \in {Null} : v \in got}
      BY DEF Receivers, Gets, Pend
    <3>2. CASE v \in Elems(out)
      <4>1. Delivered(v)
        BY <3>2 DEF BooksInv, ValInv
      <4>2. CASE v \in got /\ \A d \in Deq : ~Gets(d, v)
        <5>1. Receivers(v) = {Null}
          BY <3>1, <4>2
        <5> QED
          BY <3>2, <5>1, FS_Singleton DEF Elems
      <4>3. CASE v \notin got /\ \E d \in Deq : Gets(d, v) /\ \A b \in Deq : Gets(b, v) => b = d
        <5>1. PICK d \in Deq : Gets(d, v) /\ \A b \in Deq : Gets(b, v) => b = d
          BY <4>3
        <5>2. Receivers(v) = {d}
          BY <3>1, <4>3, <5>1
        <5> QED
          BY <3>2, <5>2, FS_Singleton DEF Elems
      <4> QED
        BY <4>1, <4>2, <4>3 DEF Delivered
    <3>3. CASE v \notin Elems(out)
      <4>1. v \notin got /\ \A d \in Deq : ~Gets(d, v)
        BY <3>3 DEF BooksInv, ValInv
      <4>2. Receivers(v) = {}
        BY <3>1, <4>1
      <4> QED
        BY <3>3, <4>2, FS_EmptySet DEF Elems
    <3> QED
      BY <3>2, <3>3
  <2>3. ASSUME NEW e \in Enq
        PROVE  /\ r[e] = "expect" => e \in Entered
               /\ r[e] \in {"canceled", "end_reached"} => e \notin Entered
    <3>1. e \in Entered <=> Gets(e, "expect")
      BY DEF BooksInv, ValInv
    <3>2. r[e] # Null => \A a \in Actors : ~Due(e, todo[a])
      BY ValNames DEF BooksInv, OwnInv, Owned
    <3>3. \A a \in Actors : Pend(<<e, "expect">>, todo[a]) => Due(e, todo[a])
      BY PendSeq DEF BooksInv, TypeOK
    <3>4. "canceled" # Null /\ "end_reached" # Null
      BY NameAssumption
    <3> QED
      BY <3>1, <3>2, <3>3, <3>4 DEF Gets
  <2> QED
    BY <2>1, <2>2, <2>3 DEF ValuesConserved
<1> QED
  BY <1>1, BooksInit, BooksStep, PTL DEF Spec

\* res_queue implements the abstract queue: whatever part waiters take in a
\* step, the values leave in the order in which they went in.
THEOREM ImplementsFifo == Spec => FifoSpec
<1>1. Init => Fifo!Init
  BY DEF Init, Fifo!Init, Entered
<1> QED
  BY <1>1, BooksInit, BooksStep, PTL DEF Spec, FifoSpec, Fifo!Spec
=============================================================================
