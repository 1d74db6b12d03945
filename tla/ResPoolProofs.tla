---------------------------- MODULE ResPoolProofs ----------------------------
(***************************************************************************)
(* Proofs about ResPool, for any number of tasks and resources and any     *)
(* capacities: a resource has one holder or is unused, once; a waiting op  *)
(* is known to the pool in one place; the pool stays within its capacity;  *)
(* a pool with waiters has a resource in use.                              *)
(***************************************************************************)
EXTENDS ResPool, SequenceTheorems, FiniteSetTheorems, WellFoundedInduction, TLAPS

Assumptions == CapAssumption /\ FlagAssumption /\ NullAssumption

\* An op is in a slot of the queue, and no op is in two.
Waits(o, w) == \E i \in 1..Len(w) : w[i] = o
Once(w) == \A i, j \in 1..Len(w) : (w[i] = w[j] /\ w[i] # Null) => i = j

\* cancel() marks the slot of the op as deleted.
Erase(o, w) == [i \in 1..Len(w) |-> IF w[i] = o THEN Null ELSE w[i]]

\* A waiting op is in one slot or is the heir of one recycle().
WaitInv ==
    /\ Once(waiters)
    /\ \A u, v \in Tasks : (heir[u] = heir[v] /\ heir[u] # Null) => u = v
    /\ \A u \in Tasks : heir[u] # Null => ~Waits(heir[u], waiters)
    /\ \A t \in Tasks : pc[t] = "waiting" <=> (Waits(t, waiters) \/ \E u \in Tasks : heir[u] = t)
    /\ \A t \in Tasks : heir[t] # Null <=> pc[t] = "handing"

\* Who has which resource, while a recycle() is between its two halves too.
LoanInv ==
    /\ \A t, u \in Tasks : \A x \in held[t] : x \in held[u] => t = u
    /\ \A x \in Res : x \in inuse <=> \E t \in Tasks : x \in held[t]
    /\ \A i \in 1..Len(unused) : unused[i] \notin inuse
    /\ \A i, j \in 1..Len(unused) : unused[i] = unused[j] => i = j
    /\ \A t \in Tasks : pc[t] \in {"recycling", "handing"} => busy[t] \in held[t]

CountInv ==
    /\ IsFiniteSet(inuse)
    /\ WithinCapacity
    /\ WaitersHaveHolder

PoolInv == TypeOK /\ WaitInv /\ LoanInv /\ CountInv

-----------------------------------------------------------------------------
(* The waiter queue. *)

\* Min of FiniteSetsExt is what its name says on sets of naturals.
LEMMA MinOfNaturals ==
    ASSUME NEW S \in SUBSET Nat, S # {}
    PROVE  Min(S) \in S /\ \A y \in S : Min(S) <= y
<1> DEFINE LessThan == {ss \in Nat \X Nat : ss[1] < ss[2]}
<1>0. IsWellFoundedOn(LessThan, Nat)
  BY NatLessThanWellFounded DEF OpToRel
<1>1. PICK x \in S : \A y \in S : ~(<<y, x>> \in LessThan)
  <2> HIDE DEF LessThan
  <2> QED
    BY <1>0, WFMin
<1>2. \A y \in S : ~(y < x)
  BY <1>1
<1>3. \A y \in S : x <= y
  BY <1>2
<1> QED
  BY <1>3 DEF Min

\* take_oldest() returns an op of the queue, and returns null exactly when
\* nothing but deleted slots was left, all of which it has then removed.
LEMMA TakeOldest ==
    ASSUME NEW S, NEW w \in Seq(S \cup {Null}), Null \notin S
    PROVE  /\ Oldest(w) \in S \cup {Null}
           /\ AfterOldest(w) \in Seq(S \cup {Null})
           /\ Oldest(w) = Null <=> LiveSlots(w) = {}
           /\ Oldest(w) = Null => AfterOldest(w) = << >>
           /\ w = << >> => Oldest(w) = Null
<1>1. LiveSlots(w) \in SUBSET Nat
  BY DEF LiveSlots
<1>2. CASE LiveSlots(w) = {}
  <2>1. Oldest(w) = Null /\ AfterOldest(w) = << >>
    BY <1>2 DEF Oldest, AfterOldest
  <2>2. << >> \in Seq(S \cup {Null})
    OBVIOUS
  <2> QED
    BY <2>1, <2>2, <1>2
<1>3. CASE LiveSlots(w) # {}
  <2> DEFINE m == Min(LiveSlots(w))
  <2>1. m \in LiveSlots(w)
    BY <1>1, <1>3, MinOfNaturals
  <2>2. m \in 1..Len(w) /\ w[m] # Null
    BY <2>1 DEF LiveSlots
  <2>3. w[m] \in S \cup {Null}
    BY <2>2, ElementOfSeq
  <2>4. Oldest(w) = w[m] /\ AfterOldest(w) = SubSeq(w, m + 1, Len(w))
    BY <1>3 DEF Oldest, AfterOldest
  <2>5. SubSeq(w, m + 1, Len(w)) \in Seq(S \cup {Null})
    BY <2>2, SubSeqProperties
  <2>6. w # << >>
    BY <2>2
  <2> QED
    BY <2>2, <2>3, <2>4, <2>5, <2>6, <1>3
<1> QED
  BY <1>2, <1>3

\* take_oldest() removes the op it returns and no other one.
LEMMA TakesOne ==
    ASSUME NEW S, NEW w \in Seq(S \cup {Null}), Null \notin S, Once(w)
    PROVE  /\ Once(AfterOldest(w))
           /\ Oldest(w) # Null => Waits(Oldest(w), w)
           /\ \A o : o # Null => (Waits(o, AfterOldest(w)) <=> Waits(o, w) /\ o # Oldest(w))
<1>1. LiveSlots(w) \in SUBSET Nat
  BY DEF LiveSlots
<1>2. CASE LiveSlots(w) = {}
  <2>1. Oldest(w) = Null /\ AfterOldest(w) = << >>
    BY <1>2 DEF Oldest, AfterOldest
  <2>2. \A o : o # Null => ~Waits(o, w)
    BY <1>2 DEF Waits, LiveSlots
  <2>3. Once(<< >>) /\ \A o : ~Waits(o, << >>)
    BY DEF Once, Waits
  <2> QED
    BY <2>1, <2>2, <2>3
<1>3. CASE LiveSlots(w) # {}
  <2> DEFINE m == Min(LiveSlots(w))
             v == AfterOldest(w)
  <2>1. m \in LiveSlots(w) /\ \A y \in LiveSlots(w) : m <= y
    BY <1>1, <1>3, MinOfNaturals
  <2>2. /\ m \in 1..Len(w) /\ w[m] # Null
        /\ \A i \in 1..Len(w) : i < m => w[i] = Null
    <3> HIDE DEF m
    <3>1. Len(w) \in Nat
      BY LenProperties
    <3> QED
      BY <2>1, <3>1 DEF LiveSlots
  <2>3. Oldest(w) = w[m] /\ v = SubSeq(w, m + 1, Len(w))
    BY <1>3 DEF Oldest, AfterOldest
  <2>4. /\ Len(v) = Len(w) - m
        /\ \A i \in 1..Len(v) : v[i] = w[m + i]
    <3>1. Len(w) \in Nat /\ m \in 1..Len(w) /\ m + 1 \in Int /\ Len(w) \in Int
      BY <2>2, LenProperties
    <3>2. \A i \in m + 1 .. Len(w) : w[i] \in S \cup {Null}
      BY <3>1, ElementOfSeq
    <3> HIDE DEF v, m
    <3>3. /\ Len(SubSeq(w, m + 1, Len(w))) = IF m + 1 <= Len(w) THEN Len(w) - (m + 1) + 1 ELSE 0
          /\ \A i \in 1 .. Len(w) - (m + 1) + 1 : SubSeq(w, m + 1, Len(w))[i] = w[(m + 1) + i - 1]
      BY <3>1, <3>2, SubSeqProperties
    <3>4. Len(v) = Len(w) - m
      BY <3>1, <3>3, <2>3
    <3>5. ASSUME NEW i \in 1..Len(v) PROVE v[i] = w[m + i]
      <4>1. i \in 1 .. Len(w) - (m + 1) + 1 /\ (m + 1) + i - 1 = m + i
        BY <3>1, <3>4
      <4> QED
        BY <4>1, <3>3, <2>3
    <3> QED
      BY <3>4, <3>5
  <2>5. Once(v)
    <3> SUFFICES ASSUME NEW i \in 1..Len(v), NEW j \in 1..Len(v), v[i] = v[j], v[i] # Null
                 PROVE  i = j
      BY DEF Once
    <3>1. m + i \in 1..Len(w) /\ m + j \in 1..Len(w)
      BY <2>2, <2>4
    <3>2. m + i = m + j
      BY <3>1, <2>4 DEF Once
    <3> QED
      BY <3>2, <2>2
  <2>6. Waits(Oldest(w), w)
    BY <2>2, <2>3 DEF Waits
  <2>7. ASSUME NEW o, o # Null, Waits(o, v)
        PROVE  Waits(o, w) /\ o # Oldest(w)
    <3>1. PICK i \in 1..Len(v) : v[i] = o
      BY <2>7 DEF Waits
    <3>2. m + i \in 1..Len(w) /\ m + i # m /\ w[m + i] = o
      BY <3>1, <2>2, <2>4
    <3> QED
      BY <3>2, <2>2, <2>3 DEF Waits, Once
  <2>8. ASSUME NEW o, o # Null, Waits(o, w), o # Oldest(w)
        PROVE  Waits(o, v)
    <3>1. PICK i \in 1..Len(w) : w[i] = o
      BY <2>8 DEF Waits
    <3>2. i > m
      BY <3>1, <2>2, <2>3, <2>8
    <3>3. i - m \in 1..Len(v) /\ m + (i - m) = i
      BY <3>2, <2>2, <2>4
    <3>4. v[i - m] = o
      BY <3>1, <3>3, <2>4
    <3> QED
      BY <3>3, <3>4 DEF Waits
  <2> HIDE DEF v
  <2> QED
    BY <2>5, <2>6, <2>7, <2>8 DEF v
<1> QED
  BY <1>2, <1>3

\* An op that begins to wait is added.
LEMMA AddsOne ==
    ASSUME NEW S, NEW w \in Seq(S \cup {Null}), NEW e \in S, Null \notin S, Once(w), ~Waits(e, w)
    PROVE  /\ Once(Append(w, e))
           /\ \A o : Waits(o, Append(w, e)) <=> Waits(o, w) \/ o = e
<1> DEFINE v == Append(w, e)
<1>1. Len(v) = Len(w) + 1 /\ v[Len(w) + 1] = e /\ \A i \in 1..Len(w) : v[i] = w[i]
  BY AppendProperties
<1>2. Len(w) \in Nat
  BY LenProperties
<1> HIDE DEF v
<1>3. \A i \in 1..Len(v) : i \in 1..Len(w) \/ i = Len(w) + 1
  BY <1>1, <1>2
<1>4. Once(v)
  BY <1>1, <1>3 DEF Once, Waits
<1>5. \A o : Waits(o, v) <=> Waits(o, w) \/ o = e
  BY <1>1, <1>2, <1>3 DEF Waits
<1> QED
  BY <1>4, <1>5 DEF v

\* erase() removes the op.
LEMMA ErasesOne ==
    ASSUME NEW S, NEW w \in Seq(S \cup {Null}), Null \notin S, NEW e, e # Null, Once(w)
    PROVE  /\ Once(Erase(e, w))
           /\ \A o : o # Null => (Waits(o, Erase(e, w)) <=> Waits(o, w) /\ o # e)
<1> DEFINE v == Erase(e, w)
<1>1. Len(v) = Len(w) /\ \A i \in 1..Len(w) : v[i] = IF w[i] = e THEN Null ELSE w[i]
  BY LenProperties DEF Erase
<1> HIDE DEF v
<1>2. Once(v) /\ \A o : o # Null => (Waits(o, v) <=> Waits(o, w) /\ o # e)
  BY <1>1 DEF Once, Waits
<1> QED
  BY <1>2 DEF v

LEMMA EraseType ==
    ASSUME NEW S, NEW w \in Seq(S \cup {Null}), NEW o
    PROVE  /\ Erase(o, w) \in Seq(S \cup {Null})
           /\ w = << >> => Erase(o, w) = << >>
<1>1. \A i \in 1..Len(w) : w[i] \in S \cup {Null}
  BY ElementOfSeq
<1>2. Len(w) \in Nat
  BY LenProperties
<1>3. /\ Erase(o, w) \in Seq(S \cup {Null})
      /\ Len(Erase(o, w)) = Len(w)
  BY <1>1, <1>2 DEF Erase
<1> QED
  BY <1>3, EmptySeq

-----------------------------------------------------------------------------
(* The waiting ops *)

\* The places a task can be in.
Places == {"run", "checked", "waiting", "recycling", "handing", "relocking"}

\* Only a task that neither waits nor hands over changes its place.
LEMMA WaitStill ==
    ASSUME WaitInv, NEW t \in Tasks, pc \in [Tasks -> Places], NEW v \in Places,
           pc[t] \notin {"waiting", "handing"}, v \notin {"waiting", "handing"},
           pc' = pc \/ pc' = [pc EXCEPT ![t] = v], UNCHANGED <<waiters, heir>>
    PROVE  WaitInv'
<1>1. \A u \in Tasks : /\ pc'[u] = "waiting" <=> pc[u] = "waiting"
                       /\ pc'[u] = "handing" <=> pc[u] = "handing"
  OBVIOUS
<1> QED
  BY <1>1 DEF WaitInv

\* An op begins to wait.
LEMMA WaitBegins ==
    ASSUME TypeOK, WaitInv, NullAssumption, NEW t \in Tasks, pc[t] = "checked",
           pc' = [pc EXCEPT ![t] = "waiting"], waiters' = Append(waiters, t), UNCHANGED heir
    PROVE  WaitInv'
<1>1. t # Null /\ Null \notin Tasks /\ waiters \in Seq(Tasks \cup {Null})
  BY DEF NullAssumption, TypeOK
<1>2. ~Waits(t, waiters) /\ \A u \in Tasks : heir[u] # t
  BY DEF WaitInv
<1>3. Once(waiters')
  BY <1>1, <1>2, AddsOne DEF WaitInv
<1>4. \A o : Waits(o, waiters') <=> Waits(o, waiters) \/ o = t
  BY <1>1, <1>2, AddsOne DEF WaitInv
<1>5. \A u \in Tasks : /\ pc'[u] = "waiting" <=> pc[u] = "waiting" \/ u = t
                       /\ pc'[u] = "handing" <=> pc[u] = "handing"
  BY DEF TypeOK
<1>6. \A u \in Tasks : heir'[u] # Null => ~Waits(heir'[u], waiters')
  BY <1>2, <1>4 DEF WaitInv
<1>7. \A u \in Tasks : pc'[u] = "waiting" <=> (Waits(u, waiters') \/ \E v \in Tasks : heir'[v] = u)
  BY <1>4, <1>5 DEF WaitInv
<1> QED
  BY <1>3, <1>5, <1>6, <1>7 DEF WaitInv

\* recycle() takes the oldest op, or finds none and empties the queue.
LEMMA WaitTaken ==
    ASSUME TypeOK, WaitInv, NullAssumption, NEW t \in Tasks, pc[t] = "recycling",
           waiters' = AfterOldest(waiters),
           IF LiveSlots(waiters) = {}
           THEN pc' = [pc EXCEPT ![t] = "run"] /\ UNCHANGED heir
           ELSE pc' = [pc EXCEPT ![t] = "handing"] /\ heir' = [heir EXCEPT ![t] = Oldest(waiters)]
    PROVE  WaitInv' /\ waiters' \in Seq(Tasks \cup {Null}) /\ heir' \in [Tasks -> Tasks \cup {Null}]
           /\ (LiveSlots(waiters) = {} => waiters' = << >>)
           /\ (waiters = << >> => LiveSlots(waiters) = {})
<1> DEFINE w == Oldest(waiters)
<1>1. Null \notin Tasks /\ waiters \in Seq(Tasks \cup {Null}) /\ Once(waiters)
  BY DEF NullAssumption, TypeOK, WaitInv
<1>2. /\ w \in Tasks \cup {Null} /\ waiters' \in Seq(Tasks \cup {Null})
      /\ w = Null <=> LiveSlots(waiters) = {}
      /\ w = Null => waiters' = << >>
      /\ waiters = << >> => w = Null
  BY <1>1, TakeOldest
<1>3. /\ Once(waiters')
      /\ w # Null => Waits(w, waiters)
      /\ \A o : o # Null => (Waits(o, waiters') <=> Waits(o, waiters) /\ o # w)
  BY <1>1, TakesOne
<1>4. heir[t] = Null
  BY DEF WaitInv
<1> HIDE DEF w
<1>5. CASE LiveSlots(waiters) = {}
  <2>1. \A u \in Tasks : u # Null /\ (Waits(u, waiters') <=> Waits(u, waiters))
    BY <1>1, <1>2, <1>3, <1>5
  <2>2. heir' = heir /\ heir \in [Tasks -> Tasks \cup {Null}]
    BY <1>5 DEF TypeOK
  <2>3. \A u \in Tasks : /\ pc'[u] = "waiting" <=> pc[u] = "waiting"
                         /\ pc'[u] = "handing" <=> pc[u] = "handing"
    BY <1>5 DEF TypeOK
  <2>4. \A u \in Tasks : heir[u] # Null => ~Waits(heir[u], waiters')
    BY <2>1, <2>2 DEF WaitInv
  <2> QED
    BY <1>2, <1>3, <1>5, <2>1, <2>2, <2>3, <2>4 DEF WaitInv
<1>6. CASE LiveSlots(waiters) # {}
  <2>1. w \in Tasks /\ w # Null /\ Waits(w, waiters)
    BY <1>1, <1>2, <1>3, <1>6
  <2>2. /\ heir' \in [Tasks -> Tasks \cup {Null}] /\ heir'[t] = w
        /\ \A u \in Tasks \ {t} : heir'[u] = heir[u]
    BY <1>6, <2>1 DEF TypeOK, w
  <2>3. \A u \in Tasks : /\ pc'[u] = "waiting" <=> pc[u] = "waiting"
                         /\ pc'[u] = "handing" <=> pc[u] = "handing" \/ u = t
    BY <1>6 DEF TypeOK
  <2>4. \A u \in Tasks : heir[u] # w
    BY <2>1 DEF WaitInv
  <2>5. \A u, v \in Tasks : (heir'[u] = heir'[v] /\ heir'[u] # Null) => u = v
    BY <2>2, <2>4 DEF WaitInv
  <2>6. \A u \in Tasks : heir'[u] # Null => ~Waits(heir'[u], waiters')
    BY <1>3, <2>2 DEF WaitInv
  <2>7. \A u \in Tasks : u # Null
    BY <1>1
  <2>8. \A u \in Tasks : pc'[u] = "waiting" <=> (Waits(u, waiters') \/ \E v \in Tasks : heir'[v] = u)
    <3>1. \A u \in Tasks : (\E v \in Tasks : heir'[v] = u) <=> u = w \/ \E v \in Tasks : heir[v] = u
      BY <2>2, <2>7, <1>4
    <3> QED
      BY <3>1, <2>1, <2>3, <2>7, <1>3 DEF WaitInv
  <2>9. \A u \in Tasks : heir'[u] # Null <=> pc'[u] = "handing"
    BY <2>1, <2>2, <2>3 DEF WaitInv
  <2> QED
    BY <1>2, <1>3, <1>6, <2>2, <2>5, <2>6, <2>8, <2>9 DEF WaitInv
<1> QED
  BY <1>5, <1>6

\* The heir gets the resource and its op ends.
LEMMA WaitServed ==
    ASSUME TypeOK, WaitInv, NullAssumption, NEW t \in Tasks, pc[t] = "handing",
           pc' = [pc EXCEPT ![t] = "run", ![heir[t]] = "run"],
           heir' = [heir EXCEPT ![t] = Null], UNCHANGED waiters
    PROVE  WaitInv' /\ heir' \in [Tasks -> Tasks \cup {Null}] /\ heir[t] \in Tasks /\ heir[t] # t
           /\ pc[heir[t]] = "waiting"
<1> DEFINE w == heir[t]
<1>1. w \in Tasks /\ w # Null
  BY DEF TypeOK, WaitInv
<1>2. pc[w] = "waiting" /\ w # t
  BY <1>1 DEF WaitInv
<1>3. /\ heir' \in [Tasks -> Tasks \cup {Null}] /\ heir'[t] = Null
      /\ \A u \in Tasks \ {t} : heir'[u] = heir[u] /\ heir[u] # w
  BY <1>1 DEF TypeOK, WaitInv
<1>4. ~Waits(w, waiters)
  BY <1>1 DEF WaitInv
<1>5. pc' = [pc EXCEPT ![t] = "run", ![w] = "run"]
  OBVIOUS
<1>6. \A u \in Tasks : (\E v \in Tasks : heir[v] = u) <=> u = w \/ \E v \in Tasks \ {t} : heir[v] = u
  OBVIOUS
<1> HIDE DEF w
<1>7. \A u \in Tasks : /\ pc'[u] = "waiting" <=> pc[u] = "waiting" /\ u # w
                       /\ pc'[u] = "handing" <=> pc[u] = "handing" /\ u # t
  BY <1>1, <1>2, <1>5 DEF TypeOK
<1>8. \A u \in Tasks : u # Null
  BY DEF NullAssumption
<1>9. \A u \in Tasks : (\E v \in Tasks : heir'[v] = u) <=> u # w /\ \E v \in Tasks : heir[v] = u
  BY <1>3, <1>6, <1>8
<1>a. /\ \A u, v \in Tasks : (heir[u] = heir[v] /\ heir[u] # Null) => u = v
      /\ \A u \in Tasks : heir[u] # Null => ~Waits(heir[u], waiters)
      /\ \A u \in Tasks : pc[u] = "waiting" <=> (Waits(u, waiters) \/ \E v \in Tasks : heir[v] = u)
      /\ \A u \in Tasks : heir[u] # Null <=> pc[u] = "handing"
  BY DEF WaitInv
<1>10. \A u \in Tasks : pc'[u] = "waiting" <=> (Waits(u, waiters) \/ \E v \in Tasks : heir'[v] = u)
  BY ONLY <1>a, <1>4, <1>7, <1>9
<1>11. \A u \in Tasks : heir'[u] # Null <=> pc'[u] = "handing"
  BY ONLY <1>a, <1>3, <1>7, t \in Tasks
<1>12. \A u, v \in Tasks : (heir'[u] = heir'[v] /\ heir'[u] # Null) => u = v
  BY ONLY <1>a, <1>3, t \in Tasks
<1>13. \A u \in Tasks : heir'[u] # Null => ~Waits(heir'[u], waiters)
  BY ONLY <1>a, <1>3, t \in Tasks
<1> QED
  <2>1. Once(waiters')
    BY DEF WaitInv
  <2>2. WaitInv'
    BY ONLY <2>1, <1>10, <1>11, <1>12, <1>13, UNCHANGED waiters DEF WaitInv
  <2> QED
    BY <1>1, <1>2, <1>3, <2>2 DEF w

\* The stop callback takes the op out of the queue.
LEMMA WaitCanceled ==
    ASSUME TypeOK, WaitInv, NullAssumption, NEW t \in Tasks, Waits(t, waiters),
           pc' = [pc EXCEPT ![t] = "run"], waiters' = Erase(t, waiters), UNCHANGED heir
    PROVE  WaitInv'
<1>1. t # Null /\ Null \notin Tasks /\ waiters \in Seq(Tasks \cup {Null}) /\ Once(waiters)
  BY DEF NullAssumption, TypeOK, WaitInv
<1>2. /\ Once(waiters')
      /\ \A o : o # Null => (Waits(o, waiters') <=> Waits(o, waiters) /\ o # t)
  BY <1>1, ErasesOne
<1>3. \A u \in Tasks : heir[u] # t
  BY <1>1 DEF WaitInv
<1>4. pc[t] = "waiting"
  BY DEF WaitInv
<1>5. \A u \in Tasks : /\ pc'[u] = "waiting" <=> pc[u] = "waiting" /\ u # t
                       /\ pc'[u] = "handing" <=> pc[u] = "handing"
  BY <1>4 DEF TypeOK
<1>6. \A u \in Tasks : u # Null
  BY <1>1
<1>7. \A u \in Tasks : heir'[u] # Null => ~Waits(heir'[u], waiters')
  BY <1>2 DEF WaitInv
<1>8. \A u \in Tasks : pc'[u] = "waiting" <=> (Waits(u, waiters') \/ \E v \in Tasks : heir'[v] = u)
  BY <1>2, <1>3, <1>5, <1>6 DEF WaitInv
<1> QED
  BY <1>2, <1>5, <1>7, <1>8 DEF WaitInv

-----------------------------------------------------------------------------
(* The resources *)

\* The number of resources in use is a natural number, and that of all too.
LEMMA Counts ==
    ASSUME TypeOK, CountInv
    PROVE  /\ Len(unused) \in Nat /\ Cardinality(inuse) \in Nat /\ cap \in Nat /\ cap > 0
           /\ Len(unused) + Cardinality(inuse) <= cap
           /\ Cardinality(inuse) = 0 <=> inuse = {}
<1>1. Len(unused) \in Nat
  BY LenProperties DEF TypeOK
<1>2. Cardinality(inuse) \in Nat /\ (Cardinality(inuse) = 0 <=> inuse = {})
  BY FS_CardinalityType, FS_EmptySet DEF CountInv
<1> QED
  BY <1>1, <1>2 DEF TypeOK, CountInv, WithinCapacity, OccupiedCap

\* No resource changes hands.
LEMMA LoanStill ==
    ASSUME LoanInv, UNCHANGED <<unused, inuse, held>>,
           \A t \in Tasks : pc'[t] \in {"recycling", "handing"} => busy'[t] \in held[t]
    PROVE  LoanInv'
BY DEF LoanInv

LEMMA CountStill ==
    ASSUME CountInv, UNCHANGED <<cap, unused, inuse>>, waiters' # << >> => inuse # {}
    PROVE  CountInv'
BY DEF CountInv, WithinCapacity, OccupiedCap, WaitersHaveHolder

\* try_acquire(): what is unused or new gets its one holder.
LEMMA LoanAcquires ==
    ASSUME TypeOK, LoanInv, CountInv, NEW t \in Tasks, Acquires(t), UNCHANGED <<cap, busy>>,
           \A u \in Tasks : pc'[u] \in {"recycling", "handing"} => pc'[u] = pc[u]
    PROVE  /\ LoanInv' /\ CountInv'
           /\ unused' \in Seq(Res) /\ inuse' \subseteq Res /\ held' \in [Tasks -> SUBSET Res]
<1>1. PICK x \in (IF unused = << >> THEN Fresh ELSE {Head(unused)}) :
          inuse' = inuse \cup {x} /\ held' = [held EXCEPT ![t] = held[t] \cup {x}]
  BY DEF Acquires
<1>2. unused' = IF unused = << >> THEN unused ELSE Tail(unused)
  BY DEF Acquires
<1>3. unused \in Seq(Res) /\ Len(unused) \in Nat
  BY LenProperties DEF TypeOK
<1>4. ASSUME unused # << >>
      PROVE  /\ Head(unused) = unused[1] /\ Head(unused) \in Res /\ 1 \in 1..Len(unused)
             /\ unused' \in Seq(Res) /\ Len(unused') = Len(unused) - 1
             /\ \A i \in 1..Len(unused') : unused'[i] = unused[i + 1] /\ i + 1 \in 1..Len(unused)
  <2>1. /\ Head(unused) = unused[1] /\ Head(unused) \in Res /\ Len(unused) > 0
        /\ Tail(unused) \in Seq(Res) /\ Len(Tail(unused)) = Len(unused) - 1
        /\ \A i \in 1..Len(Tail(unused)) : Tail(unused)[i] = unused[i + 1]
    BY <1>3, <1>4, HeadTailProperties, EmptySeq
  <2>2. unused' = Tail(unused)
    BY <1>2, <1>4
  <2> QED
    BY <2>1, <2>2, <1>3
<1>5. /\ x \in Res /\ x \notin inuse
      /\ \A i \in 1..Len(unused') : unused'[i] # x
      /\ unused' \in Seq(Res)
  <2>1. CASE unused = << >>
    BY <1>1, <1>2, <1>3, <2>1 DEF Fresh, Unused
  <2>2. CASE unused # << >>
    <3>1. x = unused[1] /\ 1 \in 1..Len(unused) /\ x \in Res
      BY <1>1, <1>4, <2>2
    <3>2. x \notin inuse
      BY <3>1 DEF LoanInv
    <3>3. ASSUME NEW i \in 1..Len(unused'), unused'[i] = x PROVE FALSE
      <4>1. i + 1 \in 1..Len(unused) /\ unused[i + 1] = unused[1]
        BY <3>1, <3>3, <1>4, <2>2
      <4>2. i + 1 = 1
        BY <4>1, <3>1 DEF LoanInv
      <4> QED
        BY <4>2, <1>4, <2>2
    <3> QED
      BY <3>1, <3>2, <3>3, <1>4, <2>2
  <2> QED
    BY <2>1, <2>2
<1>6. /\ inuse' \subseteq Res /\ held' \in [Tasks -> SUBSET Res]
      /\ held'[t] = held[t] \cup {x} /\ \A u \in Tasks \ {t} : held'[u] = held[u]
  BY <1>1, <1>5 DEF TypeOK
<1>7. \A u \in Tasks : x \notin held[u]
  BY <1>5 DEF LoanInv
<1>8. \A i, j \in 1..Len(unused') : unused'[i] = unused'[j] => i = j
  <2>1. CASE unused = << >>
    BY <1>2, <2>1 DEF LoanInv
  <2>2. CASE unused # << >>
    <3> SUFFICES ASSUME NEW i \in 1..Len(unused'), NEW j \in 1..Len(unused'), unused'[i] = unused'[j]
                 PROVE  i = j
      OBVIOUS
    <3>1. /\ i + 1 \in 1..Len(unused) /\ j + 1 \in 1..Len(unused)
          /\ unused[i + 1] = unused[j + 1]
      BY <1>4, <2>2
    <3>2. i + 1 = j + 1
      BY <3>1 DEF LoanInv
    <3> QED
      BY <3>2, <1>4, <2>2
  <2> QED
    BY <2>1, <2>2
<1>9. \A i \in 1..Len(unused') : unused'[i] \notin inuse'
  <2>1. CASE unused = << >>
    BY <1>1, <1>2, <1>5, <2>1 DEF LoanInv
  <2>2. CASE unused # << >>
    BY <1>1, <1>4, <1>5, <2>2 DEF LoanInv
  <2> QED
    BY <2>1, <2>2
<1>10. LoanInv'
  <2>1. \A u, v \in Tasks : \A y \in held'[u] : y \in held'[v] => u = v
    BY <1>6, <1>7 DEF LoanInv
  <2>2. \A y \in Res : y \in inuse' <=> \E u \in Tasks : y \in held'[u]
    BY <1>1, <1>6 DEF LoanInv
  <2>3. \A u \in Tasks : pc'[u] \in {"recycling", "handing"} => busy'[u] \in held'[u]
    BY <1>6 DEF LoanInv
  <2> QED
    BY <1>8, <1>9, <2>1, <2>2, <2>3 DEF LoanInv
<1>11. CountInv'
  <2>1. /\ IsFiniteSet(inuse \cup {x})
        /\ Cardinality(inuse \cup {x}) = Cardinality(inuse) + 1
    BY <1>5, FS_AddElement DEF CountInv
  <2>2. IsFiniteSet(inuse') /\ Cardinality(inuse') = Cardinality(inuse) + 1 /\ inuse' # {}
    BY <1>1, <2>1
  <2>3. /\ Len(unused) \in Nat /\ Cardinality(inuse) \in Nat /\ cap \in Nat
        /\ Len(unused) + Cardinality(inuse) <= cap
    BY Counts
  <2>4. Len(unused') + Cardinality(inuse') <= cap'
    <3>1. CASE unused = << >>
      <4>1. Cardinality(inuse) < cap /\ Len(unused') = 0
        BY <3>1, <1>2, <2>3 DEF Acquires, CannotAcquire
      <4> QED
        BY <4>1, <2>2, <2>3
    <3>2. CASE unused # << >>
      BY <3>2, <1>4, <2>2, <2>3
    <3> QED
      BY <3>1, <3>2
  <2> QED
    BY <2>2, <2>4 DEF CountInv, WithinCapacity, OccupiedCap, WaitersHaveHolder
<1> QED
  BY <1>5, <1>6, <1>10, <1>11

\* recycle() without a waiter: the resource is unused again.
LEMMA LoanPutBack ==
    ASSUME TypeOK, LoanInv, CountInv, NullAssumption, NEW t \in Tasks, pc[t] = "recycling",
           PutBack(t), UNCHANGED cap, waiters' = << >>
    PROVE  /\ LoanInv' /\ CountInv'
           /\ unused' \in Seq(Res) /\ inuse' \subseteq Res /\ held' \in [Tasks -> SUBSET Res]
           /\ busy' \in [Tasks -> Res \cup {Null}]
<1> DEFINE x == busy[t]
<1>1. x \in held[t] /\ x \in Res /\ x \in inuse
  <2>1. x \in held[t]
    BY DEF LoanInv
  <2>2. x \in Res
    BY <2>1 DEF TypeOK
  <2> QED
    BY <2>1, <2>2 DEF LoanInv
<1>2. /\ unused' = <<x>> \o unused /\ inuse' = inuse \ {x}
      /\ held' = [held EXCEPT ![t] = held[t] \ {x}]
      /\ busy' = [busy EXCEPT ![t] = Null]
      /\ pc' = [pc EXCEPT ![t] = "run"]
  BY DEF PutBack
<1>3. \A u \in Tasks : pc'[u] \in {"recycling", "handing"} => u # t /\ busy'[u] = busy[u] /\ pc'[u] = pc[u]
  BY <1>2 DEF TypeOK
<1>4. busy' \in [Tasks -> Res \cup {Null}]
  BY <1>2 DEF TypeOK
<1> HIDE DEF x
<1>5. /\ unused \in Seq(Res) /\ Len(unused) \in Nat
      /\ <<x>> \in Seq(Res) /\ Len(<<x>>) = 1 /\ <<x>>[1] = x
  BY <1>1, LenProperties DEF TypeOK
<1>6. /\ unused' \in Seq(Res) /\ Len(unused') = Len(unused) + 1
      /\ \A i \in 1..Len(unused') : unused'[i] = IF i <= 1 THEN <<x>>[i] ELSE unused[i - 1]
  BY <1>2, <1>5, ConcatProperties
<1>7. \A i \in 1..Len(unused') : (i = 1 /\ unused'[i] = x) \/ (i - 1 \in 1..Len(unused) /\ unused'[i] = unused[i - 1])
  BY <1>5, <1>6
<1>8. \A i \in 1..Len(unused) : unused[i] # x
  BY <1>1 DEF LoanInv
<1>9. /\ held' \in [Tasks -> SUBSET Res] /\ inuse' \subseteq Res
      /\ held'[t] = held[t] \ {x} /\ \A u \in Tasks \ {t} : held'[u] = held[u] /\ x \notin held[u]
  BY <1>1, <1>2 DEF TypeOK, LoanInv
<1>10. LoanInv'
  <2>1. \A u, v \in Tasks : \A y \in held'[u] : y \in held'[v] => u = v
    BY <1>9 DEF LoanInv
  <2>2. \A y \in Res : y \in inuse' <=> \E u \in Tasks : y \in held'[u]
    <3>1. \A y \in Res, u \in Tasks : y \in held'[u] <=> y \in held[u] /\ y # x
      BY <1>9
    <3> QED
      BY <3>1, <1>2 DEF LoanInv
  <2>3. \A u \in Tasks : pc'[u] \in {"recycling", "handing"} => busy'[u] \in held'[u]
    BY <1>3, <1>9 DEF LoanInv
  <2>4. \A i \in 1..Len(unused') : unused'[i] \notin inuse'
    BY <1>2, <1>7 DEF LoanInv
  <2>5. ASSUME NEW i \in 1..Len(unused'), NEW j \in 1..Len(unused'), unused'[i] = unused'[j]
        PROVE  i = j
    <3>1. (i = 1 /\ unused'[i] = x) \/ (i - 1 \in 1..Len(unused) /\ unused'[i] = unused[i - 1])
      BY <1>7
    <3>2. (j = 1 /\ unused'[j] = x) \/ (j - 1 \in 1..Len(unused) /\ unused'[j] = unused[j - 1])
      BY <1>7
    <3>3. i = j \/ i - 1 = j - 1
      BY <3>1, <3>2, <1>8, <2>5 DEF LoanInv
    <3> QED
      BY <3>3, <1>6
  <2> QED
    BY <2>1, <2>2, <2>3, <2>4, <2>5 DEF LoanInv
<1>11. CountInv'
  <2>1. /\ IsFiniteSet(inuse \ {x})
        /\ Cardinality(inuse \ {x}) = Cardinality(inuse) - 1
    BY <1>1, FS_RemoveElement DEF CountInv
  <2>2. /\ Len(unused) \in Nat /\ Cardinality(inuse) \in Nat /\ cap \in Nat
        /\ Len(unused) + Cardinality(inuse) <= cap
    BY Counts
  <2>3. Len(unused') + Cardinality(inuse') <= cap'
    BY <1>2, <1>6, <2>1, <2>2
  <2> QED
    BY <1>2, <2>1, <2>3 DEF CountInv, WithinCapacity, OccupiedCap, WaitersHaveHolder
<1> QED
  BY <1>4, <1>6, <1>9, <1>10, <1>11

\* The resource changes hands.
LEMMA LoanHandOver ==
    ASSUME TypeOK, LoanInv, NEW t \in Tasks, NEW w \in Tasks, w # t, pc[t] = "handing",
           pc[w] = "waiting", pc' = [pc EXCEPT ![t] = "run", ![w] = "run"],
           held' = [held EXCEPT ![t] = @ \ {busy[t]}, ![w] = @ \cup {busy[t]}],
           busy' = [busy EXCEPT ![t] = Null], UNCHANGED <<unused, inuse>>
    PROVE  LoanInv' /\ held' \in [Tasks -> SUBSET Res] /\ busy' \in [Tasks -> Res \cup {Null}]
<1> DEFINE x == busy[t]
<1>1. x \in held[t] /\ x \in Res
  BY DEF LoanInv, TypeOK
<1>2. /\ \A u \in Tasks : pc'[u] \in {"recycling", "handing"} => u # t /\ u # w /\ busy'[u] = busy[u] /\ pc'[u] = pc[u]
      /\ busy' \in [Tasks -> Res \cup {Null}]
  BY DEF TypeOK
<1>3. held' = [held EXCEPT ![t] = held[t] \ {x}, ![w] = held[w] \cup {x}]
  BY DEF TypeOK
<1> HIDE DEF x
<1>4. /\ held' \in [Tasks -> SUBSET Res]
      /\ held'[t] = held[t] \ {x} /\ held'[w] = held[w] \cup {x}
      /\ \A u \in Tasks \ {t, w} : held'[u] = held[u]
  BY <1>1, <1>3 DEF TypeOK
<1>5. \A u \in Tasks : x \in held[u] => u = t
  BY <1>1 DEF LoanInv
<1>6. \A u, v \in Tasks : \A y \in held'[u] : y \in held'[v] => u = v
  BY <1>4, <1>5 DEF LoanInv
<1>7. \A y \in Res : y \in inuse <=> \E u \in Tasks : y \in held'[u]
  <2>1. ASSUME NEW y \in Res PROVE (\E u \in Tasks : y \in held'[u]) <=> \E u \in Tasks : y \in held[u]
    <3>1. CASE y = x
      BY <3>1, <1>1, <1>4
    <3>2. CASE y # x
      <4>1. \A u \in Tasks : y \in held'[u] <=> y \in held[u]
        BY <3>2, <1>4
      <4> QED
        BY <4>1
    <3> QED
      BY <3>1, <3>2
  <2> QED
    BY <2>1 DEF LoanInv
<1>8. \A u \in Tasks : pc'[u] \in {"recycling", "handing"} => busy'[u] \in held'[u]
  BY <1>2, <1>4 DEF LoanInv
<1>9. unused' = unused /\ inuse' = inuse
  OBVIOUS
<1>10. /\ \A i \in 1..Len(unused) : unused[i] \notin inuse
       /\ \A i, j \in 1..Len(unused) : unused[i] = unused[j] => i = j
  BY DEF LoanInv
<1>11. LoanInv'
  BY <1>6, <1>7, <1>8, <1>9, <1>10 DEF LoanInv
<1> QED
  BY <1>2, <1>4, <1>11

\* create_all() fills the pool with new resources.
LEMMA LoanCreateAll ==
    ASSUME TypeOK, LoanInv, CountInv, CreateAll
    PROVE  LoanInv' /\ CountInv' /\ unused' \in Seq(Res)
<1> DEFINE n == cap - OccupiedCap
<1>1. PICK s \in [1..n -> Fresh] : /\ \A i, j \in 1..n : s[i] = s[j] => i = j
                                   /\ unused' = s \o unused
  BY DEF CreateAll
<1>2. UNCHANGED <<cap, inuse, waiters, pc, held, busy>>
  BY DEF CreateAll
<1>3. /\ Len(unused) \in Nat /\ Cardinality(inuse) \in Nat /\ cap \in Nat
      /\ Len(unused) + Cardinality(inuse) <= cap
  BY Counts
<1>4. n \in Nat /\ n + Len(unused) + Cardinality(inuse) = cap
  BY <1>3 DEF OccupiedCap
<1> HIDE DEF n
<1>5. s \in Seq(Fresh) /\ Len(s) = n
  BY <1>4, IsASeq, LenProperties
<1>6. Fresh \subseteq Res
  BY DEF Fresh
<1>7. s \in Seq(Res) /\ unused \in Seq(Res)
  BY <1>5, <1>6, SeqMonotonic DEF TypeOK
<1>8. /\ unused' \in Seq(Res) /\ Len(unused') = n + Len(unused)
      /\ \A i \in 1..Len(unused') : unused'[i] = IF i <= n THEN s[i] ELSE unused[i - n]
  BY <1>1, <1>5, <1>7, ConcatProperties
<1>9. \A i \in 1..Len(unused') :
         \/ i \in 1..n /\ unused'[i] = s[i]
         \/ i - n \in 1..Len(unused) /\ unused'[i] = unused[i - n]
  BY <1>3, <1>4, <1>8
<1>10. \A i \in 1..n : s[i] \notin inuse /\ \A j \in 1..Len(unused) : s[i] # unused[j]
  BY DEF Fresh, Unused
<1>11. LoanInv'
  <2>1. \A i \in 1..Len(unused') : unused'[i] \notin inuse'
    BY <1>2, <1>9, <1>10 DEF LoanInv
  <2>2. ASSUME NEW i \in 1..Len(unused'), NEW j \in 1..Len(unused'), unused'[i] = unused'[j]
        PROVE  i = j
    <3>1. \/ i \in 1..n /\ unused'[i] = s[i]
          \/ i - n \in 1..Len(unused) /\ unused'[i] = unused[i - n]
      BY <1>9
    <3>2. \/ j \in 1..n /\ unused'[j] = s[j]
          \/ j - n \in 1..Len(unused) /\ unused'[j] = unused[j - n]
      BY <1>9
    <3>3. i = j \/ i - n = j - n
      BY <3>1, <3>2, <1>1, <1>10, <2>2 DEF LoanInv
    <3> QED
      BY <3>3, <1>4, <1>8
  <2> QED
    BY <1>2, <2>1, <2>2 DEF LoanInv
<1>12. CountInv'
  <2>1. Len(unused') + Cardinality(inuse') <= cap'
    BY <1>2, <1>3, <1>4, <1>8
  <2> QED
    BY <1>2, <2>1 DEF CountInv, WithinCapacity, OccupiedCap, WaitersHaveHolder
<1> QED
  BY <1>8, <1>11, <1>12

-----------------------------------------------------------------------------
(* The steps *)

\* Steps that move a task between places where it neither waits nor hands over, and leave the
\* resources alone.
LEMMA StepMoves ==
    ASSUME PoolInv, NEW t \in Tasks, NEW v \in Places \ {"waiting", "handing"},
           pc[t] \notin {"waiting", "handing"}, pc' = pc \/ pc' = [pc EXCEPT ![t] = v],
           UNCHANGED <<cap, unused, inuse, waiters, held, heir>>,
           mtx' \in Tasks \cup {Null}, busy' \in [Tasks -> Res \cup {Null}],
           \A u \in Tasks : pc'[u] \in {"recycling", "handing"} => busy'[u] \in held[u],
           stop' \in [Tasks -> BOOLEAN], cb' \in [Tasks -> {"none", "armed", "fired"}]
    PROVE  PoolInv'
<1>1. pc \in [Tasks -> Places] /\ pc' \in [Tasks -> Places]
  BY DEF PoolInv, TypeOK, Places
<1>2. TypeOK'
  BY <1>1 DEF PoolInv, TypeOK, Places
<1>4. WaitInv'
  BY <1>1, WaitStill DEF PoolInv
<1>5. LoanInv'
  BY LoanStill DEF PoolInv
<1>6. CountInv'
  BY CountStill DEF PoolInv, CountInv, WaitersHaveHolder
<1> QED
  BY <1>2, <1>4, <1>5, <1>6 DEF PoolInv

LEMMA StepInitiate ==
    ASSUME PoolInv, NEW t \in Tasks, Initiate(t) \/ ContinuationRecycles(t)
    PROVE  PoolInv'
<1>1. PICK v \in {"checked", "relocking"} : pc' = [pc EXCEPT ![t] = v]
  BY DEF Initiate, ContinuationRecycles
<1>2. pc[t] = "run" /\ UNCHANGED <<mtx, cap, unused, inuse, waiters, held, busy, heir, stop, cb>>
  BY DEF Initiate, ContinuationRecycles
<1>3. \A u \in Tasks : pc'[u] \in {"recycling", "handing"} => busy'[u] \in held[u]
  BY <1>1, <1>2 DEF PoolInv, TypeOK, LoanInv
<1>4. v \in Places \ {"waiting", "handing"} /\ pc[t] \notin {"waiting", "handing"}
  BY <1>1, <1>2 DEF Places
<1>5. mtx' \in Tasks \cup {Null} /\ busy' \in [Tasks -> Res \cup {Null}]
      /\ stop' \in [Tasks -> BOOLEAN] /\ cb' \in [Tasks -> {"none", "armed", "fired"}]
  BY <1>2 DEF PoolInv, TypeOK
<1> QED
  BY <1>1, <1>2, <1>3, <1>4, <1>5, StepMoves

LEMMA StepStartRecycle ==
    ASSUME PoolInv, NEW t \in Tasks, StartRecycle(t)
    PROVE  PoolInv'
<1>1. PICK x \in held[t] : busy' = [busy EXCEPT ![t] = x]
  BY DEF StartRecycle
<1>2. /\ pc[t] = "run" /\ pc' = [pc EXCEPT ![t] = "recycling"]
      /\ UNCHANGED <<mtx, cap, unused, inuse, waiters, held, heir, stop, cb>>
  BY DEF StartRecycle
<1>3. x \in Res
  BY DEF PoolInv, TypeOK
<1>4. \A u \in Tasks : pc'[u] \in {"recycling", "handing"} => busy'[u] \in held[u]
  BY <1>1, <1>2 DEF PoolInv, TypeOK, LoanInv
<1>5. mtx' \in Tasks \cup {Null} /\ busy' \in [Tasks -> Res \cup {Null}]
      /\ stop' \in [Tasks -> BOOLEAN] /\ cb' \in [Tasks -> {"none", "armed", "fired"}]
  BY <1>1, <1>2, <1>3 DEF PoolInv, TypeOK
<1>6. "recycling" \in Places \ {"waiting", "handing"} /\ pc[t] \notin {"waiting", "handing"}
  BY <1>2 DEF Places
<1> QED
  BY <1>2, <1>4, <1>5, <1>6, StepMoves

\* request_stop() and the end of a continuation move no task.
LEMMA StepRequestStop ==
    ASSUME PoolInv, NEW t \in Tasks, RequestStop(t) \/ ContinuationReturns(t)
    PROVE  PoolInv'
<1>1. UNCHANGED <<cap, unused, inuse, waiters, pc, held, busy, heir>>
  BY DEF RequestStop, ContinuationReturns
<1>2. /\ mtx' \in Tasks \cup {Null} /\ stop' \in [Tasks -> BOOLEAN]
      /\ cb' \in [Tasks -> {"none", "armed", "fired"}]
  BY DEF RequestStop, ContinuationReturns, PoolInv, TypeOK
<1>3. TypeOK'
  BY <1>1, <1>2 DEF PoolInv, TypeOK
<1>4. WaitInv' /\ LoanInv' /\ CountInv'
  BY <1>1 DEF PoolInv, WaitInv, LoanInv, CountInv, WithinCapacity, OccupiedCap, WaitersHaveHolder
<1> QED
  BY <1>3, <1>4 DEF PoolInv

LEMMA StepTryAcquire ==
    ASSUME PoolInv, NEW t \in Tasks, TryAcquire(t)
    PROVE  PoolInv'
<1>1. Acquires(t) /\ UNCHANGED <<mtx, cap, waiters, pc, busy, heir, stop, cb>>
  BY DEF TryAcquire
<1>2. /\ LoanInv' /\ CountInv'
      /\ unused' \in Seq(Res) /\ inuse' \subseteq Res /\ held' \in [Tasks -> SUBSET Res]
  BY <1>1, LoanAcquires DEF PoolInv
<1>3. TypeOK'
  BY <1>1, <1>2 DEF PoolInv, TypeOK
<1>4. WaitInv'
  BY <1>1 DEF PoolInv, WaitInv
<1> QED
  BY <1>2, <1>3, <1>4 DEF PoolInv

LEMMA StepAcquireLocked ==
    ASSUME PoolInv, NullAssumption, NEW t \in Tasks, AcquireLocked(t)
    PROVE  PoolInv'
<1>1. pc[t] = "checked" /\ mtx = Null /\ UNCHANGED <<cap, busy, heir, stop>>
  BY DEF AcquireLocked
<1>2. pc \in [Tasks -> Places]
  BY DEF PoolInv, TypeOK, Places
<1>3. CASE Acquires(t) /\ pc' = [pc EXCEPT ![t] = "run"] /\ UNCHANGED <<mtx, waiters, cb>>
  <2>1. \A u \in Tasks : pc'[u] \in {"recycling", "handing"} => pc'[u] = pc[u]
    BY <1>2, <1>3
  <2>2. /\ LoanInv' /\ CountInv'
        /\ unused' \in Seq(Res) /\ inuse' \subseteq Res /\ held' \in [Tasks -> SUBSET Res]
    BY <1>1, <1>3, <2>1, LoanAcquires DEF PoolInv
  <2>3. TypeOK'
    BY <1>1, <1>3, <2>2 DEF PoolInv, TypeOK
  <2>4. WaitInv'
    <3>1. "run" \in Places /\ "run" \notin {"waiting", "handing"} /\ pc[t] \notin {"waiting", "handing"}
      BY <1>1 DEF Places
    <3> QED
      BY <1>1, <1>2, <1>3, <3>1, WaitStill DEF PoolInv
  <2> QED
    BY <2>2, <2>3, <2>4 DEF PoolInv
<1>4. CASE /\ CannotAcquire /\ pc' = [pc EXCEPT ![t] = "waiting"] /\ cb' = [cb EXCEPT ![t] = "armed"]
           /\ waiters' = Append(waiters, t) /\ UNCHANGED <<mtx, unused, inuse, held>>
  <2>1. inuse # {}
    BY <1>4, Counts DEF CannotAcquire, PoolInv
  <2>2. waiters' \in Seq(Tasks \cup {Null})
    <3>1. waiters \in Seq(Tasks \cup {Null}) /\ t \in Tasks \cup {Null}
      BY DEF PoolInv, TypeOK
    <3> QED
      BY <1>4, <3>1, AppendProperties
  <2>3. TypeOK'
    BY <1>1, <1>4, <2>2 DEF PoolInv, TypeOK
  <2>4. WaitInv'
    BY <1>1, <1>4, WaitBegins DEF PoolInv
  <2>5. \A u \in Tasks : pc'[u] \in {"recycling", "handing"} => busy'[u] \in held[u]
    BY <1>1, <1>2, <1>4 DEF PoolInv, LoanInv
  <2>6. LoanInv'
    BY <1>4, <2>5, LoanStill DEF PoolInv
  <2>7. CountInv'
    BY <1>1, <1>4, <2>1, CountStill DEF PoolInv
  <2> QED
    BY <2>3, <2>4, <2>6, <2>7 DEF PoolInv
<1>5. CASE /\ pc' = [pc EXCEPT ![t] = "relocking"] /\ mtx' = t
           /\ UNCHANGED <<unused, inuse, waiters, held, cb>>
  <2>1. \A u \in Tasks : pc'[u] \in {"recycling", "handing"} => busy'[u] \in held[u]
    BY <1>1, <1>2, <1>5 DEF PoolInv, LoanInv
  <2>2. "relocking" \in Places \ {"waiting", "handing"} /\ pc[t] \notin {"waiting", "handing"}
    BY <1>1 DEF Places
  <2>3. mtx' \in Tasks \cup {Null} /\ busy' \in [Tasks -> Res \cup {Null}]
        /\ stop' \in [Tasks -> BOOLEAN] /\ cb' \in [Tasks -> {"none", "armed", "fired"}]
    BY <1>1, <1>5 DEF PoolInv, TypeOK
  <2> QED
    BY <1>1, <1>5, <2>1, <2>2, <2>3, StepMoves
<1> QED
  BY <1>3, <1>4, <1>5 DEF AcquireLocked

LEMMA StepRecycleLocked ==
    ASSUME PoolInv, NullAssumption, NEW t \in Tasks, RecycleLocked(t)
    PROVE  PoolInv'
<1>1. /\ pc[t] = "recycling" /\ waiters' = AfterOldest(waiters)
      /\ UNCHANGED <<mtx, cap, stop, cb>>
  BY DEF RecycleLocked
<1>2. IF LiveSlots(waiters) = {}
      THEN pc' = [pc EXCEPT ![t] = "run"] /\ UNCHANGED heir
      ELSE pc' = [pc EXCEPT ![t] = "handing"] /\ heir' = [heir EXCEPT ![t] = Oldest(waiters)]
  BY DEF RecycleLocked, PutBack
<1>3. /\ WaitInv' /\ waiters' \in Seq(Tasks \cup {Null}) /\ heir' \in [Tasks -> Tasks \cup {Null}]
      /\ LiveSlots(waiters) = {} => waiters' = << >>
      /\ waiters = << >> => LiveSlots(waiters) = {}
  BY <1>1, <1>2, WaitTaken DEF PoolInv
<1>4. CASE LiveSlots(waiters) = {}
  <2>1. /\ LoanInv' /\ CountInv'
        /\ unused' \in Seq(Res) /\ inuse' \subseteq Res /\ held' \in [Tasks -> SUBSET Res]
        /\ busy' \in [Tasks -> Res \cup {Null}]
    BY <1>1, <1>3, <1>4, LoanPutBack DEF PoolInv, RecycleLocked
  <2>2. TypeOK'
    BY <1>1, <1>2, <1>3, <1>4, <2>1 DEF PoolInv, TypeOK
  <2> QED
    BY <1>3, <2>1, <2>2 DEF PoolInv
<1>5. CASE LiveSlots(waiters) # {}
  <2>1. UNCHANGED <<unused, inuse, held, busy>>
    BY <1>5 DEF RecycleLocked
  <2>2. \A u \in Tasks : pc'[u] \in {"recycling", "handing"} => busy'[u] \in held[u]
    BY <1>1, <1>2, <1>5, <2>1 DEF PoolInv, TypeOK, LoanInv
  <2>3. LoanInv'
    BY <2>1, <2>2, LoanStill DEF PoolInv
  <2>4. waiters' # << >> => inuse # {}
    BY <1>3, <1>5 DEF PoolInv, CountInv, WaitersHaveHolder
  <2>5. CountInv'
    BY <1>1, <2>1, <2>4, CountStill DEF PoolInv
  <2>6. TypeOK'
    BY <1>1, <1>2, <1>3, <1>5, <2>1 DEF PoolInv, TypeOK
  <2> QED
    BY <1>3, <2>3, <2>5, <2>6 DEF PoolInv
<1> QED
  BY <1>4, <1>5

LEMMA StepHandOver ==
    ASSUME PoolInv, NullAssumption, NEW t \in Tasks, HandOver(t)
    PROVE  PoolInv'
<1>1. /\ pc[t] = "handing"
      /\ held' = [held EXCEPT ![t] = @ \ {busy[t]}, ![heir[t]] = @ \cup {busy[t]}]
      /\ pc' = [pc EXCEPT ![t] = "run", ![heir[t]] = "run"]
      /\ cb' = [cb EXCEPT ![heir[t]] = IF cb[heir[t]] = "armed" THEN "none" ELSE cb[heir[t]]]
      /\ busy' = [busy EXCEPT ![t] = Null]
      /\ heir' = [heir EXCEPT ![t] = Null]
      /\ UNCHANGED <<mtx, cap, unused, inuse, waiters, stop>>
  BY DEF HandOver
<1>2. /\ WaitInv' /\ heir' \in [Tasks -> Tasks \cup {Null}] /\ heir[t] \in Tasks /\ heir[t] # t
      /\ pc[heir[t]] = "waiting"
  BY <1>1, WaitServed DEF PoolInv
<1>3. LoanInv' /\ held' \in [Tasks -> SUBSET Res] /\ busy' \in [Tasks -> Res \cup {Null}]
  BY <1>1, <1>2, LoanHandOver DEF PoolInv
<1>4. CountInv'
  BY <1>1 DEF PoolInv, CountInv, WithinCapacity, OccupiedCap, WaitersHaveHolder
<1>5. TypeOK'
  BY <1>1, <1>2, <1>3 DEF PoolInv, TypeOK
<1> QED
  BY <1>2, <1>3, <1>4, <1>5 DEF PoolInv

LEMMA StepCancel ==
    ASSUME PoolInv, NullAssumption, NEW t \in Tasks, Cancel(t)
    PROVE  PoolInv'
<1>1. /\ cb' \in [Tasks -> {"none", "armed", "fired"}]
      /\ UNCHANGED <<cap, unused, inuse, held, busy, heir, stop>>
  BY DEF Cancel, PoolInv, TypeOK
<1>2. CASE Waits(t, waiters)
  <2>1. /\ waiters' = Erase(t, waiters) /\ pc' = [pc EXCEPT ![t] = "run"]
        /\ mtx' \in Tasks \cup {Null}
    BY <1>2 DEF Cancel, Waits, Erase, PoolInv, TypeOK
  <2>2. /\ waiters' \in Seq(Tasks \cup {Null})
        /\ waiters = << >> => waiters' = << >>
    BY <2>1, EraseType DEF PoolInv, TypeOK
  <2>3. TypeOK'
    BY <1>1, <2>1, <2>2 DEF PoolInv, TypeOK
  <2>4. WaitInv'
    BY <1>1, <1>2, <2>1, WaitCanceled DEF PoolInv
  <2>5. \A u \in Tasks : pc'[u] \in {"recycling", "handing"} => busy'[u] \in held[u]
    BY <1>1, <2>1 DEF PoolInv, TypeOK, LoanInv
  <2>6. LoanInv'
    BY <1>1, <2>5, LoanStill DEF PoolInv
  <2>7. waiters' # << >> => inuse # {}
    BY <2>2 DEF PoolInv, CountInv, WaitersHaveHolder
  <2>8. CountInv'
    BY <1>1, <2>7, CountStill DEF PoolInv
  <2> QED
    BY <2>3, <2>4, <2>6, <2>8 DEF PoolInv
<1>3. CASE ~Waits(t, waiters)
  <2>1. UNCHANGED <<waiters, pc, mtx>>
    BY <1>3 DEF Cancel, Waits
  <2>2. TypeOK'
    BY <1>1, <2>1 DEF PoolInv, TypeOK
  <2>3. WaitInv' /\ LoanInv' /\ CountInv'
    BY <1>1, <2>1 DEF PoolInv, WaitInv, LoanInv, CountInv, WithinCapacity, OccupiedCap, WaitersHaveHolder
  <2> QED
    BY <2>2, <2>3 DEF PoolInv
<1> QED
  BY <1>2, <1>3

\* The capacity never gets below what the pool has, and never 0.
LEMMA StepCapacity ==
    ASSUME PoolInv, CapAssumption,
           \/ \E k \in MinCap..MaxCap : SetCapacity(k) \/ Reserve(k)
           \/ \E p \in Ratios : ReserveBy(p)
    PROVE  PoolInv'
<1>1. UNCHANGED <<mtx, unused, inuse, waiters, pc, held, busy, heir, stop, cb>>
  BY DEF SetCapacity, Reserve, ReserveBy
<1>2. /\ Len(unused) \in Nat /\ Cardinality(inuse) \in Nat /\ cap \in Nat
  BY Counts DEF PoolInv
<1>3. cap' \in Nat \ {0} /\ OccupiedCap <= cap'
  <2>1. ASSUME NEW k \in MinCap..MaxCap, SetCapacity(k) \/ Reserve(k)
        PROVE  cap' \in Nat \ {0} /\ OccupiedCap <= cap'
    BY <2>1, <1>2 DEF SetCapacity, Reserve, OccupiedCap, CapAssumption
  <2>2. ASSUME NEW p \in Ratios, ReserveBy(p)
        PROVE  cap' \in Nat \ {0} /\ OccupiedCap <= cap'
    <3> DEFINE b == (cap * p[1]) \div p[2]
    <3>1. p[1] \in Nat \ {0} /\ p[2] \in Nat \ {0} /\ MaxCap \in Nat
      BY DEF CapAssumption
    <3>2. b \in Nat
      <4> DEFINE m == cap * p[1]
      <4>1. m \in Nat
        BY <1>2, <3>1
      <4> HIDE DEF m
      <4>2. m \div p[2] \in Nat
        BY <3>1, <4>1
      <4> QED
        BY <4>2 DEF m
    <3>3. Min({MaxCap, b}) \in {MaxCap, b}
      <4> HIDE DEF b
      <4> QED
        BY <3>1, <3>2, MinOfNaturals
    <3>4. cap' = Min({MaxCap, b}) /\ cap' > OccupiedCap
      BY <2>2 DEF ReserveBy
    <3> HIDE DEF b
    <3> QED
      BY <3>1, <3>2, <3>3, <3>4, <1>2 DEF OccupiedCap
  <2> QED
    BY <2>1, <2>2
<1>4. TypeOK'
  BY <1>1, <1>3 DEF PoolInv, TypeOK
<1>5. WaitInv' /\ LoanInv'
  BY <1>1 DEF PoolInv, WaitInv, LoanInv
<1>6. CountInv'
  BY <1>1, <1>3 DEF PoolInv, CountInv, WithinCapacity, OccupiedCap, WaitersHaveHolder
<1> QED
  BY <1>4, <1>5, <1>6 DEF PoolInv

LEMMA StepPopulation ==
    ASSUME PoolInv, ClearUnused \/ CreateAll
    PROVE  PoolInv'
<1>1. UNCHANGED <<mtx, cap, inuse, waiters, pc, held, busy, heir, stop, cb>>
  BY DEF ClearUnused, CreateAll
<1>2. LoanInv' /\ CountInv' /\ unused' \in Seq(Res)
  <2>1. CASE CreateAll
    BY <2>1, LoanCreateAll DEF PoolInv
  <2>2. CASE ClearUnused
    <3>1. unused' = << >> /\ unused' \in Seq(Res) /\ Len(unused') = 0
      BY <2>2 DEF ClearUnused
    <3>2. Len(unused') + Cardinality(inuse) <= cap
      BY <3>1, Counts DEF PoolInv
    <3>3. LoanInv'
      BY <1>1, <3>1 DEF PoolInv, LoanInv
    <3>4. CountInv'
      BY <1>1, <3>2 DEF PoolInv, CountInv, WithinCapacity, OccupiedCap, WaitersHaveHolder
    <3> QED
      BY <3>1, <3>3, <3>4
  <2> QED
    BY <2>1, <2>2
<1>3. TypeOK'
  BY <1>1, <1>2 DEF PoolInv, TypeOK
<1>4. WaitInv'
  BY <1>1 DEF PoolInv, WaitInv
<1> QED
  BY <1>2, <1>3, <1>4 DEF PoolInv

LEMMA PoolInit == ASSUME Assumptions, Init PROVE PoolInv
<1>1. /\ mtx = Null /\ cap = InitCap /\ unused = << >> /\ inuse = {} /\ waiters = << >>
      /\ pc = [t \in Tasks |-> "run"] /\ held = [t \in Tasks |-> {}]
      /\ busy = [t \in Tasks |-> Null] /\ heir = [t \in Tasks |-> Null]
      /\ stop = [t \in Tasks |-> FALSE] /\ cb = [t \in Tasks |-> "none"]
  BY DEF Init
<1>2. << >> \in Seq(Res) /\ << >> \in Seq(Tasks \cup {Null}) /\ InitCap \in Nat \ {0}
      /\ Null \notin Tasks
  BY DEF Assumptions, CapAssumption, NullAssumption
<1>3. TypeOK
  BY <1>1, <1>2 DEF TypeOK
<1>4. WaitInv
  BY <1>1, <1>2 DEF WaitInv, Once, Waits
<1>5. LoanInv
  BY <1>1 DEF LoanInv
<1>6. IsFiniteSet(inuse) /\ Cardinality(inuse) = 0 /\ Len(unused) = 0
  BY <1>1, FS_EmptySet
<1>7. CountInv
  BY <1>1, <1>2, <1>6 DEF CountInv, WithinCapacity, OccupiedCap, WaitersHaveHolder
<1> QED
  BY <1>3, <1>4, <1>5, <1>7 DEF PoolInv

LEMMA PoolStep == ASSUME Assumptions, PoolInv, [Next]_vars PROVE PoolInv'
<1> USE DEF Assumptions
<1>1. CASE \E t \in Tasks : Initiate(t) \/ ContinuationRecycles(t)
  BY <1>1, StepInitiate
<1>2. CASE \E t \in Tasks : AcquireLocked(t) \/ TryAcquire(t)
  BY <1>2, StepAcquireLocked, StepTryAcquire
<1>3. CASE \E t \in Tasks : StartRecycle(t) \/ RecycleLocked(t)
  BY <1>3, StepStartRecycle, StepRecycleLocked
<1>4. CASE \E t \in Tasks : HandOver(t) \/ Cancel(t)
  BY <1>4, StepHandOver, StepCancel
<1>5. CASE \E t \in Tasks : RequestStop(t) \/ ContinuationReturns(t)
  BY <1>5, StepRequestStop
<1>6. CASE \/ \E k \in MinCap..MaxCap : SetCapacity(k) \/ Reserve(k)
           \/ \E p \in Ratios : ReserveBy(p)
  BY <1>6, StepCapacity
<1>7. CASE ClearUnused \/ CreateAll
  BY <1>7, StepPopulation
<1>8. CASE UNCHANGED vars
  <2>1. TypeOK'
    BY <1>8 DEF vars, PoolInv, TypeOK
  <2>2. WaitInv' /\ LoanInv' /\ CountInv'
    BY <1>8 DEF vars, PoolInv, WaitInv, LoanInv, CountInv, WithinCapacity, OccupiedCap, WaitersHaveHolder
  <2> QED
    BY <2>1, <2>2 DEF PoolInv
<1> QED
  BY <1>1, <1>2, <1>3, <1>4, <1>5, <1>6, <1>7, <1>8 DEF Next

-----------------------------------------------------------------------------
(* What the invariant says *)

\* Each resource is lent to one task or is unused, once.
LEMMA LoansExclusive == ASSUME PoolInv PROVE ExclusiveLoan
<1>1. \A t, u \in Tasks : t # u => held[t] \cap held[u] = {}
  BY DEF PoolInv, LoanInv
<1>2. UNION {held[t] : t \in Tasks} = inuse
  <2>1. \A t \in Tasks : held[t] \subseteq Res
    BY DEF PoolInv, TypeOK
  <2>2. inuse \subseteq Res
    BY DEF PoolInv, TypeOK
  <2> QED
    BY <2>1, <2>2 DEF PoolInv, LoanInv
<1>3. Unused \cap inuse = {}
  BY DEF PoolInv, LoanInv, Unused
<1>4. \A i, j \in 1..Len(unused) : unused[i] = unused[j] => i = j
  BY DEF PoolInv, LoanInv
<1> QED
  BY <1>1, <1>2, <1>3, <1>4 DEF ExclusiveLoan

\* A waiting op is in one place.
LEMMA OpsOwned == ASSUME PoolInv, NullAssumption PROVE OneOwner
<1> SUFFICES ASSUME NEW t \in Tasks
             PROVE  Cardinality(  {<<"slot", i>> : i \in {j \in 1..Len(waiters) : waiters[j] = t}}
                             \cup {<<"heir", u>> : u \in {v \in Tasks : heir[v] = t}})
                      = IF pc[t] = "waiting" THEN 1 ELSE 0
  BY DEF OneOwner
<1> DEFINE Slots == {<<"slot", i>> : i \in {j \in 1..Len(waiters) : waiters[j] = t}}
           Heirs == {<<"heir", u>> : u \in {v \in Tasks : heir[v] = t}}
<1>1. t # Null
  BY DEF NullAssumption
<1>2. CASE Waits(t, waiters)
  <2>1. PICK i \in 1..Len(waiters) : waiters[i] = t
    BY <1>2 DEF Waits
  <2>2. \A j \in 1..Len(waiters) : waiters[j] = t => j = i
    BY <1>1, <2>1 DEF PoolInv, WaitInv, Once
  <2>3. \A u \in Tasks : heir[u] # t
    BY <1>1, <1>2 DEF PoolInv, WaitInv
  <2>4. Slots = {<<"slot", i>>} /\ Heirs = {}
    BY <2>1, <2>2, <2>3
  <2>5. pc[t] = "waiting"
    BY <1>2 DEF PoolInv, WaitInv
  <2> HIDE DEF Slots, Heirs
  <2>6. Cardinality(Slots \cup Heirs) = 1
    <3>1. Slots \cup Heirs = {<<"slot", i>>}
      BY <2>4
    <3> QED
      BY <3>1, FS_Singleton
  <2> QED
    BY <2>5, <2>6 DEF Slots, Heirs
<1>3. CASE ~Waits(t, waiters) /\ \E u \in Tasks : heir[u] = t
  <2>1. PICK u \in Tasks : heir[u] = t
    BY <1>3
  <2>2. \A v \in Tasks : heir[v] = t => v = u
    BY <1>1, <2>1 DEF PoolInv, WaitInv
  <2>3. Slots = {} /\ Heirs = {<<"heir", u>>}
    BY <1>3, <2>1, <2>2 DEF Waits
  <2>4. pc[t] = "waiting"
    BY <1>3 DEF PoolInv, WaitInv
  <2> HIDE DEF Slots, Heirs
  <2>5. Cardinality(Slots \cup Heirs) = 1
    <3>1. Slots \cup Heirs = {<<"heir", u>>}
      BY <2>3
    <3> QED
      BY <3>1, FS_Singleton
  <2> QED
    BY <2>4, <2>5 DEF Slots, Heirs
<1>4. CASE ~Waits(t, waiters) /\ \A u \in Tasks : heir[u] # t
  <2>1. Slots = {} /\ Heirs = {}
    BY <1>4 DEF Waits
  <2>2. pc[t] # "waiting"
    BY <1>4 DEF PoolInv, WaitInv
  <2> HIDE DEF Slots, Heirs
  <2>3. Cardinality(Slots \cup Heirs) = 0
    <3>1. Slots \cup Heirs = {}
      BY <2>1
    <3> QED
      BY <3>1, FS_EmptySet
  <2> QED
    BY <2>2, <2>3 DEF Slots, Heirs
<1> QED
  BY <1>2, <1>3, <1>4

\* res_pool on its own: each resource is lent to one task or is unused, a waiting op is known to
\* the pool in one place, the pool stays within its capacity, and a pool with waiters has a
\* resource in use.
THEOREM PoolCorrect ==
    ASSUME Assumptions
    PROVE  Spec => [](TypeOK /\ ExclusiveLoan /\ OneOwner /\ WithinCapacity /\ WaitersHaveHolder)
<1>1. Init => PoolInv
  BY PoolInit
<1>2. PoolInv /\ [Next]_vars => PoolInv'
  BY PoolStep
<1>3. PoolInv => TypeOK /\ ExclusiveLoan /\ OneOwner /\ WithinCapacity /\ WaitersHaveHolder
  BY LoansExclusive, OpsOwned DEF Assumptions, PoolInv, CountInv
<1> QED
  BY <1>1, <1>2, <1>3, PTL DEF Spec
=============================================================================
