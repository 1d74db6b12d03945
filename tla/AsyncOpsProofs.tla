--------------------------- MODULE AsyncOpsProofs ---------------------------
(***************************************************************************)
(* Proofs about MCAsyncOps, for every value of its constants: what is      *)
(* proved of a component by itself holds of its behaviours here, since the *)
(* others do not touch its variables.  The invariants of the pools by key  *)
(* (ResPoolMap), of the until combinators (Until) and of what resumes      *)
(* coroutines (Resumption) are proved here too.                            *)
(***************************************************************************)
EXTENDS MCAsyncOps, SequenceTheorems, FiniteSetTheorems, TLAPS

\* A step while one component is running is a step of that component.
LEMMA StepOfPart ==
    ASSUME [Next]_vars
    PROVE  /\ part' = part
           /\ part = "until" => [Until!Next]_Until!vars
           /\ part = "pool" => [Pool!Next]_Pool!vars
           /\ part = "map" => [Map!Next]_Map!vars
           /\ part = "cleanup" => [Cleanup!Next]_Cleanup!vars
           /\ part = "resume" => [Resume!Next]_Resume!vars
<1>1. part' = part
  BY DEF Next, InPool, InMap, InUntil, InCleanup, InResume, OthersStay, vars
<1>2. part = "until" => [Until!Next]_Until!vars
  BY DEF Next, InPool, InMap, InUntil, InCleanup, InResume, vars, Until!vars
<1>3. part = "pool" => [Pool!Next]_Pool!vars
  BY DEF Next, InPool, InMap, InUntil, InCleanup, InResume, vars, Pool!vars
<1>4. part = "map" => [Map!Next]_Map!vars
  BY DEF Next, InPool, InMap, InUntil, InCleanup, InResume, vars, Map!vars
<1>5. part = "cleanup" => [Cleanup!Next]_Cleanup!vars
  BY DEF Next, InPool, InMap, InUntil, InCleanup, InResume, vars, Cleanup!vars
<1>6. part = "resume" => [Resume!Next]_Resume!vars
  BY DEF Next, InPool, InMap, InUntil, InCleanup, InResume, vars, Resume!vars
<1> QED
  BY <1>1, <1>2, <1>3, <1>4, <1>5, <1>6

-----------------------------------------------------------------------------
(* The pools by key: queues of distinct elements, one pool, all of them. *)

Has(w, e) == \E i \in 1..Len(w) : w[i] = e
Distinct(w) == \A i, j \in 1..Len(w) : w[i] = w[j] => i = j

LEMMA QueueJoined ==
    ASSUME NEW S, NEW w \in Seq(S), NEW e \in S, Distinct(w), ~Has(w, e)
    PROVE  /\ Append(w, e) \in Seq(S) /\ Distinct(Append(w, e))
           /\ \A v : Has(Append(w, e), v) <=> (Has(w, v) \/ v = e)
<1> DEFINE x == Append(w, e)
<1>1. /\ x \in Seq(S) /\ Len(x) = Len(w) + 1 /\ Len(w) \in Nat
      /\ \A i \in 1..Len(w) : x[i] = w[i]
      /\ x[Len(w) + 1] = e
  BY AppendProperties, LenProperties
<1> HIDE DEF x
<1>2. \A i \in 1..Len(x) : i \in 1..Len(w) \/ i = Len(w) + 1
  BY <1>1
<1>3. Distinct(x)
  BY <1>1, <1>2 DEF Distinct, Has
<1>4. \A v : Has(x, v) <=> (Has(w, v) \/ v = e)
  BY <1>1, <1>2 DEF Has
<1> QED
  BY <1>1, <1>3, <1>4 DEF x

LEMMA QueueServed ==
    ASSUME NEW S, NEW w \in Seq(S), w # << >>, Distinct(w)
    PROVE  /\ Tail(w) \in Seq(S) /\ Distinct(Tail(w)) /\ Len(Tail(w)) = Len(w) - 1 /\ Len(w) > 0
           /\ Head(w) \in S /\ Has(w, Head(w))
           /\ \A v : Has(Tail(w), v) <=> (Has(w, v) /\ v # Head(w))
<1> DEFINE x == Tail(w)
<1>1. /\ x \in Seq(S) /\ Len(x) = Len(w) - 1 /\ Len(w) \in Nat /\ Len(w) > 0
      /\ \A i \in 1..Len(x) : x[i] = w[i + 1]
      /\ Head(w) = w[1] /\ Head(w) \in S
  BY HeadTailProperties, LenProperties, EmptySeq
<1> HIDE DEF x
<1>2. /\ \A i \in 1..Len(x) : i + 1 \in 1..Len(w) /\ i + 1 # 1
      /\ \A i \in 1..Len(w) : i = 1 \/ (i - 1 \in 1..Len(x) /\ (i - 1) + 1 = i)
      /\ 1 \in 1..Len(w)
  BY <1>1
<1>3. Distinct(x)
  BY <1>1, <1>2 DEF Distinct
<1>4. ASSUME NEW v PROVE Has(x, v) <=> (Has(w, v) /\ v # Head(w))
  <2>1. Has(x, v) => Has(w, v) /\ v # Head(w)
    BY <1>1, <1>2 DEF Has, Distinct
  <2>2. ASSUME NEW i \in 1..Len(w), w[i] = v, v # Head(w) PROVE Has(x, v)
    <3>1. i - 1 \in 1..Len(x) /\ x[i - 1] = w[i]
      BY <2>2, <1>1, <1>2
    <3> QED
      BY <3>1, <2>2 DEF Has
  <2> QED
    BY <2>1, <2>2 DEF Has
<1>5. Has(w, Head(w))
  BY <1>1, <1>2 DEF Has
<1> QED
  BY <1>1, <1>3, <1>4, <1>5 DEF x

LEMMA QueuePutFirst ==
    ASSUME NEW S, NEW w \in Seq(S), NEW e \in S, Distinct(w), ~Has(w, e)
    PROVE  /\ <<e>> \o w \in Seq(S) /\ Distinct(<<e>> \o w) /\ Len(<<e>> \o w) = Len(w) + 1
           /\ \A v : Has(<<e>> \o w, v) <=> (Has(w, v) \/ v = e)
<1> DEFINE x == <<e>> \o w
<1>0. <<e>> \in Seq(S) /\ Len(<<e>>) = 1 /\ <<e>>[1] = e
  OBVIOUS
<1>1. /\ x \in Seq(S) /\ Len(x) = Len(w) + 1 /\ Len(w) \in Nat
      /\ \A i \in 1..Len(x) : x[i] = IF i <= 1 THEN <<e>>[i] ELSE w[i - 1]
  BY <1>0, ConcatProperties, LenProperties
<1> HIDE DEF x
<1>2. /\ x[1] = e /\ 1 \in 1..Len(x)
      /\ \A i \in 1..Len(w) : x[i + 1] = w[i] /\ i + 1 \in 1..Len(x)
      /\ \A i \in 1..Len(x) : i = 1 \/ (i - 1 \in 1..Len(w) /\ x[i] = w[i - 1])
  BY <1>0, <1>1
<1>3. Distinct(x)
  <2> SUFFICES ASSUME NEW i \in 1..Len(x), NEW j \in 1..Len(x), x[i] = x[j] PROVE i = j
    BY DEF Distinct
  <2>1. CASE i = 1 \/ j = 1
    <3>1. ASSUME NEW l \in 1..Len(x), x[l] = e PROVE l = 1
      <4>1. \A m \in 1..Len(w) : w[m] # e
        BY DEF Has
      <4>2. l = 1 \/ (l - 1 \in 1..Len(w) /\ x[l] = w[l - 1])
        BY <1>2
      <4> QED
        BY ONLY <4>1, <4>2, <3>1
    <3> QED
      BY <2>1, <3>1, <1>2
  <2>2. CASE i # 1 /\ j # 1
    <3>1. i - 1 \in 1..Len(w) /\ j - 1 \in 1..Len(w) /\ w[i - 1] = w[j - 1]
      BY <2>2, <1>2
    <3>2. i - 1 = j - 1
      BY <3>1 DEF Distinct
    <3> QED
      BY <3>2, <1>1
  <2> QED
    BY <2>1, <2>2
<1>4. ASSUME NEW v PROVE Has(x, v) <=> (Has(w, v) \/ v = e)
  <2>1. ASSUME NEW i \in 1..Len(x), x[i] = v PROVE Has(w, v) \/ v = e
    BY <2>1, <1>2 DEF Has
  <2>2. ASSUME NEW i \in 1..Len(w), w[i] = v PROVE Has(x, v)
    BY <2>2, <1>2 DEF Has
  <2>3. Has(x, e)
    BY <1>2 DEF Has
  <2> QED
    BY <2>1, <2>2, <2>3 DEF Has
<1> QED
  BY <1>1, <1>3, <1>4 DEF x

LEMMA QueueLeft ==
    ASSUME NEW S, NEW w \in Seq(S), NEW e, Distinct(w), Has(w, e)
    PROVE  /\ Map!Without(e, w) \in Seq(S) /\ Distinct(Map!Without(e, w))
           /\ \A v : Has(Map!Without(e, w), v) <=> (Has(w, v) /\ v # e)
<1> DEFINE m == CHOOSE i \in DOMAIN w : w[i] = e
           x == SubSeq(w, 1, m - 1) \o SubSeq(w, m + 1, Len(w))
<1>1. Len(w) \in Nat /\ DOMAIN w = 1..Len(w)
  BY LenProperties
<1>2. m \in 1..Len(w) /\ w[m] = e
  BY <1>1 DEF Has
<1>3. Map!Without(e, w) = x
  BY DEF Map!Without, Map!RemoveAt
<1> HIDE DEF m
<1> DEFINE a == SubSeq(w, 1, m - 1)
           b == SubSeq(w, m + 1, Len(w))
<1>4. \A i \in 1..Len(w) : w[i] \in S
  BY <1>1, ElementOfSeq
<1>5. /\ a \in Seq(S) /\ Len(a) = m - 1
      /\ \A i \in 1..m - 1 : a[i] = w[i]
  BY <1>1, <1>2, <1>4, SubSeqProperties
<1>6. /\ b \in Seq(S) /\ Len(b) = Len(w) - m
      /\ \A i \in 1..Len(w) - m : b[i] = w[m + i]
  <2>1. /\ Len(SubSeq(w, m + 1, Len(w))) = IF m + 1 <= Len(w) THEN Len(w) - (m + 1) + 1 ELSE 0
        /\ \A i \in 1 .. Len(w) - (m + 1) + 1 : SubSeq(w, m + 1, Len(w))[i] = w[(m + 1) + i - 1]
        /\ SubSeq(w, m + 1, Len(w)) \in Seq(S)
    BY <1>1, <1>2, <1>4, SubSeqProperties
  <2> HIDE DEF b
  <2> DEFINE l == Len(w)
  <2> HIDE DEF l
  <2>2. m \in 1..l /\ l \in Nat
    BY <1>1, <1>2 DEF l
  <2> QED
    BY <2>1, <2>2 DEF b, l
<1> HIDE DEF a, b
<1>7. /\ x \in Seq(S) /\ Len(x) = Len(w) - 1
      /\ \A i \in 1..Len(x) : x[i] = IF i <= Len(a) THEN a[i] ELSE b[i - Len(a)]
  <2>1. x = a \o b
    BY DEF a, b
  <2>2. Len(a) + Len(b) = Len(w) - 1
    BY <1>1, <1>2, <1>5, <1>6
  <2>3. /\ a \o b \in Seq(S) /\ Len(a \o b) = Len(a) + Len(b)
        /\ \A i \in 1..Len(a) + Len(b) : (a \o b)[i] = IF i <= Len(a) THEN a[i] ELSE b[i - Len(a)]
    BY <1>5, <1>6, ConcatProperties
  <2> HIDE DEF x
  <2> QED
    BY <2>1, <2>2, <2>3
<1> HIDE DEF x
<1>8. \A i \in 1..Len(x) : x[i] = IF i < m THEN w[i] ELSE w[i + 1]
  <2> TAKE i \in 1..Len(x)
  <2>1. CASE i < m
    <3>1. i \in 1..m - 1 /\ i <= Len(a)
      BY <2>1, <1>1, <1>2, <1>5, <1>7
    <3>2. x[i] = a[i]
      BY <3>1, <1>7
    <3> QED
      BY <2>1, <3>1, <3>2, <1>5
  <2>2. CASE ~(i < m)
    <3>1. i - (m - 1) \in 1..Len(w) - m /\ m + (i - (m - 1)) = i + 1
      BY <2>2, <1>1, <1>2, <1>7
    <3>2. x[i] = b[i - (m - 1)]
      BY <2>2, <1>1, <1>2, <1>5, <1>7
    <3> QED
      BY <2>2, <3>1, <3>2, <1>6, <1>2
  <2> QED
    BY <2>1, <2>2
<1>9. Distinct(x)
  <2> SUFFICES ASSUME NEW i \in 1..Len(x), NEW j \in 1..Len(x), x[i] = x[j] PROVE i = j
    BY DEF Distinct
  <2>1. i \in 1..Len(w) /\ i + 1 \in 1..Len(w) /\ j \in 1..Len(w) /\ j + 1 \in 1..Len(w)
    BY <1>1, <1>7
  <2> QED
    BY <2>1, <1>2, <1>8 DEF Distinct
<1>10. ASSUME NEW v PROVE Has(x, v) <=> (Has(w, v) /\ v # e)
  <2>1. ASSUME NEW i \in 1..Len(x), x[i] = v PROVE Has(w, v) /\ v # e
    <3>1. i \in 1..Len(w) /\ i + 1 \in 1..Len(w)
      BY <1>1, <1>7
    <3>2. PICK j \in 1..Len(w) : v = w[j] /\ j # m
      BY <2>1, <3>1, <1>8, <1>2
    <3> QED
      BY <3>2, <1>2 DEF Has, Distinct
  <2>2. ASSUME NEW i \in 1..Len(w), w[i] = v, v # e PROVE Has(x, v)
    <3>1. CASE i < m
      <4>1. i \in 1..Len(x)
        BY <3>1, <1>1, <1>2, <1>7
      <4> QED
        BY <4>1, <3>1, <2>2, <1>8 DEF Has
    <3>2. CASE i > m
      <4>1. i - 1 \in 1..Len(x) /\ ~(i - 1 < m) /\ (i - 1) + 1 = i
        BY <3>2, <1>1, <1>2, <1>7
      <4>2. x[i - 1] = w[i]
        BY <4>1, <1>8
      <4> QED
        BY <4>1, <4>2, <2>2 DEF Has
    <3>3. i # m
      BY <2>2, <1>2
    <3> QED
      BY <3>1, <3>2, <3>3, <1>2
  <2> QED
    BY <2>1, <2>2 DEF Has
<1> QED
  BY <1>3, <1>7, <1>9, <1>10

MapPool ==
    [cap : Nat, unused : Seq(Nat), inuse : SUBSET Nat, waiters : Seq(Users)]

\* One pool: a resource is unused once, or in use; there are no more of them
\* than the capacity; ops wait once, and only while the whole capacity is lent.
PoolOK(p) ==
    /\ p \in MapPool
    /\ IsFiniteSet(p.inuse)
    /\ Distinct(p.unused) /\ Distinct(p.waiters)
    /\ \A m \in p.inuse : ~Has(p.unused, m)
    /\ Len(p.unused) + Cardinality(p.inuse) <= p.cap
    /\ p.waiters # << >> => p.unused = << >> /\ Cardinality(p.inuse) = p.cap

LEMMA CountsInMap == \A S : Map!Cardinality(S) = Cardinality(S)
BY DEF Map!Cardinality, Cardinality

\* a pool that is added has nothing lent and no waiter
LEMMA NewPoolOK ==
    ASSUME NEW c \in Nat
    PROVE  /\ PoolOK(Map!NewPool(c))
           /\ Map!NewPool(c).inuse = {} /\ \A v : ~Has(Map!NewPool(c).waiters, v)
<1> DEFINE p == Map!NewPool(c)
<1>1. /\ p \in MapPool /\ p.cap = c /\ p.unused = << >> /\ p.inuse = {} /\ p.waiters = << >>
  BY DEF Map!NewPool, MapPool
<1>2. IsFiniteSet({}) /\ Cardinality({}) = 0
  BY FS_EmptySet
<1>3. Len(<< >>) = 0 /\ Distinct(<< >>) /\ \A v : ~Has(<< >>, v)
  BY DEF Distinct, Has
<1> HIDE DEF p
<1>4. PoolOK(p)
  BY <1>1, <1>2, <1>3 DEF PoolOK
<1> QED
  BY <1>1, <1>3, <1>4 DEF p

\* a pool with an unused resource or below its capacity lends one nobody has
LEMMA LentOK ==
    ASSUME NEW p, PoolOK(p), Map!Available(p)
    PROVE  /\ PoolOK(Map!Lent(p))
           /\ Map!NextRes(p) \in Nat /\ Map!NextRes(p) \notin p.inuse
           /\ Map!Lent(p).inuse = p.inuse \cup {Map!NextRes(p)}
           /\ Map!Lent(p).waiters = p.waiters
<1> DEFINE m == Map!NextRes(p)
           q == Map!Lent(p)
<1>1. /\ p \in MapPool /\ p.cap \in Nat /\ p.unused \in Seq(Nat) /\ p.inuse \in SUBSET Nat
      /\ p.waiters \in Seq(Users) /\ Len(p.unused) \in Nat
      /\ IsFiniteSet(p.inuse) /\ Cardinality(p.inuse) \in Nat
  BY LenProperties, FS_CardinalityType DEF PoolOK, MapPool
<1>2. p.unused = << >> => Cardinality(p.inuse) < p.cap
  BY CountsInMap DEF Map!Available
<1>3. /\ q \in [cap : {p.cap}, unused : {q.unused}, inuse : {q.inuse}, waiters : {p.waiters}]
      /\ q.unused = IF p.unused = << >> THEN p.unused ELSE Tail(p.unused)
      /\ q.inuse = p.inuse \cup {m}
      /\ q.cap = p.cap /\ q.waiters = p.waiters
  BY <1>1 DEF Map!Lent, MapPool
<1>4. /\ m \in Nat /\ m \notin p.inuse
      /\ q.unused \in Seq(Nat) /\ Distinct(q.unused)
      /\ \A v \in q.inuse : ~Has(q.unused, v)
      /\ Len(q.unused) + Cardinality(p.inuse) + 1 <= p.cap
  <2>1. CASE p.unused = << >>
    <3>1. IsFiniteSet(1..p.cap) /\ Cardinality(1..p.cap) = p.cap
      <4>1. 1 \in Int /\ p.cap \in Int
        BY <1>1
      <4>2. /\ IsFiniteSet(1..p.cap)
            /\ Cardinality(1..p.cap) = IF 1 > p.cap THEN 0 ELSE p.cap - 1 + 1
        BY <4>1, FS_Interval
      <4> QED
        BY <4>2, <1>1
    <3>2. \E v \in 1..p.cap : v \notin p.inuse
      BY <3>1, <1>1, <1>2, <2>1, FS_Subset
    <3>3. m = CHOOSE v \in 1..p.cap : v \notin p.inuse
      BY <2>1 DEF Map!NextRes
    <3> HIDE DEF m, q
    <3>4. m \in 1..p.cap /\ m \notin p.inuse
      BY <3>2, <3>3
    <3>5. q.unused = << >> /\ Len(<< >>) = 0 /\ Distinct(<< >>) /\ \A v : ~Has(<< >>, v)
      BY <1>3, <2>1 DEF Distinct, Has
    <3>6. << >> \in Seq(Nat)
      OBVIOUS
    <3> QED
      BY <3>4, <3>5, <3>6, <1>1, <1>2, <2>1
  <2>2. CASE p.unused # << >>
    <3>1. m = Head(p.unused) /\ q.unused = Tail(p.unused)
      BY <2>2, <1>3 DEF Map!NextRes
    <3> HIDE DEF m, q
    <3>2. Distinct(p.unused)
      BY DEF PoolOK
    <3>3. /\ Tail(p.unused) \in Seq(Nat) /\ Distinct(Tail(p.unused))
          /\ Len(Tail(p.unused)) = Len(p.unused) - 1
          /\ Head(p.unused) \in Nat /\ Has(p.unused, Head(p.unused))
          /\ \A v : Has(Tail(p.unused), v) <=> (Has(p.unused, v) /\ v # Head(p.unused))
      BY <1>1, <2>2, <3>2, QueueServed
    <3>4. /\ \A v \in p.inuse : ~Has(p.unused, v)
          /\ Len(p.unused) + Cardinality(p.inuse) <= p.cap
      BY DEF PoolOK
    <3>5. m \in Nat /\ m \notin p.inuse
      BY <3>1, <3>3, <3>4
    <3>6. \A v \in q.inuse : ~Has(q.unused, v)
      BY <3>1, <3>3, <3>4, <1>3
    <3>7. Len(q.unused) + Cardinality(p.inuse) + 1 <= p.cap
      BY <3>1, <3>3, <3>4, <1>1
    <3> QED
      BY <3>1, <3>3, <3>5, <3>6, <3>7
  <2> QED
    BY <2>1, <2>2
<1> HIDE DEF m, q
<1>5. IsFiniteSet(q.inuse) /\ Cardinality(q.inuse) = Cardinality(p.inuse) + 1
  <2>1. /\ IsFiniteSet(p.inuse \cup {m})
        /\ Cardinality(p.inuse \cup {m}) = Cardinality(p.inuse) + 1
    BY <1>1, <1>4, FS_AddElement
  <2> QED
    BY <2>1, <1>3
<1>6. p.waiters = << >>
  <2>1. p.waiters # << >> => p.unused = << >> /\ Cardinality(p.inuse) = p.cap
    BY DEF PoolOK
  <2> QED
    BY <2>1, <1>1, <1>2
<1>7. q \in MapPool
  BY <1>1, <1>3, <1>4 DEF MapPool
<1>8. Len(q.unused) \in Nat
  BY <1>4, LenProperties
<1>9. Distinct(q.waiters)
  BY <1>3 DEF PoolOK
<1>10. Len(q.unused) + Cardinality(q.inuse) <= q.cap
  BY <1>1, <1>3, <1>4, <1>5, <1>8
<1>11. PoolOK(q)
  BY <1>3, <1>4, <1>5, <1>6, <1>7, <1>9, <1>10 DEF PoolOK
<1> QED
  BY <1>3, <1>4, <1>11 DEF m, q

\* an op waits at a pool that has lent its whole capacity
LEMMA WaitOK ==
    ASSUME NEW p, PoolOK(p), ~Map!Available(p), NEW u \in Users, ~Has(p.waiters, u)
    PROVE  LET q == [p EXCEPT !.waiters = Append(@, u)]
           IN  /\ PoolOK(q) /\ q.inuse = p.inuse
               /\ \A v : Has(q.waiters, v) <=> (Has(p.waiters, v) \/ v = u)
<1> DEFINE q == [p EXCEPT !.waiters = Append(@, u)]
<1>1. /\ p \in MapPool /\ p.cap \in Nat /\ p.unused \in Seq(Nat) /\ p.waiters \in Seq(Users)
      /\ IsFiniteSet(p.inuse) /\ Cardinality(p.inuse) \in Nat /\ Distinct(p.waiters)
      /\ Len(p.unused) \in Nat
  BY FS_CardinalityType, LenProperties DEF PoolOK, MapPool
<1>2. p.unused = << >> /\ ~(Cardinality(p.inuse) < p.cap)
  BY CountsInMap DEF Map!Available
<1>3. /\ Append(p.waiters, u) \in Seq(Users) /\ Distinct(Append(p.waiters, u))
      /\ \A v : Has(Append(p.waiters, u), v) <=> (Has(p.waiters, v) \/ v = u)
  BY <1>1, QueueJoined
<1>4. /\ q \in MapPool /\ q.cap = p.cap /\ q.unused = p.unused /\ q.inuse = p.inuse
      /\ q.waiters = Append(p.waiters, u)
  BY <1>1, <1>3 DEF MapPool
<1> HIDE DEF q
<1>5. Len(p.unused) + Cardinality(p.inuse) <= p.cap
  BY DEF PoolOK
<1>6. Cardinality(p.inuse) = p.cap
  BY <1>1, <1>2, <1>5
<1>7. PoolOK(q)
  BY <1>1, <1>2, <1>3, <1>4, <1>6 DEF PoolOK
<1> QED
  BY <1>3, <1>4, <1>7 DEF q

\* the oldest waiter gets what is recycled
LEMMA ServedOK ==
    ASSUME NEW p, PoolOK(p), p.waiters # << >>
    PROVE  LET q == [p EXCEPT !.waiters = Tail(@)]
           IN  /\ PoolOK(q) /\ q.inuse = p.inuse /\ Head(p.waiters) \in Users
               /\ Has(p.waiters, Head(p.waiters))
               /\ \A v : Has(q.waiters, v) <=> (Has(p.waiters, v) /\ v # Head(p.waiters))
<1> DEFINE q == [p EXCEPT !.waiters = Tail(@)]
<1>1. p \in MapPool /\ p.waiters \in Seq(Users) /\ Distinct(p.waiters)
  BY DEF PoolOK, MapPool
<1>2. /\ Tail(p.waiters) \in Seq(Users) /\ Distinct(Tail(p.waiters))
      /\ Head(p.waiters) \in Users /\ Has(p.waiters, Head(p.waiters))
      /\ \A v : Has(Tail(p.waiters), v) <=> (Has(p.waiters, v) /\ v # Head(p.waiters))
  BY <1>1, QueueServed
<1>3. /\ q \in MapPool /\ q.cap = p.cap /\ q.unused = p.unused /\ q.inuse = p.inuse
      /\ q.waiters = Tail(p.waiters)
  BY <1>1, <1>2 DEF MapPool
<1> HIDE DEF q
<1>4. PoolOK(q)
  BY <1>2, <1>3 DEF PoolOK
<1> QED
  BY <1>2, <1>3, <1>4 DEF q

\* nobody waits: what is recycled is unused
LEMMA PutBackOK ==
    ASSUME NEW p, PoolOK(p), p.waiters = << >>, NEW m \in p.inuse
    PROVE  LET q == [p EXCEPT !.unused = <<m>> \o @, !.inuse = @ \ {m}]
           IN  /\ PoolOK(q) /\ q.inuse = p.inuse \ {m} /\ q.waiters = p.waiters
<1> DEFINE q == [p EXCEPT !.unused = <<m>> \o @, !.inuse = @ \ {m}]
<1>1. /\ p \in MapPool /\ p.cap \in Nat /\ p.unused \in Seq(Nat) /\ p.inuse \in SUBSET Nat
      /\ Distinct(p.unused) /\ IsFiniteSet(p.inuse) /\ Cardinality(p.inuse) \in Nat
      /\ Len(p.unused) \in Nat /\ m \in Nat /\ ~Has(p.unused, m)
  BY FS_CardinalityType, LenProperties DEF PoolOK, MapPool
<1>2. /\ <<m>> \o p.unused \in Seq(Nat) /\ Distinct(<<m>> \o p.unused)
      /\ Len(<<m>> \o p.unused) = Len(p.unused) + 1
      /\ \A v : Has(<<m>> \o p.unused, v) <=> (Has(p.unused, v) \/ v = m)
  BY <1>1, QueuePutFirst
<1>3. /\ q \in MapPool /\ q.cap = p.cap /\ q.unused = <<m>> \o p.unused
      /\ q.inuse = p.inuse \ {m} /\ q.waiters = p.waiters
  BY <1>1, <1>2 DEF MapPool
<1> HIDE DEF q
<1>4. IsFiniteSet(q.inuse) /\ Cardinality(q.inuse) = Cardinality(p.inuse) - 1
  <2>1. IsFiniteSet(p.inuse \ {m}) /\ Cardinality(p.inuse \ {m}) = Cardinality(p.inuse) - 1
    BY <1>1, FS_RemoveElement
  <2> QED
    BY <2>1, <1>3
<1>5. Len(p.unused) + Cardinality(p.inuse) <= p.cap /\ Distinct(p.waiters)
  BY DEF PoolOK
<1>6. Len(q.unused) + Cardinality(q.inuse) <= q.cap
  BY <1>1, <1>2, <1>3, <1>4, <1>5
<1>7. \A v \in q.inuse : ~Has(q.unused, v)
  BY <1>2, <1>3 DEF PoolOK
<1>8. PoolOK(q)
  BY <1>2, <1>3, <1>4, <1>5, <1>6, <1>7 DEF PoolOK
<1> QED
  BY <1>3, <1>8 DEF q

\* a stopped op leaves the queue
LEMMA LeftOK ==
    ASSUME NEW p, PoolOK(p), NEW u \in Users, Has(p.waiters, u)
    PROVE  LET q == [p EXCEPT !.waiters = Map!Without(u, @)]
           IN  /\ PoolOK(q) /\ q.inuse = p.inuse
               /\ \A v : Has(q.waiters, v) <=> (Has(p.waiters, v) /\ v # u)
<1> DEFINE q == [p EXCEPT !.waiters = Map!Without(u, @)]
<1>1. p \in MapPool /\ p.waiters \in Seq(Users) /\ Distinct(p.waiters)
  BY DEF PoolOK, MapPool
<1>2. /\ Map!Without(u, p.waiters) \in Seq(Users) /\ Distinct(Map!Without(u, p.waiters))
      /\ \A v : Has(Map!Without(u, p.waiters), v) <=> (Has(p.waiters, v) /\ v # u)
  BY <1>1, QueueLeft
<1>3. /\ q \in MapPool /\ q.cap = p.cap /\ q.unused = p.unused /\ q.inuse = p.inuse
      /\ q.waiters = Map!Without(u, p.waiters)
  BY <1>1, <1>2 DEF MapPool
<1>4. p.waiters # << >>
  BY DEF Has
<1> HIDE DEF q
<1>5. PoolOK(q)
  BY <1>2, <1>3, <1>4 DEF PoolOK
<1> QED
  BY <1>2, <1>3, <1>5 DEF q

\* All pools, with the loans, states and keys of the users: a loan is a
\* resource in use of its pool, and each of these has one holder; the ops in
\* the queue of a pool are those that wait for its key; an op between the two
\* mutexes or in a queue has a pool and holds nothing.
LoansOK(ps, ln) ==
    /\ \A u \in Users : ln[u] # << >> => \E k \in DOMAIN ps : \E m \in ps[k].inuse : ln[u] = <<k, m>>
    /\ \A u, v \in Users : (ln[u] = ln[v] /\ ln[u] # << >>) => u = v
    /\ \A k \in DOMAIN ps : \A m \in ps[k].inuse : \E u \in Users : ln[u] = <<k, m>>
QueuesOK(ps, ln, uc, wt) ==
    /\ \A k \in DOMAIN ps : \A u \in Users :
         Has(ps[k].waiters, u) <=> (uc[u] = "waiting" /\ wt[u] = k)
    /\ \A u \in Users : uc[u] # "run" => (ln[u] = << >> /\ wt[u] \in DOMAIN ps)
Functions(ps, ln, uc, wt) ==
    /\ ps = [k \in DOMAIN ps |-> ps[k]]
    /\ ln = [u \in Users |-> ln[u]]
    /\ uc = [u \in Users |-> uc[u]]
    /\ wt = [u \in Users |-> wt[u]]
MapOK(ps, ln, uc, wt) ==
    /\ Functions(ps, ln, uc, wt)
    /\ \A k \in DOMAIN ps : PoolOK(ps[k])
    /\ LoansOK(ps, ln)
    /\ QueuesOK(ps, ln, uc, wt)

LEMMA PairNotEmpty == \A k, m : <<k, m>> # << >>
OBVIOUS

\* try_emplace_pool() of a new key
LEMMA MapAdds ==
    ASSUME NEW ps, NEW ln, NEW uc, NEW wt, MapOK(ps, ln, uc, wt), NEW k, NEW c \in Nat
    PROVE  MapOK(Map!Emplaced(ps, k, c), ln, uc, wt)
<1>1. CASE k \in DOMAIN ps
  BY <1>1 DEF Map!Emplaced
<1>2. CASE k \notin DOMAIN ps
  <2> DEFINE qs == [j \in DOMAIN ps \cup {k} |-> IF j = k THEN Map!NewPool(c) ELSE ps[j]]
  <2>1. Map!Emplaced(ps, k, c) = qs
    BY <1>2 DEF Map!Emplaced
  <2>2. /\ DOMAIN qs = DOMAIN ps \cup {k} /\ qs[k] = Map!NewPool(c)
        /\ \A j \in DOMAIN ps : qs[j] = ps[j]
        /\ qs = [j \in DOMAIN qs |-> qs[j]]
    BY <1>2
  <2> HIDE DEF qs
  <2>3. PoolOK(qs[k]) /\ qs[k].inuse = {} /\ \A v : ~Has(qs[k].waiters, v)
    BY <2>2, NewPoolOK
  <2>4. Functions(qs, ln, uc, wt)
    BY <2>2 DEF MapOK, Functions
  <2>5. \A j \in DOMAIN qs : PoolOK(qs[j])
    BY <2>2, <2>3 DEF MapOK
  <2>6. LoansOK(qs, ln)
    BY <2>2, <2>3 DEF MapOK, LoansOK
  <2>7. QueuesOK(qs, ln, uc, wt)
    BY <2>2, <2>3, <1>2 DEF MapOK, QueuesOK
  <2> QED
    BY <2>1, <2>4, <2>5, <2>6, <2>7 DEF MapOK
<1> QED
  BY <1>1, <1>2

\* acquire() and try_acquire() at a pool that has a resource
LEMMA MapLends ==
    ASSUME NEW ps, NEW ln, NEW uc, NEW wt, MapOK(ps, ln, uc, wt),
           NEW u \in Users, NEW k \in DOMAIN ps,
           uc[u] # "waiting", ln[u] = << >>, Map!Available(ps[k])
    PROVE  MapOK([ps EXCEPT ![k] = Map!Lent(ps[k])],
                 [ln EXCEPT ![u] = <<k, Map!NextRes(ps[k])>>],
                 [uc EXCEPT ![u] = "run"], [wt EXCEPT ![u] = k])
<1> DEFINE q == Map!Lent(ps[k])
           m == Map!NextRes(ps[k])
           qs == [ps EXCEPT ![k] = q]
           ls == [ln EXCEPT ![u] = <<k, m>>]
           us == [uc EXCEPT ![u] = "run"]
           ws == [wt EXCEPT ![u] = k]
<1>1. PoolOK(ps[k])
  BY DEF MapOK
<1>2. /\ PoolOK(q) /\ m \in Nat /\ m \notin ps[k].inuse
      /\ q.inuse = ps[k].inuse \cup {m} /\ q.waiters = ps[k].waiters
  BY <1>1, LentOK
<1> HIDE DEF q, m
<1>3. /\ DOMAIN qs = DOMAIN ps /\ qs[k] = q /\ \A j \in DOMAIN ps : j # k => qs[j] = ps[j]
      /\ ls[u] = <<k, m>> /\ \A v \in Users : v # u => ls[v] = ln[v]
      /\ us[u] = "run" /\ \A v \in Users : v # u => us[v] = uc[v]
      /\ ws[u] = k /\ \A v \in Users : v # u => ws[v] = wt[v]
      /\ Functions(qs, ls, us, ws)
  BY DEF MapOK, Functions
<1> HIDE DEF qs, ls, us, ws
<1>4. \A j \in DOMAIN qs : PoolOK(qs[j])
  BY <1>2, <1>3 DEF MapOK
<1>5. LoansOK(qs, ls)
  <2>1. \A v \in Users : ls[v] # << >> =>
          \E j \in DOMAIN qs : \E l \in qs[j].inuse : ls[v] = <<j, l>>
    <3> SUFFICES ASSUME NEW v \in Users, ls[v] # << >>
                 PROVE  \E j \in DOMAIN qs : \E l \in qs[j].inuse : ls[v] = <<j, l>>
      OBVIOUS
    <3>1. CASE v = u
      BY <3>1, <1>2, <1>3
    <3>2. CASE v # u
      <4>1. PICK j \in DOMAIN ps : \E l \in ps[j].inuse : ln[v] = <<j, l>>
        BY <3>2, <1>3 DEF MapOK, LoansOK
      <4> QED
        BY <4>1, <3>2, <1>2, <1>3
    <3> QED
      BY <3>1, <3>2
  <2>2. \A v \in Users : ln[v] # <<k, m>>
    <3> SUFFICES ASSUME NEW v \in Users, ln[v] = <<k, m>> PROVE FALSE
      OBVIOUS
    <3>1. PICK j \in DOMAIN ps : \E l \in ps[j].inuse : ln[v] = <<j, l>>
      BY PairNotEmpty DEF MapOK, LoansOK
    <3> QED
      BY <3>1, <1>2
  <2>3. \A v, w \in Users : (ls[v] = ls[w] /\ ls[v] # << >>) => v = w
    BY <2>2, <1>3 DEF MapOK, LoansOK
  <2>4. \A j \in DOMAIN qs : \A l \in qs[j].inuse : \E v \in Users : ls[v] = <<j, l>>
    <3> SUFFICES ASSUME NEW j \in DOMAIN qs, NEW l \in qs[j].inuse
                 PROVE  \E v \in Users : ls[v] = <<j, l>>
      OBVIOUS
    <3>1. CASE j = k /\ l = m
      BY <3>1, <1>3
    <3>2. CASE j # k \/ l # m
      <4>1. j \in DOMAIN ps /\ l \in ps[j].inuse
        BY <3>2, <1>2, <1>3
      <4>2. PICK v \in Users : ln[v] = <<j, l>>
        BY <4>1 DEF MapOK, LoansOK
      <4>3. v # u
        BY <4>2, PairNotEmpty
      <4> QED
        BY <4>2, <4>3, <1>3
    <3> QED
      BY <3>1, <3>2
  <2> QED
    BY <2>1, <2>3, <2>4 DEF LoansOK
<1>6. QueuesOK(qs, ls, us, ws)
  BY <1>2, <1>3 DEF MapOK, QueuesOK
<1>7. MapOK(qs, ls, us, ws)
  BY <1>3, <1>4, <1>5, <1>6 DEF MapOK
<1> QED
  BY <1>7 DEF qs, ls, us, ws, q, m

\* acquire() at a pool that has lent its whole capacity
LEMMA MapWaits ==
    ASSUME NEW ps, NEW ln, NEW uc, NEW wt, MapOK(ps, ln, uc, wt),
           NEW u \in Users, NEW k \in DOMAIN ps,
           uc[u] # "waiting", ln[u] = << >>, ~Map!Available(ps[k])
    PROVE  MapOK([ps EXCEPT ![k].waiters = Append(@, u)], ln,
                 [uc EXCEPT ![u] = "waiting"], [wt EXCEPT ![u] = k])
<1> DEFINE q == [ps[k] EXCEPT !.waiters = Append(@, u)]
           qs == [ps EXCEPT ![k].waiters = Append(@, u)]
           us == [uc EXCEPT ![u] = "waiting"]
           ws == [wt EXCEPT ![u] = k]
<1>1. PoolOK(ps[k]) /\ ~Has(ps[k].waiters, u)
  BY DEF MapOK, QueuesOK
<1>2. /\ PoolOK(q) /\ q.inuse = ps[k].inuse
      /\ \A v : Has(q.waiters, v) <=> (Has(ps[k].waiters, v) \/ v = u)
  BY <1>1, WaitOK
<1>3. /\ DOMAIN qs = DOMAIN ps /\ qs[k] = q /\ \A j \in DOMAIN ps : j # k => qs[j] = ps[j]
      /\ us[u] = "waiting" /\ \A v \in Users : v # u => us[v] = uc[v]
      /\ ws[u] = k /\ \A v \in Users : v # u => ws[v] = wt[v]
      /\ Functions(qs, ln, us, ws)
  BY DEF MapOK, Functions
<1> HIDE DEF q, qs, us, ws
<1>4. \A j \in DOMAIN qs : PoolOK(qs[j]) /\ qs[j].inuse = ps[j].inuse
  BY <1>2, <1>3 DEF MapOK
<1>5. LoansOK(qs, ln)
  BY <1>3, <1>4 DEF MapOK, LoansOK
<1>6. QueuesOK(qs, ln, us, ws)
  BY <1>2, <1>3 DEF MapOK, QueuesOK
<1>7. MapOK(qs, ln, us, ws)
  BY <1>3, <1>4, <1>5, <1>6 DEF MapOK
<1> QED
  BY <1>7 DEF qs, us, ws

\* acquire() between the mutexes, try_acquire() that fails
LEMMA MapFinds ==
    ASSUME NEW ps, NEW ln, NEW uc, NEW wt, MapOK(ps, ln, uc, wt),
           NEW u \in Users, NEW k \in DOMAIN ps, uc[u] = "run", ln[u] = << >>,
           NEW c \in {"run", "found"}
    PROVE  MapOK(ps, ln, [uc EXCEPT ![u] = c], [wt EXCEPT ![u] = k])
<1> DEFINE us == [uc EXCEPT ![u] = c]
           ws == [wt EXCEPT ![u] = k]
<1>3. /\ us[u] = c /\ \A v \in Users : v # u => us[v] = uc[v]
      /\ ws[u] = k /\ \A v \in Users : v # u => ws[v] = wt[v]
      /\ Functions(ps, ln, us, ws)
  BY DEF MapOK, Functions
<1> HIDE DEF us, ws
<1>6. QueuesOK(ps, ln, us, ws)
  BY <1>3 DEF MapOK, QueuesOK
<1>7. MapOK(ps, ln, us, ws)
  BY <1>3, <1>6 DEF MapOK
<1> QED
  BY <1>7 DEF us, ws

\* recycle() with a waiter
LEMMA MapServes ==
    ASSUME NEW ps, NEW ln, NEW uc, NEW wt, MapOK(ps, ln, uc, wt),
           NEW u \in Users, NEW k \in DOMAIN ps, NEW m \in ps[k].inuse,
           uc[u] = "run", ln[u] = <<k, m>>, ps[k].waiters # << >>
    PROVE  LET h == Head(ps[k].waiters) IN
           MapOK([ps EXCEPT ![k].waiters = Tail(@)],
                 [ln EXCEPT ![u] = << >>, ![h] = <<k, m>>], [uc EXCEPT ![h] = "run"], wt)
<1> DEFINE h == Head(ps[k].waiters)
           q == [ps[k] EXCEPT !.waiters = Tail(@)]
           qs == [ps EXCEPT ![k].waiters = Tail(@)]
           ls == [ln EXCEPT ![u] = << >>, ![h] = <<k, m>>]
           us == [uc EXCEPT ![h] = "run"]
<1>1. PoolOK(ps[k])
  BY DEF MapOK
<1>2. /\ PoolOK(q) /\ q.inuse = ps[k].inuse /\ h \in Users /\ Has(ps[k].waiters, h)
      /\ \A v : Has(q.waiters, v) <=> (Has(ps[k].waiters, v) /\ v # h)
  BY <1>1, ServedOK
<1> HIDE DEF h
<1>3. uc[h] = "waiting" /\ wt[h] = k /\ ln[h] = << >> /\ h # u
  BY <1>2 DEF MapOK, QueuesOK
<1>4. /\ DOMAIN qs = DOMAIN ps /\ qs[k] = q /\ \A j \in DOMAIN ps : j # k => qs[j] = ps[j]
      /\ ls[u] = << >> /\ ls[h] = <<k, m>> /\ \A v \in Users : (v # u /\ v # h) => ls[v] = ln[v]
      /\ us[h] = "run" /\ \A v \in Users : v # h => us[v] = uc[v]
      /\ Functions(qs, ls, us, wt)
  BY <1>2, <1>3 DEF MapOK, Functions
<1> HIDE DEF q, qs, us, ls
<1>5. \A j \in DOMAIN qs : PoolOK(qs[j]) /\ qs[j].inuse = ps[j].inuse
  BY <1>2, <1>4 DEF MapOK
<1>6. LoansOK(qs, ls)
  <2>1. \A v \in Users : ls[v] # << >> =>
          \E j \in DOMAIN qs : \E l \in qs[j].inuse : ls[v] = <<j, l>>
    <3> SUFFICES ASSUME NEW v \in Users, ls[v] # << >>
                 PROVE  \E j \in DOMAIN qs : \E l \in qs[j].inuse : ls[v] = <<j, l>>
      OBVIOUS
    <3>1. CASE v = h
      BY <3>1, <1>4, <1>5
    <3>2. CASE v # h
      <4>1. v # u /\ ls[v] = ln[v]
        BY <3>2, <1>4
      <4>2. PICK j \in DOMAIN ps : \E l \in ps[j].inuse : ln[v] = <<j, l>>
        BY <4>1 DEF MapOK, LoansOK
      <4> QED
        BY <4>1, <4>2, <1>4, <1>5
    <3> QED
      BY <3>1, <3>2
  <2>2. \A v \in Users : v # u => ln[v] # <<k, m>>
    BY PairNotEmpty DEF MapOK, LoansOK
  <2>3. \A v, w \in Users : (ls[v] = ls[w] /\ ls[v] # << >>) => v = w
    <3> SUFFICES ASSUME NEW v \in Users, NEW w \in Users, ls[v] = ls[w], ls[v] # << >>
                 PROVE  v = w
      OBVIOUS
    <3>1. v # u /\ w # u
      BY <1>4
    <3>2. CASE v = h \/ w = h
      BY <3>1, <3>2, <2>2, <1>4
    <3>3. CASE v # h /\ w # h
      BY <3>1, <3>3, <1>4 DEF MapOK, LoansOK
    <3> QED
      BY <3>2, <3>3
  <2>4. \A j \in DOMAIN qs : \A l \in qs[j].inuse : \E v \in Users : ls[v] = <<j, l>>
    <3> SUFFICES ASSUME NEW j \in DOMAIN qs, NEW l \in qs[j].inuse
                 PROVE  \E v \in Users : ls[v] = <<j, l>>
      OBVIOUS
    <3>1. PICK v \in Users : ln[v] = <<j, l>>
      BY <1>4, <1>5 DEF MapOK, LoansOK
    <3>2. CASE v = u
      BY <3>1, <3>2, <1>2, <1>4
    <3>3. CASE v # u
      <4>1. v # h
        BY <3>1, <1>3, PairNotEmpty
      <4> QED
        BY <3>1, <3>3, <4>1, <1>4
    <3> QED
      BY <3>2, <3>3
  <2> QED
    BY <2>1, <2>3, <2>4 DEF LoansOK
<1>7. QueuesOK(qs, ls, us, wt)
  <2>1. \A j \in DOMAIN qs : \A v \in Users :
          Has(qs[j].waiters, v) <=> (us[v] = "waiting" /\ wt[v] = j)
    BY <1>2, <1>3, <1>4 DEF MapOK, QueuesOK
  <2>2. \A v \in Users : us[v] # "run" => (ls[v] = << >> /\ wt[v] \in DOMAIN qs)
    BY <1>2, <1>3, <1>4 DEF MapOK, QueuesOK
  <2> QED
    BY <2>1, <2>2 DEF QueuesOK
<1>8. MapOK(qs, ls, us, wt)
  BY <1>4, <1>5, <1>6, <1>7 DEF MapOK
<1> QED
  BY <1>8 DEF qs, ls, us, h

\* recycle() without a waiter
LEMMA MapPutsBack ==
    ASSUME NEW ps, NEW ln, NEW uc, NEW wt, MapOK(ps, ln, uc, wt),
           NEW u \in Users, NEW k \in DOMAIN ps, NEW m \in ps[k].inuse,
           uc[u] = "run", ln[u] = <<k, m>>, ps[k].waiters = << >>
    PROVE  MapOK([ps EXCEPT ![k].unused = <<m>> \o @, ![k].inuse = @ \ {m}],
                 [ln EXCEPT ![u] = << >>], uc, wt)
<1> DEFINE q == [ps[k] EXCEPT !.unused = <<m>> \o @, !.inuse = @ \ {m}]
           qs == [ps EXCEPT ![k].unused = <<m>> \o @, ![k].inuse = @ \ {m}]
           ls == [ln EXCEPT ![u] = << >>]
<1>1. PoolOK(ps[k])
  BY DEF MapOK
<1>2. PoolOK(q) /\ q.inuse = ps[k].inuse \ {m} /\ q.waiters = ps[k].waiters
  BY <1>1, PutBackOK
<1>3. /\ DOMAIN qs = DOMAIN ps /\ qs[k] = q /\ \A j \in DOMAIN ps : j # k => qs[j] = ps[j]
      /\ ls[u] = << >> /\ \A v \in Users : v # u => ls[v] = ln[v]
      /\ Functions(qs, ls, uc, wt)
  BY DEF MapOK, Functions
<1> HIDE DEF q, qs, ls
<1>4. \A j \in DOMAIN qs : PoolOK(qs[j])
  BY <1>2, <1>3 DEF MapOK
<1>5. LoansOK(qs, ls)
  <2>1. \A v \in Users : ls[v] # << >> =>
          \E j \in DOMAIN qs : \E l \in qs[j].inuse : ls[v] = <<j, l>>
    <3> SUFFICES ASSUME NEW v \in Users, ls[v] # << >>
                 PROVE  \E j \in DOMAIN qs : \E l \in qs[j].inuse : ls[v] = <<j, l>>
      OBVIOUS
    <3>1. v # u /\ ls[v] = ln[v]
      BY <1>3
    <3>2. PICK j \in DOMAIN ps : \E l \in ps[j].inuse : ln[v] = <<j, l>>
      BY <3>1 DEF MapOK, LoansOK
    <3>3. PICK l \in ps[j].inuse : ln[v] = <<j, l>>
      BY <3>2
    <3>4. ln[v] # ln[u]
      BY <3>1 DEF MapOK, LoansOK
    <3>5. l \in qs[j].inuse
      BY <3>3, <3>4, <1>2, <1>3
    <3> QED
      BY <3>1, <3>3, <3>5, <1>3
  <2>2. \A v, w \in Users : (ls[v] = ls[w] /\ ls[v] # << >>) => v = w
    BY <1>3 DEF MapOK, LoansOK
  <2>3. \A j \in DOMAIN qs : \A l \in qs[j].inuse : \E v \in Users : ls[v] = <<j, l>>
    <3> SUFFICES ASSUME NEW j \in DOMAIN qs, NEW l \in qs[j].inuse
                 PROVE  \E v \in Users : ls[v] = <<j, l>>
      OBVIOUS
    <3>1. j \in DOMAIN ps /\ l \in ps[j].inuse /\ ~(j = k /\ l = m)
      BY <1>2, <1>3
    <3>2. PICK v \in Users : ln[v] = <<j, l>>
      BY <3>1 DEF MapOK, LoansOK
    <3>3. v # u
      BY <3>1, <3>2
    <3> QED
      BY <3>2, <3>3, <1>3
  <2> QED
    BY <2>1, <2>2, <2>3 DEF LoansOK
<1>6. QueuesOK(qs, ls, uc, wt)
  BY <1>2, <1>3 DEF MapOK, QueuesOK
<1>7. MapOK(qs, ls, uc, wt)
  BY <1>3, <1>4, <1>5, <1>6 DEF MapOK
<1> QED
  BY <1>7 DEF qs, ls

\* the stop callback of a waiting op
LEMMA MapLeft ==
    ASSUME NEW ps, NEW ln, NEW uc, NEW wt, MapOK(ps, ln, uc, wt),
           NEW u \in Users, uc[u] = "waiting"
    PROVE  MapOK([ps EXCEPT ![wt[u]].waiters = Map!Without(u, @)], ln, [uc EXCEPT ![u] = "run"], wt)
<1> DEFINE k == wt[u]
           q == [ps[k] EXCEPT !.waiters = Map!Without(u, @)]
           qs == [ps EXCEPT ![k].waiters = Map!Without(u, @)]
           us == [uc EXCEPT ![u] = "run"]
<1>1. k \in DOMAIN ps /\ PoolOK(ps[k]) /\ Has(ps[k].waiters, u)
  BY DEF MapOK, QueuesOK
<1> HIDE DEF k
<1>2. /\ PoolOK(q) /\ q.inuse = ps[k].inuse
      /\ \A v : Has(q.waiters, v) <=> (Has(ps[k].waiters, v) /\ v # u)
  BY <1>1, LeftOK
<1>3. /\ DOMAIN qs = DOMAIN ps /\ qs[k] = q /\ \A j \in DOMAIN ps : j # k => qs[j] = ps[j]
      /\ us[u] = "run" /\ \A v \in Users : v # u => us[v] = uc[v]
      /\ Functions(qs, ln, us, wt)
  BY <1>1 DEF MapOK, Functions
<1> HIDE DEF q, qs, us
<1>4. \A j \in DOMAIN qs : PoolOK(qs[j]) /\ qs[j].inuse = ps[j].inuse
  BY <1>2, <1>3 DEF MapOK
<1>5. LoansOK(qs, ln)
  BY <1>3, <1>4 DEF MapOK, LoansOK
<1>6. QueuesOK(qs, ln, us, wt)
  BY <1>2, <1>3 DEF MapOK, QueuesOK, k
<1>7. MapOK(qs, ln, us, wt)
  BY <1>3, <1>4, <1>5, <1>6 DEF MapOK
<1> QED
  BY <1>7 DEF qs, us, k

-----------------------------------------------------------------------------
(* The pools by key: the steps. *)

MapInv == defCap \in Nat /\ MapOK(pools, loan, upc, wants)

LEMMA MapInit == ASSUME Map!Init PROVE MapInv
<1>1. /\ pools = [k \in {} |-> Map!NewPool(0)] /\ DOMAIN pools = {} /\ defCap \in Caps
      /\ upc = [u \in Users |-> "run"] /\ loan = [u \in Users |-> << >>]
  BY DEF Map!Init
<1>2. Functions(pools, loan, upc, wants)
  <2>1. wants = [u \in Users |-> wants[u]]
    BY DEF Map!Init
  <2>2. pools = [k \in DOMAIN pools |-> pools[k]]
    BY <1>1
  <2> QED
    BY <1>1, <2>1, <2>2 DEF Functions
<1>3. LoansOK(pools, loan) /\ QueuesOK(pools, loan, upc, wants)
  BY <1>1 DEF LoansOK, QueuesOK
<1>4. defCap \in Nat
  BY <1>1, MapAssumption DEF Map!CapsAssumption
<1> QED
  BY <1>1, <1>2, <1>3, <1>4 DEF MapInv, MapOK

\* the lookup of acquire() and try_acquire()
LEMMA LookUp ==
    ASSUME MapInv, NEW k
    PROVE  MapOK(Map!LookedUp(k), loan, upc, wants)
BY MapAdds DEF MapInv, Map!LookedUp

\* initiate() at the pool of key k, with the lock of the map or of the pool
LEMMA AcquireStep ==
    ASSUME NEW ps, MapOK(ps, loan, upc, wants), NEW u \in Users, NEW k \in DOMAIN ps,
           upc[u] # "waiting", loan[u] = << >>, Map!AcquireFrom(u, k, ps)
    PROVE  MapOK(pools', loan', upc', [wants EXCEPT ![u] = k])
<1>1. CASE Map!Available(ps[k])
  <2>1. /\ pools' = [ps EXCEPT ![k] = Map!Lent(ps[k])]
        /\ loan' = [loan EXCEPT ![u] = <<k, Map!NextRes(ps[k])>>]
        /\ upc' = [upc EXCEPT ![u] = "run"]
    BY <1>1 DEF Map!AcquireFrom
  <2> QED
    BY <1>1, <2>1, MapLends
<1>2. CASE ~Map!Available(ps[k])
  <2>1. /\ pools' = [ps EXCEPT ![k].waiters = Append(@, u)]
        /\ upc' = [upc EXCEPT ![u] = "waiting"] /\ loan' = loan
    BY <1>2 DEF Map!AcquireFrom
  <2> QED
    BY <1>2, <2>1, MapWaits
<1> QED
  BY <1>1, <1>2

LEMMA MapStep == ASSUME MapInv, [Map!Next]_Map!vars PROVE MapInv'
<1>0. MapOK(pools, loan, upc, wants) /\ defCap \in Nat
  BY DEF MapInv
<1>1. Functions(pools, loan, upc, wants)
  BY <1>0 DEF MapOK
<1>2. ASSUME NEW c \in Caps, Map!SetDefaultCapacity(c) PROVE MapInv'
  <2>1. /\ defCap' \in Nat
        /\ pools' = pools /\ loan' = loan /\ upc' = upc /\ wants' = wants
    BY <1>2, MapAssumption DEF Map!SetDefaultCapacity, Map!CapsAssumption
  <2> QED
    BY <1>0, <2>1 DEF MapInv
<1>3. ASSUME NEW k \in Keys, NEW c \in Caps, Map!TryEmplacePool(k, c) PROVE MapInv'
  <2>1. /\ pools' = Map!Emplaced(pools, k, c)
        /\ defCap' = defCap /\ loan' = loan /\ upc' = upc /\ wants' = wants
    BY <1>3 DEF Map!TryEmplacePool
  <2>2. c \in Nat
    BY MapAssumption DEF Map!CapsAssumption
  <2>3. MapOK(Map!Emplaced(pools, k, c), loan, upc, wants)
    BY <1>0, <2>2, MapAdds
  <2> QED
    BY <1>0, <2>1, <2>3 DEF MapInv
<1>4. ASSUME NEW u \in Users, NEW k \in Keys, Map!Acquire(u, k) PROVE MapInv'
  <2> DEFINE ps == Map!LookedUp(k)
  <2>1. MapOK(ps, loan, upc, wants)
    BY LookUp
  <2>2. /\ upc[u] = "run" /\ loan[u] = << >> /\ k \in DOMAIN ps
        /\ wants' = [wants EXCEPT ![u] = k] /\ defCap' = defCap
        /\ IF perPool
           THEN pools' = ps /\ upc' = [upc EXCEPT ![u] = "found"] /\ loan' = loan
           ELSE Map!AcquireFrom(u, k, ps)
    BY <1>4 DEF Map!Acquire
  <2> HIDE DEF ps
  <2>3. CASE perPool
    <3>1. MapOK(ps, loan, [upc EXCEPT ![u] = "found"], [wants EXCEPT ![u] = k])
      BY <2>1, <2>2, MapFinds
    <3> QED
      BY <1>0, <2>2, <2>3, <3>1 DEF MapInv
  <2>4. CASE ~perPool
    <3>1. MapOK(pools', loan', upc', [wants EXCEPT ![u] = k])
      BY <2>1, <2>2, <2>4, AcquireStep
    <3> QED
      BY <1>0, <2>2, <3>1 DEF MapInv
  <2> QED
    BY <2>3, <2>4
<1>5. ASSUME NEW u \in Users, NEW k \in Keys, Map!TryAcquire(u, k) PROVE MapInv'
  <2> DEFINE ps == Map!LookedUp(k)
  <2>1. MapOK(ps, loan, upc, wants)
    BY LookUp
  <2>2. /\ upc[u] = "run" /\ loan[u] = << >> /\ k \in DOMAIN ps
        /\ wants' = [wants EXCEPT ![u] = k] /\ defCap' = defCap /\ upc' = upc
        /\ IF Map!Available(ps[k])
           THEN /\ pools' = [ps EXCEPT ![k] = Map!Lent(ps[k])]
                /\ loan' = [loan EXCEPT ![u] = <<k, Map!NextRes(ps[k])>>]
           ELSE pools' = ps /\ loan' = loan
    BY <1>5 DEF Map!TryAcquire
  <2> HIDE DEF ps
  <2>3. upc = [upc EXCEPT ![u] = "run"]
    BY <1>1, <2>2 DEF Functions
  <2>4. CASE Map!Available(ps[k])
    <3>1. MapOK([ps EXCEPT ![k] = Map!Lent(ps[k])],
                [loan EXCEPT ![u] = <<k, Map!NextRes(ps[k])>>],
                [upc EXCEPT ![u] = "run"], [wants EXCEPT ![u] = k])
      BY <2>1, <2>2, <2>4, MapLends
    <3> QED
      BY <1>0, <2>2, <2>3, <2>4, <3>1 DEF MapInv
  <2>5. CASE ~Map!Available(ps[k])
    <3>1. MapOK(ps, loan, [upc EXCEPT ![u] = "run"], [wants EXCEPT ![u] = k])
      BY <2>1, <2>2, MapFinds
    <3> QED
      BY <1>0, <2>2, <2>3, <2>5, <3>1 DEF MapInv
  <2> QED
    BY <2>4, <2>5
<1>6. ASSUME NEW u \in Users, Map!AcquireInPool(u) PROVE MapInv'
  <2>1. /\ upc[u] = "found" /\ Map!AcquireFrom(u, wants[u], pools)
        /\ wants' = wants /\ defCap' = defCap
    BY <1>6 DEF Map!AcquireInPool
  <2>2. loan[u] = << >> /\ wants[u] \in DOMAIN pools
    BY <1>0, <2>1 DEF MapOK, QueuesOK
  <2>3. MapOK(pools', loan', upc', [wants EXCEPT ![u] = wants[u]])
    BY <1>0, <2>1, <2>2, AcquireStep
  <2>4. [wants EXCEPT ![u] = wants[u]] = wants
    BY <1>1 DEF Functions
  <2> QED
    BY <1>0, <2>1, <2>3, <2>4 DEF MapInv
<1>7. ASSUME NEW u \in Users, Map!Recycle(u) PROVE MapInv'
  <2>1. upc[u] = "run" /\ loan[u] # << >> /\ wants' = wants /\ defCap' = defCap
    BY <1>7 DEF Map!Recycle
  <2>2. PICK k \in DOMAIN pools : \E m \in pools[k].inuse : loan[u] = <<k, m>>
    BY <1>0, <2>1 DEF MapOK, LoansOK
  <2>3. PICK m \in pools[k].inuse : loan[u] = <<k, m>>
    BY <2>2
  <2>4. loan[u][1] = k /\ loan[u][2] = m
    BY <2>3
  <2>5. CASE pools[k].waiters # << >>
    <3> DEFINE h == Head(pools[k].waiters)
    <3>1. /\ pools' = [pools EXCEPT ![k].waiters = Tail(@)]
          /\ loan' = [loan EXCEPT ![u] = << >>, ![h] = <<k, m>>]
          /\ upc' = [upc EXCEPT ![h] = "run"]
      BY <1>7, <2>4, <2>5 DEF Map!Recycle
    <3>2. MapOK([pools EXCEPT ![k].waiters = Tail(@)],
                [loan EXCEPT ![u] = << >>, ![h] = <<k, m>>], [upc EXCEPT ![h] = "run"], wants)
      BY <1>0, <2>1, <2>3, <2>5, MapServes
    <3> QED
      BY <1>0, <2>1, <3>1, <3>2 DEF MapInv
  <2>6. CASE pools[k].waiters = << >>
    <3>1. /\ pools' = [pools EXCEPT ![k].unused = <<m>> \o @, ![k].inuse = @ \ {m}]
          /\ loan' = [loan EXCEPT ![u] = << >>]
          /\ upc' = upc
      BY <1>7, <2>4, <2>6 DEF Map!Recycle
    <3>2. MapOK([pools EXCEPT ![k].unused = <<m>> \o @, ![k].inuse = @ \ {m}],
                [loan EXCEPT ![u] = << >>], upc, wants)
      BY <1>0, <2>1, <2>3, <2>6, MapPutsBack
    <3> QED
      BY <1>0, <2>1, <3>1, <3>2 DEF MapInv
  <2> QED
    BY <2>5, <2>6
<1>8. ASSUME NEW u \in Users, Map!RequestStop(u) PROVE MapInv'
  <2>1. wants' = wants /\ defCap' = defCap /\ loan' = loan
    BY <1>8 DEF Map!RequestStop
  <2>2. CASE upc[u] = "waiting"
    <3>1. /\ pools' = [pools EXCEPT ![wants[u]].waiters = Map!Without(u, @)]
          /\ upc' = [upc EXCEPT ![u] = "run"]
      BY <1>8, <2>2 DEF Map!RequestStop
    <3>2. MapOK([pools EXCEPT ![wants[u]].waiters = Map!Without(u, @)], loan,
                [upc EXCEPT ![u] = "run"], wants)
      BY <1>0, <2>2, MapLeft
    <3> QED
      BY <1>0, <2>1, <3>1, <3>2 DEF MapInv
  <2>3. CASE upc[u] # "waiting"
    <3>1. pools' = pools /\ upc' = upc
      BY <1>8, <2>3 DEF Map!RequestStop
    <3> QED
      BY <1>0, <2>1, <3>1 DEF MapInv
  <2> QED
    BY <2>2, <2>3
<1>9. CASE UNCHANGED Map!vars
  <2>1. pools' = pools /\ loan' = loan /\ upc' = upc /\ wants' = wants /\ defCap' = defCap
    BY <1>9 DEF Map!vars
  <2> QED
    BY <1>0, <2>1 DEF MapInv
<1> QED
  BY <1>2, <1>3, <1>4, <1>5, <1>6, <1>7, <1>8, <1>9 DEF Map!Next

LEMMA PoolsOfTheirKeys == ASSUME MapInv PROVE Map!PoolOfItsKey
<1> SUFFICES ASSUME NEW k \in DOMAIN pools
             PROVE  /\ Map!Cardinality(pools[k].inuse) <= pools[k].cap
                    /\ \A m \in pools[k].inuse :
                         Map!Cardinality({u \in Users : loan[u] = <<k, m>>}) = 1
                    /\ \A u \in Users :
                         /\ loan[u] # << >> /\ loan[u][1] = k => loan[u][2] \in pools[k].inuse
                         /\ u \in Map!ToSet(pools[k].waiters) <=> (upc[u] = "waiting" /\ wants[u] = k)
                         /\ upc[u] = "waiting" /\ wants[u] = k => ~Map!Available(pools[k])
  BY DEF Map!PoolOfItsKey
<1>1. /\ PoolOK(pools[k]) /\ LoansOK(pools, loan) /\ QueuesOK(pools, loan, upc, wants)
  BY DEF MapInv, MapOK
<1>2. /\ Len(pools[k].unused) \in Nat /\ Cardinality(pools[k].inuse) \in Nat /\ pools[k].cap \in Nat
      /\ pools[k].waiters \in Seq(Users) /\ Len(pools[k].waiters) \in Nat
      /\ DOMAIN pools[k].waiters = 1..Len(pools[k].waiters)
  BY <1>1, LenProperties, FS_CardinalityType DEF PoolOK, MapPool
<1>3. Map!Cardinality(pools[k].inuse) <= pools[k].cap
  <2>1. Len(pools[k].unused) + Cardinality(pools[k].inuse) <= pools[k].cap
    BY <1>1 DEF PoolOK
  <2>2. Cardinality(pools[k].inuse) <= pools[k].cap
    BY <1>2, <2>1
  <2> QED
    BY <2>2, CountsInMap
<1>4. ASSUME NEW m \in pools[k].inuse
      PROVE  Map!Cardinality({u \in Users : loan[u] = <<k, m>>}) = 1
  <2>1. PICK u \in Users : loan[u] = <<k, m>>
    BY <1>1 DEF LoansOK
  <2>2. {v \in Users : loan[v] = <<k, m>>} = {u}
    BY <1>1, <2>1, PairNotEmpty DEF LoansOK
  <2>3. Cardinality({u}) = 1
    BY FS_Singleton
  <2>4. Map!Cardinality({u}) = 1
    BY <2>3, CountsInMap
  <2> QED
    BY <2>2, <2>4
<1>5. ASSUME NEW u \in Users, loan[u] # << >>, loan[u][1] = k
      PROVE  loan[u][2] \in pools[k].inuse
  <2>1. PICK j \in DOMAIN pools : \E m \in pools[j].inuse : loan[u] = <<j, m>>
    BY <1>1, <1>5 DEF LoansOK
  <2> QED
    BY <1>5, <2>1
<1>6. ASSUME NEW u \in Users
      PROVE  u \in Map!ToSet(pools[k].waiters) <=> (upc[u] = "waiting" /\ wants[u] = k)
  <2>1. u \in Map!ToSet(pools[k].waiters) <=> Has(pools[k].waiters, u)
    BY <1>2 DEF Map!ToSet, Has
  <2> QED
    BY <1>1, <2>1 DEF QueuesOK
<1>7. ASSUME NEW u \in Users, upc[u] = "waiting", wants[u] = k
      PROVE  ~Map!Available(pools[k])
  <2>1. Has(pools[k].waiters, u)
    BY <1>1, <1>7 DEF QueuesOK
  <2>2. pools[k].waiters # << >>
    BY <2>1 DEF Has
  <2>3. pools[k].unused = << >> /\ Cardinality(pools[k].inuse) = pools[k].cap
    BY <1>1, <2>2 DEF PoolOK
  <2>4. ~(Map!Cardinality(pools[k].inuse) < pools[k].cap)
    BY <1>2, <2>3, CountsInMap
  <2> QED
    BY <2>3, <2>4 DEF Map!Available
<1> QED
  BY <1>3, <1>4, <1>5, <1>6, <1>7

-----------------------------------------------------------------------------
(* The until combinators, for any number of ops and any of the kinds: the  *)
(* awaiter is resumed once, when every op has ended, and learns what the   *)
(* documentation says.                                                     *)

ParKinds == Until!AllKinds \ Until!SeqKinds

(* The counter of a parallel combinator is the number of ops whose         *)
(* callback has not counted yet, started or not.  It reaches zero once,    *)
(* and the callback that takes it there is the one that resumes.           *)
Pending == {i \in Until!Ops : st[i] # "done"}

ParInv ==
    kind \in ParKinds =>
        /\ n = Cardinality(Pending)
        /\ fin = "resumed" => n = 0
        /\ pc = "starting" => next <= size
        /\ pc \in {"idle", "checked"} => next = 1
        /\ \A i \in Until!Ops : i >= next => st[i] = "new"
        /\ \A i \in Until!Ops : st[i] # "seq"

(* A sequence has ended every op before _idx without meeting the           *)
(* condition and started none after it.                                    *)
SeqInv ==
    kind \in Until!SeqKinds =>
        /\ idx \in 1..size /\ firstIdx = -1
        /\ pc # "left" => idx = 1 /\ next = 1 /\ st[1] = "new" /\ fin = "no"
        /\ pc = "left" => next = idx + 1 /\ st[idx] # "new"
        /\ \A i \in Until!Ops : st[i] \in {"new", "running", "seq", "done"}
        /\ \A i \in Until!Ops : i > idx => st[i] = "new"
        /\ \A i \in Until!Ops : i < idx => st[i] = "done" /\ ~Until!CancelCond(i)
        /\ fin = "resumed" <=> st[idx] = "done"
        /\ fin = "resumed" => idx = size \/ Until!CancelCond(idx)

(* The op whose request_stop() was the first met the condition, and unless *)
(* the parent stopped there is one as soon as the ops are stopped.         *)
FirstInv ==
    kind \in ParKinds =>
        /\ firstIdx > 0 => /\ firstIdx \in Until!Ops /\ Until!CancelCond(firstIdx)
                           /\ st[firstIdx] \in {"count", "done"}
        /\ \A i \in Until!Ops : st[i] = "won" => Until!CancelCond(i)
        /\ scb = "fired" => parentStop
        /\ Until!OwnSource => \A i \in Until!Ops : st[i] \in {"won", "count", "done"} /\ Until!CancelCond(i) => opStop
        /\ opStop /\ ~parentStop => firstIdx > 0 \/ \E i \in Until!Ops : st[i] = "won"
        /\ ~Until!OwnSource => \A i \in Until!Ops : st[i] = "done" /\ Until!CancelCond(i) => firstIdx > 0

(* How often the awaiter was told, and what. *)
TellInv ==
    /\ resumes = IF fin = "resumed" THEN 1 ELSE 0
    /\ fin = "no" => err = "none"
    /\ pc \in {"idle", "checked"} => fin = "no"
    /\ fin = "returned" => kind \in ParKinds /\ pc = "left" /\ \A i \in Until!Ops : st[i] = "new"
    /\ fin = "resumed" =>
         /\ kind \in Until!FirstKinds /\ firstIdx < 0 => err = "not_found"
         /\ kind \in Until!FirstKinds /\ firstIdx >= 0 => err = "none"
         /\ kind = "until_all_succeeded" /\ firstIdx >= 0 => err = "failed"
         /\ kind = "until_all_succeeded" /\ firstIdx < 0 => err = "none"

UntilInv == Until!TypeOK /\ ParInv /\ SeqInv /\ FirstInv /\ TellInv
-----------------------------------------------------------------------------
(* Operators. *)

\* The condition is decided, and by the kind and the result of the op alone.
LEMMA CondFacts ==
    ASSUME Until!TypeOK
    PROVE  /\ \A i \in Until!Ops : Until!CancelCond(i) \in BOOLEAN
           /\ kind' = kind => \A i \in Until!Ops : res'[i] = res[i] => (Until!CancelCond(i)' <=> Until!CancelCond(i))
           /\ kind = "until_all_done" => \A i \in Until!Ops : ~Until!CancelCond(i)
  BY DEF Until!CancelCond, Until!Failed, Until!FirstKinds, Until!SeqKinds

\* The ops are finitely many and numbered within the bound.
LEMMA OpsFinite ==
    ASSUME Until!TypeOK
    PROVE  /\ size \in Nat /\ Until!Ops \subseteq 1..MaxSize
           /\ IsFiniteSet(Until!Ops) /\ Cardinality(Until!Ops) = size
           /\ IsFiniteSet(Pending) /\ Cardinality(Pending) \in Nat
           /\ Cardinality(Pending) <= size
           /\ Cardinality(Pending) = 0 <=> Pending = {}
<1>1. size \in Nat /\ size <= MaxSize /\ MaxSize \in Nat
  BY UntilAssumption DEF Until!SizeAssumption, Until!TypeOK
<1>2. Until!Ops \subseteq 1..MaxSize
  BY <1>1 DEF Until!Ops
<1>3. IsFiniteSet(Until!Ops) /\ Cardinality(Until!Ops) = size
  BY <1>1, FS_Interval DEF Until!Ops
<1>4. Pending \in SUBSET Until!Ops
  BY DEF Pending
<1>5. IsFiniteSet(Pending) /\ Cardinality(Pending) <= Cardinality(Until!Ops)
  BY <1>3, <1>4, FS_Subset
<1> QED
  BY <1>1, <1>2, <1>3, <1>5, FS_CardinalityType, FS_EmptySet

\* Counting an op takes it, and nothing else, out of the pending ones.
LEMMA CountedOnce ==
    ASSUME Until!TypeOK, NEW i \in Until!Ops, Until!Count(i)
    PROVE  Cardinality(Pending') = Cardinality(Pending) - 1
<1>1. i \in Pending
  BY DEF Until!Count, Pending
<1>2. Pending' = Pending \ {i}
  BY OpsFinite DEF Until!Count, Pending, Until!Ops, Until!TypeOK
<1> QED
  BY <1>1, <1>2, OpsFinite, FS_RemoveElement

\* What set_err_from_first_idx() stores.
LEMMA ErrFacts ==
    ASSUME NEW f \in Int
    PROVE  /\ kind \in Until!FirstKinds /\ f < 0 => Until!ErrFrom(f) = "not_found"
           /\ kind \in Until!FirstKinds /\ ~(f < 0) => Until!ErrFrom(f) = err
           /\ kind = "until_all_succeeded" /\ f >= 0 => Until!ErrFrom(f) = "failed"
           /\ kind = "until_all_succeeded" /\ ~(f >= 0) => Until!ErrFrom(f) = err
           /\ Until!ErrFrom(f) \in {"not_found", "failed", err}
  BY DEF Until!ErrFrom, Until!FirstKinds

-----------------------------------------------------------------------------
(* The invariant, action by action. *)

\* The constructors give every combinator a state that satisfies it.
LEMMA UntilInit == Until!Init => UntilInv
<1> SUFFICES ASSUME Until!Init PROVE UntilInv
  OBVIOUS
<1>a. MaxSize \in Nat /\ size \in 0..MaxSize /\ endless \subseteq 1..MaxSize
  BY UntilAssumption DEF Until!SizeAssumption, Until!OpAssumption, Until!Init
<1>b. /\ opStop \in BOOLEAN /\ parentStop \in BOOLEAN
      /\ st \in [1..MaxSize -> {"new", "running", "cond", "won", "count", "seq", "done"}]
      /\ res \in [1..MaxSize -> {"none", "ok", "failed", "canceled"}]
  BY DEF Until!Init
<1>1. Until!TypeOK
  BY <1>a, <1>b DEF Until!Init, Until!TypeOK
<1>2. Pending = Until!Ops
  BY <1>1, OpsFinite DEF Pending, Until!Init
<1>3. ParInv
  BY <1>1, <1>2, OpsFinite DEF ParInv, Until!Init, Until!Ops
<1>4. SeqInv
  BY <1>1, OpsFinite DEF SeqInv, Until!Init, Until!Ops
<1>5. FirstInv /\ TellInv
  BY <1>1, OpsFinite DEF FirstInv, TellInv, Until!Init, ParKinds
<1> QED
  BY <1>1, <1>3, <1>4, <1>5 DEF UntilInv

\* The check of the stop token.
LEMMA StepCheckStop == UntilInv /\ Until!CheckStop => UntilInv'
<1> SUFFICES ASSUME UntilInv, Until!CheckStop PROVE UntilInv'
  OBVIOUS
<1> USE DEF UntilInv
<1>1. Until!TypeOK'
  BY DEF Until!TypeOK, Until!CheckStop
<1>2. Pending' = Pending /\ Until!Ops' = Until!Ops /\ \A i \in Until!Ops : Until!CancelCond(i)' <=> Until!CancelCond(i)
  BY CondFacts DEF Pending, Until!Ops, Until!CheckStop
<1>3. ParInv'
  BY <1>2 DEF ParInv, TellInv, Until!CheckStop
<1>4. SeqInv'
  BY <1>2 DEF SeqInv, Until!CheckStop, ParKinds
<1>5. FirstInv'
  BY <1>2 DEF FirstInv, Until!CheckStop, Until!OwnSource
<1>6. TellInv'
  <2>1. kind \notin Until!SeqKinds => kind \in ParKinds /\ \A i \in Until!Ops : st[i] = "new"
    BY UntilAssumption, OpsFinite DEF Until!TypeOK, ParInv, Until!CheckStop, ParKinds, Until!Ops, Until!KindAssumption
  <2> QED
    BY <1>2, <2>1 DEF TellInv, Until!CheckStop
<1> QED
  BY <1>1, <1>3, <1>4, <1>5, <1>6

\* The stop callback is registered, and runs if the parent was stopped.
LEMMA StepRegister == UntilInv /\ Until!Register => UntilInv'
<1> SUFFICES ASSUME UntilInv, Until!Register PROVE UntilInv'
  OBVIOUS
<1> USE DEF UntilInv
<1>1. Until!TypeOK'
  BY DEF Until!TypeOK, Until!Register
<1>2. Pending' = Pending /\ Until!Ops' = Until!Ops /\ \A i \in Until!Ops : Until!CancelCond(i)' <=> Until!CancelCond(i)
  BY CondFacts DEF Pending, Until!Ops, Until!Register
<1>3. ParInv'
  BY <1>2, OpsFinite DEF ParInv, Until!Register
<1>4. SeqInv'
  BY <1>2, OpsFinite DEF SeqInv, Until!Register
<1>5. FirstInv'
  <2>1. kind \in ParKinds => \A i \in Until!Ops : st[i] = "new"
    BY OpsFinite DEF ParInv, Until!Register, Until!Ops
  <2> QED
    BY <1>2, <2>1 DEF FirstInv, Until!Register, Until!OwnSource
<1>6. TellInv'
  BY <1>2 DEF TellInv, Until!Register
<1> QED
  BY <1>1, <1>3, <1>4, <1>5, <1>6

\* An iteration of the loop that initiates the ops.
LEMMA StepStartNext == UntilInv /\ Until!StartNext => UntilInv'
<1> SUFFICES ASSUME UntilInv, Until!StartNext PROVE UntilInv'
  OBVIOUS
<1> USE DEF UntilInv
<1>k. kind \in ParKinds \/ kind \in Until!SeqKinds
  BY UntilAssumption DEF Until!TypeOK, ParKinds, Until!KindAssumption
<1>0. next \in Until!Ops /\ st[next] = "new"
  BY <1>k, OpsFinite DEF ParInv, SeqInv, Until!StartNext, Until!Ops, Until!TypeOK
<1>1. Until!TypeOK'
  BY UntilAssumption, <1>0, OpsFinite DEF Until!TypeOK, Until!StartNext, Until!SizeAssumption
<1>2. Pending' = Pending /\ Until!Ops' = Until!Ops /\ \A i \in Until!Ops : Until!CancelCond(i)' <=> Until!CancelCond(i)
  BY <1>0, CondFacts, OpsFinite DEF Pending, Until!Ops, Until!StartNext, Until!TypeOK
<1>3. ParInv'
  BY <1>0, <1>2, OpsFinite DEF ParInv, Until!StartNext, Until!Ops, Until!TypeOK, ParKinds
<1>4. SeqInv'
  BY <1>0, <1>2, OpsFinite DEF SeqInv, Until!StartNext, Until!Ops, Until!TypeOK
<1>5. FirstInv'
  BY <1>0, <1>2, OpsFinite DEF FirstInv, Until!StartNext, Until!OwnSource, Until!TypeOK
<1>6. TellInv'
  BY <1>0, <1>2 DEF TellInv, Until!StartNext
<1> QED
  BY <1>1, <1>3, <1>4, <1>5, <1>6

\* The parent is stopped, or its stop reaches the ops.
LEMMA StepStop == UntilInv /\ (Until!ParentStop \/ Until!ForwardStop) => UntilInv'
<1> SUFFICES ASSUME UntilInv, Until!ParentStop \/ Until!ForwardStop PROVE UntilInv'
  OBVIOUS
<1> USE DEF UntilInv
<1>1. Until!TypeOK'
  <2>1. CASE Until!ParentStop
    BY <2>1 DEF Until!TypeOK, Until!ParentStop
  <2>2. CASE Until!ForwardStop
    BY <2>2 DEF Until!TypeOK, Until!ForwardStop
  <2> QED
    BY <2>1, <2>2
<1>2. Pending' = Pending /\ Until!Ops' = Until!Ops /\ \A i \in Until!Ops : Until!CancelCond(i)' <=> Until!CancelCond(i)
  BY CondFacts DEF Pending, Until!Ops, Until!ParentStop, Until!ForwardStop
<1>3. ParInv'
  BY <1>2 DEF ParInv, Until!ParentStop, Until!ForwardStop
<1>4. SeqInv'
  BY <1>2 DEF SeqInv, Until!ParentStop, Until!ForwardStop, Until!Ops
<1>5. FirstInv'
  BY <1>2 DEF FirstInv, Until!ParentStop, Until!ForwardStop, Until!OwnSource
<1>6. TellInv'
  BY <1>2 DEF TellInv, Until!ParentStop, Until!ForwardStop
<1> QED
  BY <1>1, <1>3, <1>4, <1>5, <1>6

\* An op finishes: its result may meet the condition, nobody has looked yet.
LEMMA StepFinish ==
    ASSUME UntilInv, NEW i \in Until!Ops, Until!Finish(i)
    PROVE  UntilInv'
<1> USE DEF UntilInv
<1>1. Until!TypeOK'
  BY OpsFinite DEF Until!TypeOK, Until!Finish
<1>0. st[i] = "running" /\ st' = [st EXCEPT ![i] = st'[i]] /\ i \in 1..MaxSize
  BY OpsFinite DEF Until!Finish, Until!TypeOK
<1>2. Pending' = Pending /\ Until!Ops' = Until!Ops /\ \A j \in Until!Ops : j # i => (Until!CancelCond(j)' <=> Until!CancelCond(j))
  <2>1. Pending' = Pending /\ Until!Ops' = Until!Ops
    BY OpsFinite DEF Pending, Until!Ops, Until!Finish, Until!TypeOK
  <2>2. kind' = kind /\ \A j \in Until!Ops : j # i => res'[j] = res[j]
    BY OpsFinite DEF Until!Finish, Until!TypeOK
  <2> QED
    BY <2>1, <2>2, CondFacts
<1>3. ParInv'
  BY <1>2, OpsFinite DEF ParInv, Until!Finish, Until!TypeOK, ParKinds
<1>4. SeqInv'
  BY <1>2, OpsFinite DEF SeqInv, Until!Finish, Until!TypeOK
<1>5. FirstInv'
  BY <1>2, OpsFinite DEF FirstInv, Until!Finish, Until!TypeOK, Until!OwnSource, ParKinds
<1>6. TellInv'
  BY <1>2, OpsFinite DEF TellInv, Until!Finish, Until!TypeOK
<1> QED
  BY <1>1, <1>3, <1>4, <1>5, <1>6

\* The callback of an op tests the condition and requests the stop.
LEMMA StepTestCond ==
    ASSUME UntilInv, NEW i \in Until!Ops, Until!TestCond(i)
    PROVE  UntilInv'
<1> USE DEF UntilInv
<1>0. i \in 1..MaxSize /\ Until!CancelCond(i) \in BOOLEAN /\ kind \in ParKinds
  BY UntilAssumption, OpsFinite, CondFacts DEF Until!TestCond, SeqInv, Until!TypeOK, Until!KindAssumption, ParKinds
<1>1. Until!TypeOK'
  BY <1>0 DEF Until!TypeOK, Until!TestCond
<1>2. Pending' = Pending /\ Until!Ops' = Until!Ops /\ \A j \in Until!Ops : Until!CancelCond(j)' <=> Until!CancelCond(j)
  BY CondFacts, OpsFinite DEF Pending, Until!Ops, Until!TestCond, Until!TypeOK
<1>3. ParInv'
  BY <1>2, OpsFinite DEF ParInv, Until!TestCond, Until!TypeOK
<1>4. SeqInv'
  BY <1>0 DEF SeqInv, Until!TestCond, ParKinds
<1>5. FirstInv'
  BY <1>0, <1>2, OpsFinite DEF FirstInv, Until!TestCond, Until!TypeOK, Until!OwnSource
<1>6. TellInv'
  BY <1>2, OpsFinite DEF TellInv, Until!TestCond, Until!TypeOK
<1> QED
  BY <1>1, <1>3, <1>4, <1>5, <1>6

\* The callback that requested the stop stores the index of its op.
LEMMA StepStoreFirst ==
    ASSUME UntilInv, NEW i \in Until!Ops, Until!StoreFirst(i)
    PROVE  UntilInv'
<1> USE DEF UntilInv
<1>0. i \in 1..MaxSize /\ kind \in ParKinds
  BY UntilAssumption, OpsFinite DEF Until!StoreFirst, SeqInv, Until!TypeOK, Until!KindAssumption, ParKinds
<1>1. Until!TypeOK'
  BY <1>0 DEF Until!TypeOK, Until!StoreFirst
<1>2. Pending' = Pending /\ Until!Ops' = Until!Ops /\ \A j \in Until!Ops : Until!CancelCond(j)' <=> Until!CancelCond(j)
  BY CondFacts, OpsFinite DEF Pending, Until!Ops, Until!StoreFirst, Until!TypeOK
<1>3. ParInv'
  BY <1>2, OpsFinite DEF ParInv, Until!StoreFirst, Until!TypeOK
<1>4. SeqInv'
  BY <1>0 DEF SeqInv, Until!StoreFirst, ParKinds
<1>5. FirstInv'
  BY <1>0, <1>2, OpsFinite DEF FirstInv, Until!StoreFirst, Until!TypeOK, Until!OwnSource
<1>6. TellInv'
  <2>1. fin # "resumed"
    <3>1. i \in Pending
      BY DEF Pending, Until!StoreFirst
    <3> QED
      BY <1>0, <3>1, OpsFinite DEF ParInv
  <2> QED
    BY <1>2, <2>1, OpsFinite DEF TellInv, Until!StoreFirst, Until!TypeOK
<1> QED
  BY <1>1, <1>3, <1>4, <1>5, <1>6

\* The callback counts its op; the last one tells the awaiter.
LEMMA StepCount ==
    ASSUME UntilInv, NEW i \in Until!Ops, Until!Count(i)
    PROVE  UntilInv'
<1> USE DEF UntilInv
<1>0. /\ i \in 1..MaxSize /\ kind \in ParKinds /\ st[i] = "count"
      /\ st' = [st EXCEPT ![i] = "done"] /\ n' = n - 1 /\ firstIdx' = Until!FirstWith(i)
      /\ UNCHANGED <<kind, size, endless, pc, next, res, idx, opStop, parentStop, scb>>
  BY UntilAssumption, OpsFinite DEF Until!Count, SeqInv, Until!TypeOK, Until!KindAssumption, ParKinds
<1>n. n = Cardinality(Pending) /\ n \in 1..MaxSize /\ Cardinality(Pending') = n - 1
  <2>1. n = Cardinality(Pending) /\ i \in Pending /\ n \in 0..MaxSize
    BY <1>0 DEF ParInv, Pending, Until!TypeOK
  <2>2. n # 0
    BY <2>1, OpsFinite
  <2> QED
    BY <2>1, <2>2, CountedOnce
<1>f. /\ firstIdx' \in {-1} \cup 1..MaxSize
      /\ firstIdx' = i \/ firstIdx' = firstIdx
      /\ firstIdx' = i \/ Until!OwnSource \/ kind = "until_all_done" \/ ~Until!CancelCond(i)
      /\ firstIdx' # firstIdx => Until!CancelCond(i)
  BY <1>0 DEF Until!FirstWith, Until!TypeOK
<1>t. fin = "no" /\ err = "none"
  BY <1>0, <1>n DEF TellInv, ParInv, Until!TypeOK
<1>e. \/ /\ n = 1 /\ err' = Until!ErrFrom(firstIdx') /\ fin' = "resumed" /\ resumes' = resumes + 1
      \/ n # 1 /\ UNCHANGED <<err, fin, resumes>>
  BY DEF Until!Count
<1>1. Until!TypeOK'
  <2>1. err' \in {"none", "canceled", "not_found", "failed"}
    BY <1>t, <1>e, <1>f, ErrFacts
  <2>2. n' \in 0..MaxSize /\ resumes' \in Nat /\ fin' \in {"no", "returned", "resumed"}
    BY UntilAssumption, <1>0, <1>n, <1>e DEF Until!TypeOK, Until!SizeAssumption
  <2>3. st' \in [1..MaxSize -> {"new", "running", "cond", "won", "count", "seq", "done"}]
    BY <1>0 DEF Until!TypeOK
  <2> QED
    BY <1>0, <1>f, <2>1, <2>2, <2>3 DEF Until!TypeOK
<1>2. Until!Ops' = Until!Ops /\ \A j \in Until!Ops : Until!CancelCond(j)' <=> Until!CancelCond(j)
  BY <1>0, CondFacts DEF Until!Ops
<1>3. ParInv'
  BY <1>0, <1>n, <1>2, <1>e, <1>t, OpsFinite DEF ParInv, Until!TypeOK
<1>4. SeqInv'
  BY <1>0 DEF SeqInv, ParKinds
<1>5. FirstInv'
  <2>0. /\ firstIdx > 0 => /\ firstIdx \in Until!Ops /\ Until!CancelCond(firstIdx)
                           /\ st[firstIdx] \in {"count", "done"}
        /\ \A j \in Until!Ops : st[j] = "won" => Until!CancelCond(j)
        /\ scb = "fired" => parentStop
        /\ Until!OwnSource => \A j \in Until!Ops : st[j] \in {"won", "count", "done"} /\ Until!CancelCond(j) => opStop
        /\ opStop /\ ~parentStop => firstIdx > 0 \/ \E j \in Until!Ops : st[j] = "won"
        /\ ~Until!OwnSource => \A j \in Until!Ops : st[j] = "done" /\ Until!CancelCond(j) => firstIdx > 0
    BY <1>0 DEF FirstInv
  <2>1. st'[i] = "done" /\ \A j \in Until!Ops : j # i => st'[j] = st[j]
    BY <1>0, OpsFinite DEF Until!TypeOK
  <2>2. (Until!OwnSource' <=> Until!OwnSource) /\ (firstIdx # firstIdx' => firstIdx' = i /\ i > 0)
    BY <1>0, <1>f DEF Until!OwnSource
  <2>3. firstIdx' > 0 => /\ firstIdx' \in Until!Ops /\ Until!CancelCond(firstIdx')
                         /\ st'[firstIdx'] \in {"count", "done"}
    BY <1>f, <2>0, <2>1, <2>2
  <2>4. Until!OwnSource => \A j \in Until!Ops : st'[j] \in {"won", "count", "done"} /\ Until!CancelCond(j) => opStop
    BY <1>0, <2>0, <2>1
  <2>5. opStop /\ ~parentStop => firstIdx' > 0 \/ \E j \in Until!Ops : st'[j] = "won"
    BY <1>0, <2>0, <2>1, <2>2
  <2>6. ~Until!OwnSource => \A j \in Until!Ops : st'[j] = "done" /\ Until!CancelCond(j) => firstIdx' > 0
    BY <1>0, <1>f, <2>0, <2>1, <2>2, CondFacts
  <2>7. \A j \in Until!Ops : st'[j] = "won" => Until!CancelCond(j)
    BY <2>0, <2>1
  <2>8. firstIdx' > 0 => Until!CancelCond(firstIdx)'
    BY <1>2, <2>3
  <2> QED
    BY <1>0, <1>2, <2>0, <2>2, <2>3, <2>4, <2>5, <2>6, <2>7, <2>8 DEF FirstInv
<1>6. TellInv'
  <2>1. fin' = "resumed" => err' = Until!ErrFrom(firstIdx')
    BY <1>t, <1>e
  <2>2. firstIdx' \in Int
    BY <1>f
  <2>3. kind \in Until!FirstKinds => kind # "until_all_succeeded"
    BY DEF Until!FirstKinds
  <2>4. fin' = "resumed" =>
          /\ kind \in Until!FirstKinds /\ firstIdx' < 0 => err' = "not_found"
          /\ kind \in Until!FirstKinds /\ firstIdx' >= 0 => err' = "none"
          /\ kind = "until_all_succeeded" /\ firstIdx' >= 0 => err' = "failed"
          /\ kind = "until_all_succeeded" /\ firstIdx' < 0 => err' = "none"
    BY <1>t, <2>1, <2>2, <2>3, ErrFacts
  <2>5. resumes' = (IF fin' = "resumed" THEN 1 ELSE 0) /\ fin' # "returned"
        /\ (fin' = "no" => err' = "none")
    BY <1>t, <1>e DEF TellInv
  <2>6. pc \notin {"idle", "checked"}
    BY <1>0, OpsFinite DEF ParInv, Until!Ops
  <2> QED
    BY <1>0, <2>4, <2>5, <2>6 DEF TellInv
<1> QED
  BY <1>1, <1>3, <1>4, <1>5, <1>6

\* The callback of a sequence resumes, or starts the next op.
LEMMA StepSeq ==
    ASSUME UntilInv, NEW i \in Until!Ops, Until!SeqStep(i)
    PROVE  UntilInv'
<1> USE DEF UntilInv
<1>0. /\ i \in 1..MaxSize /\ kind \in Until!SeqKinds /\ kind \notin ParKinds /\ st[i] = "seq"
      /\ UNCHANGED <<kind, size, endless, pc, res, n, firstIdx, opStop, parentStop, scb, err>>
  BY UntilAssumption, OpsFinite DEF Until!SeqStep, ParInv, Until!TypeOK, Until!KindAssumption, ParKinds
<1>i. i = idx /\ fin = "no" /\ pc = "left" /\ idx \in 1..size /\ size <= MaxSize /\ MaxSize \in Nat
      /\ next = idx + 1 /\ size \in Nat
  <2>1. i = idx /\ idx \in 1..size
    BY <1>0, OpsFinite DEF SeqInv, Until!Ops
  <2>2. fin # "resumed" /\ pc = "left"
    BY <1>0, <2>1 DEF SeqInv, Until!TypeOK
  <2>3. fin = "no"
    BY <1>0, <2>2 DEF TellInv, Until!TypeOK
  <2> QED
    BY UntilAssumption, <1>0, <2>1, <2>2, <2>3, OpsFinite DEF SeqInv, Until!SizeAssumption, Until!TypeOK
<1>2. Until!Ops' = Until!Ops /\ \A j \in Until!Ops : Until!CancelCond(j)' <=> Until!CancelCond(j)
  BY <1>0, CondFacts DEF Until!Ops
<1>3. CASE idx = size \/ Until!CancelCond(i)
  <2>0. /\ st' = [st EXCEPT ![i] = "done"] /\ fin' = "resumed" /\ resumes' = resumes + 1
        /\ UNCHANGED <<idx, next>>
    BY <1>3 DEF Until!SeqStep
  <2>1. Until!TypeOK'
    BY <1>0, <2>0 DEF Until!TypeOK
  <2>2. SeqInv'
    BY <1>0, <1>i, <1>2, <1>3, <2>0 DEF SeqInv, Until!TypeOK, Until!Ops
  <2>3. ParInv' /\ FirstInv'
    BY <1>0 DEF ParInv, FirstInv
  <2>4. TellInv'
    BY <1>0, <1>i, <2>0 DEF TellInv, Until!SeqKinds, Until!FirstKinds
  <2> QED
    BY <2>1, <2>2, <2>3, <2>4
<1>4. CASE idx # size /\ ~Until!CancelCond(i)
  <2>0. /\ st' = [st EXCEPT ![i] = "done", ![idx + 1] = "running"]
        /\ idx' = idx + 1 /\ next' = next + 1 /\ UNCHANGED <<fin, resumes>>
    BY <1>4 DEF Until!SeqStep
  <2>a. idx + 1 \in 1..size /\ idx + 1 \in 1..MaxSize
    BY <1>i, <1>4
  <2>1. Until!TypeOK'
    BY <1>0, <1>i, <2>0, <2>a DEF Until!TypeOK
  <2>2. SeqInv'
    <3>1. \A j \in Until!Ops : j # i /\ j # idx + 1 => st'[j] = st[j]
      BY <1>0, <2>0, OpsFinite DEF Until!TypeOK
    <3>2. st'[idx + 1] = "running" /\ st'[i] = "done"
      BY <1>0, <1>i, <2>0, <2>a DEF Until!TypeOK
    <3>3. \A j \in Until!Ops : j < idx => st'[j] = "done" /\ ~Until!CancelCond(j)'
      BY <1>0, <1>i, <1>2, <3>1 DEF SeqInv, Until!Ops
    <3>4. \A j \in Until!Ops : j > idx + 1 => st'[j] = "new"
      BY <1>0, <1>i, <3>1 DEF SeqInv, Until!Ops
    <3>5. \A j \in Until!Ops : j < idx + 1 => j < idx \/ j = i
      BY <1>i DEF Until!Ops
    <3>6. \A j \in Until!Ops : st'[j] \in {"new", "running", "seq", "done"}
      BY <1>0, <3>1, <3>2 DEF SeqInv
    <3> QED
      BY <1>0, <1>i, <1>2, <1>4, <2>0, <2>a, <3>2, <3>3, <3>4, <3>5, <3>6 DEF SeqInv
  <2>3. ParInv' /\ FirstInv'
    BY <1>0 DEF ParInv, FirstInv
  <2>4. TellInv'
    BY <1>0, <1>i, <2>0 DEF TellInv
  <2> QED
    BY <2>1, <2>2, <2>3, <2>4
<1> QED
  BY <1>3, <1>4

\* Every step keeps the invariant.
LEMMA UntilStep ==
    ASSUME UntilInv, [Until!Next]_Until!vars
    PROVE  UntilInv'
<1>1. CASE UNCHANGED Until!vars
  <2>1. Pending' = Pending /\ Until!Ops' = Until!Ops /\ \A i \in Until!Ops : Until!CancelCond(i)' <=> Until!CancelCond(i)
    BY <1>1, CondFacts DEF Until!vars, Pending, Until!Ops, UntilInv
  <2>2. Until!TypeOK' /\ ParInv' /\ TellInv'
    BY <1>1, <2>1 DEF Until!vars, UntilInv, Until!TypeOK, ParInv, TellInv
  <2>3. SeqInv' /\ FirstInv'
    BY <1>1, <2>1 DEF Until!vars, UntilInv, SeqInv, FirstInv, Until!OwnSource, Until!Ops
  <2> QED
    BY <2>2, <2>3 DEF UntilInv
<1>2. CASE Until!Next
  BY <1>2, StepCheckStop, StepRegister, StepStartNext, StepStop, StepFinish, StepTestCond,
     StepStoreFirst, StepCount, StepSeq DEF Until!Next, Until!Callback
<1> QED
  BY <1>1, <1>2

\* The combinators by themselves keep their invariant.
LEMMA UntilInvariant == Until!Spec => []UntilInv
<1>1. Until!Init => UntilInv
  BY UntilInit
<1>2. UntilInv /\ [Until!Next]_Until!vars => UntilInv'
  BY UntilStep
<1> QED
  BY <1>1, <1>2, PTL DEF Until!Spec

-----------------------------------------------------------------------------
(* What it means for the awaiter. *)

\* The awaiter is resumed when no op is left.
LEMMA ResumedLast ==
    ASSUME UntilInv
    PROVE  Until!ResumedOnceAtTheEnd
<1>1. kind \in ParKinds \/ kind \in Until!SeqKinds
  BY UntilAssumption DEF UntilInv, Until!TypeOK, ParKinds, Until!KindAssumption
<1>2. resumes <= 1
  BY DEF UntilInv, TellInv
<1>3. fin = "resumed" /\ kind \in ParKinds => \A i \in Until!Ops : st[i] = "done"
  BY OpsFinite DEF UntilInv, ParInv, Pending
<1>4. fin = "resumed" /\ kind \in Until!SeqKinds => \A i \in Until!Ops : st[i] \in {"done", "new"}
  BY OpsFinite DEF UntilInv, SeqInv, Until!Ops
<1> QED
  BY <1>1, <1>2, <1>3, <1>4 DEF Until!ResumedOnceAtTheEnd, ParKinds

\* What the awaiter is told is what the documentation says.
LEMMA Outcome ==
    ASSUME UntilInv
    PROVE  Until!OutcomeUnlessStopped
<1> SUFFICES ASSUME fin = "resumed", ~parentStop, kind \in Until!FirstKinds \cup {"until_all_succeeded"}
             PROVE  Until!Met = {} <=> firstIdx < 0
  BY DEF Until!OutcomeUnlessStopped, Until!DocumentedOutcome, UntilInv, TellInv, Until!TypeOK, Until!FirstKinds
<1>1. kind \in ParKinds
  BY DEF ParKinds, Until!AllKinds, Until!SeqKinds, Until!FirstKinds
<1>2. \A i \in Until!Ops : st[i] = "done"
  BY <1>1, OpsFinite DEF UntilInv, ParInv, Pending
<1>3. firstIdx > 0 => firstIdx \in Until!Met
  BY <1>1, <1>2 DEF UntilInv, FirstInv, Until!Met
<1>4. Until!Met # {} => firstIdx > 0
  BY <1>1, <1>2 DEF UntilInv, FirstInv, Until!Met
<1>5. firstIdx > 0 <=> ~(firstIdx < 0)
  BY DEF UntilInv, Until!TypeOK
<1> QED
  BY <1>3, <1>4, <1>5

\* The op whose result is taken met the condition.
LEMMA FirstMet ==
    ASSUME UntilInv
    PROVE  Until!FirstMeetsCondition
<1> SUFFICES ASSUME fin = "resumed" PROVE Until!FirstMeetsCondition
  BY DEF Until!FirstMeetsCondition
<1>1. kind \in ParKinds \/ kind \in Until!SeqKinds
  BY UntilAssumption DEF UntilInv, Until!TypeOK, ParKinds, Until!KindAssumption
<1>2. firstIdx > 0 => Until!CancelCond(firstIdx)
  BY <1>1 DEF UntilInv, FirstInv, SeqInv
<1> QED
  BY <1>2 DEF Until!FirstMeetsCondition, UntilInv, TellInv, Until!TypeOK

\* A sequence stops at the first op that meets the condition.
LEMMA SeqInTime ==
    ASSUME UntilInv
    PROVE  Until!SeqStopsInTime
  BY DEF Until!SeqStopsInTime, UntilInv, SeqInv

-----------------------------------------------------------------------------
(* Theorems about Until by itself. *)

\* Whatever combinator, number of ops, order of completions, and stop of the
\* parent: the awaiter is resumed at most once, and only when no op runs and
\* no callback touches the combinator any more; an awaiter that was not
\* stopped gets the documented outcome, not_found exactly if no op met the
\* condition of an until_first_x, failed exactly if an op of
\* until_all_succeeded failed, even if several meet the condition at the
\* same time and race for _firstIdx.
THEOREM UntilCorrect ==
    Until!Spec => [](Until!ResumedOnceAtTheEnd /\ Until!OutcomeUnlessStopped)
<1>1. UntilInv => Until!ResumedOnceAtTheEnd /\ Until!OutcomeUnlessStopped
  BY ResumedLast, Outcome
<1> QED
  BY <1>1, UntilInvariant, PTL

\* take_result() never meets its assertions: stopped or not, the variant an
\* until_first_x returns is that of an op that met the condition.
THEOREM FirstCorrect == Until!Spec => []Until!FirstMeetsCondition
<1>1. UntilInv => Until!FirstMeetsCondition
  BY FirstMet
<1> QED
  BY <1>1, UntilInvariant, PTL

\* A sequence never starts an op after the one that met the condition, and
\* never stops before it.
THEOREM SeqCorrect == Until!Spec => []Until!SeqStopsInTime
<1>1. UntilInv => Until!SeqStopsInTime
  BY SeqInTime
<1> QED
  BY <1>1, UntilInvariant, PTL

-----------------------------------------------------------------------------
(* Where coroutines go on (Resumption): an op, the calls of initiate() on it,
   and what the last of them has come to. *)

OpOk ==
    /\ op \in Seq(Resume!Wraps \cup Resume!Leafs) /\ Len(op) > 0 /\ op[Len(op)] \in Resume!Leafs
    /\ \A i \in 1 .. Len(op) : i < Len(op) => op[i] \in Resume!Wraps

Marks == Scheds \cup {Resume!Home, "-"}
CallSet == [res : Marks, stop : {"home", "own"}, conts : Seq(Marks), cur : Scheds \cup {Resume!Home}]

\* Where an op of which o is the sequence was started, if the first k wrappers are asked.
StartedOn(o, k, at) ==
    \/ at = Resume!Home /\ \A i \in 1 .. k : o[i].k \notin Resume!Starters
    \/ \E i \in 1 .. k : /\ o[i].k \in Resume!Starters /\ at = o[i].s
                         /\ \A j \in 1 .. k : o[j].k \in Resume!Starters => j <= i
StopAsked(o, k, src) == src = "own" <=> \E i \in 1 .. k : o[i].k = "set_stop_source"

\* Home is the last that the continuations are resumed on.
EndsAtHome(conts) == conts # <<>> /\ conts[Len(conts)] = Resume!Home

\* Each call of initiate() runs, and has the stop source, as the wrappers before it asked.
CallsOk ==
    /\ calls \in Seq(CallSet) /\ Len(calls) <= Len(op)
    /\ \A d \in 1 .. Len(calls) :
         /\ calls[d].conts # <<>>
         /\ StartedOn(op, d - 1, calls[d].cur) /\ StopAsked(op, d - 1, calls[d].stop)
         /\ d = 1 => calls[d] = Resume!First

\* So does the leaf, whatever has passed on what it came to.
ResultOk ==
    r # <<>> =>
        /\ r = <<r[1]>> /\ calls # <<>>
        /\ r[1].on # "none" => \/ Resume!IsImmediate(1)
                               \/ StartedOn(op, Len(op), r[1].on) /\ StopAsked(op, Len(op), r[1].stop)

\* solely_run_on() of a task: the last continuation of every op in the task is the one that
\* solely_run_on() has bound to where the caller was; only the first may be bound again.
Solely == Len(op) > 2 /\ op[1].k = "solely_run_on" /\ op[2].k = "task"

SolelyOk ==
    Solely =>
        /\ \A d \in 2 .. Len(calls) : EndsAtHome(calls[d].conts)
        /\ \A d \in 3 .. Len(calls) : Len(calls[d].conts) > 1
        /\ r # <<>> => /\ r[1].sync => Len(calls) > 2
                       /\ ~r[1].sync => r[1].at = Resume!Home

ResumeInv == OpOk /\ CallsOk /\ ResultOk /\ SolelyOk

LEMMA UnwindsTo == ASSUME NEW at, NEW conts \in Seq(Marks), EndsAtHome(conts)
  PROVE Resume!Unwind(conts, at) = Resume!Home
<1> DEFINE known == {i \in DOMAIN conts : conts[i] # "-"}
           m == Len(conts)
<1>1. m \in Nat /\ m > 0 /\ DOMAIN conts = 1 .. m
  BY EmptySeq, LenProperties DEF EndsAtHome
<1>2. conts[m] = Resume!Home /\ Resume!Home # "-"
  BY DEF EndsAtHome, Resume!Home
<1>3. m \in known /\ \A i \in known : i <= m /\ i \in Int
  BY <1>1, <1>2
<1>4. known # {} /\ Resume!Unwind(conts, at) = conts[CHOOSE i \in known : \A j \in known : j <= i]
  BY <1>3 DEF Resume!Unwind
<1>5. (CHOOSE i \in known : \A j \in known : j <= i) = m
  <2> DEFINE c == CHOOSE i \in known : \A j \in known : j <= i
  <2>1. c \in known /\ \A j \in known : j <= c
    BY <1>3
  <2> QED
    BY <2>1, <1>3, <1>1
<1> QED
  BY <1>2, <1>4, <1>5

LEMMA ResumesTo == ASSUME NEW by, NEW conts \in Seq(Marks), EndsAtHome(conts), Len(conts) > 1
  PROVE Resume!Resume(conts, by) = Resume!Home
<1> DEFINE t == Tail(conts)
<1>1. t \in Seq(Marks) /\ Len(t) = Len(conts) - 1 /\ Len(conts) \in Nat
      /\ \A i \in 1 .. Len(t) : t[i] = conts[i + 1]
  BY HeadTailProperties, LenProperties, EmptySeq DEF EndsAtHome
<1> HIDE DEF t
<1>2. t # <<>> /\ t[Len(t)] = conts[Len(conts)]
  BY <1>1, EmptySeq
<1>3. EndsAtHome(t)
  BY <1>2 DEF EndsAtHome
<1>4. \A at : Resume!Unwind(t, at) = Resume!Home
  BY <1>1, <1>3, UnwindsTo
<1> QED
  BY <1>4 DEF Resume!Resume, t

LEMMA Rebound == ASSUME NEW s \in Marks, NEW conts \in Seq(Marks), conts # <<>>
  PROVE /\ Resume!BindResumer(conts, s) \in Seq(Marks) /\ Len(Resume!BindResumer(conts, s)) = Len(conts)
        /\ Resume!BindResumer(conts, s)[1] = s
        /\ \A i \in 2 .. Len(conts) : Resume!BindResumer(conts, s)[i] = conts[i]
<1> DEFINE t == Tail(conts)
           b == <<s>> \o t
<1>1. t \in Seq(Marks) /\ Len(t) = Len(conts) - 1 /\ Len(conts) \in Nat /\ Len(conts) > 0
      /\ \A i \in 1 .. Len(t) : t[i] = conts[i + 1]
  BY HeadTailProperties, LenProperties, EmptySeq
<1>2. <<s>> \in Seq(Marks) /\ Len(<<s>>) = 1 /\ <<s>>[1] = s
  OBVIOUS
<1> HIDE DEF t
<1>3. b \in Seq(Marks) /\ Len(b) = 1 + Len(t)
      /\ \A i \in 1 .. Len(b) : b[i] = IF i <= 1 THEN <<s>>[i] ELSE t[i - 1]
  BY <1>1, <1>2, ConcatProperties
<1> HIDE DEF b
<1>4. b[1] = s /\ Len(b) = Len(conts)
  BY <1>1, <1>2, <1>3
<1>5. \A i \in 2 .. Len(conts) : b[i] = conts[i]
  BY <1>1, <1>3
<1> QED
  BY <1>3, <1>4, <1>5 DEF Resume!BindResumer, b, t

\* One more continuation
LEMMA OneMore == ASSUME NEW conts \in Seq(Marks)
  PROVE /\ <<"-">> \o conts \in Seq(Marks) /\ Len(<<"-">> \o conts) = Len(conts) + 1
        /\ \A i \in 1 .. Len(conts) : (<<"-">> \o conts)[i + 1] = conts[i]
<1> DEFINE b == <<"-">> \o conts
<1>2. <<"-">> \in Seq(Marks) /\ Len(<<"-">>) = 1
  BY DEF Marks
<1>3. b \in Seq(Marks) /\ Len(b) = 1 + Len(conts) /\ Len(conts) \in Nat
      /\ \A i \in 1 .. Len(b) : b[i] = IF i <= 1 THEN <<"-">>[i] ELSE conts[i - 1]
  BY <1>2, ConcatProperties, LenProperties
<1> HIDE DEF b
<1>4. \A i \in 1 .. Len(conts) : b[i + 1] = conts[i]
  BY <1>3
<1> QED
  BY <1>3, <1>4 DEF b

LEMMA WrapFacts == ASSUME NEW w \in Resume!Wraps
  PROVE /\ w.k \in {"set_resumer", "resume_on"} \cup Resume!Starters => w.s \in Scheds
        /\ w.k \in {"task", "set_stop_source", "set_resumer", "resume_on"} \cup Resume!Starters
  BY DEF Resume!Wraps, Resume!Starters

LEMMA PassedOk == ASSUME NEW w \in Resume!Wraps, NEW c \in CallSet, c.conts # <<>>
  PROVE LET d == Resume!Passed(w, c) IN
        /\ d \in CallSet /\ d.conts # <<>> /\ Len(d.conts) >= Len(c.conts)
        /\ d.cur = IF w.k \in Resume!Starters THEN w.s ELSE c.cur
        /\ d.stop = IF w.k = "set_stop_source" THEN "own" ELSE c.stop
        /\ w.k = "task" => Len(d.conts) = Len(c.conts) + 1
        /\ (Len(c.conts) > 1 \/ w.k = "task") /\ EndsAtHome(c.conts) => EndsAtHome(d.conts)
<1> DEFINE d == Resume!Passed(w, c)
<1>0. /\ c.res \in Marks /\ c.conts \in Seq(Marks) /\ c.stop \in {"home", "own"}
      /\ c.cur \in Scheds \cup {Resume!Home} /\ Len(c.conts) \in Nat /\ Len(c.conts) > 0
  BY EmptySeq, LenProperties DEF CallSet
<1>1. /\ d.cur = IF w.k \in Resume!Starters THEN w.s ELSE c.cur
      /\ d.stop = IF w.k = "set_stop_source" THEN "own" ELSE c.stop
  BY DEF Resume!Passed
<1>2. d.conts = IF w.k = "resume_on" THEN Resume!BindResumer(c.conts, w.s)
                ELSE IF w.k = "solely_run_on" THEN Resume!BindResumer(c.conts, c.res)
                ELSE IF w.k = "task" THEN <<"-">> \o c.conts
                ELSE c.conts
  BY DEF Resume!Passed
<1>3. d.res = IF w.k \in {"set_resumer", "run_on", "solely_run_on"} THEN w.s ELSE c.res
  BY DEF Resume!Passed
<1>4. d = [res |-> d.res, stop |-> d.stop, cur |-> d.cur, conts |-> d.conts]
  BY DEF Resume!Passed
<1> HIDE DEF d
<1>5. CASE w.k \in {"resume_on", "solely_run_on"}
  <2> DEFINE s == IF w.k = "resume_on" THEN w.s ELSE c.res
  <2>1. s \in Marks
    BY <1>5, <1>0, WrapFacts DEF Marks, Resume!Starters
  <2>2. d.conts = Resume!BindResumer(c.conts, s)
    BY <1>5, <1>2
  <2> HIDE DEF s
  <2>3. d.conts \in Seq(Marks) /\ Len(d.conts) = Len(c.conts)
        /\ \A i \in 2 .. Len(c.conts) : d.conts[i] = c.conts[i]
    BY <1>0, <2>1, <2>2, Rebound
  <2>4. Len(c.conts) > 1 /\ EndsAtHome(c.conts) => EndsAtHome(d.conts)
    BY <1>0, <2>3, EmptySeq DEF EndsAtHome
  <2>5. d.conts # <<>>
    BY <1>0, <2>3
  <2> QED
    BY <1>0, <1>1, <1>3, <1>4, <1>5, <2>3, <2>4, <2>5, WrapFacts DEF CallSet, Marks, Resume!Starters, d
<1>6. CASE w.k = "task"
  <2>1. d.conts \in Seq(Marks) /\ Len(d.conts) = Len(c.conts) + 1
        /\ \A i \in 1 .. Len(c.conts) : d.conts[i + 1] = c.conts[i]
    BY <1>0, <1>2, <1>6, OneMore
  <2>2. d.conts # <<>>
    BY <1>0, <2>1
  <2>3. EndsAtHome(c.conts) => EndsAtHome(d.conts)
    BY <1>0, <2>1, <2>2 DEF EndsAtHome
  <2> QED
    BY <1>0, <1>1, <1>3, <1>4, <1>6, <2>1, <2>2, <2>3 DEF CallSet, Resume!Starters, d
<1>7. CASE w.k \notin {"resume_on", "solely_run_on", "task"}
  BY <1>0, <1>1, <1>2, <1>3, <1>4, <1>7, WrapFacts DEF CallSet, Marks, Resume!Starters, d
<1> QED
  BY <1>5, <1>6, <1>7

LEMMA ResumeInit == ASSUME MaxWraps \in Nat, Resume!Init PROVE ResumeInv
<1>1. PICK m \in 0 .. MaxWraps, l \in Resume!Leafs : \E ws \in [1 .. m -> Resume!Wraps] : op = Append(ws, l)
  BY DEF Resume!Init
<1>2. PICK ws \in [1 .. m -> Resume!Wraps] : op = Append(ws, l)
  BY <1>1
<1>3. ws \in Seq(Resume!Wraps \cup Resume!Leafs) /\ Len(ws) = m /\ m \in Nat
  BY SeqDef
<1>4. op \in Seq(Resume!Wraps \cup Resume!Leafs) /\ Len(op) = m + 1 /\ op[m + 1] = l
      /\ \A i \in 1 .. m : op[i] = ws[i]
  BY <1>2, <1>3, AppendProperties
<1>5. OpOk
  BY <1>3, <1>4 DEF OpOk
<1>6. CallsOk
  BY <1>3, <1>4 DEF Resume!Init, CallsOk
<1>7. ResultOk /\ SolelyOk
  BY DEF Resume!Init, ResultOk, SolelyOk
<1> QED
  BY <1>5, <1>6, <1>7 DEF ResumeInv

LEMMA ContsHome == ASSUME NEW c \in CallSet, EndsAtHome(c.conts), Len(c.conts) > 1, NEW by, NEW at
  PROVE Resume!Resume(c.conts, by) = Resume!Home /\ Resume!Unwind(c.conts, at) = Resume!Home
  BY UnwindsTo, ResumesTo DEF CallSet

LEMMA AskedSoFar ==
    ASSUME OpOk, NEW k \in Nat, k > 0, k <= Len(op), NEW c \in CallSet, NEW d \in CallSet,
           StartedOn(op, k - 1, c.cur), StopAsked(op, k - 1, c.stop),
           d.cur = IF op[k].k \in Resume!Starters THEN op[k].s ELSE c.cur,
           d.stop = IF op[k].k = "set_stop_source" THEN "own" ELSE c.stop
    PROVE  StartedOn(op, k, d.cur) /\ StopAsked(op, k, d.stop)
<1>1. k \in 1 .. k /\ \A i \in 1 .. k : i = k \/ i \in 1 .. k - 1
  OBVIOUS
<1>2. \A i \in 1 .. k - 1 : i \in 1 .. k /\ i <= k /\ i # k
  OBVIOUS
<1>3. ASSUME op[k].k \in Resume!Starters PROVE StartedOn(op, k, d.cur)
  <2>1. d.cur = op[k].s /\ \A j \in 1 .. k : op[j].k \in Resume!Starters => j <= k
    BY <1>3
  <2> QED
    BY <1>1, <1>3, <2>1 DEF StartedOn
<1>4. ASSUME op[k].k \notin Resume!Starters PROVE StartedOn(op, k, d.cur)
  <2>1. d.cur = c.cur
    BY <1>4
  <2>2. ASSUME c.cur = Resume!Home, \A i \in 1 .. k - 1 : op[i].k \notin Resume!Starters PROVE StartedOn(op, k, d.cur)
    BY <1>1, <1>4, <2>1, <2>2 DEF StartedOn
  <2>3. ASSUME NEW i \in 1 .. k - 1, op[i].k \in Resume!Starters, c.cur = op[i].s,
               \A j \in 1 .. k - 1 : op[j].k \in Resume!Starters => j <= i
        PROVE  StartedOn(op, k, d.cur)
    <3>1. i \in 1 .. k /\ \A j \in 1 .. k : op[j].k \in Resume!Starters => j <= i
      BY <1>1, <1>2, <1>4, <2>3
    <3> QED
      BY <2>1, <2>3, <3>1 DEF StartedOn
  <2> QED
    BY <2>2, <2>3 DEF StartedOn
<1>5. StopAsked(op, k, d.stop)
  BY <1>1, <1>2 DEF StopAsked
<1>6. StartedOn(op, k, d.cur)
  BY <1>3, <1>4
<1> QED
  BY <1>5, <1>6

LEMMA LeafAsked ==
    ASSUME OpOk, NEW at, NEW src, StartedOn(op, Len(op) - 1, at), StopAsked(op, Len(op) - 1, src)
    PROVE  StartedOn(op, Len(op), at) /\ StopAsked(op, Len(op), src)
<1>1. Len(op) \in Nat /\ Len(op) > 0 /\ op[Len(op)].k \notin Resume!Starters
      /\ op[Len(op)].k # "set_stop_source"
  BY LenProperties DEF OpOk, Resume!Leafs, Resume!Starters
<1>2. \A i \in 1 .. Len(op) : i = Len(op) \/ i \in 1 .. Len(op) - 1
  BY <1>1
<1>3. \A i \in 1 .. Len(op) - 1 : i \in 1 .. Len(op)
  BY <1>1
<1> QED
  BY <1>1, <1>2, <1>3 DEF StartedOn, StopAsked

LEMMA ResultFacts == ASSUME NEW at, NEW on, NEW src
  PROVE /\ Resume!Now(on, src).sync /\ Resume!Now(on, src).on = on /\ Resume!Now(on, src).stop = src
        /\ ~Resume!Later(at, on, src).sync /\ Resume!Later(at, on, src).at = at
        /\ Resume!Later(at, on, src).on = on /\ Resume!Later(at, on, src).stop = src
  BY DEF Resume!Now, Resume!Later

LEMMA StepAwait == ASSUME ResumeInv, Resume!Await PROVE ResumeInv'
<1>1. Len(op) \in Nat /\ Len(op) > 0
  BY LenProperties DEF ResumeInv, OpOk
<1>2. calls' = <<Resume!First>> /\ Len(calls') = 1 /\ calls'[1] = Resume!First /\ op' = op
  BY DEF Resume!Await
<1>3. Resume!First \in CallSet /\ Resume!First.conts = <<"-">> /\ Resume!First.cur = Resume!Home /\ Resume!First.stop = "home"
  BY DEF Resume!First, CallSet, Marks
<1>4. OpOk'
  BY <1>2 DEF ResumeInv, OpOk
<1>5. CallsOk'
  <2>1. calls' \in Seq(CallSet) /\ Len(calls') <= Len(op')
    BY <1>1, <1>2, <1>3
  <2>2. StartedOn(op, 0, Resume!Home)' /\ StopAsked(op, 0, "home")'
    BY DEF StartedOn, StopAsked
  <2>3. 1 - 1 = 0 /\ \A i \in 1 .. Len(calls') : i = 1
    BY <1>2
  <2>4. <<"-">> # <<>>
    OBVIOUS
  <2> QED
    BY <1>2, <1>3, <2>1, <2>2, <2>3, <2>4 DEF CallsOk
<1>6. r' = IF Resume!IsImmediate(1) THEN <<Resume!Now(Resume!Home, "home")>> ELSE <<>>
  BY DEF Resume!Await
<1>7. ResultOk'
  <2>1. Resume!IsImmediate(1) => Resume!IsImmediate(1)'
    BY <1>2 DEF Resume!IsImmediate
  <2>2. calls' # <<>>
    BY <1>2
  <2>3. CASE Resume!IsImmediate(1)
    BY <1>6, <2>1, <2>2, <2>3 DEF ResultOk
  <2>4. CASE ~Resume!IsImmediate(1)
    BY <1>6, <2>4 DEF ResultOk
  <2> QED
    BY <2>3, <2>4
<1>8. SolelyOk'
  <2> SUFFICES ASSUME Solely PROVE SolelyOk'
    BY <1>2 DEF SolelyOk, Solely
  <2>1. ~Resume!IsImmediate(1)
    <3>1. 2 \in 1 .. Len(op) - 1 /\ op[2].k = "task"
      BY <1>1 DEF Solely
    <3> QED
      BY <3>1 DEF Resume!IsImmediate
  <2>2. r' = <<>> /\ \A i \in 2 .. Len(calls') : FALSE
    BY <1>2, <1>6, <2>1
  <2>3. \A i \in 3 .. Len(calls') : FALSE
    BY <1>2
  <2> QED
    BY <2>2, <2>3 DEF SolelyOk
<1> QED
  BY <1>4, <1>5, <1>7, <1>8 DEF ResumeInv

LEMMA StepInitiate == ASSUME ResumeInv, Resume!Initiate PROVE ResumeInv'
<1> DEFINE m == Len(calls)
           c == calls[m]
           d == Resume!Passed(op[m], c)
<1>1. /\ m \in Nat /\ m > 0 /\ m < Len(op) /\ Len(op) \in Nat /\ calls \in Seq(CallSet)
      /\ m \in 1 .. Len(calls) /\ m \in 1 .. Len(op)
  BY LenProperties, EmptySeq DEF ResumeInv, OpOk, CallsOk, Resume!Initiate, Resume!Depth
<1>2. c \in CallSet /\ c.conts # <<>> /\ op[m] \in Resume!Wraps
      /\ StartedOn(op, m - 1, c.cur) /\ StopAsked(op, m - 1, c.stop)
  BY <1>1, ElementOfSeq DEF ResumeInv, OpOk, CallsOk
<1>3. op' = op /\ r' = r /\ r = <<>> /\ calls' = Append(calls, d)
  BY DEF Resume!Initiate, Resume!Depth
<1> HIDE DEF c, d
<1>4. /\ d \in CallSet /\ d.conts # <<>> /\ Len(d.conts) >= Len(c.conts)
      /\ d.cur = (IF op[m].k \in Resume!Starters THEN op[m].s ELSE c.cur)
      /\ d.stop = (IF op[m].k = "set_stop_source" THEN "own" ELSE c.stop)
      /\ op[m].k = "task" => Len(d.conts) = Len(c.conts) + 1
      /\ (Len(c.conts) > 1 \/ op[m].k = "task") /\ EndsAtHome(c.conts) => EndsAtHome(d.conts)
  BY <1>2, PassedOk DEF d
<1>5. /\ calls' \in Seq(CallSet) /\ Len(calls') = m + 1 /\ calls'[m + 1] = d
      /\ \A i \in 1 .. m : calls'[i] = calls[i]
  BY <1>1, <1>3, <1>4, AppendProperties
<1>6. OpOk'
  BY <1>3 DEF ResumeInv, OpOk
<1>7. StartedOn(op, m, d.cur) /\ StopAsked(op, m, d.stop)
  BY <1>1, <1>2, <1>4, AskedSoFar DEF ResumeInv
<1>8. CallsOk'
  <2>1. Len(calls') <= Len(op')
    BY <1>1, <1>3, <1>5
  <2>2. ASSUME NEW i \in 1 .. Len(calls')
        PROVE /\ calls'[i].conts # <<>>
              /\ StartedOn(op, i - 1, calls'[i].cur) /\ StopAsked(op, i - 1, calls'[i].stop)
              /\ i = 1 => calls'[i] = Resume!First
    <3>1. CASE i = m + 1
      <4>1. i - 1 = m /\ i # 1 /\ calls'[i] = d
        BY <1>1, <1>5, <3>1
      <4> QED
        BY <1>4, <1>7, <4>1
    <3>2. CASE i \in 1 .. m
      BY <1>5, <3>2 DEF ResumeInv, CallsOk
    <3> QED
      BY <1>1, <1>5, <3>1, <3>2
  <2> QED
    BY <1>5, <2>1, <2>2, <1>3 DEF CallsOk, Resume!First, Resume!Home
<1>9. ResultOk'
  BY <1>3 DEF ResultOk
<1>10. SolelyOk'
  <2> SUFFICES ASSUME Solely PROVE SolelyOk'
    BY <1>3 DEF SolelyOk, Solely
  <2> HIDE DEF m
  <2>1. m = 1 => d.conts = <<Resume!Home>>
    <3> SUFFICES ASSUME m = 1 PROVE d.conts = <<Resume!Home>>
      OBVIOUS
    <3>1. c = Resume!First /\ op[m].k = "solely_run_on"
      BY <1>1 DEF ResumeInv, CallsOk, Solely, c, m
    <3>2. d.conts = Resume!BindResumer(<<"-">>, Resume!Home)
      BY <3>1 DEF d, Resume!Passed, Resume!First
    <3> QED
      BY <3>2 DEF Resume!BindResumer
  <2>2. m > 1 => EndsAtHome(c.conts)
    BY <1>1 DEF ResumeInv, SolelyOk, c, m
  <2>3. m > 2 => Len(c.conts) > 1
    BY <1>1 DEF ResumeInv, SolelyOk, c, m
  <2>4. m = 2 => op[m].k = "task" /\ Len(d.conts) > 1
    <3>1. m = 2 => Len(c.conts) > 0
      BY <1>2, <2>2, EmptySeq, LenProperties DEF CallSet
    <3>2. Len(c.conts) \in Nat
      BY <1>2, LenProperties DEF CallSet
    <3> QED
      BY <1>4, <3>1, <3>2 DEF Solely
  <2>5. m > 2 => Len(d.conts) > 1
    <3>1. Len(c.conts) \in Nat /\ Len(d.conts) \in Nat
      BY <1>2, <1>4, LenProperties DEF CallSet
    <3> QED
      BY <1>4, <2>3, <3>1
  <2>6. EndsAtHome(d.conts)
    <3>1. CASE m = 1
      <4>1. d.conts = <<Resume!Home>>
        BY <2>1, <3>1
      <4>2. <<Resume!Home>> # <<>> /\ Len(<<Resume!Home>>) = 1 /\ <<Resume!Home>>[1] = Resume!Home
        OBVIOUS
      <4> QED
        BY <4>1, <4>2 DEF EndsAtHome
    <3>2. CASE m > 1
      BY <1>1, <1>4, <2>2, <2>3, <2>4, <3>2
    <3> QED
      BY <1>1, <3>1, <3>2
  <2>7. \A i \in 2 .. Len(calls') : EndsAtHome(calls'[i].conts)
    <3>1. \A i \in 2 .. Len(calls') : i = m + 1 \/ (i \in 2 .. m /\ i \in 1 .. m)
      BY <1>1, <1>5
    <3> QED
      BY <1>5, <2>6, <3>1 DEF ResumeInv, SolelyOk, m
  <2>8. \A i \in 3 .. Len(calls') : Len(calls'[i].conts) > 1
    <3>1. \A i \in 3 .. Len(calls') : (i = m + 1 /\ m > 1) \/ (i \in 3 .. m /\ i \in 1 .. m)
      BY <1>1, <1>5
    <3>2. m > 1 => Len(d.conts) > 1
      BY <1>1, <2>4, <2>5
    <3> QED
      BY <1>5, <3>1, <3>2 DEF ResumeInv, SolelyOk, m
  <2> QED
    BY <1>3, <2>7, <2>8 DEF SolelyOk
<1> QED
  BY <1>6, <1>8, <1>9, <1>10 DEF ResumeInv

LEMMA StepLeaf == ASSUME ResumeInv, Resume!InitiateLeaf PROVE ResumeInv'
<1> DEFINE m == Len(calls)
           c == calls[m]
<1>1. /\ m \in Nat /\ m > 0 /\ m = Len(op) /\ calls \in Seq(CallSet) /\ m \in 1 .. Len(calls)
      /\ calls # <<>>
  BY LenProperties, EmptySeq DEF ResumeInv, OpOk, CallsOk, Resume!InitiateLeaf, Resume!Depth
<1>2. c \in CallSet /\ c.conts # <<>> /\ StartedOn(op, m - 1, c.cur) /\ StopAsked(op, m - 1, c.stop)
  BY <1>1, ElementOfSeq DEF ResumeInv, CallsOk
<1>3. op' = op /\ calls' = calls
      /\ \/ r' = <<Resume!Now(c.cur, c.stop)>>
         \/ r' = <<Resume!Later(Resume!Resume(c.conts, c.res), c.cur, c.stop)>>
  BY DEF Resume!InitiateLeaf, Resume!Depth
<1> HIDE DEF c
<1>4. OpOk' /\ CallsOk'
  BY <1>3 DEF ResumeInv, OpOk, CallsOk
<1>5. StartedOn(op, Len(op), c.cur) /\ StopAsked(op, Len(op), c.stop)
  BY <1>1, <1>2, LeafAsked DEF ResumeInv
<1>6. r' = <<r'[1]>> /\ r'[1].on = c.cur /\ r'[1].stop = c.stop
  BY <1>3, ResultFacts
<1>7. ResultOk'
  BY <1>1, <1>3, <1>5, <1>6 DEF ResultOk
<1>8. SolelyOk'
  <2> SUFFICES ASSUME Solely PROVE SolelyOk'
    BY <1>3 DEF SolelyOk, Solely
  <2>1. m > 2 /\ EndsAtHome(c.conts) /\ Len(c.conts) > 1
    BY <1>1 DEF Solely, ResumeInv, SolelyOk, c
  <2>2. Resume!Resume(c.conts, c.res) = Resume!Home
    BY <1>2, <2>1, ContsHome
  <2>3. ~r'[1].sync => r'[1].at = Resume!Home
    BY <1>3, <2>2, ResultFacts
  <2> QED
    BY <1>3, <2>1, <2>3 DEF ResumeInv, SolelyOk
<1> QED
  BY <1>4, <1>7, <1>8 DEF ResumeInv

\* A wrapper that goes on with what it wraps: the coroutine goes on at home.
LEMMA GoesOnHome ==
    ASSUME ResumeInv, Solely, NEW k \in 2 .. Len(calls), k < Len(op), NEW d \in CallSet, NEW at,
           k > 2 => EndsAtHome(d.conts) /\ Len(d.conts) > 1
    PROVE  Resume!Continue(op[k], calls[k], d, at) = Resume!Home
<1>1. calls[k] \in CallSet /\ EndsAtHome(calls[k].conts)
  BY ElementOfSeq, LenProperties DEF ResumeInv, CallsOk, SolelyOk
<1>2. Resume!Unwind(calls[k].conts, at) = Resume!Home
  BY <1>1, UnwindsTo DEF CallSet
<1>3. k > 2 => Resume!Resume(d.conts, d.res) = Resume!Home
  BY ContsHome
<1>4. k = 2 => op[k].k = "task"
  BY DEF Solely
<1>5. k > 2 \/ k = 2
  BY LenProperties DEF ResumeInv, CallsOk
<1> QED
  BY <1>2, <1>3, <1>4, <1>5 DEF Resume!Continue

LEMMA StepImmediate == ASSUME ResumeInv, Resume!ImmediateInner PROVE ResumeInv'
<1> DEFINE m == Len(calls)
           c == calls[m]
           d == Resume!Passed(op[m], c)
           h == Resume!Continue(op[m], c, d, c.cur)
<1>1. /\ m \in Nat /\ m > 0 /\ m < Len(op) /\ Len(op) \in Nat /\ calls \in Seq(CallSet)
      /\ m \in 1 .. Len(calls) /\ m \in 1 .. Len(op) /\ calls # <<>>
  BY LenProperties, EmptySeq DEF ResumeInv, OpOk, CallsOk, Resume!ImmediateInner, Resume!Depth
<1>2. c \in CallSet /\ c.conts # <<>> /\ op[m] \in Resume!Wraps
  BY <1>1, ElementOfSeq DEF ResumeInv, OpOk, CallsOk
<1>3. op' = op /\ calls' = calls /\ r' = <<Resume!Later(h, "none", c.stop)>>
  BY DEF Resume!ImmediateInner, Resume!Depth
<1>4. Resume!IsImmediate(m + 1)
  BY DEF Resume!ImmediateInner, Resume!Checks, Resume!Depth
<1>5. /\ d \in CallSet /\ Len(d.conts) >= Len(c.conts)
      /\ Len(c.conts) > 1 /\ EndsAtHome(c.conts) => EndsAtHome(d.conts)
  BY <1>2, PassedOk
<1>6. OpOk' /\ CallsOk'
  BY <1>3 DEF ResumeInv, OpOk, CallsOk
<1> HIDE DEF h
<1>7. r' = <<r'[1]>> /\ r'[1].on = "none" /\ ~r'[1].sync /\ r'[1].at = h
  BY <1>3, ResultFacts
<1>8. ResultOk'
  BY <1>1, <1>3, <1>7 DEF ResultOk
<1>9. SolelyOk'
  <2> SUFFICES ASSUME Solely PROVE SolelyOk'
    BY <1>3 DEF SolelyOk, Solely
  <2>1. m # 1
    <3>1. ASSUME m = 1 PROVE FALSE
      <4>1. 2 \in m + 1 .. Len(op) - 1 /\ op[2].k = "task"
        BY <1>1, <3>1 DEF Solely
      <4> QED
        BY <1>4, <4>1 DEF Resume!IsImmediate
    <3> QED
      BY <3>1
  <2>2. m > 2 => EndsAtHome(d.conts) /\ Len(d.conts) > 1
    <3>1. m > 2 => EndsAtHome(c.conts) /\ Len(c.conts) > 1
      BY <1>1 DEF ResumeInv, SolelyOk
    <3>2. Len(c.conts) \in Nat /\ Len(d.conts) \in Nat
      BY <1>2, <1>5, LenProperties DEF CallSet
    <3> QED
      BY <1>5, <3>1, <3>2
  <2>3. m \in 2 .. Len(calls)
    <3>1. \A x \in Nat : x > 0 /\ x # 1 => x \in 2 .. x
      OBVIOUS
    <3> QED
      BY <1>1, <2>1, <3>1
  <2>4. h = Resume!Home
    BY <1>1, <1>5, <2>2, <2>3, GoesOnHome DEF h
  <2> QED
    BY <1>3, <1>7, <2>4 DEF ResumeInv, SolelyOk
<1> QED
  BY <1>6, <1>8, <1>9 DEF ResumeInv

LEMMA StepReturn == ASSUME ResumeInv, Resume!ReturnInner PROVE ResumeInv'
<1> DEFINE m == Len(calls)
           k == m - 1
           h == Resume!Continue(op[k], calls[k], calls[m], r[1].at)
<1>1. /\ m \in Nat /\ m > 1 /\ k \in 1 .. m /\ m \in 1 .. m /\ k < Len(op) /\ Len(op) \in Nat
      /\ calls \in Seq(CallSet) /\ m \in 1 .. Len(calls)
  BY LenProperties DEF ResumeInv, OpOk, CallsOk, Resume!ReturnInner, Resume!Depth
<1>2. op' = op /\ r # <<>> /\ calls' = SubSeq(calls, 1, k)
  BY DEF Resume!ReturnInner, Resume!Depth
<1>3. /\ calls' \in Seq(CallSet) /\ Len(calls') = k /\ \A i \in 1 .. k : calls'[i] = calls[i]
      /\ calls' # <<>>
  <2>1. 1 \in Int /\ k \in Int /\ k - 1 + 1 = k /\ 1 \in 1 .. Len(calls) /\ k \in 1 .. Len(calls)
    BY <1>1
  <2>2. SubSeq(calls, 1, k) \in Seq(CallSet) /\ Len(SubSeq(calls, 1, k)) = k
        /\ \A i \in 1 .. k : SubSeq(calls, 1, k)[i] = calls[1 + i - 1]
    BY <1>1, <2>1, SubSeqProperties
  <2>3. \A i \in 1 .. k : 1 + i - 1 = i
    BY <1>1
  <2> QED
    <3>1. /\ calls' \in Seq(CallSet) /\ Len(calls') = k /\ \A i \in 1 .. k : calls'[i] = calls[i]
      BY <1>2, <2>2, <2>3
    <3>2. k > 0
      BY <1>1
    <3>3. calls' # <<>>
      BY <3>1, <3>2, EmptySeq
    <3> QED
      BY <3>1, <3>3
<1>4. OpOk'
  BY <1>2 DEF ResumeInv, OpOk
<1>5. CallsOk'
  <2>1. Len(calls') <= Len(op')
    BY <1>1, <1>2, <1>3
  <2>2. \A i \in 1 .. Len(calls') : i \in 1 .. Len(calls) /\ calls'[i] = calls[i]
    BY <1>1, <1>3
  <2> QED
    <3>1. \A i \in 1 .. Len(calls') :
            /\ calls'[i].conts # <<>> /\ StartedOn(op, i - 1, calls'[i].cur) /\ StopAsked(op, i - 1, calls'[i].stop)
            /\ i = 1 => calls'[i] = Resume!First
      BY <2>2 DEF ResumeInv, CallsOk
    <3> QED
      BY <1>2, <1>3, <2>1, <3>1 DEF CallsOk, Resume!First, Resume!Home
<1>6. \/ r' = r /\ ~(r[1].sync /\ op[k].k \in Resume!Starters \cup {"task"})
      \/ r' = <<Resume!Later(h, r[1].on, r[1].stop)>> /\ r[1].sync
  BY DEF Resume!ReturnInner, Resume!Depth
<1> HIDE DEF h
<1>7. r' = <<r'[1]>> /\ r'[1].on = r[1].on /\ r'[1].stop = r[1].stop
  BY <1>2, <1>6, ResultFacts DEF ResumeInv, ResultOk
<1>8. ResultOk'
  <2>1. Resume!IsImmediate(1) => Resume!IsImmediate(1)'
    BY <1>2 DEF Resume!IsImmediate
  <2>2. r[1].on # "none" => \/ Resume!IsImmediate(1)
                            \/ StartedOn(op, Len(op), r[1].on) /\ StopAsked(op, Len(op), r[1].stop)
    BY <1>2 DEF ResumeInv, ResultOk
  <2> QED
    BY <1>2, <1>3, <1>7, <2>1, <2>2 DEF ResultOk
<1>9. SolelyOk'
  <2> SUFFICES ASSUME Solely PROVE SolelyOk'
    BY <1>2 DEF SolelyOk, Solely
  <2>1. r[1].sync => m > 2
    BY <1>2 DEF ResumeInv, SolelyOk
  <2>2. ~r[1].sync => r[1].at = Resume!Home
    BY <1>2 DEF ResumeInv, SolelyOk
  <2>3. r[1].sync => h = Resume!Home
    <3> SUFFICES ASSUME r[1].sync PROVE h = Resume!Home
      OBVIOUS
    <3>1. m > 2 /\ m \in 2 .. Len(calls) /\ m \in 3 .. Len(calls) /\ k \in 2 .. Len(calls)
      BY <1>1, <2>1
    <3>2. calls[m] \in CallSet /\ EndsAtHome(calls[m].conts) /\ Len(calls[m].conts) > 1
      BY <1>1, <3>1, ElementOfSeq DEF ResumeInv, SolelyOk
    <3> QED
      BY <1>1, <3>1, <3>2, GoesOnHome DEF h
  <2>4. r'[1].sync => k > 2
    <3> SUFFICES ASSUME r'[1].sync PROVE k > 2
      OBVIOUS
    <3>1. r' = r /\ r[1].sync /\ op[k].k \notin Resume!Starters \cup {"task"}
      BY <1>6, ResultFacts
    <3>2. m > 2 /\ k # 2
      BY <2>1, <3>1 DEF Solely
    <3>3. \A x \in Nat : x > 2 /\ x - 1 # 2 => x - 1 > 2
      OBVIOUS
    <3> QED
      BY <1>1, <3>2, <3>3
  <2>5. ~r'[1].sync => r'[1].at = Resume!Home
    BY <1>6, <2>2, <2>3, ResultFacts
  <2>6. \A i \in 2 .. Len(calls') : i \in 2 .. Len(calls) /\ calls'[i] = calls[i]
    BY <1>1, <1>3
  <2>7. \A i \in 3 .. Len(calls') : i \in 3 .. Len(calls) /\ calls'[i] = calls[i]
    BY <1>1, <1>3
  <2> QED
    BY <1>3, <2>4, <2>5, <2>6, <2>7 DEF ResumeInv, SolelyOk
<1> QED
  BY <1>4, <1>5, <1>8, <1>9 DEF ResumeInv

LEMMA ResumeStep == ASSUME ResumeInv, [Resume!Next]_Resume!vars PROVE ResumeInv'
<1>1. CASE UNCHANGED Resume!vars
  BY <1>1 DEF Resume!vars, ResumeInv, OpOk, CallsOk, ResultOk, SolelyOk, Solely, Resume!IsImmediate
<1>2. CASE Resume!Await
  BY <1>2, StepAwait
<1>3. CASE Resume!Initiate
  BY <1>3, StepInitiate
<1>4. CASE Resume!InitiateLeaf
  BY <1>4, StepLeaf
<1>5. CASE Resume!ImmediateInner
  BY <1>5, StepImmediate
<1>6. CASE Resume!ReturnInner
  BY <1>6, StepReturn
<1> QED
  BY <1>1, <1>2, <1>3, <1>4, <1>5, <1>6 DEF Resume!Next

LEMMA RunsThere == ASSUME ResumeInv PROVE Resume!RunsWhereAsked
<1> SUFFICES ASSUME Resume!Done, ~Resume!IsImmediate(1) PROVE Resume!RunsWhereAsked
  BY DEF Resume!RunsWhereAsked
<1> DEFINE at == r[1].on
<1>1. r # <<>> /\ Len(calls) = 1 /\ DOMAIN op = 1 .. Len(op) /\ Len(op) \in Nat
  BY LenProperties DEF Resume!Done, Resume!Depth, ResumeInv, OpOk
<1>2. at # "none" => StartedOn(op, Len(op), at) /\ StopAsked(op, Len(op), r[1].stop)
  BY <1>1 DEF ResumeInv, ResultOk
<1>3. StartedOn(op, Len(op), at) => at = IF Resume!Inits(op) = {} THEN Resume!Home
                                     ELSE op[CHOOSE i \in Resume!Inits(op) : \A j \in Resume!Inits(op) : j <= i].s
  <2> SUFFICES ASSUME StartedOn(op, Len(op), at)
               PROVE  at = IF Resume!Inits(op) = {} THEN Resume!Home
                           ELSE op[CHOOSE i \in Resume!Inits(op) : \A j \in Resume!Inits(op) : j <= i].s
    OBVIOUS
  <2>1. Resume!Inits(op) = {i \in 1 .. Len(op) : op[i].k \in Resume!Starters}
    BY <1>1 DEF Resume!Inits
  <2>2. CASE Resume!Inits(op) = {}
    BY <2>1, <2>2 DEF StartedOn
  <2>3. CASE Resume!Inits(op) # {}
    <3>1. PICK i \in Resume!Inits(op) : at = op[i].s /\ \A j \in Resume!Inits(op) : j <= i
      BY <2>1, <2>3 DEF StartedOn
    <3> DEFINE l == CHOOSE j \in Resume!Inits(op) : \A k \in Resume!Inits(op) : k <= j
    <3>2. l \in Resume!Inits(op) /\ \A j \in Resume!Inits(op) : j <= l
      BY <3>1
    <3>3. l = i
      BY <2>1, <3>1, <3>2
    <3> QED
      BY <2>3, <3>1, <3>3
  <2> QED
    BY <2>2, <2>3
<1>4. StopAsked(op, Len(op), r[1].stop) =>
        ((r[1].stop = "own") = (\E i \in DOMAIN op : op[i].k = "set_stop_source"))
  BY <1>1 DEF StopAsked
<1>5. Solely => r[1].at = Resume!Home
  BY <1>1 DEF ResumeInv, SolelyOk
<1> QED
  BY <1>2, <1>3, <1>4, <1>5 DEF Resume!RunsWhereAsked, Solely

-----------------------------------------------------------------------------
(* The theorems about MCAsyncOps. *)

PoolsInv == (part = "pool" => Pool!PoolInv) /\ (part = "map" => MapInv)

LEMMA PoolsKept == Spec => []PoolsInv
<1>1. Init => PoolsInv
  BY PoolAssumption, Pool!PoolInit, MapInit DEF Init, PoolsInv
<1>2. PoolsInv /\ [Next]_vars => PoolsInv'
  BY StepOfPart, PoolAssumption, Pool!PoolStep, MapStep DEF PoolsInv
<1> QED
  BY <1>1, <1>2, PTL DEF Spec

\* Resource pools, alone or by key, with any capacities and any number of users and resources: a
\* resource is lent to one user at a time or unused, once; an op that waits for one is known to the
\* pool exactly once; no pool lends beyond its capacity, and ops wait only while all of that is lent
\* (for a pool whose capacity changes: while one is in use).
THEOREM LoansAreExclusive == Spec => []ExclusiveLoan
<1>1. Pool!PoolInv => Pool!ExclusiveLoan /\ Pool!OneOwner /\ Pool!WithinCapacity /\ Pool!WaitersHaveHolder
  BY PoolAssumption, Pool!LoansExclusive, Pool!OpsOwned DEF Pool!PoolInv, Pool!CountInv, Pool!Assumptions
<1>2. PoolsInv => ExclusiveLoan
  BY <1>1, PoolsOfTheirKeys DEF PoolsInv, ExclusiveLoan
<1> QED
  BY <1>2, PoolsKept, PTL

\* The until combinators keep their invariant among the others.
LEMMA UntilKept == Spec => [](part = "until" => UntilInv)
<1>1. Init => (part = "until" => UntilInv)
  BY UntilInit DEF Init
<1>2. (part = "until" => UntilInv) /\ [Next]_vars => (part = "until" => UntilInv)'
  BY StepOfPart, UntilStep
<1> QED
  BY <1>1, <1>2, PTL DEF Spec

\* Until combinators, any kind with any number of ops: the awaiter is resumed at most once, and only
\* when no op runs and no callback touches the combinator any more.
THEOREM AwaiterResumedOnce == Spec => []ResumedOnceAtTheEnd
<1>1. (part = "until" => UntilInv) => ResumedOnceAtTheEnd
  BY ResumedLast DEF ResumedOnceAtTheEnd
<1> QED
  BY <1>1, UntilKept, PTL

\* Until combinators: an awaiter that was not stopped gets the documented outcome, the op whose
\* result is taken met the condition, and a sequence stops at the first op that does.
THEOREM OutcomeCorrect == Spec => []OutcomeUnlessStopped
<1>1. (part = "until" => UntilInv) => OutcomeUnlessStopped
  BY Outcome, FirstMet, SeqInTime DEF OutcomeUnlessStopped
<1> QED
  BY <1>1, UntilKept, PTL

CleanupInv == part = "cleanup" => Cleanup!CleanupInv

LEMMA CleanupKept == ASSUME ~Reuse PROVE Spec => []CleanupInv
<1>1. Init => CleanupInv
  BY CleanupAssumption, Cleanup!CleanupInit DEF Init, CleanupInv
<1>2. CleanupInv /\ [Next]_vars => CleanupInv'
  BY StepOfPart, CleanupAssumption, Cleanup!CleanupStep DEF CleanupInv
<1> QED
  BY <1>1, <1>2, PTL DEF Spec

\* Cleanup of a coroutine and its generator, with any ops in scopes of any depth to which none is
\* added once they have been cleaned up (~Reuse: lazy_async_op_group::add() asserts it): the innermost
\* scope comes first, the body goes on after the ops of its scope, and a coroutine is destroyed after
\* all of them.
THEOREM CleanupInOrder == ASSUME ~Reuse PROVE Spec => []InnermostFirst
<1>1. CleanupInv => InnermostFirst
  BY Cleanup!Innermost, Cleanup!ScopeDone, Cleanup!Clean DEF CleanupInv, InnermostFirst
<1> QED
  BY <1>1, CleanupKept, PTL

\* Cleanup of a coroutine and its generator: the result of one that ended says that cleanup failed
\* exactly if one of the ops it cleaned up failed.
THEOREM CleanupFailuresReported == ASSUME ~Reuse PROVE Spec => []FailureReported
<1>1. CleanupInv => FailureReported
  BY Cleanup!Reported DEF CleanupInv, FailureReported
<1> QED
  BY <1>1, CleanupKept, PTL

\* An op of any wrappers in any order around any leaf: the leaf is initiated on the innermost
\* scheduler that a start_on(), run_on() or solely_run_on() named, or where the caller is, with the
\* innermost stop source; and who awaits solely_run_on() of a task goes on where it was, although
\* each op in the task may have gone on somewhere else.
THEOREM ResumesWhereAsked == Spec => []RunsWhereAsked
<1> DEFINE Inv == part = "resume" => ResumeInv
<1>1. Init => Inv
  BY ResumeAssumption, ResumeInit DEF Init, Resume!WrapsAssumption
<1>2. Inv /\ [Next]_vars => Inv'
  <2> SUFFICES ASSUME Inv, [Next]_vars, part' = "resume" PROVE ResumeInv'
    OBVIOUS
  <2>1. part = "resume" /\ [Resume!Next]_Resume!vars
    BY StepOfPart
  <2> QED
    BY <2>1, ResumeStep
<1>3. Inv => RunsWhereAsked
  BY RunsThere DEF RunsWhereAsked
<1> QED
  BY <1>1, <1>2, <1>3, PTL DEF Spec
=============================================================================
