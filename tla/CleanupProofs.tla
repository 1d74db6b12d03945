---------------------------- MODULE CleanupProofs ----------------------------
(***************************************************************************)
(* Proofs about CleanupStack, for any set of cleanup ops and any depth of  *)
(* scopes: cleanup runs from the innermost scope outwards, nothing is left *)
(* when a coroutine is destroyed, and failures are reported.  Ops are not  *)
(* added to a scope that has been cleaned up (~Reuse), which               *)
(* lazy_async_op_group::add() asserts.                                     *)
(***************************************************************************)
EXTENDS CleanupStack, SequenceTheorems, FiniteSetTheorems, WellFoundedInduction, TLAPS

-----------------------------------------------------------------------------
(* The invariant.  What concerns one coroutine c is stated of its stack s, *)
(* its place p and its index x, with the states, homes and old counts of   *)
(* the ops: os, hm and od.                                                 *)

\* until_all_done() of the innermost group is going on.
Active(p) == p \in {"scope", "cleanup", "pcleanup"}

In(s, o) == \E k \in 1..Len(s) : \E i \in 1..Len(s[k].ops) : s[k].ops[i] = o
OnceIn(s) ==
    \A k, l \in 1..Len(s) : \A i \in 1..Len(s[k].ops) : \A j \in 1..Len(s[l].ops) :
        s[k].ops[i] = s[l].ops[j] => (k = l /\ i = j)

\* a group that is not being cleaned up: nothing of it has been initiated
Fresh(g, os) ==
    /\ \A i \in 1..Len(g.ops) : os[g.ops[i]] = "added"
    /\ g.ops # << >> => g.n = 1
    /\ g.n = 1 => ~g.err

\* the group that is being cleaned up: the ops before x have been initiated,
\* and _n has counted those that finished
Counted(g, os) == {i \in 1..Len(g.ops) : os[g.ops[i]] \in {"counted", "done"}}
Running(g, x, os, od) ==
    /\ g.ops # << >> /\ x \in 0..Len(g.ops)
    /\ \A i \in 1..Len(g.ops) :
         IF x # 0 /\ i >= x THEN os[g.ops[i]] = "added"
                            ELSE os[g.ops[i]] \in {"running", "counted", "done"}
    /\ Cardinality(Counted(g, os)) + 1 = g.n
    /\ \A i \in 1..Len(g.ops) : os[g.ops[i]] = "counted" => od[g.ops[i]] + 1 = g.n

CoroOK(c, s, p, x, os, hm, od) ==
    /\ s \in Seq(Groups)
    /\ \A k \in 1..Len(s) : \A i \in 1..Len(s[k].ops) :
         hm[s[k].ops[i]] = c /\ os[s[k].ops[i]] # "new"
    /\ \A o \in AllOps : (hm[o] = c /\ os[o] \in {"added", "running", "counted"}) => In(s, o)
    /\ OnceIn(s)
    /\ \A k \in 1..Len(s) : (k < Len(s) \/ ~Active(p)) => Fresh(s[k], os)
    /\ IF Active(p) THEN s # << >> /\ Running(s[Len(s)], x, os, od) ELSE x = 0
    /\ p \in {"new", "cleaned", "gone"} => s = << >>

\* The task and its generator take turns, and the generator's op cleans up a
\* generator that the task has suspended.
GenOK(p, s, h) ==
    /\ h = "task"
    /\ p["task"] \in {"body", "awaiting", "scope", "leaving", "cleanup", "gone"}
    /\ p["gen"] \in {"new", "body", "yielded", "scope", "leaving", "cleanup",
                     "pleaving", "pcleanup", "cleaned", "gone"}
    /\ p["gen"] = "new" <=> s = "new"
    /\ p["task"] = "awaiting" <=> p["gen"] \in {"body", "scope", "leaving", "cleanup"}
    /\ s = "added" => p["gen"] \in {"body", "scope", "leaving", "cleanup", "yielded", "gone"}
    /\ s = "running" => p["gen"] \in {"pleaving", "pcleanup", "cleaned", "gone"}
    /\ s \in {"counted", "done"} => p["gen"] \in {"cleaned", "gone"}

\* A failure of an op of c is known: in the result, the stack's _err or the
\* error of the group that is being cleaned up.
Failed(c, hm, of) == \E o \in AllOps : hm[o] = c /\ of[o]
FailOK(c, s, p, v, e, hm, of) ==
    /\ Failed(c, hm, of) <=> (v = "cleanup_failed" \/ e \/ (Active(p) /\ s[Len(s)].err))
    /\ p \in {"new", "body", "yielded", "awaiting", "scope"} => v # "cleanup_failed"
    /\ p \notin {"cleanup", "pcleanup", "cleaned", "gone"} => ~e
    /\ p = "gone" => (e => v = "cleanup_failed")

FailsOK == \A c \in Coros : FailOK(c, stack[c], pc[c], res[c], cerr[c], home, ofail)
CorosOK == \A c \in Coros : CoroOK(c, stack[c], pc[c], next[c], ost, home, old)
OneCounted == \A o, p \in AllOps : (ost[o] = "counted" /\ ost[p] = "counted") => o = p
NotYet == \A o \in AllOps : ofail[o] => ost[o] \in {"counted", "done"}

CleanupInv ==
    /\ TypeOK
    /\ CorosOK
    /\ OneCounted
    /\ GenOK(pc, ost[GenOp], home[GenOp])
    /\ NotYet
    /\ FailsOK
-----------------------------------------------------------------------------
(* Stacks. *)

LEMMA GroupFacts ==
    ASSUME NEW s \in Seq(Groups), NEW k \in 1..Len(s)
    PROVE  /\ s[k] \in Groups /\ s[k].ops \in Seq(AllOps) /\ Len(s[k].ops) \in Nat
           /\ s[k].n \in Nat /\ s[k].err \in BOOLEAN
           /\ \A i \in 1..Len(s[k].ops) : s[k].ops[i] \in AllOps
<1>1. s[k] \in Groups
  BY ElementOfSeq
<1>2. s[k].ops \in Seq(AllOps) /\ s[k].n \in Nat /\ s[k].err \in BOOLEAN
  BY <1>1 DEF Groups
<1>3. Len(s[k].ops) \in Nat /\ \A i \in 1..Len(s[k].ops) : s[k].ops[i] \in AllOps
  BY <1>2, ElementOfSeq, LenProperties
<1> QED
  BY <1>1, <1>2, <1>3

\* what is left of a stack has no op twice either
LEMMA OnceKept ==
    ASSUME NEW s, NEW t, OnceIn(s),
           \A k \in 1..Len(t) : \A i \in 1..Len(t[k].ops) :
               k \in 1..Len(s) /\ i \in 1..Len(s[k].ops) /\ t[k].ops[i] = s[k].ops[i]
    PROVE  OnceIn(t)
<1> SUFFICES ASSUME NEW k \in 1..Len(t), NEW l \in 1..Len(t),
                    NEW i \in 1..Len(t[k].ops), NEW j \in 1..Len(t[l].ops),
                    t[k].ops[i] = t[l].ops[j]
             PROVE  k = l /\ i = j
  BY DEF OnceIn
<1>1. /\ k \in 1..Len(s) /\ i \in 1..Len(s[k].ops) /\ t[k].ops[i] = s[k].ops[i]
      /\ l \in 1..Len(s) /\ j \in 1..Len(s[l].ops) /\ t[l].ops[j] = s[l].ops[j]
  OBVIOUS
<1>2. s[k].ops[i] = s[l].ops[j]
  BY <1>1
<1> QED
  BY <1>1, <1>2 DEF OnceIn

\* the last of some groups of a stack
LEMMA LastGroup ==
    ASSUME NEW m \in Nat, NEW K \in SUBSET (1..m), K # {}
    PROVE  \E k \in K : \A j \in (k + 1)..m : j \notin K
<1> DEFINE LessThan == {ss \in Nat \X Nat : ss[1] < ss[2]}
           T == {j \in 0..m : m - j \in K}
<1>1. IsWellFoundedOn(LessThan, Nat)
  BY NatLessThanWellFounded DEF OpToRel
<1>2. T \subseteq Nat /\ T # {}
  <2>1. PICK k \in K : TRUE
    OBVIOUS
  <2>2. k \in 1..m /\ m - k \in 0..m /\ m - (m - k) = k
    OBVIOUS
  <2>3. m - k \in T
    BY <2>1, <2>2
  <2>4. T \subseteq Nat
    OBVIOUS
  <2> HIDE DEF T
  <2> QED
    BY <2>3, <2>4
<1>3. PICK x \in T : \A y \in T : ~(<<y, x>> \in LessThan)
  <2> HIDE DEF LessThan, T
  <2> QED
    BY <1>1, <1>2, WFMin
<1>4. \A y \in T : ~(y < x)
  BY <1>2, <1>3
<1>5. m - x \in K /\ x \in 0..m
  OBVIOUS
<1>6. ASSUME NEW j \in (m - x + 1)..m, j \in K PROVE FALSE
  <2>1. m - j \in 0..m /\ m - (m - j) = j /\ m - j < x
    BY <1>5
  <2>2. m - j \in T
    BY <2>1, <1>6
  <2> QED
    BY <2>1, <2>2, <1>4
<1> QED
  BY <1>5, <1>6

\* pop_untill_non_empty() removes empty groups from the top only, and leaves
\* a group that is not empty on the top.
LEMMA PopsEmpty ==
    ASSUME NEW s \in Seq(Groups)
    PROVE  \E m \in 0..Len(s) :
             /\ WithoutEmpty(s) \in Seq(Groups) /\ Len(WithoutEmpty(s)) = m
             /\ \A k \in 1..m : WithoutEmpty(s)[k] = s[k]
             /\ \A k \in 1..Len(s) : k > m => s[k].ops = << >>
             /\ m > 0 => s[m].ops # << >>
<1> DEFINE K == {k \in 1..Len(s) : s[k].ops # << >>}
<1>0. Len(s) \in Nat
  BY LenProperties
<1>1. CASE K = {}
  <2>1. WithoutEmpty(s) = << >>
    BY <1>1 DEF WithoutEmpty
  <2>2. << >> \in Seq(Groups) /\ Len(<< >>) = 0 /\ 0 \in 0..Len(s)
    BY <1>0
  <2>3. \A k \in 1..Len(s) : s[k].ops = << >>
    BY <1>1
  <2> QED
    BY <2>1, <2>2, <2>3
<1>2. CASE K # {}
  <2> DEFINE P(k) == s[k].ops # << >> /\ \A j \in (k + 1)..Len(s) : s[j].ops = << >>
             m == CHOOSE k \in 1..Len(s) : P(k)
  <2>1. PICK k \in K : \A j \in (k + 1)..Len(s) : j \notin K
    <3>1. K \in SUBSET (1..Len(s))
      OBVIOUS
    <3> HIDE DEF K
    <3> QED
      BY <1>0, <1>2, <3>1, LastGroup
  <2>2. k \in 1..Len(s) /\ P(k)
    BY <2>1, <1>0
  <2>3. m \in 1..Len(s) /\ P(m)
    BY <2>2
  <2>4. WithoutEmpty(s) = SubSeq(s, 1, m)
    BY <1>2 DEF WithoutEmpty
  <2> HIDE DEF m
  <2>5. \A j \in 1..m : s[j] \in Groups
    BY <1>0, <2>3, ElementOfSeq
  <2>6. /\ SubSeq(s, 1, m) \in Seq(Groups) /\ Len(SubSeq(s, 1, m)) = m
        /\ \A j \in 1..m : SubSeq(s, 1, m)[j] = s[j]
    BY <1>0, <2>3, <2>5, SubSeqProperties
  <2>7. \A j \in 1..Len(s) : j > m => s[j].ops = << >>
    BY <1>0, <2>3
  <2> QED
    BY <1>0, <2>3, <2>4, <2>6, <2>7
<1> QED
  BY <1>1, <1>2

-----------------------------------------------------------------------------
(* What the steps do to the coroutine they are of. *)

\* The coroutine is not concerned with ops of the other one and new ones.
LEMMA CoroFrame ==
    ASSUME NEW c, NEW s, NEW p, NEW x, NEW os, NEW hm, NEW od,
           CoroOK(c, s, p, x, os, hm, od),
           NEW os2, NEW hm2, NEW od2,
           \A o \in AllOps : (hm[o] = c /\ os[o] # "new") =>
               (hm2[o] = c /\ os2[o] = os[o] /\ od2[o] = od[o]),
           \A o \in AllOps : (hm2[o] = c /\ os2[o] # "new") => (hm[o] = c /\ os[o] # "new")
    PROVE  CoroOK(c, s, p, x, os2, hm2, od2)
<1>1. s \in Seq(Groups)
  BY DEF CoroOK
<1>2. \A k \in 1..Len(s) : \A i \in 1..Len(s[k].ops) :
         /\ s[k].ops[i] \in AllOps /\ hm[s[k].ops[i]] = c /\ os[s[k].ops[i]] # "new"
  BY <1>1, GroupFacts DEF CoroOK
<1>3. \A k \in 1..Len(s) : \A i \in 1..Len(s[k].ops) :
         /\ hm2[s[k].ops[i]] = c /\ os2[s[k].ops[i]] = os[s[k].ops[i]]
         /\ od2[s[k].ops[i]] = od[s[k].ops[i]]
  BY <1>2
<1>4. \A o \in AllOps : (hm2[o] = c /\ os2[o] \in {"added", "running", "counted"}) => In(s, o)
  <2> SUFFICES ASSUME NEW o \in AllOps, hm2[o] = c, os2[o] \in {"added", "running", "counted"}
               PROVE  In(s, o)
    OBVIOUS
  <2>1. hm[o] = c /\ os[o] # "new"
    OBVIOUS
  <2>2. os[o] = os2[o]
    BY <2>1
  <2> QED
    BY <2>1, <2>2 DEF CoroOK
<1>5. \A k \in 1..Len(s) : Fresh(s[k], os) => Fresh(s[k], os2)
  BY <1>3 DEF Fresh
<1>6. ASSUME s # << >>, Running(s[Len(s)], x, os, od) PROVE Running(s[Len(s)], x, os2, od2)
  <2> DEFINE g == s[Len(s)]
  <2>0. Len(s) \in 1..Len(s)
    BY <1>1, <1>6, LenProperties, EmptySeq
  <2>1. \A i \in 1..Len(g.ops) : os2[g.ops[i]] = os[g.ops[i]] /\ od2[g.ops[i]] = od[g.ops[i]]
    BY <1>3, <2>0
  <2> HIDE DEF g
  <2>2. Counted(g, os2) = Counted(g, os)
    BY <2>1 DEF Counted
  <2> QED
    BY <1>6, <2>1, <2>2 DEF Running, g
<1> QED
  BY <1>1, <1>2, <1>3, <1>4, <1>5, <1>6 DEF CoroOK

\* The place changes and no cleanup begins or ends.
LEMMA CoroMoves ==
    ASSUME NEW c, NEW s, NEW p, NEW x, NEW os, NEW hm, NEW od,
           CoroOK(c, s, p, x, os, hm, od), ~Active(p),
           NEW q, ~Active(q), q \in {"new", "cleaned", "gone"} => s = << >>
    PROVE  CoroOK(c, s, q, x, os, hm, od)
BY DEF CoroOK

\* A scope is opened, or the implicit one made.
LEMMA CoroOpens ==
    ASSUME NEW c, NEW s, NEW p, NEW x, NEW os, NEW hm, NEW od,
           CoroOK(c, s, p, x, os, hm, od), ~Active(p), p \notin {"new", "cleaned", "gone"},
           NEW b \in BOOLEAN
    PROVE  CoroOK(c, Append(s, NewGroup(b)), p, x, os, hm, od)
<1> DEFINE g == NewGroup(b)
           t == Append(s, g)
<1>1. g \in Groups /\ g.ops = << >> /\ g.n = 1 /\ g.err = FALSE
  BY DEF NewGroup, Groups
<1>2. s \in Seq(Groups)
  BY DEF CoroOK
<1> HIDE DEF g
<1>3. /\ t \in Seq(Groups) /\ Len(t) = Len(s) + 1 /\ Len(s) \in Nat
      /\ \A k \in 1..Len(s) : t[k] = s[k]
      /\ t[Len(s) + 1] = g
  BY <1>1, <1>2, AppendProperties, LenProperties
<1> HIDE DEF t
<1>4. /\ \A k \in 1..Len(t) : k \in 1..Len(s) \/ (k = Len(s) + 1 /\ 1..Len(t[k].ops) = {})
      /\ \A k \in 1..Len(s) : k \in 1..Len(t)
  BY <1>1, <1>3
<1>5. \A k \in 1..Len(t) : \A i \in 1..Len(t[k].ops) :
         hm[t[k].ops[i]] = c /\ os[t[k].ops[i]] # "new"
  <2>1. \A k \in 1..Len(s) : \A i \in 1..Len(s[k].ops) :
           hm[s[k].ops[i]] = c /\ os[s[k].ops[i]] # "new"
    BY DEF CoroOK
  <2> QED
    BY ONLY <2>1, <1>3, <1>4
<1>6. \A o \in AllOps : In(s, o) => In(t, o)
  BY <1>3, <1>4 DEF In
<1>7. OnceIn(t)
  <2>1. \A k \in 1..Len(t) : \A i \in 1..Len(t[k].ops) :
          k \in 1..Len(s) /\ i \in 1..Len(s[k].ops) /\ t[k].ops[i] = s[k].ops[i]
    BY <1>3, <1>4
  <2>2. OnceIn(s)
    BY DEF CoroOK
  <2> QED
    BY <2>1, <2>2, OnceKept
<1>8. \A k \in 1..Len(t) : Fresh(t[k], os)
  <2>1. Fresh(g, os)
    BY <1>1 DEF Fresh
  <2> QED
    BY <2>1, <1>3, <1>4 DEF CoroOK
<1>9. CoroOK(c, t, p, x, os, hm, od)
  BY <1>3, <1>5, <1>6, <1>7, <1>8 DEF CoroOK
<1> QED
  BY <1>9 DEF t, g

\* An op that is new becomes an added one of coroutine c, in the k-th group
\* of s, which has not been cleaned up.
Adds(c, s, k, o, os, hm, os2, hm2) ==
    /\ o \in AllOps /\ os[o] = "new" /\ k \in 1..Len(s) /\ s[k].n = 1
    /\ os2[o] = "added" /\ \A q \in AllOps : q # o => os2[q] = os[q]
    /\ hm2[o] = c /\ \A q \in AllOps : q # o => hm2[q] = hm[q]

\* An op is added to a group that has not been cleaned up.
LEMMA CoroAdds ==
    ASSUME NEW c, NEW s, NEW p, NEW x, NEW os, NEW hm, NEW od, NEW o, NEW k, NEW os2, NEW hm2,
           CoroOK(c, s, p, x, os, hm, od), ~Active(p), p \notin {"new", "cleaned", "gone"},
           Adds(c, s, k, o, os, hm, os2, hm2)
    PROVE  CoroOK(c, [s EXCEPT ![k].ops = Append(@, o)], p, x, os2, hm2, od)
<1> USE DEF Adds
<1> DEFINE t == [s EXCEPT ![k].ops = Append(@, o)]
           g == [s[k] EXCEPT !.ops = Append(@, o)]
<1>1. s \in Seq(Groups) /\ Len(s) \in Nat
  BY LenProperties DEF CoroOK
<1>2. /\ s[k] \in Groups /\ s[k].ops \in Seq(AllOps) /\ Len(s[k].ops) \in Nat
      /\ \A l \in 1..Len(s) : \A i \in 1..Len(s[l].ops) : s[l].ops[i] \in AllOps
  BY <1>1, GroupFacts
<1>3. /\ Append(s[k].ops, o) \in Seq(AllOps) /\ Len(Append(s[k].ops, o)) = Len(s[k].ops) + 1
      /\ \A i \in 1..Len(s[k].ops) : Append(s[k].ops, o)[i] = s[k].ops[i]
      /\ Append(s[k].ops, o)[Len(s[k].ops) + 1] = o
  BY <1>2, AppendProperties
<1>4. g \in Groups /\ g.ops = Append(s[k].ops, o) /\ g.n = s[k].n /\ g.err = s[k].err
  BY <1>2, <1>3 DEF Groups
<1>5. t = [s EXCEPT ![k] = g]
  OBVIOUS
<1> HIDE DEF g, t
<1>6. /\ t \in Seq(Groups) /\ Len(t) = Len(s) /\ t[k] = g
      /\ \A l \in 1..Len(s) : l # k => t[l] = s[l]
  BY <1>1, <1>4, <1>5, ExceptSeq
<1>7. \A l \in 1..Len(t) : \A i \in 1..Len(t[l].ops) :
        \/ l = k /\ i = Len(s[k].ops) + 1 /\ t[l].ops[i] = o
        \/ l \in 1..Len(s) /\ i \in 1..Len(s[l].ops) /\ t[l].ops[i] = s[l].ops[i]
             /\ s[l].ops[i] \in AllOps /\ s[l].ops[i] # o
  <2> SUFFICES ASSUME NEW l \in 1..Len(t), NEW i \in 1..Len(t[l].ops)
               PROVE  \/ l = k /\ i = Len(s[k].ops) + 1 /\ t[l].ops[i] = o
                      \/ l \in 1..Len(s) /\ i \in 1..Len(s[l].ops) /\ t[l].ops[i] = s[l].ops[i]
                           /\ s[l].ops[i] \in AllOps /\ s[l].ops[i] # o
    OBVIOUS
  <2>1. \A j \in 1..Len(s[l].ops) : s[l].ops[j] \in AllOps /\ s[l].ops[j] # o
    BY <1>2, <1>6 DEF CoroOK
  <2>2. CASE l = k
    <3>1. i \in 1..Len(s[k].ops) \/ i = Len(s[k].ops) + 1
      BY <2>2, <1>2, <1>3, <1>4, <1>6
    <3> QED
      BY <2>1, <2>2, <3>1, <1>3, <1>4, <1>6
  <2>3. CASE l # k
    BY <2>1, <2>3, <1>6
  <2> QED
    BY <2>2, <2>3
<1>8. /\ Len(s[k].ops) + 1 \in 1..Len(t[k].ops) /\ t[k].ops[Len(s[k].ops) + 1] = o
      /\ \A l \in 1..Len(s) : \A i \in 1..Len(s[l].ops) :
           i \in 1..Len(t[l].ops) /\ t[l].ops[i] = s[l].ops[i]
  <2>1. Len(s[k].ops) + 1 \in 1..Len(t[k].ops) /\ t[k].ops[Len(s[k].ops) + 1] = o
    BY <1>2, <1>3, <1>4, <1>6
  <2>2. ASSUME NEW l \in 1..Len(s), NEW i \in 1..Len(s[l].ops)
        PROVE  i \in 1..Len(t[l].ops) /\ t[l].ops[i] = s[l].ops[i]
    <3>0. \A j \in 1..Len(s[k].ops) : j \in 1..Len(t[k].ops) /\ t[k].ops[j] = s[k].ops[j]
      <4> DEFINE a == Append(s[k].ops, o)
      <4>1. t[k].ops = a
        BY <1>4, <1>6
      <4>2. Len(a) = Len(s[k].ops) + 1 /\ \A j \in 1..Len(s[k].ops) : a[j] = s[k].ops[j]
        BY <1>3
      <4> HIDE DEF a
      <4> QED
        BY <4>1, <4>2, <1>2
    <3>1. CASE l = k
      BY <3>0, <3>1
    <3>2. CASE l # k
      BY <3>2, <1>6
    <3> QED
      BY <3>1, <3>2
  <2> QED
    BY <2>1, <2>2
<1>9. \A l \in 1..Len(t) : \A i \in 1..Len(t[l].ops) :
         hm2[t[l].ops[i]] = c /\ os2[t[l].ops[i]] # "new"
  <2> SUFFICES ASSUME NEW l \in 1..Len(t), NEW i \in 1..Len(t[l].ops)
               PROVE  hm2[t[l].ops[i]] = c /\ os2[t[l].ops[i]] # "new"
    OBVIOUS
  <2>1. CASE t[l].ops[i] = o
    BY <2>1
  <2>2. CASE t[l].ops[i] # o
    <3>1. /\ l \in 1..Len(s) /\ i \in 1..Len(s[l].ops) /\ t[l].ops[i] = s[l].ops[i]
          /\ s[l].ops[i] \in AllOps
      BY <2>2, <1>7
    <3>2. hm[s[l].ops[i]] = c /\ os[s[l].ops[i]] # "new"
      BY <3>1 DEF CoroOK
    <3> QED
      BY <2>2, <3>1, <3>2
  <2> QED
    BY <2>1, <2>2
<1>10. \A q \in AllOps : (hm2[q] = c /\ os2[q] \in {"added", "running", "counted"}) => In(t, q)
  <2> SUFFICES ASSUME NEW q \in AllOps, hm2[q] = c, os2[q] \in {"added", "running", "counted"}
               PROVE  In(t, q)
    OBVIOUS
  <2>1. CASE q = o
    BY <2>1, <1>6, <1>8 DEF In
  <2>2. CASE q # o
    <3>1. In(s, q)
      BY <2>2 DEF CoroOK
    <3>2. PICK l \in 1..Len(s) : \E i \in 1..Len(s[l].ops) : s[l].ops[i] = q
      BY ONLY <3>1 DEF In
    <3>3. PICK i \in 1..Len(s[l].ops) : s[l].ops[i] = q
      BY ONLY <3>2
    <3>4. l \in 1..Len(t) /\ i \in 1..Len(t[l].ops) /\ t[l].ops[i] = q
      BY ONLY <3>3, <1>6, <1>8, l \in 1..Len(s), i \in 1..Len(s[l].ops)
    <3> QED
      BY ONLY <3>4 DEF In
  <2> QED
    BY <2>1, <2>2
<1>11. OnceIn(t)
  <2> SUFFICES ASSUME NEW l \in 1..Len(t), NEW m \in 1..Len(t),
                      NEW i \in 1..Len(t[l].ops), NEW j \in 1..Len(t[m].ops),
                      t[l].ops[i] = t[m].ops[j]
               PROVE  l = m /\ i = j
    BY DEF OnceIn
  <2>1. CASE t[l].ops[i] = o
    <3>1. l = k /\ i = Len(s[k].ops) + 1
      BY <2>1, <1>7
    <3>2. m = k /\ j = Len(s[k].ops) + 1
      <4>1. t[m].ops[j] = o
        BY <2>1
      <4> QED
        BY <4>1, <1>7
    <3> QED
      BY <3>1, <3>2
  <2>2. CASE t[l].ops[i] # o
    <3>1. /\ l \in 1..Len(s) /\ i \in 1..Len(s[l].ops) /\ t[l].ops[i] = s[l].ops[i]
          /\ m \in 1..Len(s) /\ j \in 1..Len(s[m].ops) /\ t[m].ops[j] = s[m].ops[j]
      BY <2>2, <1>7
    <3>2. OnceIn(s) /\ s[l].ops[i] = s[m].ops[j]
      BY <3>1 DEF CoroOK
    <3> QED
      BY <3>1, <3>2 DEF OnceIn
  <2> QED
    BY <2>1, <2>2
<1>12. \A l \in 1..Len(t) : Fresh(t[l], os2)
  <2> SUFFICES ASSUME NEW l \in 1..Len(t) PROVE Fresh(t[l], os2)
    OBVIOUS
  <2>1. Fresh(s[l], os)
    BY <1>6 DEF CoroOK
  <2>2. \A i \in 1..Len(t[l].ops) : os2[t[l].ops[i]] = "added"
    <3> SUFFICES ASSUME NEW i \in 1..Len(t[l].ops) PROVE os2[t[l].ops[i]] = "added"
      OBVIOUS
    <3>1. CASE t[l].ops[i] = o
      BY <3>1
    <3>2. CASE t[l].ops[i] # o
      <4>1. /\ i \in 1..Len(s[l].ops) /\ t[l].ops[i] = s[l].ops[i]
            /\ s[l].ops[i] \in AllOps /\ s[l].ops[i] # o
        BY <1>7, <3>2
      <4>2. os[s[l].ops[i]] = "added"
        BY ONLY <2>1, <4>1 DEF Fresh
      <4> QED
        BY <4>1, <4>2
    <3> QED
      BY <3>1, <3>2
  <2>3. /\ t[l].ops # << >> => t[l].n = 1
        /\ t[l].n = 1 => ~t[l].err
    BY <2>1, <1>4, <1>6 DEF Fresh
  <2> QED
    BY <2>2, <2>3 DEF Fresh
<1>13. CoroOK(c, t, p, x, os2, hm2, od)
  BY <1>6, <1>9, <1>10, <1>11, <1>12 DEF CoroOK
<1> QED
  BY <1>13 DEF t

\* Empty groups are popped.
LEMMA CoroTrims ==
    ASSUME NEW c, NEW s, NEW p, NEW x, NEW os, NEW hm, NEW od,
           CoroOK(c, s, p, x, os, hm, od), ~Active(p),
           NEW t \in Seq(Groups), NEW m \in 0..Len(s), Len(t) = m,
           \A k \in 1..m : t[k] = s[k],
           \A k \in 1..Len(s) : k > m => s[k].ops = << >>
    PROVE  CoroOK(c, t, p, x, os, hm, od)
<1>1. s \in Seq(Groups) /\ Len(s) \in Nat
  BY LenProperties DEF CoroOK
<1>2. \A k \in 1..Len(t) : k \in 1..Len(s) /\ t[k] = s[k]
  BY <1>1
<1>3. \A o \in AllOps : In(s, o) => In(t, o)
  <2> SUFFICES ASSUME NEW o \in AllOps, NEW k \in 1..Len(s), NEW i \in 1..Len(s[k].ops),
                      s[k].ops[i] = o
               PROVE  In(t, o)
    BY DEF In
  <2>1. k <= m
    <3>1. s[k].ops # << >>
      OBVIOUS
    <3> QED
      BY <3>1, <1>1
  <2>2. k \in 1..Len(t) /\ t[k] = s[k]
    BY <2>1, <1>1
  <2> QED
    BY <2>2 DEF In
<1>4. OnceIn(t)
  <2>1. OnceIn(s)
    BY DEF CoroOK
  <2> QED
    BY <1>2, <2>1, OnceKept
<1>5. s = << >> => t = << >>
  <2> SUFFICES ASSUME s = << >> PROVE t = << >>
    OBVIOUS
  <2>1. Len(t) = 0
    OBVIOUS
  <2> QED
    BY <2>1, EmptySeq
<1> QED
  BY <1>2, <1>3, <1>4, <1>5 DEF CoroOK

\* until_all_done() of the innermost group begins.
LEMMA CoroStarts ==
    ASSUME NEW c, NEW s, NEW p, NEW x, NEW os, NEW hm, NEW od,
           CoroOK(c, s, p, x, os, hm, od), ~Active(p),
           s # << >>, s[Len(s)].ops # << >>, NEW q, Active(q)
    PROVE  CoroOK(c, s, q, 1, os, hm, od) /\ s[Len(s)].err = FALSE
<1> DEFINE g == s[Len(s)]
<1>1. s \in Seq(Groups) /\ Len(s) \in 1..Len(s)
  BY LenProperties, EmptySeq DEF CoroOK
<1>2. g.ops \in Seq(AllOps) /\ Len(g.ops) \in Nat /\ g.n \in Nat /\ g.err \in BOOLEAN
  BY <1>1, GroupFacts
<1>3. Fresh(g, os)
  BY <1>1 DEF CoroOK
<1> HIDE DEF g
<1>4. g.ops # << >> /\ g.n = 1 /\ g.err = FALSE
  BY <1>2, <1>3 DEF Fresh, g
<1>5. Len(g.ops) > 0
  BY <1>2, <1>4, EmptySeq
<1>6. Counted(g, os) = {} /\ Cardinality({}) = 0
  BY <1>3, FS_EmptySet DEF Fresh, Counted
<1>7. Running(g, 1, os, od)
  <2>1. \A i \in 1..Len(g.ops) : i >= 1 /\ os[g.ops[i]] = "added"
    BY <1>3 DEF Fresh
  <2>2. 1 \in 0..Len(g.ops)
    BY <1>2, <1>5
  <2>3. Cardinality(Counted(g, os)) + 1 = g.n
    BY <1>4, <1>6
  <2> QED
    BY <1>4, <2>1, <2>2, <2>3 DEF Running
<1>8. q \notin {"new", "cleaned", "gone"}
  BY DEF Active
<1> QED
  BY <1>4, <1>7, <1>8 DEF CoroOK, g

\* The states of ops of the innermost group change, and its count.
RunsOn(s, os, t, y, os2, od2) ==
    /\ t \in Seq(Groups) /\ Len(t) = Len(s) /\ t[Len(s)].ops = s[Len(s)].ops
    /\ \A k \in 1..Len(s) : k # Len(s) => t[k] = s[k]
    /\ \E j \in 1..Len(s[Len(s)].ops) :
         /\ os2[s[Len(s)].ops[j]] # "new"
         /\ \A o \in AllOps : o # s[Len(s)].ops[j] => os2[o] = os[o]
    /\ Running(t[Len(s)], y, os2, od2)

LEMMA CoroRuns ==
    ASSUME NEW c, NEW s, NEW p, NEW x, NEW os, NEW hm, NEW od,
           CoroOK(c, s, p, x, os, hm, od), Active(p),
           NEW t, NEW y, NEW os2, NEW od2, RunsOn(s, os, t, y, os2, od2)
    PROVE  CoroOK(c, t, p, y, os2, hm, od2)
<1>0. /\ t \in Seq(Groups) /\ Len(t) = Len(s) /\ t[Len(s)].ops = s[Len(s)].ops
      /\ \A k \in 1..Len(s) : k # Len(s) => t[k] = s[k]
      /\ Running(t[Len(s)], y, os2, od2)
  BY DEF RunsOn
<1>00. PICK j \in 1..Len(s[Len(s)].ops) :
         /\ os2[s[Len(s)].ops[j]] # "new"
         /\ \A o \in AllOps : o # s[Len(s)].ops[j] => os2[o] = os[o]
  BY DEF RunsOn
<1> DEFINE u == s[Len(s)].ops[j]
           l == Len(s)
<1>1. s \in Seq(Groups) /\ l \in 1..Len(s) /\ s # << >>
  BY LenProperties, EmptySeq DEF CoroOK
<1>2. \A k \in 1..Len(s) : \A i \in 1..Len(s[k].ops) :
        s[k].ops[i] \in AllOps /\ hm[s[k].ops[i]] = c /\ os[s[k].ops[i]] # "new"
  BY <1>1, GroupFacts DEF CoroOK
<1>3. \A k \in 1..Len(s) : t[k].ops = s[k].ops
  BY <1>0
<1>4. u \in AllOps /\ hm[u] = c /\ os[u] # "new"
  BY <1>1, <1>2
<1>5. \A k \in 1..Len(t) : \A i \in 1..Len(t[k].ops) :
        hm[t[k].ops[i]] = c /\ os2[t[k].ops[i]] # "new"
  <2> SUFFICES ASSUME NEW k \in 1..Len(t), NEW i \in 1..Len(t[k].ops)
               PROVE  hm[t[k].ops[i]] = c /\ os2[t[k].ops[i]] # "new"
    OBVIOUS
  <2>1. k \in 1..Len(s) /\ i \in 1..Len(s[k].ops) /\ t[k].ops[i] = s[k].ops[i]
    BY <1>0, <1>3
  <2>2. hm[s[k].ops[i]] = c /\ os[s[k].ops[i]] # "new" /\ s[k].ops[i] \in AllOps
    BY <1>2, <2>1
  <2> QED
    BY <1>00, <2>1, <2>2
<1>6. \A o \in AllOps : In(s, o) => In(t, o)
  BY <1>0, <1>3 DEF In
<1>7. In(s, u)
  BY <1>1 DEF In
<1> HIDE DEF u
<1>8. \A o \in AllOps : (hm[o] = c /\ os2[o] \in {"added", "running", "counted"}) => In(t, o)
  <2> SUFFICES ASSUME NEW o \in AllOps, hm[o] = c, os2[o] \in {"added", "running", "counted"}
               PROVE  In(t, o)
    OBVIOUS
  <2>1. CASE o = u
    BY <2>1, <1>6, <1>7
  <2>2. CASE o # u
    <3>1. os2[o] = os[o]
      BY <1>00, <2>2 DEF u
    <3> QED
      BY <3>1, <1>6 DEF CoroOK
  <2> QED
    BY <2>1, <2>2
<1>9. OnceIn(s) /\ OnceIn(t)
  <2>1. OnceIn(s)
    BY DEF CoroOK
  <2>2. \A k \in 1..Len(t) : \A i \in 1..Len(t[k].ops) :
          k \in 1..Len(s) /\ i \in 1..Len(s[k].ops) /\ t[k].ops[i] = s[k].ops[i]
    BY <1>0, <1>3
  <2> QED
    BY <2>1, <2>2, OnceKept
<1>10. ASSUME NEW k \in 1..Len(t), k < Len(t) PROVE Fresh(t[k], os2)
  <2>1. k \in 1..Len(s) /\ k # Len(s) /\ k < Len(s) /\ t[k] = s[k]
    BY <1>0, <1>1, <1>10
  <2>2. Fresh(s[k], os)
    BY <2>1 DEF CoroOK
  <2>3. \A i \in 1..Len(s[k].ops) : s[k].ops[i] # u /\ s[k].ops[i] \in AllOps
    <3> SUFFICES ASSUME NEW i \in 1..Len(s[k].ops) PROVE s[k].ops[i] # u
      BY <1>2, <2>1
    <3>1. s[k].ops[i] = s[Len(s)].ops[j] => k = Len(s)
      BY <1>1, <1>9, <2>1 DEF OnceIn
    <3> QED
      BY <2>1, <3>1 DEF u
  <2>4. \A i \in 1..Len(s[k].ops) : os2[s[k].ops[i]] = os[s[k].ops[i]]
    BY <1>00, <2>3 DEF u
  <2> QED
    BY <2>1, <2>2, <2>4 DEF Fresh
<1>11. t # << >>
  <2>1. Len(t) # 0
    BY <1>0, <1>1
  <2> QED
    BY <2>1
<1>12. p \notin {"new", "cleaned", "gone"}
  BY DEF Active
<1> QED
  BY <1>0, <1>5, <1>8, <1>9, <1>10, <1>11, <1>12 DEF CoroOK

-----------------------------------------------------------------------------
(* A group that is being cleaned up. *)

Inj(w) == \A i, j \in 1..Len(w) : w[i] = w[j] => i = j

\* the loop initiates the next op
LEMMA GroupStarts ==
    ASSUME NEW g, g.ops \in Seq(AllOps), Inj(g.ops), NEW x, NEW os, NEW od, Running(g, x, os, od),
           x # 0, NEW os2, os2[g.ops[x]] = "running",
           \A o \in AllOps : o # g.ops[x] => os2[o] = os[o]
    PROVE  Running(g, IF x = Len(g.ops) THEN 0 ELSE x + 1, os2, od)
<1> DEFINE m == Len(g.ops)
           y == IF x = m THEN 0 ELSE x + 1
<1>1. m \in Nat /\ \A i \in 1..m : g.ops[i] \in AllOps
  BY ElementOfSeq, LenProperties
<1>2. x \in 0..m /\ g.ops # << >>
  BY DEF Running
<1>3. x \in 1..m
  BY <1>1, <1>2
<1>4. \A i \in 1..m : i # x => os2[g.ops[i]] = os[g.ops[i]]
  BY <1>1, <1>3 DEF Inj
<1>5. y \in 0..m
  BY <1>1, <1>3
<1>6. \A i \in 1..m : IF x # 0 /\ i >= x THEN os[g.ops[i]] = "added"
                      ELSE os[g.ops[i]] \in {"running", "counted", "done"}
  BY DEF Running
<1>7. \A i \in 1..m : (y # 0 /\ i >= y) <=> i > x
  BY <1>1, <1>3
<1>8. \A i \in 1..m : IF y # 0 /\ i >= y THEN os2[g.ops[i]] = "added"
                      ELSE os2[g.ops[i]] \in {"running", "counted", "done"}
  <2> HIDE DEF y
  <2> SUFFICES ASSUME NEW i \in 1..m
               PROVE  IF y # 0 /\ i >= y THEN os2[g.ops[i]] = "added"
                      ELSE os2[g.ops[i]] \in {"running", "counted", "done"}
    OBVIOUS
  <2>1. CASE i > x
    <3>1. os2[g.ops[i]] = "added"
      BY <2>1, <1>1, <1>3, <1>4, <1>6
    <3> QED
      BY <2>1, <3>1, <1>7
  <2>2. CASE i = x
    BY <2>2, <1>1, <1>3, <1>7
  <2>3. CASE i < x
    <3>1. os2[g.ops[i]] \in {"running", "counted", "done"}
      BY <2>3, <1>1, <1>3, <1>4, <1>6
    <3>2. ~(i > x)
      BY <2>3, <1>1, <1>3
    <3> QED
      BY <3>1, <3>2, <1>7
  <2> QED
    BY <2>1, <2>2, <2>3, <1>1, <1>3
<1>9. os[g.ops[x]] = "added"
  BY <1>1, <1>3, <1>6
<1>10. Counted(g, os2) = Counted(g, os)
  BY <1>3, <1>4, <1>9 DEF Counted
<1>11. \A i \in 1..m : os2[g.ops[i]] = "counted" => od[g.ops[i]] + 1 = g.n
  <2> SUFFICES ASSUME NEW i \in 1..m, os2[g.ops[i]] = "counted" PROVE od[g.ops[i]] + 1 = g.n
    OBVIOUS
  <2>1. i # x
    OBVIOUS
  <2>2. os[g.ops[i]] = "counted"
    BY <2>1, <1>4
  <2> QED
    BY <2>2 DEF Running
<1>12. Cardinality(Counted(g, os2)) + 1 = g.n
  BY <1>10 DEF Running
<1> HIDE DEF y
<1>13. Running(g, y, os2, od)
  BY <1>2, <1>5, <1>8, <1>11, <1>12 DEF Running
<1> QED
  BY <1>13 DEF y

\* a completion increments _n
LEMMA GroupCounts ==
    ASSUME NEW g, g.ops \in Seq(AllOps), g.n \in Nat, Inj(g.ops),
           NEW x, NEW os, NEW od, Running(g, x, os, od),
           NEW j \in 1..Len(g.ops), os[g.ops[j]] = "running",
           \A o \in AllOps : os[o] # "counted",
           NEW os2, os2[g.ops[j]] = "counted", \A o \in AllOps : o # g.ops[j] => os2[o] = os[o],
           NEW od2, od2[g.ops[j]] = g.n,
           NEW h, h.ops = g.ops, h.n = g.n + 1
    PROVE  Running(h, x, os2, od2)
<1> DEFINE m == Len(g.ops)
<1>1. m \in Nat /\ \A i \in 1..m : g.ops[i] \in AllOps
  BY ElementOfSeq, LenProperties
<1>2. \A i \in 1..m : i # j => os2[g.ops[i]] = os[g.ops[i]] /\ os2[g.ops[i]] # "counted"
  BY <1>1 DEF Inj
<1>3. \A i \in 1..m : IF x # 0 /\ i >= x THEN os[g.ops[i]] = "added"
                      ELSE os[g.ops[i]] \in {"running", "counted", "done"}
  BY DEF Running
<1>4. \A i \in 1..m : IF x # 0 /\ i >= x THEN os2[g.ops[i]] = "added"
                      ELSE os2[g.ops[i]] \in {"running", "counted", "done"}
  BY <1>2, <1>3
<1>5. /\ Counted(h, os2) = Counted(g, os) \cup {j}
      /\ j \notin Counted(g, os) /\ Counted(g, os) \subseteq 1..m
  BY <1>2 DEF Counted
<1>6. IsFiniteSet(Counted(g, os))
  <2>1. IsFiniteSet(1..m)
    <3>1. 1 \in Int /\ m \in Int
      BY <1>1
    <3> QED
      BY <3>1, FS_Interval
  <2> QED
    BY <2>1, <1>5, FS_Subset
<1>7. Cardinality(Counted(g, os) \cup {j}) = Cardinality(Counted(g, os)) + 1
  BY <1>5, <1>6, FS_AddElement
<1>8. Cardinality(Counted(h, os2)) + 1 = h.n
  BY <1>5, <1>7 DEF Running
<1>9. \A i \in 1..m : os2[g.ops[i]] = "counted" => od2[g.ops[i]] + 1 = h.n
  BY <1>2
<1>10. g.ops # << >> /\ x \in 0..m
  BY DEF Running
<1> QED
  BY <1>4, <1>8, <1>9, <1>10 DEF Running

\* the comparison of a completion that is not the last
LEMMA GroupCompares ==
    ASSUME NEW g, g.ops \in Seq(AllOps), Inj(g.ops), NEW x, NEW os, NEW od, Running(g, x, os, od),
           NEW j \in 1..Len(g.ops), os[g.ops[j]] = "counted",
           NEW os2, os2[g.ops[j]] = "done", \A o \in AllOps : o # g.ops[j] => os2[o] = os[o]
    PROVE  Running(g, x, os2, od)
<1> DEFINE m == Len(g.ops)
<1>1. m \in Nat /\ \A i \in 1..m : g.ops[i] \in AllOps
  BY ElementOfSeq, LenProperties
<1>2. \A i \in 1..m : i # j => os2[g.ops[i]] = os[g.ops[i]]
  BY <1>1 DEF Inj
<1>3. \A i \in 1..m : IF x # 0 /\ i >= x THEN os[g.ops[i]] = "added"
                      ELSE os[g.ops[i]] \in {"running", "counted", "done"}
  BY DEF Running
<1>4. \A i \in 1..m : IF x # 0 /\ i >= x THEN os2[g.ops[i]] = "added"
                      ELSE os2[g.ops[i]] \in {"running", "counted", "done"}
  BY <1>2, <1>3
<1>5. Counted(g, os2) = Counted(g, os)
  BY <1>2 DEF Counted
<1>6. \A i \in 1..m : os2[g.ops[i]] = "counted" => os[g.ops[i]] = "counted"
  BY <1>2
<1> QED
  BY <1>4, <1>5, <1>6 DEF Running

\* the completion that finds its group complete is the last: every op of the
\* group has been initiated and has finished
LEMMA GroupDone ==
    ASSUME NEW g, g.ops \in Seq(AllOps), NEW x, NEW os, NEW od, Running(g, x, os, od),
           NEW j \in 1..Len(g.ops), os[g.ops[j]] = "counted", od[g.ops[j]] = Len(g.ops)
    PROVE  /\ x = 0 /\ g.n # 1
           /\ \A i \in 1..Len(g.ops) : os[g.ops[i]] \in {"counted", "done"}
<1> DEFINE m == Len(g.ops)
<1>1. m \in Nat
  BY LenProperties
<1>2. IsFiniteSet(1..m) /\ Cardinality(1..m) = m
  <2>1. 1 \in Int /\ m \in Int
    BY <1>1
  <2>2. /\ IsFiniteSet(1..m)
        /\ Cardinality(1..m) = IF 1 > m THEN 0 ELSE m - 1 + 1
    BY <2>1, FS_Interval
  <2> QED
    BY <2>2, <1>1
<1>3. Counted(g, os) \subseteq 1..m
  BY DEF Counted
<1>4. IsFiniteSet(Counted(g, os)) /\ Cardinality(Counted(g, os)) \in Nat
  BY <1>2, <1>3, FS_Subset, FS_CardinalityType
<1>5. m + 1 = g.n /\ Cardinality(Counted(g, os)) + 1 = g.n
  BY DEF Running
<1>6. Cardinality(Counted(g, os)) = m
  BY <1>1, <1>4, <1>5
<1>7. Counted(g, os) = 1..m
  BY <1>2, <1>3, <1>6, FS_Subset
<1>8. \A i \in 1..m : os[g.ops[i]] \in {"counted", "done"}
  BY <1>7 DEF Counted
<1>9. x = 0
  <2>1. x \in 0..m
    BY DEF Running
  <2>2. x # 0 => x \in 1..m /\ x >= x
    BY <2>1, <1>1
  <2>3. x # 0 => os[g.ops[x]] = "added"
    BY <2>2 DEF Running
  <2> QED
    BY <2>2, <2>3, <1>8
<1>10. g.n # 1
  BY <1>1, <1>5
<1> QED
  BY <1>8, <1>9, <1>10

\* The innermost group ends, and is popped or emptied.
Ends(s, os, od, t, os2) ==
    /\ t \in Seq(Groups)
    /\ \/ Len(t) = Len(s) - 1
       \/ Len(t) = Len(s) /\ t[Len(s)].ops = << >> /\ t[Len(s)].n = s[Len(s)].n
    /\ \A k \in 1..Len(s) : k # Len(s) => t[k] = s[k]
    /\ \E j \in 1..Len(s[Len(s)].ops) :
         /\ os[s[Len(s)].ops[j]] = "counted" /\ od[s[Len(s)].ops[j]] = Len(s[Len(s)].ops)
         /\ os2[s[Len(s)].ops[j]] = "done"
         /\ \A o \in AllOps : o # s[Len(s)].ops[j] => os2[o] = os[o]
         /\ \A o \in AllOps : os[o] = "counted" => o = s[Len(s)].ops[j]

LEMMA CoroEnds ==
    ASSUME NEW c, NEW s, NEW p, NEW x, NEW os, NEW hm, NEW od,
           CoroOK(c, s, p, x, os, hm, od), Active(p),
           NEW t, NEW os2, Ends(s, os, od, t, os2),
           NEW q, ~Active(q), q \notin {"new", "cleaned", "gone"}
    PROVE  CoroOK(c, t, q, x, os2, hm, od)
<1>0. /\ t \in Seq(Groups)
      /\ \/ Len(t) = Len(s) - 1
         \/ Len(t) = Len(s) /\ t[Len(s)].ops = << >> /\ t[Len(s)].n = s[Len(s)].n
      /\ \A k \in 1..Len(s) : k # Len(s) => t[k] = s[k]
  BY DEF Ends
<1>00. PICK j \in 1..Len(s[Len(s)].ops) :
         /\ os[s[Len(s)].ops[j]] = "counted" /\ od[s[Len(s)].ops[j]] = Len(s[Len(s)].ops)
         /\ os2[s[Len(s)].ops[j]] = "done"
         /\ \A o \in AllOps : o # s[Len(s)].ops[j] => os2[o] = os[o]
         /\ \A o \in AllOps : os[o] = "counted" => o = s[Len(s)].ops[j]
  BY DEF Ends
<1> DEFINE l == Len(s)
           g == s[l]
           u == g.ops[j]
<1>1. s \in Seq(Groups) /\ l \in Nat /\ l \in 1..l /\ s # << >> /\ Running(g, x, os, od)
  BY LenProperties, EmptySeq DEF CoroOK
<1>2. g.ops \in Seq(AllOps) /\ g.n \in Nat
  BY <1>1, GroupFacts
<1>3. /\ x = 0 /\ g.n # 1
      /\ \A i \in 1..Len(g.ops) : os[g.ops[i]] \in {"counted", "done"}
  <2>1. j \in 1..Len(g.ops) /\ os[g.ops[j]] = "counted" /\ od[g.ops[j]] = Len(g.ops)
    BY <1>00
  <2> HIDE DEF g
  <2> QED
    BY <1>1, <1>2, <2>1, GroupDone
<1>4. \A k \in 1..l : \A i \in 1..Len(s[k].ops) :
        s[k].ops[i] \in AllOps /\ hm[s[k].ops[i]] = c /\ os[s[k].ops[i]] # "new"
  BY <1>1, GroupFacts DEF CoroOK
<1>5. OnceIn(s)
  BY DEF CoroOK
<1>6. \A k \in 1..l : k # l => \A i \in 1..Len(s[k].ops) :
        os[s[k].ops[i]] = "added" /\ os2[s[k].ops[i]] = "added"
  <2> SUFFICES ASSUME NEW k \in 1..l, k # l, NEW i \in 1..Len(s[k].ops)
               PROVE  os[s[k].ops[i]] = "added" /\ os2[s[k].ops[i]] = "added"
    OBVIOUS
  <2>1. k < l
    BY <1>1
  <2>2. Fresh(s[k], os)
    BY <2>1 DEF CoroOK
  <2>3. os[s[k].ops[i]] = "added"
    BY <2>2 DEF Fresh
  <2>4. s[k].ops[i] # u
    BY <1>00, <2>3
  <2> QED
    BY <1>00, <2>3, <2>4, <1>4
<1>7. \A k \in 1..Len(t) : k \in 1..l /\ (k # l \/ t[k].ops = << >>) /\ (k # l => t[k] = s[k])
  BY <1>0, <1>1
<1>8. \A k \in 1..Len(t) : \A i \in 1..Len(t[k].ops) :
        k \in 1..l /\ k # l /\ i \in 1..Len(s[k].ops) /\ t[k].ops[i] = s[k].ops[i]
  <2> SUFFICES ASSUME NEW k \in 1..Len(t), NEW i \in 1..Len(t[k].ops)
               PROVE  k \in 1..l /\ k # l /\ i \in 1..Len(s[k].ops) /\ t[k].ops[i] = s[k].ops[i]
    OBVIOUS
  <2>1. t[k].ops # << >>
    OBVIOUS
  <2> QED
    BY <2>1, <1>7
<1>9. \A k \in 1..Len(t) : \A i \in 1..Len(t[k].ops) :
        hm[t[k].ops[i]] = c /\ os2[t[k].ops[i]] # "new"
  BY <1>0, <1>00, <1>4, <1>6, <1>8
<1>10. ASSUME NEW o \in AllOps, hm[o] = c, os2[o] \in {"added", "running", "counted"}
       PROVE  In(t, o)
  <2>1. o # u /\ os2[o] = os[o]
    BY <1>00, <1>10
  <2>2. In(s, o)
    BY <1>10, <2>1 DEF CoroOK
  <2>3. PICK k \in 1..l : \E i \in 1..Len(s[k].ops) : s[k].ops[i] = o
    BY <2>2 DEF In
  <2>4. PICK i \in 1..Len(s[k].ops) : s[k].ops[i] = o
    BY <2>3
  <2>5. k # l
    <3>1. os[o] # "counted"
      BY <1>00, <2>1
    <3>2. os[o] # "done"
      BY <1>10, <2>1
    <3> QED
      BY <3>1, <3>2, <2>4, <1>3
  <2>6. k \in 1..Len(t) /\ t[k] = s[k]
    BY <1>0, <2>5, <1>1
  <2> QED
    BY <2>4, <2>6 DEF In
<1>11. OnceIn(t)
  BY <1>5, <1>8, OnceKept
<1>12. ASSUME NEW k \in 1..Len(t) PROVE Fresh(t[k], os2)
  <2>1. CASE k # l
    <3>1. k \in 1..l /\ k < l /\ t[k] = s[k]
      BY <2>1, <1>1, <1>7
    <3>2. Fresh(s[k], os)
      BY <3>1 DEF CoroOK
    <3> QED
      BY <2>1, <3>1, <3>2, <1>6 DEF Fresh
  <2>2. CASE k = l
    <3>1. t[k].ops = << >> /\ t[k].n # 1
      BY <1>0, <2>2, <1>1, <1>3
    <3> QED
      BY <3>1 DEF Fresh
  <2> QED
    BY <2>1, <2>2
<1> QED
  BY <1>0, <1>3, <1>9, <1>10, <1>11, <1>12 DEF CoroOK

-----------------------------------------------------------------------------
(* The steps.  First what they have in common. *)

\* add_cleanup() and next(): in the current scope, or the implicit one
LEMMA CoroAddsToTop ==
    ASSUME NEW c, NEW s, NEW p, NEW x, NEW os, NEW hm, NEW od,
           CoroOK(c, s, p, x, os, hm, od), ~Active(p), p \notin {"new", "cleaned", "gone"},
           NEW o \in AllOps, os[o] = "new", s # << >> => s[Len(s)].n = 1,
           NEW os2, os2[o] = "added", \A q \in AllOps : q # o => os2[q] = os[q],
           NEW hm2, hm2[o] = c, \A q \in AllOps : q # o => hm2[q] = hm[q]
    PROVE  CoroOK(c, WithOp(s, o), p, x, os2, hm2, od)
<1>1. s \in Seq(Groups)
  BY DEF CoroOK
<1>2. CASE s # << >>
  <2>1. Len(s) \in 1..Len(s)
    BY <1>1, <1>2, LenProperties, EmptySeq
  <2>2. WithOp(s, o) = [s EXCEPT ![Len(s)].ops = Append(@, o)]
    BY <1>2 DEF WithOp
  <2>3. s[Len(s)].n = 1
    BY <1>2
  <2> DEFINE k == Len(s)
  <2>4. k \in 1..Len(s) /\ s[k].n = 1
    BY <2>1, <2>3
  <2> HIDE DEF k
  <2>5. CoroOK(c, [s EXCEPT ![k].ops = Append(@, o)], p, x, os2, hm2, od)
    <3>1. Adds(c, s, k, o, os, hm, os2, hm2)
      BY <2>4 DEF Adds
    <3> QED
      BY <3>1, CoroAdds
  <2> QED
    BY <2>2, <2>5 DEF k
<1>3. CASE s = << >>
  <2> DEFINE t == Append(s, NewGroup(FALSE))
  <2>1. CoroOK(c, t, p, x, os, hm, od)
    BY CoroOpens
  <2>2. t = <<NewGroup(FALSE)>> /\ Len(t) = 1 /\ t[1] = NewGroup(FALSE)
    BY <1>3
  <2>3. NewGroup(FALSE).n = 1 /\ NewGroup(FALSE).ops = << >>
    BY DEF NewGroup
  <2>4. WithOp(s, o) = [t EXCEPT ![1].ops = Append(@, o)]
    <3>1. Append(<< >>, o) = <<o>>
      OBVIOUS
    <3>2. WithOp(s, o) = << [NewGroup(FALSE) EXCEPT !.ops = <<o>>] >>
      BY <1>3 DEF WithOp
    <3> DEFINE g == NewGroup(FALSE)
    <3>3. [<<g>> EXCEPT ![1].ops = Append(@, o)] = << [g EXCEPT !.ops = Append(@, o)] >>
      <4> HIDE DEF g
      <4> QED
        OBVIOUS
    <3>4. [g EXCEPT !.ops = Append(@, o)] = [g EXCEPT !.ops = <<o>>]
      BY <2>3, <3>1
    <3> HIDE DEF g
    <3> QED
      BY <2>2, <3>2, <3>3, <3>4 DEF g
  <2> HIDE DEF t
  <2> DEFINE k == 1
  <2>5. k \in 1..Len(t) /\ t[k].n = 1
    <3>1. t[1].n = NewGroup(FALSE).n
      BY <2>2
    <3>2. 1 \in 1..Len(t)
      BY <2>2
    <3> QED
      BY <3>1, <3>2, <2>3
  <2> HIDE DEF k
  <2>6. CoroOK(c, [t EXCEPT ![k].ops = Append(@, o)], p, x, os2, hm2, od)
    <3>1. Adds(c, t, k, o, os, hm, os2, hm2)
      BY <2>5 DEF Adds
    <3> QED
      BY <2>1, <3>1, CoroAdds
  <2> QED
    BY <2>4, <2>6 DEF k
<1> QED
  BY <1>2, <1>3

\* A step of coroutine c leaves the other one alone, or moves it from one
\* place to another where no cleanup goes on.
LEMMA StepOfCoro ==
    ASSUME CorosOK, NEW c \in Coros,
           CoroOK(c, stack'[c], pc'[c], next'[c], ost', home', old'),
           \A d \in Coros : d # c =>
             /\ stack'[d] = stack[d] /\ next'[d] = next[d]
             /\ \/ pc'[d] = pc[d]
                \/ ~Active(pc[d]) /\ ~Active(pc'[d]) /\ pc'[d] \notin {"new", "cleaned", "gone"}
             /\ \A o \in AllOps : (home[o] = d /\ ost[o] # "new") =>
                  (home'[o] = d /\ ost'[o] = ost[o] /\ old'[o] = old[o])
             /\ \A o \in AllOps : (home'[o] = d /\ ost'[o] # "new") => (home[o] = d /\ ost[o] # "new")
    PROVE  CorosOK'
<1> SUFFICES ASSUME NEW d \in Coros, d # c
             PROVE  CoroOK(d, stack'[d], pc'[d], next'[d], ost', home', old')
  BY DEF CorosOK
<1>1. CoroOK(d, stack[d], pc[d], next[d], ost, home, old)
  BY DEF CorosOK
<1>2. CoroOK(d, stack[d], pc[d], next[d], ost', home', old')
  <2> DEFINE s == stack[d]
             p == pc[d]
             x == next[d]
  <2>1. CoroOK(d, s, p, x, ost, home, old)
    BY <1>1
  <2>2. /\ \A o \in AllOps : (home[o] = d /\ ost[o] # "new") =>
             (home'[o] = d /\ ost'[o] = ost[o] /\ old'[o] = old[o])
        /\ \A o \in AllOps : (home'[o] = d /\ ost'[o] # "new") => (home[o] = d /\ ost[o] # "new")
    OBVIOUS
  <2> HIDE DEF s, p, x
  <2>3. CoroOK(d, s, p, x, ost', home', old')
    BY <2>1, <2>2, CoroFrame
  <2> QED
    BY <2>3 DEF s, p, x
<1>3. CoroOK(d, stack[d], pc'[d], next[d], ost', home', old')
  <2>1. CASE pc'[d] = pc[d]
    BY <1>2, <2>1
  <2>2. CASE ~Active(pc[d]) /\ ~Active(pc'[d]) /\ pc'[d] \notin {"new", "cleaned", "gone"}
    BY <1>2, <2>2, CoroMoves
  <2> QED
    BY <2>1, <2>2
<1> QED
  BY <1>3

\* Failures known before are known after, if none is added and the place of a
\* coroutine changes between two where no cleanup goes on.
LEMMA FailStill ==
    ASSUME FailsOK, NEW d \in Coros, res'[d] = res[d], cerr'[d] = cerr[d],
           Failed(d, home', ofail') <=> Failed(d, home, ofail),
           \/ pc'[d] = pc[d] /\ stack'[d] = stack[d]
           \/ /\ pc[d] \in {"new", "body", "yielded", "awaiting"}
              /\ pc'[d] \in {"new", "body", "yielded", "awaiting", "pleaving"}
    PROVE  FailOK(d, stack'[d], pc'[d], res'[d], cerr'[d], home', ofail')
<1>1. FailOK(d, stack[d], pc[d], res[d], cerr[d], home, ofail)
  BY DEF FailsOK
<1>2. CASE pc'[d] = pc[d] /\ stack'[d] = stack[d]
  BY <1>1, <1>2 DEF FailOK
<1>3. CASE /\ pc[d] \in {"new", "body", "yielded", "awaiting"}
           /\ pc'[d] \in {"new", "body", "yielded", "awaiting", "pleaving"}
  <2>1. ~Active(pc[d]) /\ ~Active(pc'[d])
    BY <1>3 DEF Active
  <2> QED
    BY <1>1, <1>3, <2>1 DEF FailOK
<1> QED
  BY <1>2, <1>3

\* TypeOK and CorosOK at one coroutine
LEMMA CoroFacts ==
    ASSUME CleanupInv, NEW c \in Coros
    PROVE  /\ CoroOK(c, stack[c], pc[c], next[c], ost, home, old)
           /\ FailOK(c, stack[c], pc[c], res[c], cerr[c], home, ofail)
           /\ stack[c] \in Seq(Groups) /\ Len(stack[c]) \in Nat
           /\ stack[c] # << >> => Len(stack[c]) \in 1..Len(stack[c])
           /\ Top(c) = stack[c][Len(stack[c])]
           /\ GenOp \in AllOps /\ Ops \subseteq AllOps
BY LenProperties, EmptySeq DEF CleanupInv, TypeOK, CorosOK, FailsOK, Top, Last, AllOps

\* Steps of the body that touch no op.
LEMMA StepOpenScope == ASSUME CleanupInv, NEW c \in Coros, OpenScope(c) PROVE CleanupInv'
<1>1. /\ pc[c] = "body" /\ stack' = [stack EXCEPT ![c] = Append(stack[c], NewGroup(TRUE))]
      /\ pc' = pc /\ next' = next /\ res' = res /\ cerr' = cerr /\ ost' = ost /\ home' = home
      /\ ofail' = ofail /\ old' = old
  BY DEF OpenScope
<1>2. TypeOK
  BY DEF CleanupInv
<1>3. /\ stack'[c] = Append(stack[c], NewGroup(TRUE))
      /\ \A d \in Coros : d # c => stack'[d] = stack[d]
  BY <1>1, <1>2 DEF TypeOK
<1>4. CoroOK(c, stack'[c], pc'[c], next'[c], ost', home', old')
  <2>1. CoroOK(c, Append(stack[c], NewGroup(TRUE)), pc[c], next[c], ost, home, old)
    BY <1>1, CoroFacts, CoroOpens DEF Active
  <2> QED
    BY <1>1, <1>3, <2>1
<1>5. CorosOK'
  BY <1>1, <1>3, <1>4, StepOfCoro DEF CleanupInv
<1>6. TypeOK'
  <2>1. stack' \in [Coros -> Seq(Groups)]
    BY <1>1, <1>2, <1>4, <1>3 DEF TypeOK, CoroOK
  <2> QED
    BY <1>1, <1>2, <2>1 DEF TypeOK
<1>7. FailsOK'
  <2> SUFFICES ASSUME NEW d \in Coros
               PROVE  FailOK(d, stack'[d], pc'[d], res'[d], cerr'[d], home', ofail')
    BY DEF FailsOK
  <2>1. pc'[d] = pc[d] /\ res'[d] = res[d] /\ cerr'[d] = cerr[d] /\ (d = c \/ stack'[d] = stack[d])
    BY <1>1, <1>3
  <2>2. Failed(d, home', ofail') <=> Failed(d, home, ofail)
    BY <1>1 DEF Failed
  <2> QED
    BY <1>1, <2>1, <2>2, FailStill DEF CleanupInv
<1> QED
  BY <1>1, <1>5, <1>6, <1>7 DEF CleanupInv, OneCounted, NotYet

LEMMA StepCloseScope == ASSUME CleanupInv, NEW c \in Coros, CloseScope(c) PROVE CleanupInv'
<1> DEFINE s == stack[c]
           t == Front(s)
<1>1. /\ pc[c] = "body" /\ stack' = [stack EXCEPT ![c] = t]
      /\ s # << >> /\ Top(c).ops = << >>
      /\ pc' = pc /\ next' = next /\ res' = res /\ cerr' = cerr /\ ost' = ost /\ home' = home
      /\ ofail' = ofail /\ old' = old
  BY DEF CloseScope
<1>2. TypeOK
  BY DEF CleanupInv
<1>3. /\ stack'[c] = t
      /\ \A d \in Coros : d # c => stack'[d] = stack[d]
  BY <1>1, <1>2 DEF TypeOK
<1>4. CoroOK(c, stack'[c], pc'[c], next'[c], ost', home', old')
  <2>1. /\ t \in Seq(Groups) /\ Len(t) = Len(s) - 1
        /\ \A k \in 1..Len(s) - 1 : t[k] = s[k]
    <3>1. s \in Seq(Groups) /\ Len(s) \in 1..Len(s) /\ Len(s) \in Nat
      BY <1>1, CoroFacts
    <3>2. \A k \in 1..Len(s) - 1 : s[k] \in Groups
      BY <3>1, ElementOfSeq
    <3>3. 1 \in Int /\ Len(s) - 1 \in Int /\ Len(s) - 1 >= 0
      BY <3>1
    <3> QED
      BY <3>1, <3>2, <3>3, SubSeqProperties DEF Front
  <2>2. CoroOK(c, s, pc[c], next[c], ost, home, old) /\ Len(s) \in 1..Len(s) /\ Top(c) = s[Len(s)]
    BY <1>1, CoroFacts
  <2>3. Len(s) - 1 \in 0..Len(s) /\ \A k \in 1..Len(s) : k > Len(s) - 1 => k = Len(s)
    BY <2>2
  <2>4. ~Active(pc[c])
    BY <1>1 DEF Active
  <2> HIDE DEF s, t
  <2>5. CoroOK(c, t, pc[c], next[c], ost, home, old)
    BY <1>1, <2>1, <2>2, <2>3, <2>4, CoroTrims
  <2> QED
    BY <1>1, <1>3, <2>5
<1>5. CorosOK'
  BY <1>1, <1>3, <1>4, StepOfCoro DEF CleanupInv
<1>6. TypeOK'
  <2>1. stack' \in [Coros -> Seq(Groups)]
    BY <1>1, <1>2, <1>4, <1>3 DEF TypeOK, CoroOK
  <2> QED
    BY <1>1, <1>2, <2>1 DEF TypeOK
<1>7. FailsOK'
  <2> SUFFICES ASSUME NEW d \in Coros
               PROVE  FailOK(d, stack'[d], pc'[d], res'[d], cerr'[d], home', ofail')
    BY DEF FailsOK
  <2>1. pc'[d] = pc[d] /\ res'[d] = res[d] /\ cerr'[d] = cerr[d] /\ (d = c \/ stack'[d] = stack[d])
    BY <1>1, <1>3
  <2>2. Failed(d, home', ofail') <=> Failed(d, home, ofail)
    BY <1>1 DEF Failed
  <2> QED
    BY <1>1, <2>1, <2>2, FailStill DEF CleanupInv
<1> QED
  BY <1>1, <1>5, <1>6, <1>7 DEF CleanupInv, OneCounted, NotYet

Places == {"new", "body", "yielded", "awaiting", "scope", "leaving", "cleanup",
           "pleaving", "pcleanup", "cleaned", "gone"}

\* A new op fails nobody.
LEMMA NewFailsNobody ==
    ASSUME CleanupInv, NEW c \in Coros, NEW o \in AllOps, ost[o] = "new",
           home' = [home EXCEPT ![o] = c], ofail' = ofail, NEW d \in Coros
    PROVE  Failed(d, home', ofail') <=> Failed(d, home, ofail)
<1>1. ~ofail[o]
  BY DEF CleanupInv, NotYet
<1>2. \A q \in AllOps : q # o => home'[q] = home[q]
  BY DEF CleanupInv, TypeOK
<1> QED
  BY <1>1, <1>2 DEF Failed

\* An op is added to coroutine c, whose stack becomes t.
LEMMA StepAdds ==
    ASSUME CleanupInv, NEW c \in Coros, NEW o \in AllOps, ost[o] = "new", pc[c] = "body", NEW t,
           stack' = [stack EXCEPT ![c] = t], ost' = [ost EXCEPT ![o] = "added"],
           home' = [home EXCEPT ![o] = c],
           next' = next, res' = res, cerr' = cerr, ofail' = ofail, old' = old,
           pc' \in [Coros -> Places],
           \A d \in Coros : \/ pc'[d] = pc[d]
                            \/ pc[d] \in {"new", "body", "yielded"} /\ pc'[d] \in {"body", "awaiting"},
           GenOK(pc', ost'[GenOp], home'[GenOp]),
           CoroOK(c, t, pc[c], next[c], ost', home', old)
    PROVE  CleanupInv'
<1>1. TypeOK
  BY DEF CleanupInv
<1>2. /\ stack'[c] = t /\ \A d \in Coros : d # c => stack'[d] = stack[d]
      /\ ost'[o] = "added" /\ \A q \in AllOps : q # o => ost'[q] = ost[q]
      /\ home'[o] = c /\ \A q \in AllOps : q # o => home'[q] = home[q]
  BY <1>1 DEF TypeOK
<1>3. \A d \in Coros : pc'[d] # pc[d] =>
        ~Active(pc[d]) /\ ~Active(pc'[d]) /\ pc'[d] \notin {"new", "cleaned", "gone"}
  BY DEF Active
<1>4. CoroOK(c, stack'[c], pc'[c], next'[c], ost', home', old')
  <2>1. CoroOK(c, t, pc'[c], next[c], ost', home', old)
    <3>1. CASE pc'[c] = pc[c]
      BY <3>1
    <3>2. CASE pc'[c] # pc[c]
      <4>1. ~Active(pc[c]) /\ ~Active(pc'[c]) /\ pc'[c] \notin {"new", "cleaned", "gone"}
        BY <3>2, <1>3
      <4> QED
        BY <4>1, CoroMoves
    <3> QED
      BY <3>1, <3>2
  <2> QED
    BY <2>1, <1>2
<1>5. CorosOK'
  <2>1. CorosOK
    BY DEF CleanupInv
  <2>2. ASSUME NEW d \in Coros, d # c
        PROVE  /\ stack'[d] = stack[d] /\ next'[d] = next[d]
               /\ \/ pc'[d] = pc[d]
                  \/ ~Active(pc[d]) /\ ~Active(pc'[d]) /\ pc'[d] \notin {"new", "cleaned", "gone"}
               /\ \A q \in AllOps : (home[q] = d /\ ost[q] # "new") =>
                    (home'[q] = d /\ ost'[q] = ost[q] /\ old'[q] = old[q])
               /\ \A q \in AllOps : (home'[q] = d /\ ost'[q] # "new") => (home[q] = d /\ ost[q] # "new")
    BY <1>2, <1>3, <2>2
  <2> QED
    BY <2>1, <2>2, <1>4, StepOfCoro
<1>6. TypeOK'
  <2>1. stack' \in [Coros -> Seq(Groups)]
    BY <1>1, <1>2 DEF TypeOK, CoroOK
  <2>2. ost' \in [AllOps -> {"new", "added", "running", "counted", "done"}]
    BY <1>1 DEF TypeOK
  <2>3. home' \in [AllOps -> Coros]
    BY <1>1 DEF TypeOK
  <2> QED
    BY <1>1, <2>1, <2>2, <2>3 DEF TypeOK, Places
<1>7. FailsOK'
  <2> SUFFICES ASSUME NEW d \in Coros
               PROVE  FailOK(d, stack'[d], pc'[d], res'[d], cerr'[d], home', ofail')
    BY DEF FailsOK
  <2>1. Failed(d, home', ofail') <=> Failed(d, home, ofail)
    BY NewFailsNobody
  <2>2. \/ pc'[d] = pc[d] /\ stack'[d] = stack[d]
        \/ /\ pc[d] \in {"new", "body", "yielded", "awaiting"}
           /\ pc'[d] \in {"new", "body", "yielded", "awaiting", "pleaving"}
    BY <1>2
  <2> QED
    BY <2>1, <2>2, FailStill DEF CleanupInv
<1>8. OneCounted' /\ NotYet'
  BY <1>2 DEF CleanupInv, OneCounted, NotYet
<1> QED
  BY <1>5, <1>6, <1>7, <1>8 DEF CleanupInv

\* lazy_async_op_group::add() finds _n == 1
LEMMA AddsToFresh ==
    ASSUME CleanupInv, ~Reuse, NEW c \in Coros, NEW o \in AllOps, ost[o] = "new", pc[c] = "body",
           stack[c] # << >> => CanAdd(Top(c)),
           ost' = [ost EXCEPT ![o] = "added"], home' = [home EXCEPT ![o] = c]
    PROVE  CoroOK(c, WithOp(stack[c], o), pc[c], next[c], ost', home', old)
<1>1. /\ ost'[o] = "added" /\ \A q \in AllOps : q # o => ost'[q] = ost[q]
      /\ home'[o] = c /\ \A q \in AllOps : q # o => home'[q] = home[q]
  BY DEF CleanupInv, TypeOK
<1> DEFINE s == stack[c]
           p == pc[c]
           x == next[c]
<1>2. CoroOK(c, s, p, x, ost, home, old)
  BY CoroFacts
<1>3. s # << >> => s[Len(s)].n = 1
  BY CoroFacts DEF CanAdd
<1>4. ~Active(p) /\ p \notin {"new", "cleaned", "gone"}
  BY DEF Active
<1> DEFINE os == ost'
           hm == home'
<1>5. /\ os[o] = "added" /\ \A q \in AllOps : q # o => os[q] = ost[q]
      /\ hm[o] = c /\ \A q \in AllOps : q # o => hm[q] = home[q]
  BY <1>1
<1> HIDE DEF s, p, x, os, hm
<1>6. CoroOK(c, WithOp(s, o), p, x, os, hm, old)
  BY ONLY <1>2, <1>3, <1>4, <1>5, o \in AllOps, ost[o] = "new", CoroAddsToTop
<1> QED
  BY <1>6 DEF s, p, x, os, hm

LEMMA StepAddCleanup ==
    ASSUME ConstAssumption, ~Reuse, CleanupInv, NEW c \in Coros, NEW o \in Ops, AddCleanup(c, o)
    PROVE  CleanupInv'
<1>1. /\ pc[c] = "body" /\ ost[o] = "new" /\ (stack[c] # << >> => CanAdd(Top(c)))
      /\ stack' = [stack EXCEPT ![c] = WithOp(stack[c], o)]
      /\ ost' = [ost EXCEPT ![o] = "added"] /\ home' = [home EXCEPT ![o] = c]
      /\ pc' = pc /\ next' = next /\ res' = res /\ cerr' = cerr /\ ofail' = ofail /\ old' = old
  BY DEF AddCleanup
<1>2. o \in AllOps /\ o # GenOp /\ GenOp \in AllOps
  BY DEF AllOps, ConstAssumption
<1>3. CoroOK(c, WithOp(stack[c], o), pc[c], next[c], ost', home', old)
  BY <1>1, <1>2, AddsToFresh
<1>4. GenOK(pc', ost'[GenOp], home'[GenOp])
  <2>1. ost'[GenOp] = ost[GenOp] /\ home'[GenOp] = home[GenOp]
    BY <1>1, <1>2 DEF CleanupInv, TypeOK
  <2> QED
    BY <1>1, <2>1 DEF CleanupInv
<1>5. pc' \in [Coros -> Places]
  BY <1>1 DEF CleanupInv, TypeOK, Places
<1> QED
  BY <1>1, <1>2, <1>3, <1>4, <1>5, StepAdds

LEMMA StepAddToScope ==
    ASSUME ConstAssumption, ~Reuse, CleanupInv, NEW c \in Coros, NEW o \in Ops,
           NEW k \in 1..MaxDepth, AddToScope(c, k, o)
    PROVE  CleanupInv'
<1> DEFINE t == [stack[c] EXCEPT ![k].ops = Append(@, o)]
<1>1. /\ pc[c] = "body" /\ ost[o] = "new" /\ k < Len(stack[c]) /\ CanAdd(stack[c][k])
      /\ stack' = [stack EXCEPT ![c][k].ops = Append(@, o)]
      /\ ost' = [ost EXCEPT ![o] = "added"] /\ home' = [home EXCEPT ![o] = c]
      /\ pc' = pc /\ next' = next /\ res' = res /\ cerr' = cerr /\ ofail' = ofail /\ old' = old
  BY DEF AddToScope
<1>2. o \in AllOps /\ o # GenOp /\ GenOp \in AllOps
  BY DEF AllOps, ConstAssumption
<1>3. stack' = [stack EXCEPT ![c] = t]
  BY <1>1
<1>4. k \in 1..Len(stack[c]) /\ stack[c][k].n = 1
  BY <1>1, CoroFacts DEF CanAdd, ConstAssumption
<1>5. /\ ost'[o] = "added" /\ \A q \in AllOps : q # o => ost'[q] = ost[q]
      /\ home'[o] = c /\ \A q \in AllOps : q # o => home'[q] = home[q]
  BY <1>1, <1>2 DEF CleanupInv, TypeOK
<1>6. CoroOK(c, t, pc[c], next[c], ost', home', old)
  <2> DEFINE s == stack[c]
             p == pc[c]
             x == next[c]
  <2>1. CoroOK(c, s, p, x, ost, home, old) /\ k \in 1..Len(s) /\ s[k].n = 1
    BY <1>4, CoroFacts
  <2>2. ~Active(p) /\ p \notin {"new", "cleaned", "gone"}
    BY <1>1 DEF Active
  <2> DEFINE os == ost'
             hm == home'
  <2>3. /\ os[o] = "added" /\ \A q \in AllOps : q # o => os[q] = ost[q]
        /\ hm[o] = c /\ \A q \in AllOps : q # o => hm[q] = home[q]
    BY <1>5
  <2>4. o \in AllOps /\ ost[o] = "new"
    BY <1>1, <1>2
  <2> HIDE DEF s, p, x, os, hm
  <2>5. CoroOK(c, [s EXCEPT ![k].ops = Append(@, o)], p, x, os, hm, old)
    <3>1. Adds(c, s, k, o, ost, home, os, hm)
      BY ONLY <2>1, <2>3, <2>4 DEF Adds
    <3> QED
      BY ONLY <2>1, <2>2, <3>1, CoroAdds
  <2> QED
    BY <2>5 DEF s, p, x, os, hm
<1>7. GenOK(pc', ost'[GenOp], home'[GenOp])
  <2>1. ost'[GenOp] = ost[GenOp] /\ home'[GenOp] = home[GenOp]
    BY <1>2, <1>5
  <2> QED
    BY <1>1, <2>1 DEF CleanupInv
<1>8. pc' \in [Coros -> Places]
  BY <1>1 DEF CleanupInv, TypeOK, Places
<1> HIDE DEF t
<1> QED
  BY <1>1, <1>2, <1>3, <1>6, <1>7, <1>8, StepAdds

LEMMA StepNextOfGen ==
    ASSUME ConstAssumption, ~Reuse, CleanupInv, NextOfGen
    PROVE  CleanupInv'
<1>1. /\ pc["task"] = "body" /\ pc' = [pc EXCEPT !["task"] = "awaiting", !["gen"] = "body"]
      /\ next' = next /\ res' = res /\ cerr' = cerr /\ home' = home /\ ofail' = ofail /\ old' = old
  BY DEF NextOfGen
<1>2. TypeOK /\ GenOK(pc, ost[GenOp], home[GenOp]) /\ CorosOK
  BY DEF CleanupInv
<1>3. "task" \in Coros /\ "gen" \in Coros /\ GenOp \in AllOps
      /\ \A d \in Coros : d = "task" \/ d = "gen"
  BY DEF Coros, AllOps
<1>4. pc' \in [Coros -> Places] /\ pc'["task"] = "awaiting" /\ pc'["gen"] = "body"
  BY <1>1, <1>2 DEF TypeOK, Places, Coros
<1>5. CASE /\ pc["gen"] = "new"
           /\ stack["task"] # << >> => CanAdd(Top("task"))
           /\ stack' = [stack EXCEPT !["task"] = WithOp(stack["task"], GenOp)]
           /\ ost' = [ost EXCEPT ![GenOp] = "added"]
  <2>1. ost[GenOp] = "new" /\ home[GenOp] = "task"
    BY <1>2, <1>5 DEF GenOK
  <2>2. home' = [home EXCEPT ![GenOp] = "task"]
    BY <1>1, <1>2, <2>1 DEF TypeOK
  <2>3. CoroOK("task", WithOp(stack["task"], GenOp), pc["task"], next["task"], ost', home', old)
    BY <1>1, <1>3, <1>5, <2>1, <2>2, AddsToFresh
  <2>4. GenOK(pc', ost'[GenOp], home'[GenOp])
    <3>1. ost'[GenOp] = "added" /\ home'[GenOp] = "task"
      BY <1>1, <1>2, <1>3, <1>5, <2>1 DEF TypeOK
    <3> QED
      BY <3>1, <1>4 DEF GenOK
  <2>5. \A d \in Coros : \/ pc'[d] = pc[d]
                         \/ pc[d] \in {"new", "body", "yielded"} /\ pc'[d] \in {"body", "awaiting"}
    BY <1>1, <1>3, <1>4, <1>5
  <2> DEFINE c == "task"
             o == GenOp
             t == WithOp(stack["task"], GenOp)
  <2>6. /\ c \in Coros /\ o \in AllOps /\ ost[o] = "new" /\ pc[c] = "body"
        /\ stack' = [stack EXCEPT ![c] = t] /\ ost' = [ost EXCEPT ![o] = "added"]
        /\ home' = [home EXCEPT ![o] = c] /\ CoroOK(c, t, pc[c], next[c], ost', home', old)
        /\ next' = next /\ res' = res /\ cerr' = cerr /\ ofail' = ofail /\ old' = old
        /\ pc' \in [Coros -> Places]
    BY <1>1, <1>3, <1>4, <1>5, <2>1, <2>2, <2>3
  <2> HIDE DEF c, o, t
  <2> QED
    BY ONLY CleanupInv, <2>4, <2>5, <2>6, StepAdds
<1>6. CASE pc["gen"] = "yielded" /\ stack' = stack /\ ost' = ost
  <2>1. CorosOK'
    <3> SUFFICES ASSUME NEW d \in Coros
                 PROVE  CoroOK(d, stack'[d], pc'[d], next'[d], ost', home', old')
      BY DEF CorosOK
    <3>1. CoroOK(d, stack[d], pc[d], next[d], ost, home, old)
      BY <1>2 DEF CorosOK
    <3>2. ~Active(pc[d]) /\ ~Active(pc'[d]) /\ pc'[d] \notin {"new", "cleaned", "gone"}
      BY <1>1, <1>3, <1>4, <1>6 DEF Active
    <3>3. CoroOK(d, stack[d], pc'[d], next[d], ost, home, old)
      BY <3>1, <3>2, CoroMoves
    <3> QED
      BY <3>3, <1>1, <1>6
  <2>2. GenOK(pc', ost'[GenOp], home'[GenOp])
    <3>1. ost[GenOp] = "added"
      BY <1>2, <1>3, <1>6 DEF GenOK, TypeOK
    <3> QED
      BY <3>1, <1>1, <1>2, <1>4, <1>6 DEF GenOK
  <2>3. FailsOK'
    <3> SUFFICES ASSUME NEW d \in Coros
                 PROVE  FailOK(d, stack'[d], pc'[d], res'[d], cerr'[d], home', ofail')
      BY DEF FailsOK
    <3>1. Failed(d, home', ofail') <=> Failed(d, home, ofail)
      BY <1>1 DEF Failed
    <3>2. /\ pc[d] \in {"new", "body", "yielded", "awaiting"}
          /\ pc'[d] \in {"new", "body", "yielded", "awaiting", "pleaving"}
      BY <1>1, <1>3, <1>4, <1>6
    <3> QED
      BY <3>1, <3>2, <1>1, FailStill DEF CleanupInv
  <2>4. TypeOK'
    BY <1>1, <1>2, <1>4, <1>6 DEF TypeOK, Places
  <2> QED
    BY <1>1, <1>6, <2>1, <2>2, <2>3, <2>4 DEF CleanupInv, OneCounted, NotYet
<1> QED
  BY <1>5, <1>6 DEF NextOfGen

LEMMA StepYield == ASSUME CleanupInv, Yield PROVE CleanupInv'
<1>1. /\ pc["gen"] = "body" /\ pc' = [pc EXCEPT !["task"] = "body", !["gen"] = "yielded"]
      /\ stack' = stack /\ next' = next /\ res' = res /\ cerr' = cerr /\ ost' = ost
      /\ home' = home /\ ofail' = ofail /\ old' = old
  BY DEF Yield
<1>2. TypeOK /\ GenOK(pc, ost[GenOp], home[GenOp]) /\ CorosOK
  BY DEF CleanupInv
<1>3. "task" \in Coros /\ "gen" \in Coros /\ GenOp \in AllOps
      /\ \A d \in Coros : d = "task" \/ d = "gen"
  BY DEF Coros, AllOps
<1>4. pc' \in [Coros -> Places] /\ pc'["task"] = "body" /\ pc'["gen"] = "yielded"
  BY <1>1, <1>2 DEF TypeOK, Places, Coros
<1>5. pc["task"] = "awaiting" /\ ost[GenOp] = "added"
  BY <1>1, <1>2, <1>3 DEF GenOK, TypeOK
<1>6. CorosOK'
  <2> SUFFICES ASSUME NEW d \in Coros
               PROVE  CoroOK(d, stack'[d], pc'[d], next'[d], ost', home', old')
    BY DEF CorosOK
  <2>1. CoroOK(d, stack[d], pc[d], next[d], ost, home, old)
    BY <1>2 DEF CorosOK
  <2>2. ~Active(pc[d]) /\ ~Active(pc'[d]) /\ pc'[d] \notin {"new", "cleaned", "gone"}
    BY <1>1, <1>3, <1>4, <1>5 DEF Active
  <2>3. CoroOK(d, stack[d], pc'[d], next[d], ost, home, old)
    BY <2>1, <2>2, CoroMoves
  <2> QED
    BY <2>3, <1>1
<1>7. GenOK(pc', ost'[GenOp], home'[GenOp])
  BY <1>1, <1>2, <1>4, <1>5 DEF GenOK
<1>8. FailsOK'
  <2> SUFFICES ASSUME NEW d \in Coros
               PROVE  FailOK(d, stack'[d], pc'[d], res'[d], cerr'[d], home', ofail')
    BY DEF FailsOK
  <2>1. Failed(d, home', ofail') <=> Failed(d, home, ofail)
    BY <1>1 DEF Failed
  <2>2. /\ pc[d] \in {"new", "body", "yielded", "awaiting"}
        /\ pc'[d] \in {"new", "body", "yielded", "awaiting", "pleaving"}
    BY <1>1, <1>3, <1>4, <1>5
  <2> QED
    BY <2>1, <2>2, <1>1, FailStill DEF CleanupInv
<1>9. TypeOK'
  BY <1>1, <1>2, <1>4 DEF TypeOK, Places
<1> QED
  BY <1>1, <1>6, <1>7, <1>8, <1>9 DEF CleanupInv, OneCounted, NotYet

\* A step of coroutine c that touches no op and moves only it; its stack
\* becomes t, its place q, its index x, its result v.
LEMMA StepMovesOp ==
    ASSUME CleanupInv, NEW c \in Coros, NEW t, NEW q \in Places, NEW x,
           NEW v \in {"none", "val", "err", "cleanup_failed"},
           stack' = [stack EXCEPT ![c] = t], pc' = [pc EXCEPT ![c] = q],
           next' = [next EXCEPT ![c] = x], res' = [res EXCEPT ![c] = v],
           cerr' = cerr, home' = home, ofail' = ofail, old' = old, x \in Nat,
           ost' \in [AllOps -> {"new", "added", "running", "counted", "done"}],
           \A o \in AllOps : home[o] # c => ost'[o] = ost[o],
           OneCounted', NotYet',
           CoroOK(c, t, q, x, ost', home, old),
           FailOK(c, t, q, v, cerr[c], home, ofail),
           GenOK(pc', ost'[GenOp], home[GenOp])
    PROVE  CleanupInv'
<1>1. TypeOK /\ CorosOK /\ FailsOK
  BY DEF CleanupInv
<1>2. /\ stack'[c] = t /\ pc'[c] = q /\ next'[c] = x /\ res'[c] = v
      /\ \A d \in Coros : d # c =>
           stack'[d] = stack[d] /\ pc'[d] = pc[d] /\ next'[d] = next[d] /\ res'[d] = res[d]
  BY <1>1 DEF TypeOK
<1>3. CorosOK'
  BY <1>1, <1>2, StepOfCoro
<1>4. FailsOK'
  <2> SUFFICES ASSUME NEW d \in Coros
               PROVE  FailOK(d, stack'[d], pc'[d], res'[d], cerr'[d], home', ofail')
    BY DEF FailsOK
  <2>1. CASE d = c
    BY <2>1, <1>2
  <2>2. CASE d # c
    BY <2>2, <1>1, <1>2 DEF FailsOK
  <2> QED
    BY <2>1, <2>2
<1>5. TypeOK'
  <2>1. stack' \in [Coros -> Seq(Groups)]
    BY <1>1 DEF TypeOK, CoroOK
  <2>2. pc' \in [Coros -> Places]
    BY <1>1 DEF TypeOK, Places
  <2>3. next' \in [Coros -> Nat]
    BY <1>1 DEF TypeOK
  <2>4. res' \in [Coros -> {"none", "val", "err", "cleanup_failed"}]
    BY <1>1 DEF TypeOK
  <2> QED
    BY <1>1, <2>1, <2>2, <2>3, <2>4 DEF TypeOK, Places
<1> QED
  BY <1>3, <1>4, <1>5 DEF CleanupInv

LEMMA StepMoves ==
    ASSUME CleanupInv, NEW c \in Coros, NEW t, NEW q \in Places, NEW x,
           NEW v \in {"none", "val", "err", "cleanup_failed"},
           stack' = [stack EXCEPT ![c] = t], pc' = [pc EXCEPT ![c] = q],
           next' = [next EXCEPT ![c] = x], res' = [res EXCEPT ![c] = v],
           cerr' = cerr, ost' = ost, home' = home, ofail' = ofail, old' = old, x \in Nat,
           CoroOK(c, t, q, x, ost, home, old),
           FailOK(c, t, q, v, cerr[c], home, ofail),
           GenOK(pc', ost[GenOp], home[GenOp])
    PROVE  CleanupInv'
<1>1. /\ ost' \in [AllOps -> {"new", "added", "running", "counted", "done"}]
      /\ OneCounted' /\ NotYet' /\ GenOK(pc', ost'[GenOp], home[GenOp])
      /\ CoroOK(c, t, q, x, ost', home, old)
  BY DEF CleanupInv, TypeOK, OneCounted, NotYet
<1> QED
  BY <1>1, StepMovesOp

LEMMA StepEndScope == ASSUME CleanupInv, NEW c \in Coros, EndScope(c) PROVE CleanupInv'
<1>1. /\ pc[c] = "body" /\ stack[c] # << >> /\ Top(c).ops # << >>
      /\ pc' = [pc EXCEPT ![c] = "scope"] /\ next' = [next EXCEPT ![c] = 1]
      /\ stack' = stack /\ res' = res /\ cerr' = cerr /\ ost' = ost /\ home' = home
      /\ ofail' = ofail /\ old' = old
  BY DEF EndScope
<1>2. TypeOK /\ GenOK(pc, ost[GenOp], home[GenOp])
  BY DEF CleanupInv
<1>3. /\ CoroOK(c, stack[c], "scope", 1, ost, home, old)
      /\ stack[c][Len(stack[c])].err = FALSE
  <2>1. CoroOK(c, stack[c], pc[c], next[c], ost, home, old) /\ stack[c][Len(stack[c])].ops # << >>
    BY <1>1, CoroFacts
  <2>2. ~Active(pc[c]) /\ Active("scope")
    BY <1>1 DEF Active
  <2> QED
    BY <1>1, <2>1, <2>2, CoroStarts
<1>4. FailOK(c, stack[c], "scope", res[c], cerr[c], home, ofail)
  <2>1. FailOK(c, stack[c], pc[c], res[c], cerr[c], home, ofail)
    BY CoroFacts
  <2>2. ~Active(pc[c]) /\ Active("scope")
    BY <1>1 DEF Active
  <2> QED
    BY <1>1, <1>3, <2>1, <2>2 DEF FailOK
<1>5. GenOK(pc', ost[GenOp], home[GenOp])
  BY <1>1, <1>2 DEF GenOK, TypeOK, Coros
<1>6. stack' = [stack EXCEPT ![c] = stack[c]] /\ res' = [res EXCEPT ![c] = res[c]]
  BY <1>1, <1>2 DEF TypeOK
<1>7. "scope" \in Places /\ res[c] \in {"none", "val", "err", "cleanup_failed"} /\ 1 \in Nat
  BY <1>2 DEF Places, TypeOK
<1> QED
  BY <1>1, <1>3, <1>4, <1>5, <1>6, <1>7, StepMoves

LEMMA StepLeave ==
    ASSUME CleanupInv, NEW c \in Coros, NEW v \in {"val", "err"}, Leave(c, v)
    PROVE  CleanupInv'
<1>1. /\ pc[c] = "body" /\ res' = [res EXCEPT ![c] = v] /\ pc' = [pc EXCEPT ![c] = "leaving"]
      /\ stack' = stack /\ next' = next /\ cerr' = cerr /\ ost' = ost /\ home' = home
      /\ ofail' = ofail /\ old' = old
  BY DEF Leave
<1>2. TypeOK /\ GenOK(pc, ost[GenOp], home[GenOp])
  BY DEF CleanupInv
<1>3. CoroOK(c, stack[c], "leaving", next[c], ost, home, old)
  <2>1. CoroOK(c, stack[c], pc[c], next[c], ost, home, old)
    BY CoroFacts
  <2>2. ~Active(pc[c]) /\ ~Active("leaving")
    BY <1>1 DEF Active
  <2> QED
    BY <2>1, <2>2, CoroMoves
<1>4. FailOK(c, stack[c], "leaving", v, cerr[c], home, ofail)
  <2>1. FailOK(c, stack[c], pc[c], res[c], cerr[c], home, ofail)
    BY CoroFacts
  <2>2. ~Active(pc[c]) /\ ~Active("leaving")
    BY <1>1 DEF Active
  <2> QED
    BY <1>1, <2>1, <2>2 DEF FailOK
<1>5. GenOK(pc', ost[GenOp], home[GenOp])
  BY <1>1, <1>2 DEF GenOK, TypeOK, Coros
<1>6. stack' = [stack EXCEPT ![c] = stack[c]] /\ next' = [next EXCEPT ![c] = next[c]]
  BY <1>1, <1>2 DEF TypeOK
<1>7. "leaving" \in Places /\ next[c] \in Nat
  BY <1>2 DEF Places, TypeOK
<1> DEFINE t == stack[c]
           q == "leaving"
           x == next[c]
<1>8. /\ q \in Places /\ x \in Nat /\ v \in {"none", "val", "err", "cleanup_failed"}
      /\ stack' = [stack EXCEPT ![c] = t] /\ pc' = [pc EXCEPT ![c] = q]
      /\ next' = [next EXCEPT ![c] = x] /\ res' = [res EXCEPT ![c] = v]
      /\ cerr' = cerr /\ ost' = ost /\ home' = home /\ ofail' = ofail /\ old' = old
      /\ CoroOK(c, t, q, x, ost, home, old) /\ FailOK(c, t, q, v, cerr[c], home, ofail)
  BY <1>1, <1>3, <1>4, <1>6, <1>7
<1> HIDE DEF t, q, x
<1> QED
  BY ONLY CleanupInv, c \in Coros, <1>5, <1>8, StepMoves

\* The groups that are left of a stack without empty ones: none, or a next
\* one to clean up.
LEMMA AfterPop ==
    ASSUME NEW c, NEW s, NEW x, NEW os, NEW hm, NEW od,
           CoroOK(c, s, "leaving", x, os, hm, od)
    PROVE  LET t == WithoutEmpty(s)
           IN  /\ x = 0
               /\ t = << >> => \A q \in {"cleaned", "gone"} : CoroOK(c, t, q, x, os, hm, od)
               /\ t # << >> => /\ \A q \in {"cleanup", "pcleanup"} : CoroOK(c, t, q, 1, os, hm, od)
                               /\ t[Len(t)].err = FALSE
<1> DEFINE t == WithoutEmpty(s)
<1>1. s \in Seq(Groups) /\ x = 0 /\ ~Active("leaving")
  BY DEF CoroOK, Active
<1>2. PICK m \in 0..Len(s) :
        /\ t \in Seq(Groups) /\ Len(t) = m
        /\ \A k \in 1..m : t[k] = s[k]
        /\ \A k \in 1..Len(s) : k > m => s[k].ops = << >>
        /\ m > 0 => s[m].ops # << >>
  BY <1>1, PopsEmpty
<1> HIDE DEF t
<1>3. CoroOK(c, t, "leaving", x, os, hm, od)
  BY <1>1, <1>2, CoroTrims
<1>4. ASSUME t = << >>, NEW q \in {"cleaned", "gone"} PROVE CoroOK(c, t, q, x, os, hm, od)
  <2>1. ~Active(q)
    BY DEF Active
  <2> QED
    BY <1>1, <1>3, <1>4, <2>1, CoroMoves
<1>5. ASSUME t # << >>, NEW q \in {"cleanup", "pcleanup"}
      PROVE  CoroOK(c, t, q, 1, os, hm, od) /\ t[Len(t)].err = FALSE
  <2>1. Active(q)
    BY DEF Active
  <2>2. t[Len(t)].ops # << >>
    <3>1. Len(t) \in 1..Len(t) /\ Len(t) > 0
      BY <1>2, <1>5, LenProperties, EmptySeq
    <3> QED
      BY <1>2, <3>1
  <2> QED
    BY <1>1, <1>3, <1>5, <2>1, <2>2, CoroStarts
<1>6. "cleanup" \in {"cleanup", "pcleanup"}
  OBVIOUS
<1>7. t # << >> => t[Len(t)].err = FALSE
  BY <1>5, <1>6
<1> QED
  BY <1>1, <1>4, <1>5, <1>7 DEF t

\* The stack's until_all_done() begins or goes on: s is what is left of the
\* stack, e the error so far.
LEMMA GoesOn ==
    ASSUME CleanupInv, NEW c \in Coros, pc[c] \in {"leaving", "pleaving", "cleanup", "pcleanup"},
           NEW s, NEW e \in BOOLEAN, CoroOK(c, s, "leaving", next[c], ost', home, old),
           stack' = [stack EXCEPT ![c] = WithoutEmpty(s)], cerr' = [cerr EXCEPT ![c] = e],
           home' = home, ofail' = ofail, old' = old,
           Failed(c, home, ofail) <=> (res[c] = "cleanup_failed" \/ e),
           IF WithoutEmpty(s) = << >>
           THEN AfterCleanup(c, e) /\ next' = next
           ELSE /\ next' = [next EXCEPT ![c] = 1] /\ res' = res
                /\ pc' = [pc EXCEPT ![c] = IF pc[c] \in {"leaving", "cleanup"} THEN "cleanup"
                                                                             ELSE "pcleanup"],
           ost' \in [AllOps -> {"new", "added", "running", "counted", "done"}],
           \A o \in AllOps : home[o] # c => ost'[o] = ost[o],
           OneCounted', NotYet', GenOK(pc, ost'[GenOp], home[GenOp])
    PROVE  CleanupInv'
<1> DEFINE t == WithoutEmpty(s)
           d == IF c = "task" THEN "gen" ELSE "task"
<1>1. TypeOK /\ CorosOK /\ FailsOK
  BY DEF CleanupInv
<1>2. /\ next[c] = 0
      /\ t = << >> => \A q \in {"cleaned", "gone"} : CoroOK(c, t, q, next[c], ost', home, old)
      /\ t # << >> => /\ \A q \in {"cleanup", "pcleanup"} : CoroOK(c, t, q, 1, ost', home, old)
                      /\ t[Len(t)].err = FALSE
  <2> DEFINE os == ost'
             x == next[c]
  <2>1. CoroOK(c, s, "leaving", x, os, home, old)
    OBVIOUS
  <2> HIDE DEF os, x
  <2> QED
    BY <2>1, AfterPop DEF os, x
<1>3. stack'[c] = t /\ cerr'[c] = e /\ d \in Coros /\ d # c
      /\ stack'[d] = stack[d] /\ cerr'[d] = cerr[d] /\ \A b \in Coros : b = c \/ b = d
  BY <1>1 DEF TypeOK, Coros
<1> HIDE DEF t, d
<1>4. \A o \in AllOps : home[o] = d => ost'[o] = ost[o]
  BY <1>3
<1>5. ASSUME CoroOK(c, stack'[c], pc'[c], next'[c], ost', home', old'),
             FailOK(c, stack'[c], pc'[c], res'[c], cerr'[c], home', ofail'),
             pc' \in [Coros -> Places], next' \in [Coros -> Nat],
             res' \in [Coros -> {"none", "val", "err", "cleanup_failed"}],
             next'[d] = next[d], res'[d] = res[d],
             pc'[d] = pc[d] \/ (pc[d] = "awaiting" /\ pc'[d] = "body"),
             GenOK(pc', ost'[GenOp], home'[GenOp])
      PROVE  CleanupInv'
  <2>1. CorosOK'
    <3>1. \/ pc'[d] = pc[d]
          \/ ~Active(pc[d]) /\ ~Active(pc'[d]) /\ pc'[d] \notin {"new", "cleaned", "gone"}
      BY <1>5 DEF Active
    <3>2. \A b \in Coros : b # c =>
             /\ stack'[b] = stack[b] /\ next'[b] = next[b]
             /\ \/ pc'[b] = pc[b]
                \/ ~Active(pc[b]) /\ ~Active(pc'[b]) /\ pc'[b] \notin {"new", "cleaned", "gone"}
             /\ \A o \in AllOps : (home[o] = b /\ ost[o] # "new") =>
                  (home'[o] = b /\ ost'[o] = ost[o] /\ old'[o] = old[o])
             /\ \A o \in AllOps : (home'[o] = b /\ ost'[o] # "new") => (home[o] = b /\ ost[o] # "new")
      BY <1>3, <1>4, <1>5, <3>1
    <3> QED
      BY <1>1, <1>5, <3>2, StepOfCoro
  <2>2. FailOK(d, stack'[d], pc'[d], res'[d], cerr'[d], home', ofail')
    <3>1. Failed(d, home', ofail') <=> Failed(d, home, ofail)
      BY DEF Failed
    <3> QED
      BY <1>1, <1>3, <1>5, <3>1, FailStill
  <2>3. FailsOK'
    BY <1>3, <1>5, <2>2 DEF FailsOK
  <2>4. TypeOK'
    <3>1. stack' \in [Coros -> Seq(Groups)]
      BY <1>1, <1>3, <1>5 DEF TypeOK, CoroOK
    <3>2. cerr' \in [Coros -> BOOLEAN]
      BY <1>1 DEF TypeOK
    <3> QED
      BY <1>1, <1>5, <3>1, <3>2 DEF TypeOK, Places
  <2> QED
    BY <1>5, <2>1, <2>3, <2>4 DEF CleanupInv
<1>6. pc \in [Coros -> Places] /\ pc[c] \in Places /\ pc[d] \in Places
  BY <1>1, <1>3 DEF TypeOK, Places
<1>7. CASE t # << >>
  <2> DEFINE q == IF pc[c] \in {"leaving", "cleanup"} THEN "cleanup" ELSE "pcleanup"
  <2>1. next' = [next EXCEPT ![c] = 1] /\ pc' = [pc EXCEPT ![c] = q] /\ res' = res
    BY <1>7 DEF t
  <2>2. next'[c] = 1 /\ pc'[c] = q /\ next'[d] = next[d] /\ pc'[d] = pc[d] /\ q \in {"cleanup", "pcleanup"}
    BY <1>1, <1>3, <1>6, <2>1 DEF TypeOK
  <2>3. CoroOK(c, stack'[c], pc'[c], next'[c], ost', home', old')
    BY <1>2, <1>3, <1>7, <2>2
  <2>4. FailOK(c, stack'[c], pc'[c], res'[c], cerr'[c], home', ofail')
    <3>1. Active(q) /\ t[Len(t)].err = FALSE
      BY <1>2, <1>7 DEF Active
    <3> QED
      BY <1>3, <2>1, <2>2, <3>1 DEF FailOK
  <2>5. /\ pc' \in [Coros -> Places] /\ next' \in [Coros -> Nat]
        /\ res' \in [Coros -> {"none", "val", "err", "cleanup_failed"}]
    BY <1>1, <1>6, <2>1 DEF TypeOK, Places
  <2>6. GenOK(pc', ost'[GenOp], home'[GenOp])
    <3>1. GenOK(pc, ost'[GenOp], home[GenOp])
      OBVIOUS
    <3>2. CASE c = "task"
      BY <3>1, <3>2, <1>3, <2>2 DEF GenOK, d
    <3>3. CASE c = "gen"
      BY <3>1, <3>3, <1>3, <2>2 DEF GenOK, d
    <3> QED
      BY <3>2, <3>3 DEF Coros
  <2> QED
    BY <1>5, <2>1, <2>2, <2>3, <2>4, <2>5, <2>6
<1>8. CASE t = << >>
  <2>1. AfterCleanup(c, e) /\ next' = next
    BY <1>8 DEF t
  <2>2. next' \in [Coros -> Nat]
    BY <1>1, <2>1 DEF TypeOK
  <2>3. CASE pc[c] \in {"pleaving", "pcleanup"}
    <3>1. pc' = [pc EXCEPT ![c] = "cleaned"] /\ res' = res
      BY <2>1, <2>3 DEF AfterCleanup
    <3>2. pc'[c] = "cleaned" /\ pc'[d] = pc[d]
      BY <1>3, <1>6, <3>1
    <3>3. CoroOK(c, stack'[c], pc'[c], next'[c], ost', home', old')
      BY <1>2, <1>3, <1>8, <2>1, <3>2
    <3>4. FailOK(c, stack'[c], pc'[c], res'[c], cerr'[c], home', ofail')
      <4>1. ~Active("cleaned")
        BY DEF Active
      <4> QED
        BY <1>3, <3>1, <3>2, <4>1 DEF FailOK
    <3>5. pc' \in [Coros -> Places] /\ res' \in [Coros -> {"none", "val", "err", "cleanup_failed"}]
      BY <1>1, <1>6, <3>1 DEF TypeOK, Places
    <3>6. c = "gen" /\ d = "task"
      BY <2>3 DEF GenOK, Coros, d
    <3>7. GenOK(pc', ost'[GenOp], home'[GenOp])
      BY <2>3, <3>2, <3>6 DEF GenOK
    <3> QED
      BY <1>5, <2>1, <2>2, <3>1, <3>2, <3>3, <3>4, <3>5, <3>7
  <2>4. CASE pc[c] \in {"leaving", "cleanup"}
    <3>1. /\ pc' = Ended[c]
          /\ res' = [res EXCEPT ![c] = IF e THEN "cleanup_failed" ELSE res[c]]
      BY <2>1, <2>4 DEF AfterCleanup
    <3>2. /\ pc' \in [Coros -> Places] /\ pc'[c] = "gone"
          /\ c = "task" => pc'[d] = pc[d]
          /\ c = "gen" => pc'[d] = "body"
      <4>1. CASE c = "task"
        <5>1. pc' = [pc EXCEPT !["task"] = "gone"] /\ d = "gen"
          BY <4>1, <3>1 DEF Ended, Coros, d
        <5> QED
          BY <4>1, <5>1, <1>6 DEF Places, Coros
      <4>2. CASE c = "gen"
        <5>1. pc' = [pc EXCEPT !["gen"] = "gone", !["task"] = "body"] /\ d = "task"
          BY <4>2, <3>1 DEF Ended, Coros, d
        <5> QED
          BY <4>2, <5>1, <1>6 DEF Places, Coros
      <4> QED
        BY <4>1, <4>2 DEF Coros
    <3>3. /\ res'[c] = IF e THEN "cleanup_failed" ELSE res[c]
          /\ res'[d] = res[d]
          /\ res' \in [Coros -> {"none", "val", "err", "cleanup_failed"}]
      BY <1>1, <1>3, <3>1 DEF TypeOK
    <3>4. CoroOK(c, stack'[c], pc'[c], next'[c], ost', home', old')
      BY <1>2, <1>3, <1>8, <2>1, <3>2
    <3>5. FailOK(c, stack'[c], pc'[c], res'[c], cerr'[c], home', ofail')
      <4>1. ~Active("gone")
        BY DEF Active
      <4> QED
        BY <1>3, <3>2, <3>3, <4>1 DEF FailOK
    <3>6. CASE c = "task"
      <4>1. d = "gen" /\ pc'[d] = pc[d]
        BY <3>6, <3>2 DEF d
      <4>2. GenOK(pc', ost'[GenOp], home'[GenOp])
        BY <2>4, <3>2, <3>6, <4>1 DEF GenOK
      <4> QED
        BY <1>5, <2>1, <2>2, <3>2, <3>3, <3>4, <3>5, <4>1, <4>2
    <3>7. CASE c = "gen"
      <4>1. d = "task" /\ pc'[d] = "body" /\ pc[d] = "awaiting"
        BY <2>4, <3>7, <3>2 DEF d, GenOK
      <4>2. GenOK(pc', ost'[GenOp], home'[GenOp])
        BY <2>4, <3>2, <3>7, <4>1 DEF GenOK
      <4> QED
        BY <1>5, <2>1, <2>2, <3>2, <3>3, <3>4, <3>5, <4>1, <4>2
    <3> QED
      BY <3>6, <3>7 DEF Coros
  <2> QED
    BY <2>3, <2>4
<1> QED
  BY <1>7, <1>8

LEMMA StepStartCleanup == ASSUME CleanupInv, NEW c \in Coros, StartCleanup(c) PROVE CleanupInv'
<1> DEFINE s == stack[c]
           t == WithoutEmpty(s)
<1>1. /\ pc[c] \in {"leaving", "pleaving"} /\ stack' = [stack EXCEPT ![c] = t]
      /\ IF t = << >>
         THEN AfterCleanup(c, FALSE) /\ next' = next
         ELSE /\ next' = [next EXCEPT ![c] = 1]
              /\ pc' = [pc EXCEPT ![c] = IF pc[c] = "leaving" THEN "cleanup" ELSE "pcleanup"]
              /\ res' = res
      /\ cerr' = cerr /\ ost' = ost /\ home' = home /\ ofail' = ofail /\ old' = old
  BY DEF StartCleanup
<1>2. TypeOK
  BY DEF CleanupInv
<1>3. FailOK(c, s, pc[c], res[c], cerr[c], home, ofail) /\ CoroOK(c, s, pc[c], next[c], ost, home, old)
  BY CoroFacts
<1>4. cerr[c] = FALSE
  <2>1. ~cerr[c] /\ cerr[c] \in BOOLEAN
    BY <1>1, <1>2, <1>3 DEF FailOK, TypeOK
  <2> QED
    BY <2>1
<1>5. ~Active(pc[c]) /\ ~Active("leaving")
  BY <1>1 DEF Active
<1>6. CoroOK(c, s, "leaving", next[c], ost', home, old)
  <2>1. CoroOK(c, s, "leaving", next[c], ost, home, old)
    BY <1>3, <1>5, CoroMoves
  <2> QED
    BY <1>1, <2>1
<1>7. Failed(c, home, ofail) <=> (res[c] = "cleanup_failed" \/ FALSE)
  BY <1>3, <1>4, <1>5 DEF FailOK
<1>8. cerr' = [cerr EXCEPT ![c] = FALSE]
  BY <1>1, <1>2, <1>4 DEF TypeOK
<1>9. IF t = << >>
      THEN AfterCleanup(c, FALSE) /\ next' = next
      ELSE /\ next' = [next EXCEPT ![c] = 1] /\ res' = res
           /\ pc' = [pc EXCEPT ![c] = IF pc[c] \in {"leaving", "cleanup"} THEN "cleanup" ELSE "pcleanup"]
  <2>1. (pc[c] = "leaving") <=> (pc[c] \in {"leaving", "cleanup"})
    BY <1>1
  <2> HIDE DEF t
  <2> QED
    BY <1>1, <2>1
<1>10. /\ ost' \in [AllOps -> {"new", "added", "running", "counted", "done"}]
       /\ OneCounted' /\ NotYet' /\ GenOK(pc, ost'[GenOp], home[GenOp])
  BY <1>1 DEF CleanupInv, TypeOK, OneCounted, NotYet
<1>11. FALSE \in BOOLEAN /\ pc[c] \in {"leaving", "pleaving", "cleanup", "pcleanup"}
  BY <1>1
<1> HIDE DEF s
<1> QED
  BY <1>1, <1>6, <1>7, <1>8, <1>9, <1>10, <1>11, GoesOn

\* The group that coroutine c cleans up.
LEMMA TopFacts ==
    ASSUME CleanupInv, NEW c \in Coros, Active(pc[c])
    PROVE  /\ Len(stack[c]) \in 1..Len(stack[c])
           /\ Top(c).ops \in Seq(AllOps) /\ Top(c).n \in Nat /\ Top(c).err \in BOOLEAN
           /\ Top(c) \in Groups
           /\ Running(Top(c), next[c], ost, old) /\ Inj(Top(c).ops)
           /\ \A i \in 1..Len(Top(c).ops) : home[Top(c).ops[i]] = c /\ Top(c).ops[i] \in AllOps
<1> DEFINE s == stack[c]
<1>1. /\ CoroOK(c, s, pc[c], next[c], ost, home, old) /\ s \in Seq(Groups) /\ Len(s) \in Nat
      /\ s # << >> /\ Len(s) \in 1..Len(s) /\ Top(c) = s[Len(s)]
  <2>1. stack[c] # << >>
    BY CoroFacts DEF CoroOK
  <2> QED
    BY <2>1, CoroFacts
<1> HIDE DEF s
<1>2. /\ s[Len(s)].ops \in Seq(AllOps) /\ s[Len(s)].n \in Nat /\ s[Len(s)].err \in BOOLEAN
      /\ s[Len(s)] \in Groups
      /\ \A i \in 1..Len(s[Len(s)].ops) : s[Len(s)].ops[i] \in AllOps
  BY <1>1, GroupFacts
<1>3. Running(s[Len(s)], next[c], ost, old)
  BY <1>1 DEF CoroOK
<1>4. Inj(s[Len(s)].ops)
  <2>1. OnceIn(s)
    BY <1>1 DEF CoroOK
  <2> QED
    BY <1>1, <2>1 DEF OnceIn, Inj
<1>5. \A i \in 1..Len(s[Len(s)].ops) : home[s[Len(s)].ops[i]] = c
  BY <1>1 DEF CoroOK
<1> QED
  BY <1>1, <1>2, <1>3, <1>4, <1>5 DEF s

\* An op that runs is one of the group that its coroutine cleans up.
LEMMA RunsInTop ==
    ASSUME CleanupInv, NEW o \in AllOps, ost[o] \in {"running", "counted"}, Alive(o)
    PROVE  /\ home[o] \in Coros /\ Active(pc[home[o]])
           /\ \E j \in 1..Len(Top(home[o]).ops) : Top(home[o]).ops[j] = o
<1> DEFINE c == home[o]
<1>1. c \in Coros
  BY DEF CleanupInv, TypeOK
<1>2. stack[c] # << >> /\ \E j \in 1..Len(Top(c).ops) : Top(c).ops[j] = o
  BY DEF Alive, Contains
<1>3. Active(pc[c])
  <2> SUFFICES ASSUME ~Active(pc[c]) PROVE FALSE
    OBVIOUS
  <2>1. CoroOK(c, stack[c], pc[c], next[c], ost, home, old) /\ Len(stack[c]) \in 1..Len(stack[c])
        /\ Top(c) = stack[c][Len(stack[c])]
    BY <1>1, <1>2, CoroFacts
  <2>2. Fresh(Top(c), ost)
    BY <2>1 DEF CoroOK
  <2> QED
    BY <1>2, <2>2 DEF Fresh
<1> QED
  BY <1>1, <1>2, <1>3

LEMMA StepStartOp == ASSUME ConstAssumption, CleanupInv, NEW c \in Coros, StartOp(c) PROVE CleanupInv'
<1> DEFINE g == Top(c)
           x == next[c]
           o == g.ops[x]
           y == IF x = Len(g.ops) THEN 0 ELSE x + 1
<1>1. /\ x # 0 /\ ost' = [ost EXCEPT ![o] = "running"]
      /\ pc' = IF o = GenOp /\ pc["gen"] # "gone" THEN [pc EXCEPT !["gen"] = "pleaving"] ELSE pc
      /\ next' = [next EXCEPT ![c] = y]
      /\ stack' = stack /\ res' = res /\ cerr' = cerr /\ home' = home /\ ofail' = ofail /\ old' = old
  BY DEF StartOp
<1>2. TypeOK /\ CorosOK /\ FailsOK /\ OneCounted /\ NotYet /\ GenOK(pc, ost[GenOp], home[GenOp])
  BY DEF CleanupInv
<1>3. Active(pc[c])
  <2>1. CoroOK(c, stack[c], pc[c], next[c], ost, home, old)
    BY CoroFacts
  <2> QED
    BY <1>1, <2>1 DEF CoroOK
<1>4. /\ Len(stack[c]) \in 1..Len(stack[c]) /\ g.ops \in Seq(AllOps)
      /\ Running(g, x, ost, old) /\ Inj(g.ops) /\ Len(g.ops) \in Nat
      /\ \A i \in 1..Len(g.ops) : home[g.ops[i]] = c /\ g.ops[i] \in AllOps
      /\ g = stack[c][Len(stack[c])]
  BY <1>3, TopFacts, CoroFacts, LenProperties
<1>5. x \in 1..Len(g.ops)
  <2>1. x \in 0..Len(g.ops)
    BY <1>4 DEF Running
  <2> QED
    BY <1>1, <1>4, <2>1
<1>6. o \in AllOps /\ home[o] = c /\ ost[o] = "added"
  <2>1. ost[g.ops[x]] = "added"
    <3>1. x >= x
      BY <1>5
    <3> QED
      BY <1>1, <1>4, <1>5, <3>1 DEF Running
  <2> QED
    BY <1>4, <1>5, <2>1
<1>7. ost'[o] = "running" /\ \A q \in AllOps : q # o => ost'[q] = ost[q]
  BY <1>1, <1>2, <1>6 DEF TypeOK
<1>8. y \in Nat /\ next'[c] = y /\ \A d \in Coros : d # c => next'[d] = next[d]
  BY <1>1, <1>2, <1>5, <1>4 DEF TypeOK
<1>9. CoroOK(c, stack[c], pc[c], y, ost', home, old)
  <2> DEFINE s == stack[c]
             p == pc[c]
             os == ost'
             gg == s[Len(s)]
  <2>1. /\ gg.ops \in Seq(AllOps) /\ Inj(gg.ops) /\ Running(gg, x, ost, old)
        /\ os[gg.ops[x]] = "running" /\ \A q \in AllOps : q # gg.ops[x] => os[q] = ost[q]
        /\ x # 0 /\ x \in 1..Len(gg.ops) /\ y = IF x = Len(gg.ops) THEN 0 ELSE x + 1
    BY <1>1, <1>4, <1>5, <1>7
  <2>2. CoroOK(c, s, p, x, ost, home, old) /\ Active(p) /\ s \in Seq(Groups)
    BY <1>3, CoroFacts
  <2> HIDE DEF os, p, s, x, y, gg
  <2>3. Running(gg, y, os, old)
    BY ONLY <2>1, GroupStarts
  <2>4. CoroOK(c, s, p, y, os, home, old)
    <3>1. RunsOn(s, ost, s, y, os, old)
      BY <2>1, <2>2, <2>3 DEF gg, RunsOn
    <3> QED
      BY ONLY <2>2, <3>1, CoroRuns
  <2> QED
    BY <2>4 DEF os, p, s
<1>10. o = GenOp => c = "task"
  BY <1>2, <1>6 DEF GenOK
<1> HIDE DEF o, y
<1>11. o = GenOp /\ pc["gen"] # "gone" =>
         pc["gen"] = "yielded" /\ pc' = [pc EXCEPT !["gen"] = "pleaving"]
  <2> SUFFICES ASSUME o = GenOp, pc["gen"] # "gone" PROVE pc["gen"] = "yielded"
    BY <1>1
  <2>1. pc["task"] # "awaiting"
    BY <1>3, <1>10 DEF Active
  <2> QED
    BY <1>2, <1>6, <2>1 DEF GenOK
<1>12. /\ pc' \in [Coros -> Places] /\ pc'[c] = pc[c]
       /\ \A d \in Coros : pc'[d] = pc[d] \/ (d = "gen" /\ pc[d] = "yielded" /\ pc'[d] = "pleaving")
  <2>0. pc \in [Coros -> Places] /\ "task" \in Coros /\ "gen" \in Coros
    BY <1>2 DEF TypeOK, Places, Coros
  <2>1. CASE o = GenOp /\ pc["gen"] # "gone"
    <3>1. pc' = [pc EXCEPT !["gen"] = "pleaving"] /\ pc["gen"] = "yielded" /\ c = "task"
      BY <2>1, <1>10, <1>11
    <3>2. "pleaving" \in Places
      BY DEF Places
    <3> QED
      BY <2>0, <3>1, <3>2
  <2>2. CASE ~(o = GenOp /\ pc["gen"] # "gone")
    <3>1. pc' = pc
      BY <1>1, <2>2
    <3> QED
      BY <2>0, <3>1
  <2> QED
    BY <2>1, <2>2
<1>13. CorosOK'
  <2>1. CoroOK(c, stack'[c], pc'[c], next'[c], ost', home', old')
    BY <1>1, <1>8, <1>9, <1>12
  <2>2. ASSUME NEW d \in Coros, d # c
        PROVE  /\ stack'[d] = stack[d] /\ next'[d] = next[d]
               /\ \/ pc'[d] = pc[d]
                  \/ ~Active(pc[d]) /\ ~Active(pc'[d]) /\ pc'[d] \notin {"new", "cleaned", "gone"}
               /\ \A q \in AllOps : (home[q] = d /\ ost[q] # "new") =>
                    (home'[q] = d /\ ost'[q] = ost[q] /\ old'[q] = old[q])
               /\ \A q \in AllOps : (home'[q] = d /\ ost'[q] # "new") => (home[q] = d /\ ost[q] # "new")
    <3>1. \A q \in AllOps : home[q] = d => ost'[q] = ost[q]
      BY <1>6, <1>7, <2>2
    <3>2. \/ pc'[d] = pc[d]
          \/ ~Active(pc[d]) /\ ~Active(pc'[d]) /\ pc'[d] \notin {"new", "cleaned", "gone"}
      BY <1>12 DEF Active
    <3> QED
      BY <1>1, <1>8, <2>2, <3>1, <3>2
  <2> QED
    BY <1>2, <2>1, <2>2, StepOfCoro
<1>14. FailsOK'
  <2> SUFFICES ASSUME NEW d \in Coros
               PROVE  FailOK(d, stack'[d], pc'[d], res'[d], cerr'[d], home', ofail')
    BY DEF FailsOK
  <2>1. Failed(d, home', ofail') <=> Failed(d, home, ofail)
    BY <1>1 DEF Failed
  <2> QED
    BY <1>1, <1>2, <1>12, <2>1, FailStill
<1>15. TypeOK'
  <2>1. ost' \in [AllOps -> {"new", "added", "running", "counted", "done"}]
    BY <1>1, <1>2 DEF TypeOK
  <2>2. next' \in [Coros -> Nat]
    BY <1>1, <1>2, <1>8 DEF TypeOK
  <2> QED
    BY <1>1, <1>2, <1>12, <2>1, <2>2 DEF TypeOK, Places
<1>16. OneCounted' /\ NotYet'
  <2>1. ~ofail[o]
    BY <1>2, <1>6 DEF NotYet
  <2>2. OneCounted'
    BY <1>2, <1>7 DEF OneCounted
  <2>3. NotYet'
    BY <1>1, <1>2, <1>7, <2>1 DEF NotYet
  <2> QED
    BY <2>2, <2>3
<1>17. GenOK(pc', ost'[GenOp], home'[GenOp])
  <2>1. CASE o # GenOp
    <3>1. pc' = pc /\ ost'[GenOp] = ost[GenOp]
      BY <1>1, <1>7, <2>1 DEF AllOps
    <3> QED
      BY <1>1, <1>2, <3>1
  <2>2. CASE o = GenOp /\ pc["gen"] = "gone"
    <3>1. pc' = pc /\ ost'[GenOp] = "running"
      BY <1>1, <1>7, <2>2
    <3> QED
      BY <1>1, <1>2, <2>2, <3>1 DEF GenOK
  <2>3. CASE o = GenOp /\ pc["gen"] # "gone"
    <3>1. ost'[GenOp] = "running" /\ pc["gen"] = "yielded"
      BY <1>7, <1>11, <2>3
    <3>2. pc'["gen"] = "pleaving" /\ pc'["task"] = pc["task"]
      BY <1>2, <1>11, <2>3 DEF TypeOK, Coros
    <3> QED
      BY <1>1, <1>2, <3>1, <3>2 DEF GenOK
  <2> QED
    BY <2>1, <2>2, <2>3
<1> QED
  BY <1>13, <1>14, <1>15, <1>16, <1>17 DEF CleanupInv

\* A completion is counted in the group that its coroutine cleans up.
LEMMA StepCountOp == ASSUME CleanupInv, NEW o \in AllOps, CountOp(o) PROVE CleanupInv'
<1> DEFINE c == home[o]
           s == stack[c]
           l == Len(s)
           g == Top(c)
<1>1. PICK f \in BOOLEAN :
        /\ ofail' = [ofail EXCEPT ![o] = f]
        /\ stack' = [stack EXCEPT ![c][l] = [g EXCEPT !.n = @ + 1, !.err = @ \/ f]]
  <2>1. \E f \in IF o # GenOp THEN BOOLEAN ELSE {pc["gen"] = "cleaned" /\ cerr["gen"]} :
          /\ ofail' = [ofail EXCEPT ![o] = f]
          /\ stack' = [stack EXCEPT ![c][l] = [g EXCEPT !.n = @ + 1, !.err = @ \/ f]]
    BY DEF CountOp
  <2>2. (pc["gen"] = "cleaned" /\ cerr["gen"]) \in BOOLEAN
    OBVIOUS
  <2> QED
    BY <2>1, <2>2
<1>2. /\ ost[o] = "running" /\ Alive(o)
      /\ o = GenOp => pc["gen"] \in {"gone", "cleaned"}
      /\ \A p \in AllOps : ost[p] # "counted"
      /\ old' = [old EXCEPT ![o] = g.n] /\ ost' = [ost EXCEPT ![o] = "counted"]
      /\ pc' = pc /\ next' = next /\ res' = res /\ cerr' = cerr /\ home' = home
  BY DEF CountOp
<1>3. TypeOK /\ CorosOK /\ FailsOK /\ OneCounted /\ NotYet /\ GenOK(pc, ost[GenOp], home[GenOp])
  BY DEF CleanupInv
<1>4. c \in Coros /\ Active(pc[c]) /\ \E j \in 1..Len(g.ops) : g.ops[j] = o
  BY <1>2, RunsInTop
<1>5. PICK j \in 1..Len(g.ops) : g.ops[j] = o
  BY <1>4
<1>6. /\ l \in 1..l /\ g \in Groups /\ g.ops \in Seq(AllOps) /\ g.n \in Nat /\ g.err \in BOOLEAN
      /\ Running(g, next[c], ost, old) /\ Inj(g.ops)
      /\ s \in Seq(Groups) /\ g = s[l] /\ CoroOK(c, s, pc[c], next[c], ost, home, old)
  BY <1>4, TopFacts, CoroFacts
<1> DEFINE h == [g EXCEPT !.n = @ + 1, !.err = @ \/ f]
           t == [s EXCEPT ![l] = h]
<1>7. h \in Groups /\ h.ops = g.ops /\ h.n = g.n + 1 /\ h.err = (g.err \/ f)
  <2>1. g.n + 1 \in Nat \ {0} /\ (g.err \/ f) \in BOOLEAN
    BY <1>6
  <2> HIDE DEF g
  <2> QED
    BY <1>6, <2>1 DEF Groups
<1> HIDE DEF h
<1>8. stack' = [stack EXCEPT ![c] = t]
  BY <1>1 DEF h
<1>9. /\ t \in Seq(Groups) /\ Len(t) = l /\ t[l] = h
      /\ \A k \in 1..l : k # l => t[k] = s[k]
  BY <1>6, <1>7, ExceptSeq
<1> HIDE DEF t
<1>10. /\ ost'[o] = "counted" /\ \A q \in AllOps : q # o => ost'[q] = ost[q]
       /\ old'[o] = g.n /\ \A q \in AllOps : q # o => old'[q] = old[q]
       /\ ofail'[o] = f /\ \A q \in AllOps : q # o => ofail'[q] = ofail[q]
       /\ stack'[c] = t /\ \A d \in Coros : d # c => stack'[d] = stack[d]
  BY <1>1, <1>2, <1>3, <1>4, <1>8 DEF TypeOK
<1>11. CoroOK(c, t, pc[c], next[c], ost', home, old')
  <2> DEFINE p == pc[c]
             x == next[c]
             os2 == ost'
             od2 == old'
  <2>1. /\ g.ops \in Seq(AllOps) /\ g.n \in Nat /\ Inj(g.ops) /\ Running(g, x, ost, old)
        /\ j \in 1..Len(g.ops) /\ ost[g.ops[j]] = "running"
        /\ \A q \in AllOps : ost[q] # "counted"
        /\ os2[g.ops[j]] = "counted" /\ \A q \in AllOps : q # g.ops[j] => os2[q] = ost[q]
        /\ od2[g.ops[j]] = g.n /\ h.ops = g.ops /\ h.n = g.n + 1
    BY <1>2, <1>5, <1>6, <1>7, <1>10
  <2>2. CoroOK(c, s, p, x, ost, home, old) /\ Active(p)
    BY <1>4, <1>6
  <2>3. g = s[Len(s)]
    BY <1>6
  <2>4. t \in Seq(Groups) /\ Len(t) = Len(s) /\ t[Len(s)] = h
        /\ \A k \in 1..Len(s) : k # Len(s) => t[k] = s[k]
    BY <1>9
  <2> HIDE DEF p, x, os2, od2, g, s, c
  <2>5. Running(h, x, os2, od2)
    BY ONLY <2>1, GroupCounts
  <2>6. RunsOn(s, ost, t, x, os2, od2)
    BY <2>1, <2>3, <2>4, <2>5 DEF RunsOn
  <2>7. CoroOK(c, t, p, x, os2, home, od2)
    BY ONLY <2>2, <2>6, CoroRuns
  <2> QED
    BY <2>7 DEF p, x, os2, od2
<1> HIDE DEF c, s, l, g
<1>12. CorosOK'
  <2>1. CoroOK(c, stack'[c], pc'[c], next'[c], ost', home', old')
    BY <1>2, <1>10, <1>11
  <2>2. ASSUME NEW d \in Coros, d # c
        PROVE  /\ stack'[d] = stack[d] /\ next'[d] = next[d]
               /\ \/ pc'[d] = pc[d]
                  \/ ~Active(pc[d]) /\ ~Active(pc'[d]) /\ pc'[d] \notin {"new", "cleaned", "gone"}
               /\ \A q \in AllOps : (home[q] = d /\ ost[q] # "new") =>
                    (home'[q] = d /\ ost'[q] = ost[q] /\ old'[q] = old[q])
               /\ \A q \in AllOps : (home'[q] = d /\ ost'[q] # "new") => (home[q] = d /\ ost[q] # "new")
    <3>1. \A q \in AllOps : home[q] = d => ost'[q] = ost[q] /\ old'[q] = old[q]
      BY <1>10, <2>2 DEF c
    <3> QED
      BY <1>2, <1>10, <2>2, <3>1
  <2> QED
    BY <1>3, <1>4, <2>1, <2>2, StepOfCoro
<1>13. /\ Failed(c, home', ofail') <=> (Failed(c, home, ofail) \/ f)
       /\ \A d \in Coros : d # c => (Failed(d, home', ofail') <=> Failed(d, home, ofail))
  <2>1. ~ofail[o]
    BY <1>2, <1>3 DEF NotYet
  <2> QED
    BY <1>2, <1>10, <2>1 DEF Failed, c
<1>14. FailsOK'
  <2> SUFFICES ASSUME NEW d \in Coros
               PROVE  FailOK(d, stack'[d], pc'[d], res'[d], cerr'[d], home', ofail')
    BY DEF FailsOK
  <2>1. CASE d # c
    <3>1. /\ res'[d] = res[d] /\ cerr'[d] = cerr[d] /\ pc'[d] = pc[d] /\ stack'[d] = stack[d]
          /\ Failed(d, home', ofail') <=> Failed(d, home, ofail)
      BY <1>2, <1>10, <1>13, <2>1
    <3> QED
      BY <1>3, <3>1, FailStill
  <2>2. CASE d = c
    <3>1. FailOK(c, s, pc[c], res[c], cerr[c], home, ofail)
      BY <1>4, CoroFacts DEF s
    <3>2. s[Len(s)].err = g.err /\ t[Len(t)].err = (g.err \/ f)
      BY <1>6, <1>7, <1>9 DEF l
    <3>3. FailOK(c, t, pc[c], res[c], cerr[c], home', ofail')
      BY <1>4, <1>13, <3>1, <3>2 DEF FailOK
    <3> QED
      BY <1>2, <1>10, <2>2, <3>3
  <2> QED
    BY <2>1, <2>2
<1>15. TypeOK'
  <2>1. stack' \in [Coros -> Seq(Groups)]
    BY <1>3, <1>8, <1>9 DEF TypeOK
  <2>2. /\ ost' \in [AllOps -> {"new", "added", "running", "counted", "done"}]
        /\ old' \in [AllOps -> Nat] /\ ofail' \in [AllOps -> BOOLEAN]
    BY <1>1, <1>2, <1>3, <1>6 DEF TypeOK
  <2> QED
    BY <1>2, <1>3, <2>1, <2>2 DEF TypeOK
<1>16. OneCounted' /\ NotYet'
  <2>1. OneCounted'
    BY <1>2, <1>10 DEF OneCounted
  <2>2. NotYet'
    BY <1>3, <1>10 DEF NotYet
  <2> QED
    BY <2>1, <2>2
<1>17. GenOK(pc', ost'[GenOp], home'[GenOp])
  <2>1. CASE o = GenOp
    BY <1>2, <1>3, <1>10, <2>1 DEF GenOK
  <2>2. CASE o # GenOp
    <3>1. ost'[GenOp] = ost[GenOp]
      BY <1>10, <2>2 DEF AllOps
    <3> QED
      BY <1>2, <1>3, <3>1
  <2> QED
    BY <2>1, <2>2
<1> QED
  BY <1>12, <1>14, <1>15, <1>16, <1>17 DEF CleanupInv

\* ... and compares the old count with the size of the group.
LEMMA StepCompareSize == ASSUME CleanupInv, NEW o \in AllOps, CompareSize(o) PROVE CleanupInv'
<1> DEFINE c == home[o]
           s == stack[c]
           l == Len(s)
           g == Top(c)
<1>1. /\ ost[o] = "counted" /\ Alive(o) /\ ost' = [ost EXCEPT ![o] = "done"]
      /\ home' = home /\ ofail' = ofail /\ old' = old
      /\ IF old[o] = Len(g.ops) THEN ScopeResumes(c) \/ StackResumes(c)
         ELSE stack' = stack /\ pc' = pc /\ next' = next /\ res' = res /\ cerr' = cerr
  BY DEF CompareSize, GroupComplete
<1>2. TypeOK /\ CorosOK /\ FailsOK /\ OneCounted /\ NotYet /\ GenOK(pc, ost[GenOp], home[GenOp])
  BY DEF CleanupInv
<1>3. c \in Coros /\ Active(pc[c]) /\ \E j \in 1..Len(g.ops) : g.ops[j] = o
  BY <1>1, RunsInTop
<1>4. PICK j \in 1..Len(g.ops) : g.ops[j] = o
  BY <1>3
<1>5. /\ l \in 1..l /\ g \in Groups /\ g.ops \in Seq(AllOps) /\ g.n \in Nat /\ g.err \in BOOLEAN
      /\ Running(g, next[c], ost, old) /\ Inj(g.ops) /\ l \in Nat
      /\ s \in Seq(Groups) /\ g = s[l] /\ CoroOK(c, s, pc[c], next[c], ost, home, old)
      /\ FailOK(c, s, pc[c], res[c], cerr[c], home, ofail)
  BY <1>3, TopFacts, CoroFacts
<1>6. /\ ost'[o] = "done" /\ \A q \in AllOps : q # o => ost'[q] = ost[q]
      /\ \A q \in AllOps : home[q] # c => ost'[q] = ost[q]
      /\ \A q \in AllOps : ost[q] = "counted" => q = o
  BY <1>1, <1>2 DEF TypeOK, OneCounted
<1>7. /\ ost' \in [AllOps -> {"new", "added", "running", "counted", "done"}]
      /\ OneCounted' /\ NotYet' /\ GenOK(pc, ost'[GenOp], home[GenOp])
  <2>1. ost' \in [AllOps -> {"new", "added", "running", "counted", "done"}]
    BY <1>1, <1>2 DEF TypeOK
  <2>2. OneCounted'
    BY <1>2, <1>6 DEF OneCounted
  <2>3. NotYet'
    BY <1>1, <1>2, <1>6 DEF NotYet
  <2>4. GenOK(pc, ost'[GenOp], home[GenOp])
    <3>1. CASE o = GenOp
      BY <1>1, <1>2, <1>6, <3>1 DEF GenOK
    <3>2. CASE o # GenOp
      <4>1. ost'[GenOp] = ost[GenOp]
        BY <1>6, <3>2 DEF AllOps
      <4> QED
        BY <1>2, <4>1
    <3> QED
      BY <3>1, <3>2
  <2> QED
    BY <2>1, <2>2, <2>3, <2>4
\* the end of the group, with what is left of the stack
<1>8. ASSUME old[o] = Len(g.ops), NEW t \in Seq(Groups),
             \/ Len(t) = l - 1
             \/ Len(t) = l /\ t[l].ops = << >> /\ t[l].n = g.n,
             \A k \in 1..l : k # l => t[k] = s[k],
             NEW q \in {"body", "leaving"}
      PROVE  CoroOK(c, t, q, next[c], ost', home, old)
  <2> DEFINE p == pc[c]
             x == next[c]
             os2 == ost'
  <2>1. /\ CoroOK(c, s, p, x, ost, home, old) /\ Active(p) /\ ~Active(q)
        /\ q \notin {"new", "cleaned", "gone"}
    BY <1>3, <1>5 DEF Active
  <2>2. /\ j \in 1..Len(g.ops) /\ ost[g.ops[j]] = "counted" /\ old[g.ops[j]] = Len(g.ops)
        /\ os2[g.ops[j]] = "done" /\ \A b \in AllOps : b # g.ops[j] => os2[b] = ost[b]
        /\ \A b \in AllOps : ost[b] = "counted" => b = g.ops[j]
    BY <1>1, <1>4, <1>6, <1>8
  <2>3. g = s[Len(s)]
    BY <1>5
  <2>4. /\ t \in Seq(Groups)
        /\ \/ Len(t) = Len(s) - 1
           \/ Len(t) = Len(s) /\ t[Len(s)].ops = << >> /\ t[Len(s)].n = s[Len(s)].n
        /\ \A k \in 1..Len(s) : k # Len(s) => t[k] = s[k]
    BY <1>8, <2>3
  <2> HIDE DEF p, x, os2, g, s, c
  <2>5. Ends(s, ost, old, t, os2)
    BY <2>2, <2>3, <2>4 DEF Ends
  <2>6. CoroOK(c, t, q, x, os2, home, old)
    BY ONLY <2>1, <2>5, CoroEnds
  <2> QED
    BY <2>6 DEF x, os2
<1>9. CASE old[o] # Len(g.ops)
  <2>1. stack' = stack /\ pc' = pc /\ next' = next /\ res' = res /\ cerr' = cerr
    BY <1>1, <1>9
  <2>2. CoroOK(c, s, pc[c], next[c], ost', home, old)
    <3> DEFINE p == pc[c]
               x == next[c]
               os2 == ost'
    <3>1. /\ g.ops \in Seq(AllOps) /\ Inj(g.ops) /\ Running(g, x, ost, old)
          /\ j \in 1..Len(g.ops) /\ ost[g.ops[j]] = "counted"
          /\ os2[g.ops[j]] = "done" /\ \A q \in AllOps : q # g.ops[j] => os2[q] = ost[q]
      BY <1>1, <1>4, <1>5, <1>6
    <3>2. CoroOK(c, s, p, x, ost, home, old) /\ Active(p) /\ s \in Seq(Groups) /\ g = s[Len(s)]
      BY <1>3, <1>5
    <3> HIDE DEF p, x, os2, g, s, c
    <3>3. Running(g, x, os2, old)
      BY ONLY <3>1, GroupCompares
    <3>4. RunsOn(s, ost, s, x, os2, old)
      BY <3>1, <3>2, <3>3 DEF RunsOn
    <3>5. CoroOK(c, s, p, x, os2, home, old)
      BY ONLY <3>2, <3>4, CoroRuns
    <3> QED
      BY <3>5 DEF p, x, os2
  <2>3. /\ stack' = [stack EXCEPT ![c] = s] /\ pc' = [pc EXCEPT ![c] = pc[c]]
        /\ next' = [next EXCEPT ![c] = next[c]] /\ res' = [res EXCEPT ![c] = res[c]]
        /\ pc[c] \in Places /\ next[c] \in Nat
        /\ res[c] \in {"none", "val", "err", "cleanup_failed"}
    BY <1>2, <1>3, <2>1 DEF TypeOK, Places
  <2>4. GenOK(pc', ost'[GenOp], home[GenOp])
    BY <1>7, <2>1
  <2> DEFINE q == pc[c]
             x == next[c]
             v == res[c]
  <2>5. /\ c \in Coros /\ q \in Places /\ x \in Nat
        /\ v \in {"none", "val", "err", "cleanup_failed"}
        /\ stack' = [stack EXCEPT ![c] = s] /\ pc' = [pc EXCEPT ![c] = q]
        /\ next' = [next EXCEPT ![c] = x] /\ res' = [res EXCEPT ![c] = v]
        /\ cerr' = cerr /\ home' = home /\ ofail' = ofail /\ old' = old
        /\ \A b \in AllOps : home[b] # c => ost'[b] = ost[b]
        /\ CoroOK(c, s, q, x, ost', home, old) /\ FailOK(c, s, q, v, cerr[c], home, ofail)
    BY <1>1, <1>3, <1>5, <1>6, <2>1, <2>2, <2>3
  <2> HIDE DEF c, s, q, x, v
  <2> QED
    BY ONLY CleanupInv, <1>7, <2>4, <2>5, StepMovesOp
<1>10. CASE old[o] = Len(g.ops) /\ ScopeResumes(c)
  <2> DEFINE h == [g EXCEPT !.ops = << >>]
             t == [s EXCEPT ![l] = h]
             q == IF g.err THEN "leaving" ELSE "body"
             v == IF g.err THEN "cleanup_failed" ELSE res[c]
  <2>1. /\ pc[c] = "scope" /\ stack' = [stack EXCEPT ![c][l].ops = << >>]
        /\ pc' = [pc EXCEPT ![c] = q] /\ res' = [res EXCEPT ![c] = v]
        /\ next' = [next EXCEPT ![c] = next[c]] /\ cerr' = cerr
    <3>1. res = [res EXCEPT ![c] = res[c]] /\ next = [next EXCEPT ![c] = next[c]]
      BY <1>2 DEF TypeOK
    <3> QED
      BY <1>10, <3>1 DEF ScopeResumes
  <2>2. h \in Groups /\ h.ops = << >> /\ h.n = g.n
    <3>1. << >> \in Seq(AllOps)
      OBVIOUS
    <3> HIDE DEF g
    <3> QED
      BY <1>5, <3>1 DEF Groups
  <2>3. stack' = [stack EXCEPT ![c] = t]
    BY <1>5, <2>1
  <2> HIDE DEF h
  <2>4. /\ t \in Seq(Groups) /\ Len(t) = l /\ t[l] = h
        /\ \A k \in 1..l : k # l => t[k] = s[k]
    BY <1>5, <2>2, ExceptSeq
  <2> HIDE DEF t
  <2>5. CoroOK(c, t, q, next[c], ost', home, old)
    <3>1. q \in {"body", "leaving"} /\ t[l].ops = << >> /\ t[l].n = g.n
      BY <2>2, <2>4
    <3> HIDE DEF q, c, s, l, g
    <3> QED
      BY <1>8, <1>10, <2>4, <3>1
  <2>6. FailOK(c, t, q, v, cerr[c], home, ofail)
    <3>1. /\ Active("scope") /\ ~Active("leaving") /\ ~Active("body")
          /\ FailOK(c, s, "scope", res[c], cerr[c], home, ofail) /\ s[Len(s)].err = g.err
      BY <1>5, <2>1 DEF Active
    <3> HIDE DEF g, s, c
    <3>2. /\ ~cerr[c] /\ res[c] # "cleanup_failed" /\ (Failed(c, home, ofail) <=> g.err)
      BY <3>1 DEF FailOK
    <3>3. CASE g.err
      BY <3>1, <3>2, <3>3 DEF FailOK
    <3>4. CASE ~g.err
      BY <3>1, <3>2, <3>4 DEF FailOK
    <3> QED
      BY <3>3, <3>4
  <2>7. GenOK(pc', ost'[GenOp], home[GenOp])
    <3>1. q \in {"body", "leaving"} /\ pc'[c] = q /\ \A d \in Coros : d # c => pc'[d] = pc[d]
      BY <1>2, <1>3, <2>1 DEF TypeOK
    <3> HIDE DEF q, c
    <3>2. CASE c = "task"
      BY <1>7, <2>1, <3>1, <3>2 DEF GenOK, Coros
    <3>3. CASE c = "gen"
      BY <1>7, <2>1, <3>1, <3>3 DEF GenOK, Coros
    <3> QED
      BY <1>3, <3>2, <3>3 DEF Coros
  <2>8. /\ q \in Places /\ next[c] \in Nat
        /\ v \in {"none", "val", "err", "cleanup_failed"}
    BY <1>2, <1>3 DEF TypeOK, Places
  <2> DEFINE x == next[c]
  <2>9. /\ c \in Coros /\ q \in Places /\ x \in Nat
        /\ v \in {"none", "val", "err", "cleanup_failed"}
        /\ stack' = [stack EXCEPT ![c] = t] /\ pc' = [pc EXCEPT ![c] = q]
        /\ next' = [next EXCEPT ![c] = x] /\ res' = [res EXCEPT ![c] = v]
        /\ cerr' = cerr /\ home' = home /\ ofail' = ofail /\ old' = old
        /\ \A b \in AllOps : home[b] # c => ost'[b] = ost[b]
        /\ CoroOK(c, t, q, x, ost', home, old) /\ FailOK(c, t, q, v, cerr[c], home, ofail)
    BY <1>1, <1>3, <1>6, <2>1, <2>3, <2>5, <2>6, <2>8
  <2> HIDE DEF c, q, v, x
  <2> QED
    BY ONLY CleanupInv, <1>7, <2>7, <2>9, StepMovesOp
<1>11. CASE old[o] = Len(g.ops) /\ StackResumes(c)
  <2> DEFINE t == Front(s)
             w == WithoutEmpty(t)
             e == cerr[c] \/ g.err
  <2>0. cerr[c] \in BOOLEAN /\ e \in BOOLEAN
    BY <1>2, <1>3 DEF TypeOK
  <2>1. /\ pc[c] \in {"cleanup", "pcleanup"} /\ cerr' = [cerr EXCEPT ![c] = e]
        /\ stack' = [stack EXCEPT ![c] = w]
        /\ IF w = << >> THEN AfterCleanup(c, cerr'[c]) /\ next' = next
           ELSE next' = [next EXCEPT ![c] = 1] /\ pc' = pc /\ res' = res
    BY <1>11 DEF StackResumes
  <2>2. cerr'[c] = e
    BY <1>2, <1>3, <2>1 DEF TypeOK
  <2>3. /\ t \in Seq(Groups) /\ Len(t) = l - 1
        /\ \A k \in 1..l - 1 : t[k] = s[k]
    <3>1. \A k \in 1..l - 1 : s[k] \in Groups
      BY <1>5, ElementOfSeq
    <3>2. 1 \in Int /\ l - 1 \in Int /\ l - 1 >= 0
      BY <1>5
    <3> QED
      BY <1>5, <3>1, <3>2, SubSeqProperties DEF Front
  <2> HIDE DEF t
  <2>4. CoroOK(c, t, "leaving", next[c], ost', home, old)
    <3>1. "leaving" \in {"body", "leaving"} /\ \A k \in 1..l : k # l => t[k] = s[k]
      BY <1>5, <2>3
    <3> HIDE DEF c, s, l, g
    <3> QED
      BY <1>8, <1>11, <2>3, <3>1
  <2>5. Failed(c, home, ofail) <=> (res[c] = "cleanup_failed" \/ e)
    BY <1>3, <1>5 DEF FailOK
  <2>6. IF w = << >>
        THEN AfterCleanup(c, e) /\ next' = next
        ELSE /\ next' = [next EXCEPT ![c] = 1] /\ res' = res
             /\ pc' = [pc EXCEPT ![c] = IF pc[c] \in {"leaving", "cleanup"} THEN "cleanup"
                                                                          ELSE "pcleanup"]
    <3>1. CASE w = << >>
      <4> HIDE DEF w, e, c
      <4> QED
        BY <2>1, <2>2, <3>1
    <3>2. CASE w # << >>
      <4>1. pc[c] = IF pc[c] \in {"leaving", "cleanup"} THEN "cleanup" ELSE "pcleanup"
        BY <2>1
      <4>2. pc = [pc EXCEPT ![c] = pc[c]]
        BY <1>2 DEF TypeOK
      <4> HIDE DEF w, c
      <4> QED
        BY <2>1, <3>2, <4>1, <4>2
    <3> QED
      BY <3>1, <3>2
  <2>7. /\ c \in Coros /\ pc[c] \in {"leaving", "pleaving", "cleanup", "pcleanup"}
        /\ stack' = [stack EXCEPT ![c] = WithoutEmpty(t)] /\ cerr' = [cerr EXCEPT ![c] = e]
        /\ home' = home /\ ofail' = ofail /\ old' = old
        /\ \A b \in AllOps : home[b] # c => ost'[b] = ost[b]
    BY <1>1, <1>3, <1>6, <2>1
  <2> HIDE DEF c, e
  <2> QED
    BY ONLY CleanupInv, <1>7, <2>0, <2>4, <2>5, <2>6, <2>7, GoesOn DEF w
<1> QED
  BY <1>1, <1>9, <1>10, <1>11

-----------------------------------------------------------------------------
(* The invariant holds. *)

LEMMA CleanupInit == ASSUME ConstAssumption, Init PROVE CleanupInv
<1>1. /\ \A c \in Coros : /\ stack[c] = << >> /\ next[c] = 0 /\ res[c] = "none" /\ cerr[c] = FALSE
                          /\ pc[c] \in {"body", "new"}
      /\ \A o \in AllOps : /\ ost[o] = "new" /\ home[o] = "task" /\ ofail[o] = FALSE
  BY DEF Init
<1>2. TypeOK
  <2>1. << >> \in Seq(Groups) /\ "task" \in Coros
    BY DEF Coros
  <2> QED
    BY <2>1 DEF Init, TypeOK
<1>3. CorosOK
  <2> SUFFICES ASSUME NEW c \in Coros
               PROVE  CoroOK(c, stack[c], pc[c], next[c], ost, home, old)
    BY DEF CorosOK
  <2>1. ~Active(pc[c]) /\ stack[c] = << >> /\ next[c] = 0
    BY <1>1 DEF Active
  <2>2. << >> \in Seq(Groups) /\ 1..Len(<< >>) = {}
    OBVIOUS
  <2> QED
    BY <1>1, <2>1, <2>2 DEF CoroOK, OnceIn
<1>4. FailsOK
  <2> SUFFICES ASSUME NEW c \in Coros
               PROVE  FailOK(c, stack[c], pc[c], res[c], cerr[c], home, ofail)
    BY DEF FailsOK
  <2>1. ~Active(pc[c]) /\ ~Failed(c, home, ofail)
    BY <1>1 DEF Active, Failed
  <2> QED
    BY <1>1, <2>1 DEF FailOK
<1>5. OneCounted /\ NotYet
  BY <1>1 DEF OneCounted, NotYet
<1>6. GenOK(pc, ost[GenOp], home[GenOp])
  <2>1. pc["task"] = "body" /\ pc["gen"] = "new"
    BY DEF Init, Coros
  <2>2. GenOp \in AllOps
    BY DEF AllOps
  <2> QED
    BY <1>1, <2>1, <2>2 DEF GenOK
<1> QED
  BY <1>2, <1>3, <1>4, <1>5, <1>6 DEF CleanupInv

LEMMA CleanupStep ==
    ASSUME ConstAssumption, ~Reuse, CleanupInv, [Next]_vars
    PROVE  CleanupInv'
<1>1. CASE UNCHANGED vars
  BY <1>1 DEF vars, CleanupInv, TypeOK, CorosOK, OneCounted, NotYet, FailsOK
<1>2. CASE Next
  <2>1. ASSUME NEW c \in Coros, OpenScope(c) PROVE CleanupInv'
    BY <2>1, StepOpenScope
  <2>2. ASSUME NEW c \in Coros, NEW o \in Ops, AddCleanup(c, o) PROVE CleanupInv'
    BY <2>2, StepAddCleanup
  <2>3. ASSUME NEW c \in Coros, NEW o \in Ops, NEW k \in 1..MaxDepth, AddToScope(c, k, o)
        PROVE  CleanupInv'
    BY <2>3, StepAddToScope
  <2>4. ASSUME NEW c \in Coros, EndScope(c) PROVE CleanupInv'
    BY <2>4, StepEndScope
  <2>5. ASSUME NEW c \in Coros, CloseScope(c) PROVE CleanupInv'
    BY <2>5, StepCloseScope
  <2>6. ASSUME NEW c \in Coros, NEW v \in {"val", "err"}, Leave(c, v) PROVE CleanupInv'
    BY <2>6, StepLeave
  <2>7. ASSUME NEW c \in Coros, StartCleanup(c) PROVE CleanupInv'
    BY <2>7, StepStartCleanup
  <2>8. ASSUME NEW c \in Coros, StartOp(c) PROVE CleanupInv'
    BY <2>8, StepStartOp
  <2>9. CASE NextOfGen
    BY <2>9, StepNextOfGen
  <2>10. CASE Yield
    BY <2>10, StepYield
  <2>11. ASSUME NEW o \in AllOps, CountOp(o) PROVE CleanupInv'
    BY <2>11, StepCountOp
  <2>12. ASSUME NEW o \in AllOps, CompareSize(o) PROVE CleanupInv'
    BY <2>12, StepCompareSize
  <2> QED
    BY <1>2, <2>1, <2>2, <2>3, <2>4, <2>5, <2>6, <2>7, <2>8, <2>9, <2>10, <2>11, <2>12 DEF Next
<1> QED
  BY <1>1, <1>2

-----------------------------------------------------------------------------
(* What it implies. *)

LEMMA Innermost == ASSUME CleanupInv PROVE InnermostFirst
BY DEF CleanupInv, CorosOK, CoroOK, Fresh, InnermostFirst

LEMMA ScopeDone == ASSUME CleanupInv PROVE ResumedWhenScopeDone
<1> SUFFICES ASSUME NEW c \in Coros, pc[c] = "body", NEW o \in AllOps, home[o] = c,
                    ost[o] \in {"running", "counted"}
             PROVE  FALSE
  <2>1. \A o \in AllOps : ost[o] \in {"new", "added", "running", "counted", "done"}
    BY DEF CleanupInv, TypeOK
  <2> QED
    BY <2>1 DEF ResumedWhenScopeDone
<1>1. CoroOK(c, stack[c], pc[c], next[c], ost, home, old) /\ ~Active(pc[c])
  BY CoroFacts DEF Active
<1>2. In(stack[c], o)
  BY <1>1 DEF CoroOK
<1> QED
  BY <1>1, <1>2 DEF CoroOK, Fresh, In

\* a coroutine whose stack is empty has nothing left to clean up
LEMMA NothingLeft ==
    ASSUME CleanupInv, NEW c \in Coros, stack[c] = << >>, NEW o \in AllOps, home[o] = c
    PROVE  ost[o] \in {"new", "done"}
<1>1. CoroOK(c, stack[c], pc[c], next[c], ost, home, old)
  BY CoroFacts
<1>2. ~In(stack[c], o)
  BY DEF In
<1>3. ost[o] \in {"new", "added", "running", "counted", "done"}
  BY DEF CleanupInv, TypeOK
<1> QED
  BY <1>1, <1>2, <1>3 DEF CoroOK

LEMMA Clean == ASSUME CleanupInv PROVE DestroyedWhenClean
<1>1. \A c \in Coros : pc[c] \in {"new", "cleaned", "gone"} => stack[c] = << >>
  BY DEF CleanupInv, CorosOK, CoroOK
<1>2. \A c \in Coros : pc[c] = "gone" =>
        \A o \in AllOps : home[o] = c => ost[o] \in {"new", "done"}
  BY <1>1, NothingLeft
<1>3. ASSUME pc["task"] = "gone"
      PROVE  /\ stack["gen"] = << >>
             /\ \A o \in AllOps : ost[o] \in {"new", "done"}
  <2>1. "task" \in Coros /\ "gen" \in Coros /\ GenOp \in AllOps
    BY DEF Coros, AllOps
  <2>2. GenOK(pc, ost[GenOp], home[GenOp])
    BY DEF CleanupInv
  <2>3. ost[GenOp] \in {"new", "done"}
    BY <1>2, <1>3, <2>1, <2>2 DEF GenOK
  <2>4. stack["gen"] = << >>
    BY <1>1, <2>1, <2>2, <2>3 DEF GenOK
  <2>5. \A o \in AllOps : home[o] \in Coros
    BY DEF CleanupInv, TypeOK
  <2> QED
    BY <1>2, <1>3, <2>1, <2>4, <2>5, NothingLeft DEF Coros
<1>4. stack["gen"] = << >> => WithoutEmpty(stack["gen"]) = << >>
  BY DEF WithoutEmpty
<1> QED
  BY <1>2, <1>3, <1>4 DEF DestroyedWhenClean

LEMMA Reported == ASSUME CleanupInv PROVE FailureReported
<1> SUFFICES ASSUME NEW c \in Coros, pc[c] = "gone"
             PROVE  res[c] = "cleanup_failed" <=> \E o \in AllOps : home[o] = c /\ ofail[o]
  BY DEF FailureReported
<1>1. FailOK(c, stack[c], pc[c], res[c], cerr[c], home, ofail) /\ ~Active(pc[c])
  BY CoroFacts DEF Active
<1> QED
  BY <1>1 DEF FailOK, Failed

\* One task and its generator, with any cleanup ops in scopes of any depth to which nothing is added
\* once they have been cleaned up (lazy_async_op_group::add() asserts it): the ops of an outer scope
\* wait for those of the inner ones, a body goes on after its scope's ops, a coroutine is destroyed
\* after all of them, and its result says whether one of them failed.
THEOREM CleanupCorrect ==
    ASSUME ConstAssumption, ~Reuse
    PROVE  Spec => [](InnermostFirst /\ ResumedWhenScopeDone /\ DestroyedWhenClean /\ FailureReported)
<1>1. Init => CleanupInv
  BY CleanupInit
<1>2. CleanupInv /\ [Next]_vars => CleanupInv'
  BY CleanupStep
<1>3. CleanupInv => InnermostFirst /\ ResumedWhenScopeDone /\ DestroyedWhenClean /\ FailureReported
  BY Innermost, ScopeDone, Clean, Reported
<1> QED
  BY <1>1, <1>2, <1>3, PTL DEF Spec

=============================================================================
