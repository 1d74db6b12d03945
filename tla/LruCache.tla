------------------------------- MODULE LruCache -------------------------------
(***************************************************************************)
(* lru_cache of include/dsk/util/lru_cache.hpp: items in a list, the most  *)
(* recently used first, and a map from keys to them.                       *)
(*                                                                         *)
(* add() of a key that is held adds the new cost to _cost and keeps the    *)
(* old one there, too, so _cost may exceed what is held; preseve_cap() may *)
(* then reach the end of the list, which is undefined behaviour.           *)
(***************************************************************************)
EXTENDS Naturals, Sequences, SequencesExt, FiniteSets

CONSTANTS CKeys, Costs, LruCaps

VARIABLES
    lru,      \* _items: records of key and cost, MRU first
    iterMap,  \* _iterMap: the keys in it; an iterator is found by its key
    cost,     \* _cost
    lcap,     \* _cap
    undef,    \* back() of an empty list was used
    recent    \* history: the items that were used last, as many as fit
vars == <<lru, iterMap, cost, lcap, undef, recent>>

Init == lru = <<>> /\ iterMap = {} /\ cost = 0 /\ lcap \in LruCaps /\ undef = FALSE /\ recent = <<>>

Where(k)    == CHOOSE i \in DOMAIN lru : lru[i].key = k
Without(k)  == SelectSeq(lru, LAMBDA x : x.key # k)
CostOf(xs)  == FoldLeft(LAMBDA s, x : s + x.cost, 0, xs)

\* What an LRU cache holds: the most recently used items that fit together.
Fitting(xs, c)  == CHOOSE ys \in Prefixes(xs) : CostOf(ys) <= c /\ \A zs \in Prefixes(xs) : CostOf(zs) <= c => Len(zs) <= Len(ys)
Others(k)       == SelectSeq(recent, LAMBDA x : x.key # k)
Touched(k)      == SelectSeq(recent, LAMBDA x : x.key = k) \o Others(k)
Item(k, c)      == [key |-> k, cost |-> c]

\* preseve_cap(): the least recently used items go until _cost <= _cap
Evict(xs, m, c, cap0) ==
    LET n     == Len(xs)
        Left(j) == c - CostOf(SubSeq(xs, n - j + 1, n))
        enough == {j \in 0 .. n : Left(j) <= cap0}
    IN IF enough = {}
       THEN undef' = TRUE /\ UNCHANGED <<lru, iterMap, cost>>
       ELSE LET j == CHOOSE j \in enough : \A i \in enough : j <= i IN
            /\ lru' = SubSeq(xs, 1, n - j)
            /\ iterMap' = m \ {xs[i].key : i \in n - j + 1 .. n}
            /\ cost' = Left(j)
            /\ UNCHANGED undef

\* Mutant: items are removed for the capacity before the new one counts.
AddLate(k, c) ==
    /\ ~undef /\ c <= lcap
    /\ Evict(<<Item(k, c)>> \o Without(k), iterMap \cup {k}, cost, lcap)
    /\ recent' = Fitting(<<Item(k, c)>> \o Others(k), lcap) /\ UNCHANGED lcap

\* add(); the deleter is not called for an item that is replaced
Add(k, c) ==
    /\ ~undef /\ c <= lcap
    /\ Evict(<<Item(k, c)>> \o Without(k), iterMap \cup {k}, cost + c, lcap)
    /\ recent' = Fitting(<<Item(k, c)>> \o Others(k), lcap) /\ UNCHANGED lcap

\* get(), value()
Get(k) ==
    /\ ~undef /\ k \in iterMap
    /\ lru' = <<lru[Where(k)]>> \o Without(k)
    /\ recent' = Touched(k)
    /\ UNCHANGED <<iterMap, cost, lcap, undef>>

\* remove(), take()
RemoveItem(k) ==
    /\ ~undef /\ k \in iterMap
    /\ cost' = cost - lru[Where(k)].cost
    /\ lru' = Without(k) /\ iterMap' = iterMap \ {k}
    /\ recent' = Others(k)
    /\ UNCHANGED <<lcap, undef>>

SetCapacity(c) ==
    /\ ~undef /\ lcap' = c /\ Evict(lru, iterMap, cost, c)
    /\ recent' = Fitting(recent, c)

Clear ==
    /\ ~undef /\ lru' = <<>> /\ iterMap' = {} /\ cost' = 0 /\ recent' = <<>>
    /\ UNCHANGED <<lcap, undef>>

Next ==
    \/ \E k \in CKeys, c \in Costs : Add(k, c)
    \/ \E k \in CKeys : Get(k) \/ RemoveItem(k)
    \/ \E c \in LruCaps : SetCapacity(c)
    \/ Clear

Spec == Init /\ [][Next]_vars

\* Until the list is used past its end: the map has exactly the keys of the
\* list, each once, and what is held costs at most used(), at most
\* capacity().
HeldWithinCap ==
    ~undef =>
        /\ iterMap = {lru[i].key : i \in DOMAIN lru} /\ Len(lru) = Cardinality(iterMap)
        /\ CostOf(lru) <= cost /\ cost <= lcap

\* The cache holds the items used last, the most recent one first, and all that fit, the one just added
\* among them ("t will be MRU").  With the costs of replaced items in _cost it holds fewer of them.
HoldsTheRecent ==
    ~undef => IF CostOf(lru) = cost THEN lru = recent ELSE IsPrefix(lru, recent)
================================================================================
