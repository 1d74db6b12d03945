------------------------------ MODULE ResPoolMap ------------------------------
(***************************************************************************)
(* res_pool_map of include/dsk/res_pool.hpp: a res_pool per key, found or  *)
(* added when something is acquired from it, under one mutex for all pools *)
(* or one per pool.  Within a pool it is the res_pool of module ResPool;   *)
(* here a critical section of it is one step, and a stop requested between *)
(* the check of the token and the callback is left to that module.         *)
(***************************************************************************)
EXTENDS Naturals, Sequences, SequencesExt, FiniteSets

CONSTANTS
    Keys,
    Users,     \* tasks that acquire, one resource at a time
    Caps       \* capacities given to the constructor, set_default_capacity(),
               \* try_emplace_pool()

\* DSK_ASSERT(_cap > 0), DSK_ASSERT(n > 0)
CapsAssumption == Caps \subseteq Nat \ {0}

VARIABLES
    autoAdd,   \* AutoAddPool
    perPool,   \* LockPolicy is res_pool_map_lock_per_pool
    pools,     \* _pools: by key, the capacity, the resources unused and in
               \* use (numbered as they are created) and the waiters
    defCap,    \* _cap
    upc,       \* per user: "run", "found" (between the two mutexes), "waiting"
    wants,     \* per user: the key of its current acquire()
    loan,      \* per user: the res_ref it owns, <<key, number>>, or <<>>
    ustop      \* per user: stop requested
vars == <<autoAdd, perPool, pools, defCap, upc, wants, loan, ustop>>

NewPool(c) == [cap |-> c, unused |-> <<>>, inuse |-> {}, waiters |-> <<>>]

Init ==
    /\ autoAdd \in BOOLEAN /\ perPool \in BOOLEAN
    /\ pools = [k \in {} |-> NewPool(0)] /\ defCap \in Caps
    /\ upc = [u \in Users |-> "run"]
    /\ wants \in [Users -> {CHOOSE k \in Keys : TRUE}]
    /\ loan = [u \in Users |-> <<>>] /\ ustop = [u \in Users |-> FALSE]

SetDefaultCapacity(c) ==
    /\ defCap' = c
    /\ UNCHANGED <<autoAdd, perPool, pools, upc, wants, loan, ustop>>

\* Mutant: insert_or_assign() for try_emplace().
EmplacedAfresh(ps, k, c) == [j \in DOMAIN ps \cup {k} |-> IF j = k THEN NewPool(c) ELSE ps[j]]

\* try_emplace_pool(): a pool that exists stays as it is
Emplaced(ps, k, c) ==
    IF k \in DOMAIN ps THEN ps
    ELSE [j \in DOMAIN ps \cup {k} |-> IF j = k THEN NewPool(c) ELSE ps[j]]

TryEmplacePool(k, c) ==
    /\ pools' = Emplaced(pools, k, c)
    /\ UNCHANGED <<autoAdd, perPool, defCap, upc, wants, loan, ustop>>

\* the pools after the lookup of acquire() and try_acquire()
LookedUp(k)  == IF autoAdd THEN Emplaced(pools, k, defCap) ELSE pools

Available(p) == p.unused # <<>> \/ Cardinality(p.inuse) < p.cap
NextRes(p)   == IF p.unused # <<>> THEN Head(p.unused)
                ELSE CHOOSE n \in 1 .. p.cap : n \notin p.inuse
Lent(p)      == [p EXCEPT !.unused = IF @ = <<>> THEN @ ELSE Tail(@),
                          !.inuse = @ \cup {NextRes(p)}]

\* what initiate() does with the pool ps[k]: acquires from it or waits
AcquireFrom(u, k, ps) ==
    IF Available(ps[k])
    THEN /\ pools' = [ps EXCEPT ![k] = Lent(@)]
         /\ loan' = [loan EXCEPT ![u] = <<k, NextRes(ps[k])>>]
         /\ upc' = [upc EXCEPT ![u] = "run"]
    ELSE /\ pools' = [ps EXCEPT ![k].waiters = Append(@, u)]
         /\ upc' = [upc EXCEPT ![u] = "waiting"]
         /\ UNCHANGED loan

\* rpm_async_acquire_op::initiate().  Stopped or not_found, it has a result
\* at once and nothing changes.
Acquire(u, k) ==
    /\ upc[u] = "run" /\ loan[u] = <<>> /\ ~ustop[u] /\ k \in DOMAIN LookedUp(k)
    /\ wants' = [wants EXCEPT ![u] = k]
    /\ IF perPool
       THEN pools' = LookedUp(k) /\ upc' = [upc EXCEPT ![u] = "found"] /\ UNCHANGED loan
       ELSE AcquireFrom(u, k, LookedUp(k))
    /\ UNCHANGED <<autoAdd, perPool, defCap, ustop>>

AcquireInPool(u) ==
    /\ upc[u] = "found" /\ AcquireFrom(u, wants[u], pools)
    /\ UNCHANGED <<autoAdd, perPool, defCap, wants, ustop>>

\* try_acquire(): between the mutexes nothing is kept but the pool
TryAcquire(u, k) ==
    /\ upc[u] = "run" /\ loan[u] = <<>> /\ k \in DOMAIN LookedUp(k)
    /\ LET ps == LookedUp(k) IN
       IF Available(ps[k])
       THEN pools' = [ps EXCEPT ![k] = Lent(@)] /\ loan' = [loan EXCEPT ![u] = <<k, NextRes(ps[k])>>]
       ELSE pools' = ps /\ UNCHANGED loan
    /\ wants' = [wants EXCEPT ![u] = k]
    /\ UNCHANGED <<autoAdd, perPool, defCap, upc, ustop>>

\* ~res_ref(): the oldest waiter of the pool gets the resource
Recycle(u) ==
    /\ upc[u] = "run" /\ loan[u] # <<>>
    /\ LET k == loan[u][1]
           n == loan[u][2]
           w == pools[k].waiters
       IN IF w # <<>>
          THEN /\ pools' = [pools EXCEPT ![k].waiters = Tail(@)]
               /\ loan' = [loan EXCEPT ![u] = <<>>, ![Head(w)] = <<k, n>>]
               /\ upc' = [upc EXCEPT ![Head(w)] = "run"]
          ELSE /\ pools' = [pools EXCEPT ![k].unused = <<n>> \o @, ![k].inuse = @ \ {n}]
               /\ loan' = [loan EXCEPT ![u] = <<>>]
               /\ UNCHANGED upc
    /\ UNCHANGED <<autoAdd, perPool, defCap, wants, ustop>>

Without(u, w) == RemoveAt(w, CHOOSE i \in DOMAIN w : w[i] = u)

\* request_stop(): the callback of a waiting op takes it out of the pool's
\* queue and completes it
RequestStop(u) ==
    /\ ~ustop[u] /\ upc[u] # "found" /\ ustop' = [ustop EXCEPT ![u] = TRUE]
    /\ IF upc[u] = "waiting"
       THEN /\ pools' = [pools EXCEPT ![wants[u]].waiters = Without(u, @)]
            /\ upc' = [upc EXCEPT ![u] = "run"]
       ELSE UNCHANGED <<pools, upc>>
    /\ UNCHANGED <<autoAdd, perPool, defCap, wants, loan>>

Next ==
    \/ \E c \in Caps : SetDefaultCapacity(c)
    \/ \E k \in Keys, c \in Caps : TryEmplacePool(k, c)
    \/ \E u \in Users, k \in Keys : Acquire(u, k) \/ TryAcquire(u, k)
    \/ \E u \in Users : AcquireInPool(u) \/ Recycle(u) \/ RequestStop(u)

Spec == Init /\ [][Next]_vars

\* However lookups, additions of pools and both mutexes interleave: a pool
\* has lent exactly what its users hold, never more than its capacity, and
\* an op waits in one pool, that of its key, and only while all of that is
\* lent.
PoolOfItsKey ==
    \A k \in DOMAIN pools :
        /\ Cardinality(pools[k].inuse) <= pools[k].cap
        /\ \A n \in pools[k].inuse : Cardinality({u \in Users : loan[u] = <<k, n>>}) = 1
        /\ \A u \in Users :
             /\ loan[u] # <<>> /\ loan[u][1] = k => loan[u][2] \in pools[k].inuse
             /\ u \in ToSet(pools[k].waiters) <=> upc[u] = "waiting" /\ wants[u] = k
             /\ upc[u] = "waiting" /\ wants[u] = k => ~Available(pools[k])
================================================================================
