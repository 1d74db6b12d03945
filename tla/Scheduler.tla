------------------------------ MODULE Scheduler ------------------------------
(***************************************************************************)
(* What a thread pool promises of the callables it is given: post()        *)
(* schedules a callable, each one scheduled is executed at most once, and  *)
(* only the end of the pool ("Pending jobs may be ignored") drops any.     *)
(***************************************************************************)
EXTENDS Naturals, Sequences

CONSTANT Jobs   \* the callables, each posted at most once

VARIABLES
    queued,     \* scheduled and not yet started
    ran,        \* started, in that order
    dropped     \* destroyed without having been started

vars == <<queued, ran, dropped>>

Init == queued = {} /\ ran = << >> /\ dropped = {}

Post(j) ==
    /\ j \notin queued \cup dropped
    /\ \A i \in 1..Len(ran) : ran[i] # j
    /\ queued' = queued \cup {j}
    /\ UNCHANGED <<ran, dropped>>

Run(j) ==
    /\ j \in queued
    /\ queued' = queued \ {j}
    /\ ran' = Append(ran, j)
    /\ UNCHANGED dropped

End ==
    /\ dropped' = dropped \cup queued
    /\ queued' = {}
    /\ UNCHANGED ran

Next == End \/ \E j \in Jobs : Post(j) \/ Run(j)

Spec == Init /\ [][Next]_vars
=============================================================================
