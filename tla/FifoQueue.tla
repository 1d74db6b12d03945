------------------------------ MODULE FifoQueue ------------------------------
(***************************************************************************)
(* What res_queue promises of the order of its values: a step may append   *)
(* new values to the queue and move values from its head to the output, or *)
(* discard everything that is queued.  The output followed by the queue is *)
(* the order in which values went in.                                      *)
(***************************************************************************)
EXTENDS Naturals, Sequences

CONSTANT Vals   \* values that can be put in, each at most once

VARIABLES
    q,      \* the values queued
    out,    \* the values taken out, oldest first
    seen    \* every value ever put in

vars == <<q, out, seen>>

Init == q = << >> /\ out = << >> /\ seen = {}

\* Bound: a step puts in at most two values, as the ranges of ResQueue.
NewValues ==
    {s \in {<< >>} \cup [{1} -> Vals \ seen] \cup [{1, 2} -> Vals \ seen] :
        Len(s) = 2 => s[1] # s[2]}

Move ==
    \E s \in NewValues :
        \E n \in 0..Len(q \o s) :
            /\ q' = SubSeq(q \o s, n + 1, Len(q \o s))
            /\ out' = out \o SubSeq(q \o s, 1, n)
            /\ seen' = seen \cup {s[i] : i \in 1..Len(s)}

Discard == q' = << >> /\ UNCHANGED <<out, seen>>

Next == Move \/ Discard

Spec == Init /\ [][Next]_vars
=============================================================================
