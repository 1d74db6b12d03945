----------------------------- MODULE RedisReply -----------------------------
(***************************************************************************)
(* What redis_conn::exec() stores of the replies to a request: the         *)
(* adapters of include/dsk/redis/adapters.hpp, which boost.redis calls     *)
(* with every node of every reply, in the order of the wire.  A reply to   *)
(* one command is stored in one variable or, when it is an array, in the   *)
(* elements of a nested tuple; the nested adapter finds the element a node *)
(* belongs to by counting the nodes of the aggregates it meets.            *)
(*                                                                         *)
(* The wire is external: any nodes that make up complete replies.          *)
(***************************************************************************)
EXTENDS Naturals, Sequences

CONSTANTS
    MaxCmds,     \* bound: commands of a request
    MaxElms,     \* bound: elements of an array or of an aggregate in one
    Nested       \* whether an element may hold aggregates of aggregates

RedisAssumption == MaxCmds \in Nat /\ MaxElms \in Nat

VARIABLES
    tuple,       \* per command: 0 for a single variable, or the elements of its tuple
    cmd,         \* the command whose reply comes
    due,         \* per depth, the nodes still to come of the aggregate above
    elm,         \* the element of the array that came last
    i,           \* _i, per command
    n,           \* _n, per command
    stored,      \* where each node went: <<command, element, kind>>
    owners,      \* where it belongs
    ec           \* the error that ended the reply

vars == <<tuple, cmd, due, elm, i, n, stored, owners, ec>>

\* A reply is at depth 0; with Nested the aggregates of an element hold aggregates.
Depths == 0 .. (IF Nested THEN 3 ELSE 2)

Init ==
    /\ tuple \in [1..MaxCmds -> 0..MaxElms]
    /\ cmd = 1
    /\ due = [d \in Depths |-> 0]
    /\ elm = 0
    /\ i = [c \in 1..MaxCmds |-> 1]
    /\ n = [c \in 1..MaxCmds |-> 0]
    /\ stored = << >>
    /\ owners = << >>
    /\ ec = "none"

-----------------------------------------------------------------------------
(* The wire. *)

\* Nodes, element_multiplicity() included in the size: an aggregate has children, which are values
\* unless they are elements of the array.
Node(d, k, s) == [depth |-> d, kind |-> k, size |-> s]
Nodes ==
    {Node(d, "value", 0) : d \in Depths} \cup {Node(0, "null", 0), Node(1, "null", 0), Node(0, "error", 0)}
      \cup {Node(d, "agg", s) : d \in Depths \ {2, 3}, s \in 0..MaxElms}
      \cup {Node(d, "agg", s) : d \in Depths \ {0, 1, 3}, s \in IF Nested THEN 1..MaxElms ELSE {}}

\* The next node is part of the innermost aggregate that is not complete, or else a new reply.
Follows(nd) ==
    /\ nd.depth # 0 => due[nd.depth] > 0
    /\ \A d \in Depths : d > nd.depth => due[d] = 0
    /\ nd.depth = 0 => \A d \in Depths : due[d] = 0

\* The element it is part of.
Elm(nd) == IF nd.depth = 0 THEN 0 ELSE IF nd.depth = 1 THEN elm + 1 ELSE elm
Owner(nd) == <<cmd, IF tuple[cmd] = 0 THEN 0 ELSE Elm(nd), nd.kind>>

\* The node comes; that of an array stored in a tuple belongs nowhere.
Comes(nd) ==
    /\ ec = "none" /\ cmd <= MaxCmds
    /\ nd.depth = 0 /\ tuple[cmd] > 0 => nd.kind \in {"agg", "error"}
    /\ Follows(nd)
    /\ due' = [d \in Depths |-> IF d = nd.depth /\ d > 0 THEN due[d] - 1
                                ELSE IF d = nd.depth + 1 THEN nd.size ELSE due[d]]
    /\ elm' = Elm(nd)
    /\ cmd' = IF \A d \in Depths : due'[d] = 0 THEN cmd + 1 ELSE cmd
    /\ owners' = IF nd.depth = 0 /\ tuple[cmd] > 0 THEN owners ELSE Append(owners, Owner(nd))
    /\ UNCHANGED tuple

-----------------------------------------------------------------------------
(* The adapters. *)

\* redis_single_adapter: an error ends the reply, null resets an optional variable or is an error.
Single(c, e, nd) ==
    \/ /\ nd.kind = "error"
       /\ ec' = "resp3_error"
       /\ UNCHANGED stored
    \/ /\ nd.kind = "null"
       /\ ec' = "resp3_null"
       /\ UNCHANGED stored
    \/ /\ nd.kind # "error"
       /\ stored' = Append(stored, <<c, e, nd.kind>>)
       /\ UNCHANGED ec

\* Mutant: an empty aggregate is waited for.
AdvancedPastEmpty(c, nd) ==
    LET m == IF nd.depth = 1 /\ nd.kind = "agg" THEN nd.size + 1 ELSE n[c]
    IN  IF m = 0 THEN [i |-> i[c] + 1, n |-> 0] ELSE [i |-> i[c], n |-> m - 1]

\* redis_tuple_adapter: the element counters after a node below the array.
Advanced(c, nd) ==
    LET m == IF nd.depth = 1 /\ nd.kind = "agg" THEN nd.size ELSE n[c]
    IN  IF m = 0 THEN [i |-> i[c] + 1, n |-> 0] ELSE [i |-> i[c], n |-> m - 1]

\* A node of a reply that is stored in a variable.
FeedSingle(nd) ==
    /\ Comes(nd)
    /\ tuple[cmd] = 0
    /\ Single(cmd, 0, nd)
    /\ UNCHANGED <<i, n>>

\* The array itself: it must have as many elements as the tuple.
FeedArray(nd) ==
    /\ Comes(nd)
    /\ tuple[cmd] > 0 /\ nd.depth = 0
    /\ ec' = IF nd.size # tuple[cmd] THEN "incompatible_size" ELSE ec
    /\ UNCHANGED <<i, n, stored>>

\* A node below it, given to the element _i counts.
FeedElm(nd) ==
    /\ Comes(nd)
    /\ tuple[cmd] > 0 /\ nd.depth > 0
    /\ i' = [i EXCEPT ![cmd] = Advanced(cmd, nd).i]
    /\ n' = [n EXCEPT ![cmd] = Advanced(cmd, nd).n]
    /\ Single(cmd, i[cmd], nd)

Next == \E nd \in Nodes : FeedSingle(nd) \/ FeedArray(nd) \/ FeedElm(nd)

Spec == Init /\ [][Next]_vars

-----------------------------------------------------------------------------
\* Every node of every reply is stored in the element of the tuple it is part of, and no
\* element is skipped, whatever the sizes of the aggregates before it.
NodesWhereTheyBelong == ec = "none" => stored = owners
=============================================================================
