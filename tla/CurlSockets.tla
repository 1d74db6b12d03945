----------------------------- MODULE CurlSockets -----------------------------
(***************************************************************************)
(* How curl_client of include/dsk/curl/client.hpp follows the sockets and  *)
(* the timer of its multi handle: multi_sock_cb() keeps socket_data by the *)
(* number of the socket and starts waits, whose handlers process_io() pass *)
(* the event to curl and go on waiting; multi_timer_cb() sets a timer.     *)
(*                                                                         *)
(* curl is external.  Inside any call it may give sockets up, take up      *)
(* others, under the same number too, and change what it waits for.        *)
(***************************************************************************)
EXTENDS Naturals

CONSTANTS Sockets, MaxId \* bound on _idSeq

SocketAssumption == MaxId \in Nat

VARIABLES
    live,  \* is there a transfer that has not ended?
    sds,   \* _sds: per number, [id, acts]; id 0 if there is no entry
    idSeq, \* _idSeq
    waits, \* async_waits under way: <<number, id, act>>
    fired, \* waits whose handler is about to run
    kick,  \* is a handler of multi_timer_cb() posted, or its timer set?
    polled,  \* per number, the acts curl wants to hear of
    unheld   \* sockets that could not be assigned to a socket_data

vars == <<live, sds, idSeq, waits, fired, kick, polled, unheld>>

Acts == {"in", "out"}
NoEntry == [id |-> 0, acts |-> {}]

Init ==
    /\ live = FALSE
    /\ sds = [s \in Sockets |-> NoEntry]
    /\ idSeq = 0
    /\ waits = {}
    /\ fired = {}
    /\ kick = FALSE
    /\ polled = [s \in Sockets |-> {}]
    /\ unheld = {}

\* What callbacks change.
Io == [sds |-> sds, idSeq |-> idSeq, waits |-> waits, polled |-> polled, unheld |-> unheld]

\* Mutant: a known socket that asks for more is not waited for.
SockCbNewOnly(o, s, acts) ==
    LET new == o.sds[s].id = 0
        sd  == IF new THEN [NoEntry EXCEPT !.id = o.idSeq + 1] ELSE o.sds[s]
        p   == [o EXCEPT !.polled[s] = acts, !.unheld = @ \ {s}]
    IN IF acts = {}
       THEN [p EXCEPT !.sds[s] = NoEntry, !.waits = {w \in @ : w[1] # s}]
       ELSE [p EXCEPT !.sds[s] = [sd EXCEPT !.acts = acts],
                      !.idSeq = IF new THEN @ + 1 ELSE @,
                      !.waits = IF new THEN @ \cup {<<s, sd.id, a>> : a \in acts} ELSE @]

\* multi_sock_cb(): a new socket gets a new id, waits are started for the acts that are new, and
\* CURL_POLL_REMOVE (no acts) erases socket_data, which aborts its waits.
SockCb(o, s, acts) ==
    LET new == o.sds[s].id = 0
        sd  == IF new THEN [NoEntry EXCEPT !.id = o.idSeq + 1] ELSE o.sds[s]
        p   == [o EXCEPT !.polled[s] = acts, !.unheld = @ \ {s}]
    IN IF acts = {}
       THEN [p EXCEPT !.sds[s] = NoEntry, !.waits = {w \in @ : w[1] # s}]
       ELSE [p EXCEPT !.sds[s] = [sd EXCEPT !.acts = acts],
                      !.idSeq = IF new THEN @ + 1 ELSE @,
                      !.waits = @ \cup {<<s, sd.id, a>> : a \in acts \ sd.acts}]

\* A new socket cannot be assigned: there is no entry, and curl, whose transfer is removed, is told that
\* all is well.  A later CURL_POLL_REMOVE finds nothing to erase (an assertion in debug builds).
AssignFails(o, s, acts) == [o EXCEPT !.polled[s] = acts, !.unheld = @ \cup {s}]

\* Socket callbacks of one call into curl: none, one, or a removal and another one.
OneSockCall(o) ==
    {SockCb(o, s, {}) : s \in Sockets}
        \cup {SockCb(o, s, acts) : s \in {s \in Sockets : o.sds[s].id # 0 \/ o.idSeq < MaxId},
                                  acts \in SUBSET Acts \ {{}}}
        \cup {AssignFails(o, s, acts) : s \in {s \in Sockets : o.sds[s].id = 0}, acts \in SUBSET Acts \ {{}}}
SockCalls(o) ==
    {o} \cup OneSockCall(o)
        \cup UNION {OneSockCall(SockCb(o, s, {})) : s \in {s \in Sockets : o.sds[s].id # 0}}

\* curl attends to its transfers: it polls a socket or sets a timer while there are any, and polls
\* nothing when there are none.
Attended(o, k, l) ==
    /\ l => k \/ \E s \in Sockets : o.polled[s] # {}
    /\ ~l => \A s \in Sockets : o.polled[s] = {}

\* The members are those of o, but for the waits.
Called(o) ==
    /\ sds' = o.sds /\ idSeq' = o.idSeq
    /\ polled' = o.polled /\ unheld' = o.unheld

\* The handler goes on waiting if the socket is still the same one and the act still wanted.
Continue(o, w) ==
    IF o.sds[w[1]].id = w[2] /\ w[3] \in o.sds[w[1]].acts THEN o.waits \cup {w} ELSE o.waits

\* _multi.add() of a transfer, which sets a timeout of 0; _multi.remove() of one
AddOrRemove(l) ==
    /\ \E o \in SockCalls(Io) :
          /\ Attended(o, l \/ kick, l)
          /\ Called(o) /\ waits' = o.waits
    /\ live' = l
    /\ kick' = (l \/ kick)
    /\ UNCHANGED fired

\* A handler of multi_timer_cb(): process_socket_action(CURL_SOCKET_TIMEOUT)
TimerAction ==
    /\ kick
    /\ \E o \in SockCalls(Io), k \in BOOLEAN, l \in {live, FALSE} :
          /\ Attended(o, k, l)
          /\ Called(o) /\ waits' = o.waits
          /\ kick' = k /\ live' = l
    /\ UNCHANGED fired

\* The socket is ready, or fails.
Fire(w) ==
    /\ w \in waits
    /\ waits' = waits \ {w}
    /\ fired' = fired \cup {w}
    /\ UNCHANGED <<live, sds, idSeq, kick, polled, unheld>>

\* process_io(), without an error: multi_timer_cb() may be called, or not.
ProcessIo(w) ==
    /\ w \in fired
    /\ fired' = fired \ {w}
    /\ \E o \in SockCalls(Io), k \in {kick, TRUE}, l \in {live, FALSE} :
          /\ Attended(o, k, l)
          /\ Called(o)
          /\ waits' = IF l THEN Continue(o, w) ELSE o.waits
          /\ kick' = k /\ live' = l

\* process_io() with an error: curl gives the socket up.
ProcessIoError(w) ==
    /\ w \in fired
    /\ fired' = fired \ {w}
    /\ \E o \in SockCalls(Io), k \in {kick, TRUE}, l \in {live, FALSE} :
          /\ o.sds[w[1]].id # w[2]
          /\ Attended(o, k, l)
          /\ Called(o) /\ waits' = o.waits
          /\ kick' = k /\ live' = l

Next ==
    \/ \E l \in BOOLEAN : AddOrRemove(l)
    \/ TimerAction
    \/ \E w \in Sockets \X (1..MaxId) \X Acts : Fire(w) \/ ProcessIo(w) \/ ProcessIoError(w)

Spec == Init /\ [][Next]_vars

\* Every act that curl polls a socket for has a wait with the id of that socket, however often the
\* socket was given up, its number used again, and its acts changed (multi_sock_cb and
\* process_io), unless the socket could not be assigned: the socket actions that CurlClient relies
\* on keep coming.
PollHasWait ==
    \A s \in Sockets \ unheld : \A a \in polled[s] : <<s, sds[s].id, a>> \in waits \cup fired
=============================================================================
