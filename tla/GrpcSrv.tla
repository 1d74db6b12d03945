------------------------------- MODULE GrpcSrv -------------------------------
(***************************************************************************)
(* A gRPC server: its completion queues and their threads (grpc/cq.hpp,    *)
(* grpc/cq_pool.hpp), grpc_srv_t (grpc/srv.hpp), the task create_task()    *)
(* accepts calls with (end of grpc/rpc.hpp) and a grpc_timer_t.            *)
(*                                                                         *)
(* gRPC is external: a posted tag becomes ready with ok or not; Server::   *)
(* Shutdown() fails the pending accept and returns when the accepted calls *)
(* are done; Next() returns false once the queue is shut down and has no   *)
(* more tags.                                                              *)
(***************************************************************************)
EXTENDS Naturals, FiniteSets

CONSTANTS
    NCq,      \* completion queues
    NThread,  \* threads of each
    MaxCalls  \* bound on the calls accepted

SrvAssumption == NCq \in Nat \ {0} /\ NThread \in Nat \ {0} /\ MaxCalls \in Nat

Cqs     == 0 .. NCq - 1
Threads == Cqs \X (1 .. NThread)
Calls   == 1 .. MaxCalls
Accept  == 0
Timer   == MaxCalls + 1
Tags    == {Accept, Timer} \cup Calls

VARIABLES
    srv,   \* "up", "shutdown" in Shutdown(), "cqs" in _cqs.stop(), "wait" in join(), "down"
    tags,  \* per tag: [st, cq, ok]; st: "none", "posted", "ready", "taken", "done"
    shut,  \* queues whose Shutdown() was called
    at,    \* per thread: [pc, tag]; pc: "next" in Next(), "tag" in the handler of tag, "rearm", "exited"
    next,  \* grpc_cq_pool_t::_next
    calls, \* calls accepted
    bad    \* was a tag posted to a queue after its Shutdown()?

vars == <<srv, tags, shut, at, next, calls, bad>>

In(t) == [pc |-> "tag", tag |-> t]
NoTag == [st |-> "none", cq |-> 0, ok |-> FALSE]

\* setup(), start() and the first pass of create_task(), which posts the first accept
Init ==
    /\ srv = "up" /\ shut = {} /\ next = 1 /\ calls = 0 /\ bad = FALSE
    /\ tags = [t \in Tags |-> IF t = Accept THEN [NoTag EXCEPT !.st = "posted"] ELSE NoTag]
    /\ at = [t \in Threads |-> [pc |-> "next", tag |-> Accept]]

\* grpc_cq_t::post()
Posted(ts, t, q) == [ts EXCEPT ![t] = [st |-> "posted", cq |-> q, ok |-> FALSE]]

\* grpc_cq_pool_t::get()
NextCq == next % NCq

\* gRPC completes what was posted.
Ready(t, ok) ==
    /\ tags[t].st = "posted"
    /\ t = Accept => (ok <=> srv = "up" /\ calls < MaxCalls)
    /\ t = Accept /\ ~ok => srv # "up"
    /\ t \in Calls => ok
    /\ tags' = [tags EXCEPT ![t].st = "ready", ![t].ok = ok]
    /\ UNCHANGED <<srv, shut, at, next, calls, bad>>

\* The thread loop of start(): Next() returns a tag,
Take(th, t) ==
    /\ at[th].pc = "next" /\ tags[t].st = "ready" /\ tags[t].cq = th[1]
    /\ tags' = [tags EXCEPT ![t].st = "taken"]
    /\ at' = [at EXCEPT ![th] = In(t)]
    /\ UNCHANGED <<srv, shut, next, calls, bad>>

Drained(q) == \A t \in Tags : tags[t].cq = q => tags[t].st \notin {"posted", "ready"}

\* Mutant: a thread leaves as soon as its queue is shut down.
LeaveAtOnce(th) ==
    /\ at[th].pc = "next" /\ th[1] \in shut
    /\ at' = [at EXCEPT ![th].pc = "exited"]
    /\ UNCHANGED <<srv, tags, shut, next, calls, bad>>

\* or false.
Leave(th) ==
    /\ at[th].pc = "next" /\ th[1] \in shut /\ Drained(th[1])
    /\ at' = [at EXCEPT ![th].pc = "exited"]
    /\ UNCHANGED <<srv, tags, shut, next, calls, bad>>

\* The accept was ok: create_task() initiates the handler of the call, which posts its finish to the queue
\* the rpc was made with; the thread goes on to the next accept.
Accepted(th) ==
    /\ at[th] = In(Accept) /\ tags[Accept].ok
    /\ calls' = calls + 1
    /\ tags' = Posted([tags EXCEPT ![Accept].st = "done"], calls', tags[Accept].cq)
    /\ bad' = (bad \/ tags[Accept].cq \in shut)
    /\ at' = [at EXCEPT ![th].pc = "rearm"]
    /\ UNCHANGED <<srv, shut, next>>

\* create_task(): another rpc and its accept
Rearm(th) ==
    /\ at[th].pc = "rearm"
    /\ tags' = Posted(tags, Accept, NextCq)
    /\ next' = next + 1
    /\ bad' = (bad \/ NextCq \in shut)
    /\ at' = [at EXCEPT ![th].pc = "next"]
    /\ UNCHANGED <<srv, shut, calls>>

\* Any other tag ends the op that posted it: an accept that failed ends the task of create_task().
Handled(th) ==
    /\ at[th].pc = "tag" /\ (at[th].tag = Accept => ~tags[Accept].ok)
    /\ tags' = [tags EXCEPT ![at[th].tag].st = "done"]
    /\ at' = [at EXCEPT ![th].pc = "next"]
    /\ UNCHANGED <<srv, shut, next, calls, bad>>

\* grpc_timer_t::wait_op::initiate(): used while the server is up
StartTimer ==
    /\ srv = "up" /\ tags[Timer].st = "none"
    /\ \E q \in Cqs : tags' = Posted(tags, Timer, q)
    /\ UNCHANGED <<srv, shut, at, next, calls, bad>>

-----------------------------------------------------------------------------
(* stop() and join(), called by the owner of the server. *)

Stop ==
    /\ srv = "up" /\ srv' = "shutdown"
    /\ UNCHANGED <<tags, shut, at, next, calls, bad>>

\* Shutdown() returns: the accepted calls are over.
ShutdownDone ==
    /\ srv = "shutdown"
    /\ \A t \in Calls : tags[t].st # "posted"
    /\ ~(tags[Accept].st \in {"ready", "taken"} /\ tags[Accept].ok)
    /\ srv' = "cqs"
    /\ UNCHANGED <<tags, shut, at, next, calls, bad>>

\* grpc_cq_pool_t::stop(), one queue after the other
StopCq ==
    /\ srv = "cqs"
    /\ LET q == CHOOSE q \in Cqs \ shut : \A p \in Cqs \ shut : q <= p IN
       /\ shut' = shut \cup {q}
       /\ srv' = IF shut' = Cqs THEN "wait" ELSE srv
    /\ UNCHANGED <<tags, at, next, calls, bad>>

\* join(): _cqs.join() destroys the queues when their threads have left.
Join ==
    /\ srv = "wait"
    /\ \A th \in Threads : at[th].pc = "exited"
    /\ srv' = "down"
    /\ UNCHANGED <<tags, shut, at, next, calls, bad>>

Handler(th) == Accepted(th) \/ Rearm(th) \/ Handled(th)
Loop(th) == (\E t \in Tags : Take(th, t)) \/ Leave(th)

Next ==
    \/ \E t \in Tags, ok \in BOOLEAN : ~bad /\ Ready(t, ok)
    \/ \E th \in Threads : ~bad /\ (Loop(th) \/ Handler(th))
    \/ ~bad /\ (StartTimer \/ Stop \/ ShutdownDone \/ StopCq \/ Join)

\* gRPC completes every posted tag: a timer fires, a call ends, a shutdown fails the accept.  The threads
\* of a queue are std::threads and are scheduled.
Fairness ==
    /\ \A t \in Tags : WF_vars(\E ok \in BOOLEAN : ~bad /\ Ready(t, ok))
    /\ \A th \in Threads : WF_vars(~bad /\ Loop(th)) /\ WF_vars(~bad /\ Handler(th))
    /\ WF_vars(~bad /\ (ShutdownDone \/ StopCq \/ Join))

Spec == Init /\ [][Next]_vars /\ Fairness

-----------------------------------------------------------------------------
(* Properties *)

\* No tag, and no op that waits for it, is left behind in a queue whose threads are gone: stop() and
\* join() of the server end every call, accept and timer.
NothingLeftBehind ==
    srv = "down" => \A t \in Tags : tags[t].st \in {"none", "done"}

\* Once stop() was called join() returns, unless the acceptor was between a call and the next accept when
\* the queues were shut down: gRPC aborts on the post.
SrvJoinReturns == srv = "shutdown" ~> srv = "down" \/ bad
=============================================================================
