---------------------------- MODULE MCThreadPools ----------------------------
(*****************************************************************************)
(* The executors of the library, one at a time: simple_thread_pool,          *)
(* naive_thread_pool, the pools over asio, TBB and Win32, and the completion *)
(* queues of a gRPC server. "part" says which one a behaviour is of;         *)
(* variables that it does not have stay empty.                               *)
(*****************************************************************************)
EXTENDS Naturals, Sequences

CONSTANTS
    N, Jobs, MaxStarts, Owner, NaiveThreads, PoolKinds, NThread, NCq, MaxCalls

VARIABLES
    part,   \* the component this behaviour is of
    jobs, stopped, cv, pc, step, job, post, next, main, stopIdx, starts, done, dropped, stop,
    notify, pool, guard, alive, halted, asked, queued, running, ignored, srv, tags, shut, at, calls,
    bad

vars == <<part, jobs, stopped, cv, pc, step, job, post, next, main, stopIdx, starts, done, dropped,
        stop, notify, pool, guard, alive, halted, asked, queued, running, ignored, srv, tags, shut,
        at, calls, bad>>

Simple == INSTANCE SimpleThreadPool
Naive == INSTANCE NaiveThreadPool WITH Threads <- NaiveThreads
Lib == INSTANCE LibPools
Grpc == INSTANCE GrpcSrv

\* every pool has a thread
ASSUME PoolsAssumption ==
    Simple!PoolAssumption /\ Naive!NaiveAssumption /\ Lib!LibAssumption /\ Grpc!SrvAssumption

\* the variables of the other components
Unused ==
    /\ IF part \in {"simple", "naive"} THEN TRUE
       ELSE jobs = <<>> /\ pc = <<>> /\ job = <<>> /\ dropped = <<>>
    /\ IF part = "simple" THEN TRUE
       ELSE stopped = <<>> /\ cv = <<>> /\ step = <<>> /\ post = <<>> /\ stopIdx = <<>>
    /\ IF part \in {"simple", "grpc"} THEN TRUE
       ELSE next = <<>>
    /\ IF part \in {"simple", "naive", "lib"} THEN TRUE
       ELSE main = <<>> /\ starts = <<>> /\ done = <<>>
    /\ IF part = "naive" THEN TRUE
       ELSE stop = <<>> /\ notify = <<>>
    /\ IF part = "lib" THEN TRUE
       ELSE pool = <<>> /\ guard = <<>> /\ alive = <<>> /\ halted = <<>> /\ asked = <<>>
           /\ queued = <<>> /\ running = <<>> /\ ignored = <<>>
    /\ IF part = "grpc" THEN TRUE
       ELSE srv = <<>> /\ tags = <<>> /\ shut = <<>> /\ at = <<>> /\ calls = <<>> /\ bad = <<>>
OthersStay ==
    /\ UNCHANGED part
    /\ IF part \in {"simple", "naive"} THEN TRUE
       ELSE UNCHANGED <<jobs, pc, job, dropped>>
    /\ IF part = "simple" THEN TRUE
       ELSE UNCHANGED <<stopped, cv, step, post, stopIdx>>
    /\ IF part \in {"simple", "grpc"} THEN TRUE
       ELSE UNCHANGED <<next>>
    /\ IF part \in {"simple", "naive", "lib"} THEN TRUE
       ELSE UNCHANGED <<main, starts, done>>
    /\ IF part = "naive" THEN TRUE
       ELSE UNCHANGED <<stop, notify>>
    /\ IF part = "lib" THEN TRUE
       ELSE UNCHANGED <<pool, guard, alive, halted, asked, queued, running, ignored>>
    /\ IF part = "grpc" THEN TRUE
       ELSE UNCHANGED <<srv, tags, shut, at, calls, bad>>

Init ==
    \/ part = "simple" /\ Simple!Init /\ Unused
    \/ part = "naive" /\ Naive!Init /\ Unused
    \/ part = "lib" /\ Lib!Init /\ Unused
    \/ part = "grpc" /\ Grpc!Init /\ Unused

\* a step of one component
InSimple(A) == part = "simple" /\ A /\ OthersStay
InNaive(A) == part = "naive" /\ A /\ OthersStay
InLib(A) == part = "lib" /\ A /\ OthersStay
InGrpc(A) == part = "grpc" /\ A /\ OthersStay

Next ==
    \/ InSimple(Simple!Next)
    \/ InNaive(Naive!Next)
    \/ InLib(Lib!Next)
    \/ InGrpc(Grpc!Next)

\* Threads are scheduled and take their next step, jobs end, gRPC completes every tag that was posted.
Fairness ==
    /\ \A t \in Simple!Threads : WF_vars(InSimple(Simple!TryPop(t) \/ Simple!Pop(t) \/ Simple!EndJob(t)))
    /\ \A a \in Simple!Actors : WF_vars(InSimple(Simple!TryPush(a)))
    /\ WF_vars(InSimple(Simple!StopState \/ Simple!Join))
    /\ \A t \in NaiveThreads : WF_vars(InNaive(Naive!Locked(t) \/ Naive!EndJob(t)))
    /\ \A a \in Naive!Actors : WF_vars(InNaive(Naive!NotifyOne(a)))
    /\ WF_vars(InNaive(Naive!NotifyAll \/ Naive!Join))
    /\ WF_vars(InLib(Lib!Leave)) /\ WF_vars(InLib(Lib!EndJoin))
    /\ \A j \in Jobs : WF_vars(InLib(Lib!Take(j) \/ Lib!Skip(j) \/ Lib!EndJob(j)))
    /\ \A t \in Grpc!Tags : WF_vars(InGrpc(\E ok \in BOOLEAN : ~bad /\ Grpc!Ready(t, ok)))
    /\ \A th \in Grpc!Threads : WF_vars(InGrpc(~bad /\ (Grpc!Loop(th) \/ Grpc!Handler(th))))
    /\ WF_vars(InGrpc(~bad /\ (Grpc!ShutdownDone \/ Grpc!StopCq \/ Grpc!Join)))

Spec == Init /\ [][Next]_vars /\ Fairness

-----------------------------------------------------------------------------
\* simple_thread_pool: no thread sleeps on its condition variable while its queue has a job or the
\* pool is stopped.
NoLostWakeup == part = "simple" => Simple!NoLostWakeup

\* Once join() has returned, nothing of the pool runs or waits any more: no job of the library
\* pools, no accept, call or timer of the gRPC server.
NothingLeftBehind ==
    /\ part = "lib"  => Lib!LibJoined
    /\ part = "grpc" => Grpc!NothingLeftBehind

\* Both pools of the library implement Scheduler: each posted job is run at most once, whoever
\* tries to take it, and only join() drops any.
IsScheduler ==
    /\ part = "simple" => Simple!Abstract!Init
    /\ part = "naive"  => Naive!Abstract!Init
    /\ [][/\ part = "simple" => [Simple!Abstract!Next]_(Simple!Abstract!vars)
          /\ part = "naive"  => [Naive!Abstract!Next]_(Naive!Abstract!vars)]_vars

\* A job given to a pool that is not stopped runs, although nobody steals for a pool that sleeps
\* and every try_lock may fail.
PostedJobRuns ==
    \A j \in Jobs :
        /\ (part = "simple" /\ j \in Simple!Queued) ~> (part # "simple" \/ Simple!RanOrEnded(j))
        /\ (part = "naive"  /\ j \in Naive!Queued)  ~> (part # "naive"  \/ Naive!RanOrEnded(j))
        /\ (part = "lib" /\ j \in queued /\ main = "in")
              ~> (part # "lib" \/ j \in done \cup running \/ asked)

\* stop() makes join() return: of a simple pool provided that jobs do not go on posting jobs, of
\* the gRPC server unless an accept was posted to a queue already shut down, where gRPC aborts.
JoinReturns ==
    /\ (part \in {"simple", "naive"} /\ main = "joining") ~> (main = "out")
    /\ (part = "lib" /\ Lib!JoinPossible) ~> (main = "out")
    /\ (part = "grpc" /\ srv = "shutdown") ~> (part # "grpc" \/ srv = "down" \/ bad)
=============================================================================
