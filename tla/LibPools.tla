------------------------------ MODULE LibPools ------------------------------
(***************************************************************************)
(* The schedulers that wrap a library's pool, with one life cycle: start,  *)
(* post, stop, join, start again.  include/dsk/asio/thread_pool.hpp (over  *)
(* asio::thread_pool, and over an io_context run by threads of its own),   *)
(* include/dsk/tbb/thread_pool.hpp (over an arena or the implicit one),    *)
(* include/dsk/win/thread_pool.hpp.  The owner starts, stops, joins and    *)
(* posts; a running job posts and stops.                                   *)
(***************************************************************************)
EXTENDS Naturals, FiniteSets

CONSTANTS
    PoolKinds,   \* subset of {"asio", "asio_io", "tbb", "tbb_implicit", "win"}
    Jobs,        \* jobs, each posted at most once
    NThread,     \* _maxConcurrency
    MaxStarts    \* bound: how often the pool is started

LibAssumption == NThread \in Nat \ {0}

VARIABLES
    pool,        \* the kind of pool
    main,        \* the owner: "out" (not started), "in", "joining"
    starts,      \* how often start() was called
    guard,       \* outstanding work that is not a job (on_work_started)
    alive,       \* threads in io_context::run(), or available to the arena
    halted,      \* the context is stopped, the group canceled, _stop is set
    asked,       \* history: stop() was called since start()
    queued,      \* jobs submitted to the library and not taken by a thread
    running,     \* jobs being executed
    done,        \* jobs executed
    ignored      \* jobs destroyed without having been executed

vars == <<pool, main, starts, guard, alive, halted, asked, queued, running, done, ignored>>

Asio == pool \in {"asio", "asio_io"}

Init ==
    /\ pool \in PoolKinds
    /\ main = "out"
    /\ starts = 0
    /\ guard = 0
    /\ alive = 0
    /\ halted = FALSE
    /\ asked = FALSE
    /\ queued = {}
    /\ running = {}
    /\ done = {}
    /\ ignored = {}

\* Mutant: nothing keeps run() from returning while there is no job.
StartUnguarded ==
    /\ main = "out"
    /\ starts < MaxStarts
    /\ main' = "in"
    /\ starts' = starts + 1
    /\ guard' = 0
    /\ alive' = NThread
    /\ asked' = FALSE
    /\ UNCHANGED <<pool, halted, queued, running, done, ignored>>

\* start(): the threads, and for asio the work that keeps them in run().
Start ==
    /\ main = "out"
    /\ starts < MaxStarts
    /\ main' = "in"
    /\ starts' = starts + 1
    /\ guard' = IF Asio THEN 1 ELSE 0
    /\ alive' = NThread
    /\ asked' = FALSE
    /\ UNCHANGED <<pool, halted, queued, running, done, ignored>>

\* post() by the owner or by a running job; win_thread_pool ignores it when stopped.
Post(j) ==
    /\ main = "in" \/ running # {}
    /\ j \notin queued \cup running \cup done \cup ignored
    /\ IF pool = "win" /\ halted
       THEN ignored' = ignored \cup {j} /\ UNCHANGED queued
       ELSE queued' = queued \cup {j} /\ UNCHANGED ignored
    /\ UNCHANGED <<pool, main, starts, guard, alive, halted, asked, running, done>>

\* A thread takes a job: not once the pool was stopped.
Take(j) ==
    /\ j \in queued
    /\ ~halted
    /\ Cardinality(running) < alive
    /\ queued' = queued \ {j}
    /\ running' = running \cup {j}
    /\ UNCHANGED <<pool, main, starts, guard, alive, halted, asked, done, ignored>>

\* A job of a canceled group, or a callback that finds _stop set, does nothing.
Skip(j) ==
    /\ j \in queued
    /\ halted
    /\ ~Asio
    /\ queued' = queued \ {j}
    /\ ignored' = ignored \cup {j}
    /\ UNCHANGED <<pool, main, starts, guard, alive, halted, asked, running, done>>

EndJob(j) ==
    /\ j \in running
    /\ running' = running \ {j}
    /\ done' = done \cup {j}
    /\ UNCHANGED <<pool, main, starts, guard, alive, halted, asked, queued, ignored>>

\* run() returns to a thread when the context is stopped or is out of work,
\* which also stops the context.
Leave ==
    /\ Asio
    /\ alive > Cardinality(running)
    /\ halted \/ (guard = 0 /\ queued = {} /\ running = {})
    /\ alive' = alive - 1
    /\ halted' = TRUE
    /\ UNCHANGED <<pool, main, starts, guard, asked, queued, running, done, ignored>>

\* stop(), by the owner before it joins or by a running job.
Stop ==
    /\ main = "in" \/ running # {}
    /\ ~asked
    /\ halted' = TRUE
    /\ asked' = TRUE
    /\ UNCHANGED <<pool, main, starts, guard, alive, queued, running, done, ignored>>

\* Mutant: the work counted by start() is never given back.
BeginJoinKeepsWork ==
    /\ main = "in"
    /\ main' = "joining"
    /\ UNCHANGED <<pool, starts, guard, alive, halted, asked, queued, running, done, ignored>>

\* join(): asio gives the work of start() back and joins the threads ...
BeginJoin ==
    /\ main = "in"
    /\ main' = "joining"
    /\ guard' = 0
    /\ UNCHANGED <<pool, starts, alive, halted, asked, queued, running, done, ignored>>

\* ... tbb waits for the group, win first for stop() and then for the callbacks.
Joinable ==
    IF Asio THEN alive = 0
    ELSE queued = {} /\ running = {} /\ (pool = "win" => halted)

\* After it asio::thread_pool is destroyed with the jobs it holds, and the others
\* are made ready to start again; an io_context keeps the jobs it was given.
EndJoin ==
    /\ main = "joining"
    /\ Joinable
    /\ main' = "out"
    /\ alive' = 0
    /\ halted' = FALSE
    /\ IF pool = "asio_io" THEN UNCHANGED <<queued, ignored>>
       ELSE queued' = {} /\ ignored' = ignored \cup queued
    /\ UNCHANGED <<pool, starts, guard, asked, running, done>>

Next ==
    \/ Start \/ Leave \/ Stop \/ BeginJoin \/ EndJoin
    \/ \E j \in Jobs : Post(j) \/ Take(j) \/ Skip(j) \/ EndJob(j)

Spec == Init /\ [][Next]_vars

(* The library's threads run, and a job ends. *)
Fairness ==
    /\ WF_vars(Leave) /\ WF_vars(EndJoin)
    /\ \A j \in Jobs : WF_vars(Take(j)) /\ WF_vars(Skip(j)) /\ WF_vars(EndJob(j))

FairSpec == Spec /\ Fairness

-----------------------------------------------------------------------------
TypeOK ==
    /\ pool \in PoolKinds
    /\ main \in {"out", "in", "joining"}
    /\ starts \in 0..MaxStarts
    /\ guard \in 0..1 /\ alive \in 0..NThread
    /\ halted \in BOOLEAN /\ asked \in BOOLEAN
    /\ queued \subseteq Jobs /\ running \subseteq Jobs
    /\ done \subseteq Jobs /\ ignored \subseteq Jobs

\* "Wait for all outstanding jobs to complete" (asio/thread_pool.hpp, tbb/thread_pool.hpp
\* join()): after join() no job runs, and none was left or ignored unless stop() was
\* called or it was left by an earlier life of the same io_context.
LibJoined ==
    /\ main = "out" => running = {} /\ alive = 0
    /\ (main = "out" /\ queued # {}) => asked /\ pool = "asio_io"

\* A job posted to a pool that is not stopped runs.
LibJobRuns ==
    \A j \in Jobs : (j \in queued /\ main = "in") ~> (j \in done \cup running \/ asked)

JoinPossible == main = "joining" /\ (pool = "win" => asked)

\* join() returns, for win_thread_pool once stop() was called.
LibJoinReturns ==
    JoinPossible ~> (main = "out")
=============================================================================
