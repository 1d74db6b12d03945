--------------------------- MODULE SimpleThreadPool ---------------------------
(***************************************************************************)
(* simple_thread_pool_t of include/dsk/simple_thread_pool.hpp: one queue,  *)
(* mutex and condition variable per thread.  A thread takes a job from any *)
(* queue it can lock and only blocks on its own; post() puts a job into    *)
(* any queue it can lock and only blocks on the one whose turn it is.      *)
(*                                                                         *)
(* A critical section is one action.  try_lock may fail at any time, since *)
(* another thread may be in the critical section (and the standard lets it *)
(* fail for no reason).  post() is called by one owner thread and by jobs, *)
(* which may post another job before they end.                             *)
(***************************************************************************)
EXTENDS Naturals, Sequences, FiniteSets

CONSTANTS
    N,          \* _maxConcurrency
    Jobs,       \* jobs, each posted at most once
    MaxStarts,  \* bound: how often the pool is started
    Owner       \* the thread that owns the pool

Threads == 0..(N - 1)
Actors  == Threads \cup {Owner}

PoolAssumption == N \in Nat \ {0} /\ MaxStarts \in Nat /\ Owner \notin Threads

VARIABLES
    jobs,       \* per state: _jobs
    stopped,    \* per state: _stop
    cv,         \* per thread: "no", "wait" on its _cv, "woken"
    pc,         \* per thread: "gone", "scan", "pop", "run"
    step,       \* per thread: i of the scan
    job,        \* per actor: the job it runs, {} or a singleton
    post,       \* per actor: the post() it is in: <<>> or <<job, index, i>>
    next,       \* _next, modulo _size
    main,       \* the owner: "out" (not started), "in", "stopping", "joining"
    stopIdx,    \* the state that stop() comes to next
    starts,     \* how often start() was called
    done,       \* history: jobs in the order they were started, over all runs of the pool
    dropped     \* history: jobs destroyed by join()

vars == <<jobs, stopped, cv, pc, step, job, post, next, main, stopIdx, starts, done, dropped>>

Queued == UNION {{jobs[t][i] : i \in 1..Len(jobs[t])} : t \in Threads}

Init ==
    /\ jobs = [t \in Threads |-> << >>]
    /\ stopped = [t \in Threads |-> FALSE]
    /\ cv = [t \in Threads |-> "no"]
    /\ pc = [t \in Threads |-> "gone"]
    /\ step = [t \in Threads |-> 0]
    /\ job = [t \in Threads |-> {}]
    /\ post = [a \in Actors |-> << >>]
    /\ next = 0
    /\ main = "out"
    /\ stopIdx = 0
    /\ starts = 0
    /\ done = << >>
    /\ dropped = {}

-----------------------------------------------------------------------------
(* The loop of a thread. *)

\* Mutant: the job stays in the queue.
TakesWithoutPop(t, k) ==
    /\ jobs[k] # << >>
    /\ job' = [job EXCEPT ![t] = {Head(jobs[k])}]
    /\ done' = Append(done, Head(jobs[k]))
    /\ pc' = [pc EXCEPT ![t] = "run"]
    /\ step' = [step EXCEPT ![t] = 0]
    /\ UNCHANGED jobs

Takes(t, k) ==
    /\ jobs[k] # << >>
    /\ jobs' = [jobs EXCEPT ![k] = Tail(@)]
    /\ job' = [job EXCEPT ![t] = {Head(jobs[k])}]
    /\ done' = Append(done, Head(jobs[k]))
    /\ pc' = [pc EXCEPT ![t] = "run"]
    /\ step' = [step EXCEPT ![t] = 0]

\* try_pop() of state (index + i) % _size
TryPop(t) ==
    /\ pc[t] = "scan"
    /\ \/ Takes(t, (t + step[t]) % N)
       \/ \* not locked, or empty
          /\ IF step[t] = N - 1
             THEN pc' = [pc EXCEPT ![t] = "pop"] /\ step' = [step EXCEPT ![t] = 0]
             ELSE step' = [step EXCEPT ![t] = @ + 1] /\ UNCHANGED pc
          /\ UNCHANGED <<jobs, job, done>>
    /\ UNCHANGED <<stopped, cv, post, next, main, stopIdx, starts, dropped>>

\* Mutant: _stop is not looked at.
PopIgnoresStop(t) ==
    /\ pc[t] = "pop"
    /\ cv[t] # "wait"
    /\ \/ /\ Takes(t, t)
          /\ cv' = [cv EXCEPT ![t] = "no"]
       \/ /\ jobs[t] = << >>
          /\ cv' = [cv EXCEPT ![t] = "wait"]
          /\ UNCHANGED <<jobs, job, done, pc, step>>
    /\ UNCHANGED <<stopped, post, next, main, stopIdx, starts, dropped>>

\* pop(): an iteration of its loop, from the lock or the wait to the next wait.
Pop(t) ==
    /\ pc[t] = "pop"
    /\ cv[t] # "wait"
    /\ \/ /\ stopped[t]
          /\ pc' = [pc EXCEPT ![t] = "gone"]
          /\ cv' = [cv EXCEPT ![t] = "no"]
          /\ UNCHANGED <<jobs, job, done, step>>
       \/ /\ ~stopped[t]
          /\ Takes(t, t)
          /\ cv' = [cv EXCEPT ![t] = "no"]
       \/ /\ ~stopped[t]
          /\ jobs[t] = << >>
          /\ cv' = [cv EXCEPT ![t] = "wait"]
          /\ UNCHANGED <<jobs, job, done, pc, step>>
    /\ UNCHANGED <<stopped, post, next, main, stopIdx, starts, dropped>>

\* A condition variable may wake up for no reason.
SpuriousWakeup(t) ==
    /\ cv[t] = "wait"
    /\ cv' = [cv EXCEPT ![t] = "woken"]
    /\ UNCHANGED <<jobs, stopped, pc, step, job, post, next, main, stopIdx, starts, done, dropped>>

\* The job returns and the loop starts over.
EndJob(t) ==
    /\ pc[t] = "run"
    /\ post[t] = << >>
    /\ pc' = [pc EXCEPT ![t] = "scan"]
    /\ job' = [job EXCEPT ![t] = {}]
    /\ UNCHANGED <<jobs, stopped, cv, step, post, next, main, stopIdx, starts, done, dropped>>

-----------------------------------------------------------------------------
(* post(), by a job or by the owner. *)

Known == Queued \cup {done[i] : i \in 1..Len(done)} \cup dropped
         \cup {post[a][1] : a \in {b \in Actors : post[b] # << >>}}

StartPost(a, j) ==
    /\ post[a] = << >>
    /\ IF a = Owner THEN main = "in" ELSE pc[a] = "run"
    /\ j \notin Known
    /\ post' = [post EXCEPT ![a] = <<j, next, 0>>]
    /\ next' = (next + 1) % N
    /\ UNCHANGED <<jobs, stopped, cv, pc, step, job, main, stopIdx, starts, done, dropped>>

\* Mutant: the test is inverted.
NotifyIfNotEmpty(k) ==
    cv' = [cv EXCEPT ![k] = IF @ = "wait" /\ jobs[k] # << >> THEN "woken" ELSE @]

NotifyIfWasEmpty(k) ==
    cv' = [cv EXCEPT ![k] = IF @ = "wait" /\ jobs[k] = << >> THEN "woken" ELSE @]
Puts(a, k) ==
    /\ jobs' = [jobs EXCEPT ![k] = Append(@, post[a][1])]
    /\ NotifyIfWasEmpty(k)
    /\ post' = [post EXCEPT ![a] = << >>]

\* try_push() to state (index + i) % _size; after the last one push() blocks
\* on the lock of state index.
TryPush(a) ==
    /\ post[a] # << >>
    /\ IF post[a][3] < N
       THEN \/ Puts(a, (post[a][2] + post[a][3]) % N)
            \/ /\ post' = [post EXCEPT ![a] = <<@[1], @[2], @[3] + 1>>]
               /\ UNCHANGED <<jobs, cv>>
       ELSE Puts(a, post[a][2])
    /\ UNCHANGED <<stopped, pc, step, job, next, main, stopIdx, starts, done, dropped>>

-----------------------------------------------------------------------------
(* start(), stop(), join(), by the owner. *)

Start ==
    /\ main = "out"
    /\ starts < MaxStarts
    /\ main' = "in"
    /\ starts' = starts + 1
    /\ pc' = [t \in Threads |-> "scan"]
    /\ UNCHANGED <<jobs, stopped, cv, step, job, post, next, stopIdx, done, dropped>>

StartStop ==
    /\ main = "in"
    /\ post[Owner] = << >>
    /\ main' = "stopping"
    /\ stopIdx' = 0
    /\ UNCHANGED <<jobs, stopped, cv, pc, step, job, post, next, starts, done, dropped>>

\* Mutant: the sleeper is not woken.
StopWithoutNotify ==
    /\ main = "stopping"
    /\ stopped' = [stopped EXCEPT ![stopIdx] = TRUE]
    /\ IF stopIdx = N - 1 THEN main' = "joining" /\ UNCHANGED stopIdx
                          ELSE stopIdx' = stopIdx + 1 /\ UNCHANGED main
    /\ UNCHANGED <<jobs, cv, pc, step, job, post, next, starts, done, dropped>>

StopState ==
    /\ main = "stopping"
    /\ stopped' = [stopped EXCEPT ![stopIdx] = TRUE]
    /\ cv' = [cv EXCEPT ![stopIdx] = IF @ = "wait" THEN "woken" ELSE @]
    /\ IF stopIdx = N - 1 THEN main' = "joining" /\ UNCHANGED stopIdx
                          ELSE stopIdx' = stopIdx + 1 /\ UNCHANGED main
    /\ UNCHANGED <<jobs, pc, step, job, post, next, starts, done, dropped>>

\* All threads have been joined: the states are destroyed with the jobs left.
Join ==
    /\ main = "joining"
    /\ \A t \in Threads : pc[t] = "gone"
    /\ main' = "out"
    /\ jobs' = [t \in Threads |-> << >>]
    /\ stopped' = [t \in Threads |-> FALSE]
    /\ next' = 0
    /\ dropped' = dropped \cup Queued
    /\ UNCHANGED <<cv, pc, step, job, post, stopIdx, starts, done>>

-----------------------------------------------------------------------------
Next ==
    \/ \E t \in Threads : TryPop(t) \/ Pop(t) \/ SpuriousWakeup(t) \/ EndJob(t)
    \/ \E a \in Actors : TryPush(a) \/ \E j \in Jobs : StartPost(a, j)
    \/ Start \/ StartStop \/ StopState \/ Join

Spec == Init /\ [][Next]_vars

(* Threads run, a free mutex is obtained in the end, jobs end.  Nothing    *)
(* has to be posted, and the pool need not be stopped.                     *)
Fairness ==
    /\ \A t \in Threads : WF_vars(TryPop(t)) /\ WF_vars(Pop(t)) /\ WF_vars(EndJob(t))
    /\ \A a \in Actors : WF_vars(TryPush(a))
    /\ WF_vars(StopState)
    /\ WF_vars(Join)

FairSpec == Spec /\ Fairness

-----------------------------------------------------------------------------
TypeOK ==
    /\ jobs \in [Threads -> Seq(Jobs)]
    /\ stopped \in [Threads -> BOOLEAN]
    /\ cv \in [Threads -> {"no", "wait", "woken"}]
    /\ pc \in [Threads -> {"gone", "scan", "pop", "run"}]
    /\ step \in [Threads -> Threads]
    /\ \A t \in Threads : job[t] \subseteq Jobs /\ Cardinality(job[t]) = (IF pc[t] = "run" THEN 1 ELSE 0)
    /\ \A a \in Actors : post[a] = << >> \/ post[a] \in Jobs \X Threads \X (0..N)
    /\ next \in Threads
    /\ main \in {"out", "in", "stopping", "joining"}
    /\ stopIdx \in Threads
    /\ starts \in 0..MaxStarts
    /\ done \in Seq(Jobs)
    /\ dropped \subseteq Jobs

\* A thread that sleeps on its condition variable has nothing to do: pushes
\* notify only when the queue was empty and a stolen job may leave the thread
\* with a notification for nothing, but never with a job and without one.
NoLostWakeup ==
    \A t \in Threads : cv[t] = "wait" => jobs[t] = << >> /\ ~stopped[t]

\* A posted job is run at most once, however many threads try to take it, and
\* none disappears but by join(): the pool is a Scheduler.
Abstract == INSTANCE Scheduler WITH queued <- Queued, ran <- done
IsScheduler == Abstract!Spec

RanOrEnded(j) == j \in {done[i] : i \in 1..Len(done)} \/ main # "in"

\* Every posted job is run unless the pool is stopped, although nobody steals
\* once it sleeps and every try_lock may fail.
PostedJobRuns ==
    \A j \in Jobs : (j \in Queued) ~> RanOrEnded(j)

\* stop() makes join() return, provided that jobs do not go on posting jobs.
JoinReturns == (main = "joining") ~> (main = "out")
=============================================================================
