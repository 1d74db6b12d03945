--------------------------- MODULE NaiveThreadPool ---------------------------
(***************************************************************************)
(* naive_thread_pool_t of include/dsk/simple_thread_pool.hpp: one queue    *)
(* under one mutex, and one condition variable for all threads.  post()    *)
(* notifies one thread after it released the mutex, stop() all of them.    *)
(***************************************************************************)
EXTENDS Naturals, Sequences

CONSTANTS
    Threads,    \* the _maxConcurrency threads
    Jobs,       \* jobs, each posted at most once
    MaxStarts,  \* bound: how often the pool is started
    Owner       \* the thread that owns the pool

Actors == Threads \cup {Owner}

NaiveAssumption == Threads # {} /\ MaxStarts \in Nat /\ Owner \notin Threads

VARIABLES
    jobs,       \* _jobs
    stop,       \* _stop
    pc,         \* per thread: "gone", "lock", "wait" on _cv, "run"
    job,        \* per thread: the job it runs, <<>> or <<job>>
    notify,     \* per actor: it has yet to call _cv.notify_one()
    main,       \* the owner: "out" (not started), "in", "stopping", "joining"
    starts,     \* how often start() was called
    done,       \* history: jobs in the order they were started
    dropped     \* history: jobs destroyed by join()

vars == <<jobs, stop, pc, job, notify, main, starts, done, dropped>>

Queued == {jobs[i] : i \in 1..Len(jobs)}

Init ==
    /\ jobs = << >>
    /\ stop = FALSE
    /\ pc = [t \in Threads |-> "gone"]
    /\ job = [t \in Threads |-> << >>]
    /\ notify = [a \in Actors |-> FALSE]
    /\ main = "out"
    /\ starts = 0
    /\ done = << >>
    /\ dropped = {}

\* Mutant: jobs first, and no exit.
LockedStopLast(t) ==
    /\ pc[t] = "lock"
    /\ \/ /\ jobs # << >>
          /\ pc' = [pc EXCEPT ![t] = "run"]
          /\ jobs' = Tail(jobs)
          /\ job' = [job EXCEPT ![t] = <<Head(jobs)>>]
          /\ done' = Append(done, Head(jobs))
       \/ /\ jobs = << >>
          /\ pc' = [pc EXCEPT ![t] = "wait"]
          /\ UNCHANGED <<jobs, job, done>>
    /\ UNCHANGED <<stop, notify, main, starts, dropped>>
\* Mutant: runs the back, pops the front.
LockedRunsBack(t) ==
    /\ pc[t] = "lock"
    /\ \/ /\ stop
          /\ pc' = [pc EXCEPT ![t] = "gone"]
          /\ UNCHANGED <<jobs, job, done>>
       \/ /\ ~stop /\ jobs # << >>
          /\ pc' = [pc EXCEPT ![t] = "run"]
          /\ jobs' = Tail(jobs)
          /\ job' = [job EXCEPT ![t] = <<jobs[Len(jobs)]>>]
          /\ done' = Append(done, jobs[Len(jobs)])
       \/ /\ ~stop /\ jobs = << >>
          /\ pc' = [pc EXCEPT ![t] = "wait"]
          /\ UNCHANGED <<jobs, job, done>>
    /\ UNCHANGED <<stop, notify, main, starts, dropped>>

\* An iteration of the loop under the mutex, up to the wait or the job.
Locked(t) ==
    /\ pc[t] = "lock"
    /\ \/ /\ stop
          /\ pc' = [pc EXCEPT ![t] = "gone"]
          /\ UNCHANGED <<jobs, job, done>>
       \/ /\ ~stop /\ jobs # << >>
          /\ pc' = [pc EXCEPT ![t] = "run"]
          /\ jobs' = Tail(jobs)
          /\ job' = [job EXCEPT ![t] = <<Head(jobs)>>]
          /\ done' = Append(done, Head(jobs))
       \/ /\ ~stop /\ jobs = << >>
          /\ pc' = [pc EXCEPT ![t] = "wait"]
          /\ UNCHANGED <<jobs, job, done>>
    /\ UNCHANGED <<stop, notify, main, starts, dropped>>

SpuriousWakeup(t) ==
    /\ pc[t] = "wait"
    /\ pc' = [pc EXCEPT ![t] = "lock"]
    /\ UNCHANGED <<jobs, stop, job, notify, main, starts, done, dropped>>

EndJob(t) ==
    /\ pc[t] = "run"
    /\ ~notify[t]
    /\ pc' = [pc EXCEPT ![t] = "lock"]
    /\ job' = [job EXCEPT ![t] = << >>]
    /\ UNCHANGED <<jobs, stop, notify, main, starts, done, dropped>>

\* post(), by the owner or by a job: the queue under the mutex ...
Known == Queued \cup {done[i] : i \in 1..Len(done)} \cup dropped
Post(a, j) ==
    /\ ~notify[a]
    /\ IF a = Owner THEN main = "in" ELSE pc[a] = "run"
    /\ j \notin Known
    /\ jobs' = Append(jobs, j)
    /\ notify' = [notify EXCEPT ![a] = TRUE]
    /\ UNCHANGED <<stop, pc, job, main, starts, done, dropped>>

\* Mutant: no notification.
NotifyNobody(a) ==
    /\ notify[a]
    /\ notify' = [notify EXCEPT ![a] = FALSE]
    /\ UNCHANGED <<jobs, stop, pc, job, main, starts, done, dropped>>

\* ... and the notification after it.
NotifyOne(a) ==
    /\ notify[a]
    /\ notify' = [notify EXCEPT ![a] = FALSE]
    /\ IF \E t \in Threads : pc[t] = "wait"
       THEN \E t \in Threads : pc[t] = "wait" /\ pc' = [pc EXCEPT ![t] = "lock"]
       ELSE UNCHANGED pc
    /\ UNCHANGED <<jobs, stop, job, main, starts, done, dropped>>

Start ==
    /\ main = "out"
    /\ starts < MaxStarts
    /\ main' = "in"
    /\ starts' = starts + 1
    /\ pc' = [t \in Threads |-> "lock"]
    /\ UNCHANGED <<jobs, stop, job, notify, done, dropped>>

SetStop ==
    /\ main = "in"
    /\ ~notify[Owner]
    /\ stop' = TRUE
    /\ main' = "stopping"
    /\ UNCHANGED <<jobs, pc, job, notify, starts, done, dropped>>

NotifyAll ==
    /\ main = "stopping"
    /\ pc' = [t \in Threads |-> IF pc[t] = "wait" THEN "lock" ELSE pc[t]]
    /\ main' = "joining"
    /\ UNCHANGED <<jobs, stop, job, notify, starts, done, dropped>>

Join ==
    /\ main = "joining"
    /\ \A t \in Threads : pc[t] = "gone"
    /\ main' = "out"
    /\ jobs' = << >>
    /\ stop' = FALSE
    /\ dropped' = dropped \cup Queued
    /\ UNCHANGED <<pc, job, notify, starts, done>>

Next ==
    \/ \E t \in Threads : Locked(t) \/ SpuriousWakeup(t) \/ EndJob(t)
    \/ \E a \in Actors : NotifyOne(a) \/ \E j \in Jobs : Post(a, j)
    \/ Start \/ SetStop \/ NotifyAll \/ Join

Spec == Init /\ [][Next]_vars

(* Threads run, a free mutex is obtained in the end, jobs end. *)
Fairness ==
    /\ \A t \in Threads : WF_vars(Locked(t)) /\ WF_vars(EndJob(t))
    /\ \A a \in Actors : WF_vars(NotifyOne(a))
    /\ WF_vars(NotifyAll)
    /\ WF_vars(Join)

FairSpec == Spec /\ Fairness

-----------------------------------------------------------------------------
TypeOK ==
    /\ jobs \in Seq(Jobs)
    /\ stop \in BOOLEAN
    /\ pc \in [Threads -> {"gone", "lock", "wait", "run"}]
    /\ \A t \in Threads : IF pc[t] = "run" THEN \E j \in Jobs : job[t] = <<j>>
                                           ELSE job[t] = << >>
    /\ notify \in [Actors -> BOOLEAN]
    /\ main \in {"out", "in", "stopping", "joining"}
    /\ starts \in 0..MaxStarts
    /\ done \in Seq(Jobs)
    /\ dropped \subseteq Jobs

\* Every posted job is run at most once and none disappears but by join().
Abstract == INSTANCE Scheduler WITH queued <- Queued, ran <- done
IsScheduler == Abstract!Spec

RanOrEnded(j) == j \in {done[i] : i \in 1..Len(done)} \/ main # "in"

\* Every posted job is run unless the pool is stopped.
PostedJobRuns ==
    \A j \in Jobs : (j \in Queued) ~> RanOrEnded(j)

\* stop() makes join() return, whatever the jobs go on posting.
JoinReturns == (main = "joining") ~> (main = "out")
=============================================================================
