--------------------------- MODULE ThreadPoolProofs ---------------------------
(*****************************************************************************)
(* Proofs about the executors of MCThreadPools, for any number of threads,   *)
(* jobs, queues and calls: no wake-up of simple_thread_pool is lost, it and  *)
(* naive_thread_pool implement Scheduler, and join() of the library pools    *)
(* and of the gRPC server leaves nothing behind.                             *)
(*****************************************************************************)
EXTENDS MCThreadPools, SequenceTheorems, FiniteSetTheorems, TLAPS

(* Queues as sequences without repetition. *)

Elems(q) == {q[i] : i \in 1..Len(q)}
Distinct(q) == \A i, j \in 1..Len(q) : q[i] = q[j] => i = j

\* The first of a queue (pop() of both pools) is the only one that goes.
LEMMA FirstOut ==
    ASSUME NEW S, NEW q \in Seq(S), q # << >>
    PROVE  /\ Head(q) \in S /\ Tail(q) \in Seq(S)
           /\ Head(q) \in Elems(q)
           /\ \A x : x \in Elems(q) => x = Head(q) \/ x \in Elems(Tail(q))
           /\ \A x : x \in Elems(Tail(q)) => x \in Elems(q)
           /\ Distinct(q) => Distinct(Tail(q)) /\ Head(q) \notin Elems(Tail(q))
  <1>1. /\ Len(q) \in Nat /\ Len(q) > 0
        /\ Head(q) \in S /\ Head(q) = q[1]
        /\ Tail(q) \in Seq(S) /\ Len(Tail(q)) = Len(q) - 1
        /\ \A i \in 1..Len(Tail(q)) : Tail(q)[i] = q[i + 1]
    BY HeadTailProperties, EmptySeq, LenProperties
  <1>2. Head(q) \in Elems(q)
    BY <1>1 DEF Elems
  <1>3. ASSUME NEW x, x \in Elems(q)
        PROVE  x = Head(q) \/ x \in Elems(Tail(q))
    <2>1. PICK i \in 1..Len(q) : x = q[i]
      BY <1>3 DEF Elems
    <2>2. CASE i = 1
      BY <2>1, <2>2, <1>1
    <2>3. CASE i # 1
      <3>1. i - 1 \in 1..Len(Tail(q)) /\ (i - 1) + 1 = i
        BY <2>3, <1>1
      <3>2. Tail(q)[i - 1] = x
        BY <3>1, <2>1, <1>1
      <3>. QED BY <3>1, <3>2 DEF Elems
    <2>. QED BY <2>2, <2>3
  <1>4. ASSUME NEW x, x \in Elems(Tail(q))
        PROVE  x \in Elems(q)
    <2>1. PICK i \in 1..Len(Tail(q)) : x = Tail(q)[i]
      BY <1>4 DEF Elems
    <2>2. i + 1 \in 1..Len(q) /\ q[i + 1] = x
      BY <2>1, <1>1
    <2>. QED BY <2>2 DEF Elems
  <1>5. ASSUME Distinct(q)
        PROVE  Distinct(Tail(q)) /\ Head(q) \notin Elems(Tail(q))
    <2>1. ASSUME NEW i \in 1..Len(Tail(q)), NEW j \in 1..Len(Tail(q)), Tail(q)[i] = Tail(q)[j]
          PROVE  i = j
      <3>1. i + 1 \in 1..Len(q) /\ j + 1 \in 1..Len(q) /\ q[i + 1] = q[j + 1]
        BY <2>1, <1>1
      <3>2. i + 1 = j + 1
        BY <3>1, <1>5 DEF Distinct
      <3>. QED BY <3>2
    <2>2. ASSUME NEW i \in 1..Len(Tail(q)), Tail(q)[i] = Head(q)
          PROVE  FALSE
      <3>1. i + 1 \in 1..Len(q) /\ 1 \in 1..Len(q) /\ q[i + 1] = q[1]
        BY <2>2, <1>1
      <3>2. i + 1 = 1
        BY <3>1, <1>5 DEF Distinct
      <3>. QED BY <3>2
    <2>. QED BY <2>1, <2>2 DEF Distinct, Elems
  <1>. QED BY <1>1, <1>2, <1>3, <1>4, <1>5

\* What is put at the end of a queue (push(), and the history of jobs run) is the only new one.
LEMMA LastIn ==
    ASSUME NEW S, NEW q \in Seq(S), NEW e \in S
    PROVE  /\ Append(q, e) \in Seq(S)
           /\ \A x : x \in Elems(Append(q, e)) <=> x \in Elems(q) \/ x = e
           /\ Distinct(q) /\ e \notin Elems(q) => Distinct(Append(q, e))
  <1>1. /\ Len(q) \in Nat
        /\ Append(q, e) \in Seq(S) /\ Len(Append(q, e)) = Len(q) + 1
        /\ \A i \in 1..Len(q) : Append(q, e)[i] = q[i]
        /\ Append(q, e)[Len(q) + 1] = e
    BY AppendProperties, LenProperties
  <1>2. ASSUME NEW x
        PROVE  x \in Elems(Append(q, e)) <=> x \in Elems(q) \/ x = e
    <2>1. ASSUME x \in Elems(Append(q, e)) PROVE x \in Elems(q) \/ x = e
      <3>1. PICK i \in 1..Len(Append(q, e)) : x = Append(q, e)[i]
        BY <2>1 DEF Elems
      <3>2. i \in 1..Len(q) \/ i = Len(q) + 1
        BY <1>1
      <3>. QED BY <3>1, <3>2, <1>1 DEF Elems
    <2>2. ASSUME x \in Elems(q) PROVE x \in Elems(Append(q, e))
      <3>1. PICK i \in 1..Len(q) : x = q[i]
        BY <2>2 DEF Elems
      <3>2. i \in 1..Len(Append(q, e)) /\ Append(q, e)[i] = x
        BY <3>1, <1>1
      <3>. QED BY <3>2 DEF Elems
    <2>3. e \in Elems(Append(q, e))
      <3>1. Len(q) + 1 \in 1..Len(Append(q, e))
        BY <1>1
      <3>. QED BY <3>1, <1>1 DEF Elems
    <2>. QED BY <2>1, <2>2, <2>3
  <1>3. ASSUME Distinct(q), e \notin Elems(q)
        PROVE  Distinct(Append(q, e))
    <2>1. ASSUME NEW i \in 1..Len(Append(q, e)), NEW j \in 1..Len(Append(q, e)),
                 Append(q, e)[i] = Append(q, e)[j]
          PROVE  i = j
      <3>1. i \in 1..Len(q) \/ i = Len(q) + 1
        BY <1>1
      <3>2. j \in 1..Len(q) \/ j = Len(q) + 1
        BY <1>1
      <3>3. \A k \in 1..Len(q) : q[k] # e
        BY <1>3 DEF Elems
      <3>. QED BY <3>1, <3>2, <3>3, <2>1, <1>1, <1>3 DEF Distinct
    <2>. QED BY <2>1 DEF Distinct
  <1>. QED BY <1>1, <1>2, <1>3

LEMMA Nothing == Elems(<< >>) = {} /\ Distinct(<< >>)
  BY DEF Elems, Distinct

-----------------------------------------------------------------------------
(* simple_thread_pool: the wake-ups *)

\* What the steps of the pool assume of its variables.
SimpleTypes ==
    /\ jobs \in [Simple!Threads -> Seq(Jobs)]
    /\ stopped \in [Simple!Threads -> BOOLEAN]
    /\ cv \in [Simple!Threads -> {"no", "wait", "woken"}]
    /\ step \in [Simple!Threads -> Simple!Threads]
    /\ post \in [Simple!Actors -> {<< >>} \cup (Jobs \X Simple!Threads \X (0..N))]
    /\ next \in Simple!Threads
    /\ stopIdx \in Simple!Threads
    /\ done \in Seq(Jobs)
    /\ dropped \subseteq Jobs

\* Jobs whose post() has yet to find a queue.
Posting == {post[a][1] : a \in {b \in Simple!Actors : post[b] # << >>}}

\* A job is in one place: one post(), one position of one queue, or the histories of what was run
\* and dropped.
SimpleBooks ==
    /\ \A t \in Simple!Threads : Distinct(jobs[t])
    /\ \A s, t \in Simple!Threads : \A x \in Elems(jobs[s]) : x \in Elems(jobs[t]) => s = t
    /\ \A t \in Simple!Threads : \A x \in Elems(jobs[t]) : x \notin Elems(done) /\ x \notin dropped
    /\ \A x \in Posting : /\ x \notin Elems(done) /\ x \notin dropped
                          /\ \A t \in Simple!Threads : x \notin Elems(jobs[t])
    /\ \A a, b \in Simple!Actors :
            (post[a] # << >> /\ post[b] # << >> /\ post[a][1] = post[b][1]) => a = b

LEMMA SimpleIndex ==
    /\ Simple!Threads \subseteq Int /\ 0 \in Simple!Threads
    /\ \A m \in Int : m % N \in Simple!Threads
    /\ \A m \in Simple!Threads : m # N - 1 => m + 1 \in Simple!Threads
  BY PoolsAssumption DEF Simple!PoolAssumption, Simple!Threads

LEMMA SimpleInQueue ==
    \A x : x \in Simple!Queued <=> \E t \in Simple!Threads : x \in Elems(jobs[t])
  BY DEF Simple!Queued, Elems

\* A thread takes the first job of a queue, its own or another's: Scheduler's Run.
LEMMA SimpleTakes ==
    ASSUME SimpleTypes, SimpleBooks, NEW t \in Simple!Threads, NEW k \in Simple!Threads,
           Simple!Takes(t, k), UNCHANGED <<post, dropped>>
    PROVE  /\ jobs' \in [Simple!Threads -> Seq(Jobs)] /\ done' \in Seq(Jobs)
           /\ step' \in [Simple!Threads -> Simple!Threads]
           /\ \A s \in Simple!Threads : jobs[s] = << >> => jobs'[s] = << >>
           /\ SimpleBooks'
           /\ Simple!Abstract!Next
  <1> DEFINE j == Head(jobs[k])
  <1>1. /\ jobs[k] \in Seq(Jobs) /\ jobs[k] # << >>
        /\ jobs' = [jobs EXCEPT ![k] = Tail(jobs[k])] /\ done' = Append(done, j)
        /\ step' = [step EXCEPT ![t] = 0]
    BY DEF SimpleTypes, Simple!Takes
  <1>2. /\ j \in Jobs /\ Tail(jobs[k]) \in Seq(Jobs) /\ j \in Elems(jobs[k])
        /\ \A x : x \in Elems(jobs[k]) => x = j \/ x \in Elems(Tail(jobs[k]))
        /\ \A x : x \in Elems(Tail(jobs[k])) => x \in Elems(jobs[k])
        /\ Distinct(Tail(jobs[k])) /\ j \notin Elems(Tail(jobs[k]))
    <2>1. Distinct(jobs[k])
      BY DEF SimpleBooks
    <2>. QED BY <1>1, <2>1, FirstOut
  <1>3. /\ done' \in Seq(Jobs)
        /\ \A x : x \in Elems(done') <=> x \in Elems(done) \/ x = j
    BY <1>1, <1>2, LastIn DEF SimpleTypes
  <1> HIDE DEF j
  <1>4. /\ jobs' \in [Simple!Threads -> Seq(Jobs)]
        /\ jobs'[k] = Tail(jobs[k])
        /\ \A s \in Simple!Threads \ {k} : jobs'[s] = jobs[s]
    BY <1>1, <1>2 DEF SimpleTypes
  <1>5. \A s \in Simple!Threads : \A x : x \in Elems(jobs'[s]) <=> x \in Elems(jobs[s]) /\ x # j
    <2>1. \A s \in Simple!Threads \ {k} : j \notin Elems(jobs[s])
      BY <1>2 DEF SimpleBooks
    <2>. QED BY <2>1, <1>2, <1>4
  <1>6. step' \in [Simple!Threads -> Simple!Threads]
    <2>1. 0 \in Simple!Threads
      BY PoolsAssumption DEF Simple!PoolAssumption, Simple!Threads
    <2>. QED BY <1>1, <2>1 DEF SimpleTypes
  <1>7. SimpleBooks'
    <2>1. \A s \in Simple!Threads : Distinct(jobs'[s])
      BY <1>2, <1>4 DEF SimpleBooks
    <2>2. \A s, u \in Simple!Threads : \A x \in Elems(jobs'[s]) : x \in Elems(jobs'[u]) => s = u
      BY <1>5 DEF SimpleBooks
    <2>3. \A s \in Simple!Threads : \A x \in Elems(jobs'[s]) : x \notin Elems(done') /\ x \notin dropped'
      BY <1>5, <1>3 DEF SimpleBooks
    <2>4. Posting' = Posting
      BY DEF Posting
    <2>5. \A x \in Posting : /\ x \notin Elems(done') /\ x \notin dropped'
                             /\ \A s \in Simple!Threads : x \notin Elems(jobs'[s])
      <3>. SUFFICES ASSUME NEW x \in Posting
                    PROVE  /\ x \notin Elems(done') /\ x \notin dropped'
                           /\ \A s \in Simple!Threads : x \notin Elems(jobs'[s])
        OBVIOUS
      <3>1. /\ x \notin Elems(done) /\ x \notin dropped
            /\ \A s \in Simple!Threads : x \notin Elems(jobs[s])
        BY DEF SimpleBooks
      <3>2. x # j
        BY ONLY <3>1, <1>2, k \in Simple!Threads
      <3>3. dropped' = dropped
        OBVIOUS
      <3>. QED BY ONLY <3>1, <3>2, <3>3, <1>3, <1>5
    <2>6. \A a, b \in Simple!Actors :
            (post'[a] # << >> /\ post'[b] # << >> /\ post'[a][1] = post'[b][1]) => a = b
      BY DEF SimpleBooks
    <2>. QED BY <2>1, <2>2, <2>3, <2>4, <2>5, <2>6 DEF SimpleBooks
  <1>8. Simple!Abstract!Run(j)
    <2>1. \A x : x \in Simple!Queued <=> \E s \in Simple!Threads : x \in Elems(jobs[s])
      BY SimpleInQueue
    <2>2. \A x : x \in Simple!Queued' <=> \E s \in Simple!Threads : x \in Elems(jobs'[s])
      BY DEF Simple!Queued, Elems
    <2>3. j \in Simple!Queued
      BY <2>1, <1>2
    <2>4. Simple!Queued' = Simple!Queued \ {j}
      BY <2>1, <2>2, <1>5
    <2>5. done' = Append(done, j)
      BY <1>1 DEF j
    <2>. QED BY <2>3, <2>4, <2>5 DEF Simple!Abstract!Run
  <1>9. \A s \in Simple!Threads : jobs[s] = << >> => jobs'[s] = << >>
    BY <1>1, <1>4
  <1>. QED BY <1>2, <1>3, <1>4, <1>6, <1>7, <1>8, <1>9 DEF Simple!Abstract!Next

\* post() puts its job into a queue, whichever it is: Scheduler's Post.
LEMMA SimplePuts ==
    ASSUME SimpleTypes, SimpleBooks, NEW a \in Simple!Actors, NEW k \in Simple!Threads,
           post[a] # << >>, Simple!Puts(a, k), UNCHANGED <<done, dropped>>
    PROVE  /\ jobs' \in [Simple!Threads -> Seq(Jobs)]
           /\ post' \in [Simple!Actors -> {<< >>} \cup (Jobs \X Simple!Threads \X (0..N))]
           /\ \A s \in Simple!Threads \ {k} : jobs'[s] = jobs[s]
           /\ SimpleBooks'
           /\ Simple!Abstract!Next
  <1> DEFINE j == post[a][1]
  <1>1. /\ jobs' = [jobs EXCEPT ![k] = Append(jobs[k], j)]
        /\ post' = [post EXCEPT ![a] = << >>]
    BY DEF Simple!Puts
  <1>2. /\ jobs[k] \in Seq(Jobs) /\ j \in Jobs
        /\ post[a] \in Jobs \X Simple!Threads \X (0..N)
    BY DEF SimpleTypes
  <1>3. j \in Posting
    BY DEF Posting
  <1>4. /\ j \notin Elems(done) /\ j \notin dropped
        /\ \A s \in Simple!Threads : j \notin Elems(jobs[s])
    BY <1>3 DEF SimpleBooks
  <1>5. /\ Append(jobs[k], j) \in Seq(Jobs)
        /\ \A x : x \in Elems(Append(jobs[k], j)) <=> x \in Elems(jobs[k]) \/ x = j
        /\ Distinct(Append(jobs[k], j))
    <2>1. Distinct(jobs[k])
      BY DEF SimpleBooks
    <2>. QED BY <1>2, <1>4, <2>1, LastIn
  <1>6. /\ jobs' \in [Simple!Threads -> Seq(Jobs)]
        /\ jobs'[k] = Append(jobs[k], j)
        /\ \A s \in Simple!Threads \ {k} : jobs'[s] = jobs[s]
    BY <1>1, <1>5 DEF SimpleTypes
  <1>7. /\ post' \in [Simple!Actors -> {<< >>} \cup (Jobs \X Simple!Threads \X (0..N))]
        /\ post'[a] = << >>
        /\ \A b \in Simple!Actors \ {a} : post'[b] = post[b]
    BY <1>1 DEF SimpleTypes
  <1>8. \A b \in Simple!Actors : post'[b] # << >> => b # a /\ post'[b] = post[b] /\ post[b][1] # j
    BY <1>7 DEF SimpleBooks
  <1> HIDE DEF j
  <1>9. \A s \in Simple!Threads : \A x : x \in Elems(jobs'[s]) <=> x \in Elems(jobs[s]) \/ (x = j /\ s = k)
    BY <1>5, <1>6
  <1>10. SimpleBooks'
    <2>1. \A s \in Simple!Threads : Distinct(jobs'[s])
      BY <1>5, <1>6 DEF SimpleBooks
    <2>2. \A s, u \in Simple!Threads : \A x \in Elems(jobs'[s]) : x \in Elems(jobs'[u]) => s = u
      <3>1. \A s, u \in Simple!Threads : \A x \in Elems(jobs[s]) : x \in Elems(jobs[u]) => s = u
        BY DEF SimpleBooks
      <3>. QED BY ONLY <3>1, <1>9, <1>4
    <2>3. \A s \in Simple!Threads : \A x \in Elems(jobs'[s]) : x \notin Elems(done') /\ x \notin dropped'
      <3>1. \A s \in Simple!Threads : \A x \in Elems(jobs[s]) : x \notin Elems(done) /\ x \notin dropped
        BY DEF SimpleBooks
      <3>2. done' = done /\ dropped' = dropped
        OBVIOUS
      <3>. QED BY ONLY <3>1, <3>2, <1>9, <1>4
    <2>4. \A x \in Posting' : x \in Posting /\ x # j
      BY <1>8 DEF Posting
    <2>5. \A x \in Posting' : /\ x \notin Elems(done') /\ x \notin dropped'
                              /\ \A s \in Simple!Threads : x \notin Elems(jobs'[s])
      <3>. SUFFICES ASSUME NEW x \in Posting'
                    PROVE  /\ x \notin Elems(done') /\ x \notin dropped'
                           /\ \A s \in Simple!Threads : x \notin Elems(jobs'[s])
        OBVIOUS
      <3>1. x \in Posting /\ x # j
        BY <2>4
      <3>2. /\ x \notin Elems(done) /\ x \notin dropped
            /\ \A s \in Simple!Threads : x \notin Elems(jobs[s])
        BY <3>1 DEF SimpleBooks
      <3>3. done' = done /\ dropped' = dropped
        OBVIOUS
      <3>. QED BY ONLY <3>1, <3>2, <3>3, <1>9
    <2>6. \A b, c \in Simple!Actors :
            (post'[b] # << >> /\ post'[c] # << >> /\ post'[b][1] = post'[c][1]) => b = c
      BY <1>8 DEF SimpleBooks
    <2>. QED BY <2>1, <2>2, <2>3, <2>5, <2>6 DEF SimpleBooks
  <1>11. Simple!Abstract!Post(j)
    <2>1. \A x : x \in Simple!Queued <=> \E s \in Simple!Threads : x \in Elems(jobs[s])
      BY SimpleInQueue
    <2>2. \A x : x \in Simple!Queued' <=> \E s \in Simple!Threads : x \in Elems(jobs'[s])
      BY DEF Simple!Queued, Elems
    <2>3. j \notin Simple!Queued \cup dropped
      BY <2>1, <1>4
    <2>4. Simple!Queued' = Simple!Queued \cup {j}
      BY <2>1, <2>2, <1>9
    <2>5. \A i \in 1..Len(done) : done[i] # j
      BY <1>4 DEF Elems
    <2>. QED BY <2>3, <2>4, <2>5 DEF Simple!Abstract!Post
  <1>. QED BY <1>2, <1>6, <1>7, <1>10, <1>11 DEF Simple!Abstract!Next

\* What a step of the pool is to Scheduler.
SimpleIsStep == [Simple!Abstract!Next]_(Simple!Abstract!vars)

\* The invariant a step of the pool keeps.
SimpleOK == SimpleTypes /\ SimpleBooks /\ Simple!NoLostWakeup

\* A step that moves no job.
LEMMA SimpleStill ==
    ASSUME SimpleBooks, UNCHANGED <<jobs, done, dropped, post>>
    PROVE  SimpleBooks' /\ SimpleIsStep
  <1>1. SimpleBooks'
    BY DEF SimpleBooks, Posting
  <1>2. UNCHANGED Simple!Abstract!vars
    BY DEF Simple!Abstract!vars, Simple!Queued
  <1>. QED BY <1>1, <1>2 DEF SimpleIsStep

LEMMA SimpleTryPop ==
    ASSUME SimpleOK, NEW t \in Simple!Threads, Simple!TryPop(t)
    PROVE  SimpleOK' /\ SimpleIsStep
  <1>1. UNCHANGED <<stopped, cv, post, next, stopIdx, dropped>>
    BY DEF Simple!TryPop
  <1>2. CASE Simple!Takes(t, (t + step[t]) % N)
    <2> DEFINE k == (t + step[t]) % N
    <2>1. k \in Simple!Threads
      <3>1. step[t] \in Simple!Threads
        BY DEF SimpleOK, SimpleTypes
      <3>2. t \in Int /\ step[t] \in Int
        BY <3>1, SimpleIndex
      <3>3. t + step[t] \in Int
        BY <3>2
      <3>. QED BY <3>3, SimpleIndex
    <2> HIDE DEF k
    <2>2. Simple!Takes(t, k)
      BY <1>2 DEF k
    <2>3. /\ jobs' \in [Simple!Threads -> Seq(Jobs)] /\ done' \in Seq(Jobs)
          /\ step' \in [Simple!Threads -> Simple!Threads]
          /\ \A s \in Simple!Threads : jobs[s] = << >> => jobs'[s] = << >>
          /\ SimpleBooks'
          /\ Simple!Abstract!Next
      BY <2>1, <2>2, <1>1, SimpleTakes DEF SimpleOK
    <2>4. SimpleTypes'
      BY <1>1, <2>3 DEF SimpleOK, SimpleTypes
    <2>5. Simple!NoLostWakeup'
      BY <1>1, <2>3 DEF SimpleOK, Simple!NoLostWakeup
    <2>. QED BY <2>3, <2>4, <2>5 DEF SimpleOK, SimpleIsStep
  <1>3. CASE /\ IF step[t] = N - 1
                THEN step' = [step EXCEPT ![t] = 0]
                ELSE step' = [step EXCEPT ![t] = step[t] + 1]
             /\ UNCHANGED <<jobs, done>>
    <2>1. step' \in [Simple!Threads -> Simple!Threads]
      <3>1. step \in [Simple!Threads -> Simple!Threads]
        BY DEF SimpleOK, SimpleTypes
      <3>2. step[t] \in Simple!Threads
        BY <3>1
      <3>3. 0 \in Simple!Threads /\ (step[t] # N - 1 => step[t] + 1 \in Simple!Threads)
        BY <3>2, SimpleIndex
      <3>. QED BY <1>3, <3>1, <3>3
    <2>2. SimpleTypes'
      BY <1>1, <1>3, <2>1 DEF SimpleOK, SimpleTypes
    <2>3. SimpleBooks' /\ SimpleIsStep
      BY <1>1, <1>3, SimpleStill DEF SimpleOK
    <2>4. Simple!NoLostWakeup'
      BY <1>1, <1>3 DEF SimpleOK, Simple!NoLostWakeup
    <2>. QED BY <2>2, <2>3, <2>4 DEF SimpleOK
  <1>. QED BY <1>2, <1>3 DEF Simple!TryPop

LEMMA SimplePop ==
    ASSUME SimpleOK, NEW t \in Simple!Threads, Simple!Pop(t)
    PROVE  SimpleOK' /\ SimpleIsStep
  <1>1. UNCHANGED <<stopped, post, next, stopIdx, dropped>> /\ t \in Simple!Threads
    BY DEF Simple!Pop
  <1>2. CASE Simple!Takes(t, t) /\ cv' = [cv EXCEPT ![t] = "no"]
    <2>3. /\ jobs' \in [Simple!Threads -> Seq(Jobs)] /\ done' \in Seq(Jobs)
          /\ step' \in [Simple!Threads -> Simple!Threads]
          /\ \A s \in Simple!Threads : jobs[s] = << >> => jobs'[s] = << >>
          /\ SimpleBooks'
          /\ Simple!Abstract!Next
      BY <1>2, <1>1, SimpleTakes DEF SimpleOK
    <2>4. SimpleTypes'
      BY <1>1, <1>2, <2>3 DEF SimpleOK, SimpleTypes
    <2>5. \A s \in Simple!Threads : cv'[s] = "wait" => cv[s] = "wait"
      BY <1>2 DEF SimpleOK, SimpleTypes
    <2>6. Simple!NoLostWakeup'
      BY <1>1, <2>3, <2>5 DEF SimpleOK, Simple!NoLostWakeup
    <2>. QED BY <2>3, <2>4, <2>6 DEF SimpleOK, SimpleIsStep
  <1>3. CASE /\ \/ cv' = [cv EXCEPT ![t] = "no"]
                \/ cv' = [cv EXCEPT ![t] = "wait"] /\ ~stopped[t] /\ jobs[t] = << >>
             /\ UNCHANGED <<jobs, done, step>>
    <2>1. SimpleTypes'
      BY <1>1, <1>3 DEF SimpleOK, SimpleTypes
    <2>2. SimpleBooks' /\ SimpleIsStep
      BY <1>1, <1>3, SimpleStill DEF SimpleOK
    <2>3. \A s \in Simple!Threads :
             cv'[s] = "wait" => cv[s] = "wait" \/ (~stopped[s] /\ jobs[s] = << >>)
      BY <1>3 DEF SimpleOK, SimpleTypes
    <2>4. Simple!NoLostWakeup'
      BY <1>1, <1>3, <2>3 DEF SimpleOK, Simple!NoLostWakeup
    <2>. QED BY <2>1, <2>2, <2>4 DEF SimpleOK
  <1>. QED BY <1>2, <1>3 DEF Simple!Pop

\* The steps of a thread that touch no queue.
LEMMA SimpleThread ==
    ASSUME SimpleOK, NEW t \in Simple!Threads, Simple!SpuriousWakeup(t) \/ Simple!EndJob(t)
    PROVE  SimpleOK' /\ SimpleIsStep
  <1>1. /\ UNCHANGED <<jobs, stopped, step, post, next, stopIdx, done, dropped>>
        /\ cv' = cv \/ cv' = [cv EXCEPT ![t] = "woken"]
    BY DEF Simple!SpuriousWakeup, Simple!EndJob
  <1>2. SimpleTypes'
    BY <1>1 DEF SimpleOK, SimpleTypes
  <1>3. SimpleBooks' /\ SimpleIsStep
    BY <1>1, SimpleStill DEF SimpleOK
  <1>4. \A s \in Simple!Threads : cv'[s] = "wait" => cv[s] = "wait"
    BY <1>1 DEF SimpleOK, SimpleTypes
  <1>5. Simple!NoLostWakeup'
    BY <1>1, <1>4 DEF SimpleOK, Simple!NoLostWakeup
  <1>. QED BY <1>2, <1>3, <1>5 DEF SimpleOK

LEMMA SimpleStartPost ==
    ASSUME SimpleOK, NEW a \in Simple!Actors, NEW j \in Jobs, Simple!StartPost(a, j)
    PROVE  SimpleOK' /\ SimpleIsStep
  <1>1. /\ UNCHANGED <<jobs, stopped, cv, step, stopIdx, done, dropped>>
        /\ post' = [post EXCEPT ![a] = <<j, next, 0>>]
        /\ next' = (next + 1) % N
        /\ j \notin Simple!Known
    BY DEF Simple!StartPost
  <1>2. <<j, next, 0>> \in Jobs \X Simple!Threads \X (0..N) /\ next' \in Simple!Threads
    <2>1. next \in Simple!Threads /\ next + 1 \in Int
      BY SimpleIndex DEF SimpleOK, SimpleTypes
    <2>2. 0 \in 0..N
      BY PoolsAssumption DEF Simple!PoolAssumption
    <2>. QED BY <1>1, <2>1, <2>2, SimpleIndex
  <1>3. /\ post' \in [Simple!Actors -> {<< >>} \cup (Jobs \X Simple!Threads \X (0..N))]
        /\ post'[a] = <<j, next, 0>> /\ post'[a][1] = j
        /\ \A b \in Simple!Actors \ {a} : post'[b] = post[b]
    BY <1>1, <1>2 DEF SimpleOK, SimpleTypes
  <1>4. /\ j \notin Posting /\ j \notin Elems(done) /\ j \notin dropped
        /\ \A s \in Simple!Threads : j \notin Elems(jobs[s])
    BY <1>1, SimpleInQueue DEF Simple!Known, Posting, Elems
  <1>5. SimpleBooks'
    <2>1. \A x \in Posting' : x \in Posting \/ x = j
      BY <1>3 DEF Posting
    <2>2. \A x \in Posting' : /\ x \notin Elems(done') /\ x \notin dropped'
                              /\ \A s \in Simple!Threads : x \notin Elems(jobs'[s])
      BY <2>1, <1>1, <1>4 DEF SimpleOK, SimpleBooks
    <2>3. \A b \in Simple!Actors \ {a} : post'[b] # << >> => post'[b][1] # j
      BY <1>3, <1>4 DEF Posting
    <2>4. \A b, c \in Simple!Actors :
            (post'[b] # << >> /\ post'[c] # << >> /\ post'[b][1] = post'[c][1]) => b = c
      BY <2>3, <1>3 DEF SimpleOK, SimpleBooks
    <2>. QED BY <1>1, <2>2, <2>4 DEF SimpleOK, SimpleBooks
  <1>6. UNCHANGED Simple!Abstract!vars
    BY <1>1 DEF Simple!Abstract!vars, Simple!Queued
  <1>7. SimpleTypes'
    BY <1>1, <1>2, <1>3 DEF SimpleOK, SimpleTypes
  <1>8. Simple!NoLostWakeup'
    BY <1>1 DEF SimpleOK, Simple!NoLostWakeup
  <1>. QED BY <1>5, <1>6, <1>7, <1>8 DEF SimpleOK, SimpleIsStep

LEMMA SimpleTryPush ==
    ASSUME SimpleOK, NEW a \in Simple!Actors, Simple!TryPush(a)
    PROVE  SimpleOK' /\ SimpleIsStep
  <1>1. /\ UNCHANGED <<stopped, step, next, stopIdx, done, dropped>>
        /\ post[a] # << >>
    BY DEF Simple!TryPush
  <1>2. /\ post[a] \in Jobs \X Simple!Threads \X (0..N)
        /\ post[a][1] \in Jobs /\ post[a][2] \in Simple!Threads /\ post[a][3] \in 0..N
    BY <1>1 DEF SimpleOK, SimpleTypes
  <1>3. ASSUME NEW k \in Simple!Threads, Simple!Puts(a, k)
        PROVE  SimpleOK' /\ SimpleIsStep
    <2>1. /\ jobs' \in [Simple!Threads -> Seq(Jobs)]
          /\ post' \in [Simple!Actors -> {<< >>} \cup (Jobs \X Simple!Threads \X (0..N))]
          /\ \A s \in Simple!Threads \ {k} : jobs'[s] = jobs[s]
          /\ SimpleBooks'
          /\ Simple!Abstract!Next
      BY <1>3, <1>1, SimplePuts DEF SimpleOK
    <2>2. cv' = [cv EXCEPT ![k] = IF cv[k] = "wait" /\ jobs[k] = << >> THEN "woken" ELSE cv[k]]
      BY <1>3 DEF Simple!Puts, Simple!NotifyIfWasEmpty
    <2>3. /\ cv'[k] # "wait"
          /\ \A s \in Simple!Threads \ {k} : cv'[s] = cv[s]
          /\ cv' \in [Simple!Threads -> {"no", "wait", "woken"}]
      BY <2>2 DEF SimpleOK, SimpleTypes, Simple!NoLostWakeup
    <2>4. SimpleTypes'
      BY <1>1, <2>1, <2>3 DEF SimpleOK, SimpleTypes
    <2>5. Simple!NoLostWakeup'
      BY <1>1, <2>1, <2>3 DEF SimpleOK, Simple!NoLostWakeup
    <2>. QED BY <2>1, <2>4, <2>5 DEF SimpleOK, SimpleIsStep
  <1>4. CASE /\ post[a][3] < N
             /\ post' = [post EXCEPT ![a] = <<post[a][1], post[a][2], post[a][3] + 1>>]
             /\ UNCHANGED <<jobs, cv>>
    <2>1. <<post[a][1], post[a][2], post[a][3] + 1>> \in Jobs \X Simple!Threads \X (0..N)
      BY <1>2, <1>4, PoolsAssumption DEF Simple!PoolAssumption
    <2>2. /\ post' \in [Simple!Actors -> {<< >>} \cup (Jobs \X Simple!Threads \X (0..N))]
          /\ post'[a][1] = post[a][1]
          /\ \A b \in Simple!Actors \ {a} : post'[b] = post[b]
      BY <1>4, <2>1 DEF SimpleOK, SimpleTypes
    <2>3. \A b \in Simple!Actors : post'[b] # << >> => post[b] # << >> /\ post'[b][1] = post[b][1]
      BY <2>2, <1>1
    <2>4. \A x \in Posting' : x \in Posting
      BY <2>3 DEF Posting
    <2>5. SimpleBooks'
      BY <1>1, <1>4, <2>3, <2>4 DEF SimpleOK, SimpleBooks
    <2>6. UNCHANGED Simple!Abstract!vars
      BY <1>1, <1>4 DEF Simple!Abstract!vars, Simple!Queued
    <2>7. SimpleTypes'
      BY <1>1, <1>4, <2>2 DEF SimpleOK, SimpleTypes
    <2>8. Simple!NoLostWakeup'
      BY <1>1, <1>4 DEF SimpleOK, Simple!NoLostWakeup
    <2>. QED BY <2>5, <2>6, <2>7, <2>8 DEF SimpleOK, SimpleIsStep
  <1>5. (post[a][2] + post[a][3]) % N \in Simple!Threads
    BY <1>2, PoolsAssumption DEF Simple!PoolAssumption, Simple!Threads
  <1>6. CASE Simple!Puts(a, (post[a][2] + post[a][3]) % N)
    BY <1>3, <1>5, <1>6
  <1>7. CASE Simple!Puts(a, post[a][2])
    BY <1>2, <1>3, <1>7
  <1>. QED BY <1>4, <1>6, <1>7 DEF Simple!TryPush

\* start(), stop() up to the states and the states one by one.
LEMMA SimpleOwner ==
    ASSUME SimpleOK, Simple!Start \/ Simple!StartStop \/ Simple!StopState
    PROVE  SimpleOK' /\ SimpleIsStep
  <1>1. /\ UNCHANGED <<jobs, step, post, next, done, dropped>>
        /\ stopIdx' \in Simple!Threads
    BY SimpleIndex DEF Simple!Start, Simple!StartStop, Simple!StopState, SimpleOK, SimpleTypes
  <1>2. /\ stopped' \in [Simple!Threads -> BOOLEAN]
        /\ cv' \in [Simple!Threads -> {"no", "wait", "woken"}]
        /\ \A t \in Simple!Threads : cv'[t] = "wait" => cv[t] = "wait" /\ stopped'[t] = stopped[t]
    <2>1. CASE UNCHANGED <<stopped, cv>>
      BY <2>1 DEF SimpleOK, SimpleTypes
    <2>2. CASE Simple!StopState
      BY <2>2 DEF Simple!StopState, SimpleOK, SimpleTypes
    <2>. QED BY <2>1, <2>2 DEF Simple!Start, Simple!StartStop
  <1>3. SimpleTypes'
    BY <1>1, <1>2 DEF SimpleOK, SimpleTypes
  <1>4. SimpleBooks' /\ SimpleIsStep
    BY <1>1, SimpleStill DEF SimpleOK
  <1>5. Simple!NoLostWakeup'
    BY <1>1, <1>2 DEF SimpleOK, Simple!NoLostWakeup
  <1>. QED BY <1>3, <1>4, <1>5 DEF SimpleOK

\* join() drops the jobs left in the queues: Scheduler's End.
LEMMA SimpleJoin ==
    ASSUME SimpleOK, Simple!Join
    PROVE  SimpleOK' /\ SimpleIsStep
  <1>1. /\ UNCHANGED <<cv, step, post, stopIdx, done>>
        /\ jobs' = [t \in Simple!Threads |-> << >>]
        /\ stopped' = [t \in Simple!Threads |-> FALSE]
        /\ next' = 0
        /\ dropped' = dropped \cup Simple!Queued
    BY DEF Simple!Join
  <1>2. \A t \in Simple!Threads : jobs'[t] = << >>
    BY <1>1
  <1>3. \A x : x \in Simple!Queued <=> \E t \in Simple!Threads : x \in Elems(jobs[t])
    BY SimpleInQueue
  <1>4. \A x : x \in Simple!Queued' <=> \E t \in Simple!Threads : x \in Elems(jobs'[t])
    BY DEF Simple!Queued, Elems
  <1>5. Simple!Queued' = {}
    BY <1>2, <1>4, Nothing
  <1>6. Simple!Queued \subseteq Jobs
    <2>1. ASSUME NEW t \in Simple!Threads, NEW x \in Elems(jobs[t]) PROVE x \in Jobs
      <3>1. PICK i \in 1..Len(jobs[t]) : x = jobs[t][i]
        BY <2>1 DEF Elems
      <3>2. jobs[t] \in Seq(Jobs)
        BY DEF SimpleOK, SimpleTypes
      <3>. QED BY <3>1, <3>2, ElementOfSeq
    <2>. QED BY <1>3, <2>1
  <1>7. SimpleTypes'
    <2>1. 0 \in Simple!Threads /\ << >> \in Seq(Jobs)
      BY PoolsAssumption DEF Simple!PoolAssumption, Simple!Threads
    <2>. QED BY <1>1, <1>6, <2>1 DEF SimpleOK, SimpleTypes
  <1>8. SimpleBooks'
    <2>1. Posting' = Posting
      BY <1>1 DEF Posting
    <2>2. \A t \in Simple!Threads : Elems(jobs'[t]) = {} /\ Distinct(jobs'[t])
      BY <1>2, Nothing
    <2>3. \A x \in Posting : x \notin Elems(done') /\ x \notin dropped'
      BY <1>1, <1>3 DEF SimpleOK, SimpleBooks
    <2>. QED BY <1>1, <2>1, <2>2, <2>3 DEF SimpleOK, SimpleBooks
  <1>9. Simple!NoLostWakeup'
    BY <1>1 DEF Simple!NoLostWakeup
  <1>10. Simple!Abstract!End
    BY <1>1, <1>5 DEF Simple!Abstract!End
  <1>. QED BY <1>7, <1>8, <1>9, <1>10 DEF SimpleOK, SimpleIsStep, Simple!Abstract!Next

LEMMA SimpleStep ==
    ASSUME SimpleOK, Simple!Next
    PROVE  SimpleOK' /\ SimpleIsStep
  <1>1. CASE \E t \in Simple!Threads : Simple!TryPop(t) \/ Simple!Pop(t)
    BY <1>1, SimpleTryPop, SimplePop
  <1>2. CASE \E t \in Simple!Threads : Simple!SpuriousWakeup(t) \/ Simple!EndJob(t)
    BY <1>2, SimpleThread
  <1>3. CASE \E a \in Simple!Actors : Simple!TryPush(a) \/ \E j \in Jobs : Simple!StartPost(a, j)
    BY <1>3, SimpleTryPush, SimpleStartPost
  <1>4. CASE Simple!Start \/ Simple!StartStop \/ Simple!StopState
    BY <1>4, SimpleOwner
  <1>5. CASE Simple!Join
    BY <1>5, SimpleJoin
  <1>. QED BY <1>1, <1>2, <1>3, <1>4, <1>5 DEF Simple!Next

LEMMA SimpleStart ==
    ASSUME Simple!Init
    PROVE  SimpleOK /\ Simple!Abstract!Init
  <1>1. 0 \in Simple!Threads /\ << >> \in Seq(Jobs)
    BY PoolsAssumption DEF Simple!PoolAssumption, Simple!Threads
  <1>2. \A t \in Simple!Threads : Elems(jobs[t]) = {} /\ Distinct(jobs[t])
    BY Nothing DEF Simple!Init
  <1>3. Posting = {}
    BY DEF Simple!Init, Posting
  <1>4. SimpleTypes
    BY <1>1 DEF Simple!Init, SimpleTypes
  <1>5. SimpleBooks
    BY <1>2, <1>3 DEF Simple!Init, SimpleBooks
  <1>6. Simple!NoLostWakeup
    BY DEF Simple!Init, Simple!NoLostWakeup
  <1>7. Simple!Abstract!Init
    BY <1>2, SimpleInQueue DEF Simple!Init, Simple!Abstract!Init
  <1>. QED BY <1>4, <1>5, <1>6, <1>7 DEF SimpleOK

-----------------------------------------------------------------------------
(* naive_thread_pool *)

NaiveOK ==
    /\ jobs \in Seq(Jobs) /\ done \in Seq(Jobs)
    /\ Distinct(jobs)
    /\ \A x \in Elems(jobs) : x \notin Elems(done) /\ x \notin dropped

NaiveIsStep == [Naive!Abstract!Next]_(Naive!Abstract!vars)

LEMMA NaiveStep ==
    ASSUME NaiveOK, Naive!Next
    PROVE  NaiveOK' /\ NaiveIsStep
  <1>1. Naive!Queued = Elems(jobs) /\ Naive!Queued' = Elems(jobs')
    BY DEF Naive!Queued, Elems
  <1>2. CASE UNCHANGED <<jobs, done, dropped>>
    BY <1>2, <1>1 DEF NaiveOK, NaiveIsStep, Naive!Abstract!vars
  <1>3. ASSUME NEW t \in NaiveThreads, Naive!Locked(t), jobs # << >>, jobs' = Tail(jobs),
               done' = Append(done, Head(jobs))
        PROVE  NaiveOK' /\ NaiveIsStep
    <2> DEFINE j == Head(jobs)
    <2>1. dropped' = dropped
      BY <1>3 DEF Naive!Locked
    <2>2. /\ j \in Jobs /\ jobs' \in Seq(Jobs) /\ j \in Elems(jobs)
          /\ \A x : x \in Elems(jobs) => x = j \/ x \in Elems(jobs')
          /\ \A x : x \in Elems(jobs') => x \in Elems(jobs)
          /\ Distinct(jobs') /\ j \notin Elems(jobs')
      BY <1>3, FirstOut DEF NaiveOK
    <2>3. /\ done' \in Seq(Jobs)
          /\ \A x : x \in Elems(done') <=> x \in Elems(done) \/ x = j
      BY <1>3, <2>2, LastIn DEF NaiveOK
    <2>4. done' = Append(done, j)
      BY <1>3
    <2> HIDE DEF j
    <2>5. Naive!Abstract!Run(j)
      BY <2>1, <2>2, <2>4, <1>1 DEF Naive!Abstract!Run
    <2>. QED BY <2>1, <2>2, <2>3, <2>5 DEF NaiveOK, NaiveIsStep, Naive!Abstract!Next
  <1>4. ASSUME NEW a \in Naive!Actors, NEW j \in Jobs, Naive!Post(a, j)
        PROVE  NaiveOK' /\ NaiveIsStep
    <2>1. /\ UNCHANGED <<done, dropped>> /\ jobs' = Append(jobs, j)
          /\ j \notin Elems(jobs) /\ j \notin Elems(done) /\ j \notin dropped
      BY <1>4, <1>1 DEF Naive!Post, Naive!Known, Elems
    <2>2. /\ jobs' \in Seq(Jobs) /\ Distinct(jobs')
          /\ \A x : x \in Elems(jobs') <=> x \in Elems(jobs) \/ x = j
      BY <2>1, LastIn DEF NaiveOK
    <2>3. \A i \in 1..Len(done) : done[i] # j
      BY <2>1 DEF Elems
    <2>4. Naive!Abstract!Post(j)
      BY <2>1, <2>2, <2>3, <1>1 DEF Naive!Abstract!Post
    <2>. QED BY <2>1, <2>2, <2>4 DEF NaiveOK, NaiveIsStep, Naive!Abstract!Next
  <1>5. CASE Naive!Join
    <2>1. jobs' = << >> /\ done' = done /\ dropped' = dropped \cup Naive!Queued
      BY <1>5 DEF Naive!Join
    <2>2. Elems(jobs') = {} /\ Distinct(jobs') /\ jobs' \in Seq(Jobs)
      BY <2>1, Nothing
    <2>3. Naive!Abstract!End
      BY <2>1, <2>2, <1>1 DEF Naive!Abstract!End
    <2>. QED BY <2>1, <2>2, <2>3 DEF NaiveOK, NaiveIsStep, Naive!Abstract!Next
  <1>6. CASE \E t \in NaiveThreads : Naive!Locked(t)
    BY <1>6, <1>2, <1>3 DEF Naive!Locked
  <1>7. CASE \/ \E t \in NaiveThreads : Naive!SpuriousWakeup(t) \/ Naive!EndJob(t)
             \/ \E a \in Naive!Actors : Naive!NotifyOne(a)
             \/ Naive!Start \/ Naive!SetStop \/ Naive!NotifyAll
    BY <1>7, <1>2 DEF Naive!SpuriousWakeup, Naive!EndJob, Naive!NotifyOne, Naive!Start,
                      Naive!SetStop, Naive!NotifyAll
  <1>. QED BY <1>4, <1>5, <1>6, <1>7 DEF Naive!Next

LEMMA NaiveStart ==
    ASSUME Naive!Init
    PROVE  NaiveOK /\ Naive!Abstract!Init
  <1>1. jobs = << >> /\ done = << >> /\ dropped = {}
    BY DEF Naive!Init
  <1>2. Naive!Queued = Elems(jobs)
    BY DEF Naive!Queued, Elems
  <1>. QED BY <1>1, <1>2, Nothing DEF NaiveOK, Naive!Abstract!Init

-----------------------------------------------------------------------------
(* The pools over a library *)

\* Asio has no more jobs running than threads; it halts by itself only when nothing is left, and
\* only after join() gave back the work that start() counted.
LibOK ==
    /\ main \in {"out", "in", "joining"} /\ alive \in Nat /\ halted \in BOOLEAN /\ asked \in BOOLEAN
    /\ IsFiniteSet(running)
    /\ Lib!Asio => Cardinality(running) <= alive
    /\ main = "out" => running = {} /\ alive = 0 /\ ~halted
    /\ main = "in" /\ Lib!Asio => guard = 1 /\ (halted => asked)
    /\ main = "joining" /\ Lib!Asio /\ halted /\ ~asked => queued = {} /\ running = {}
    /\ main # "out" /\ Lib!Asio => halted \/ alive > 0
    /\ main = "out" /\ queued # {} => asked /\ pool = "asio_io"

\* Cardinality is the same operator in LibPools and here.
LEMMA LibCount == \A S : Lib!Cardinality(S) = Cardinality(S)
  BY DEF Lib!Cardinality, Cardinality

LEMMA LibStep ==
    ASSUME LibOK, Lib!Next
    PROVE  LibOK'
  <1>1. CASE Lib!Start
    <2>1. NThread \in Nat \ {0} /\ Cardinality({}) = 0 /\ IsFiniteSet({})
      BY PoolsAssumption, FS_EmptySet DEF Lib!LibAssumption
    <2>2. /\ main = "out" /\ main' = "in" /\ guard' = (IF Lib!Asio THEN 1 ELSE 0) /\ alive' = NThread
          /\ asked' = FALSE /\ UNCHANGED <<pool, halted, queued, running>>
      BY <1>1 DEF Lib!Start
    <2>3. running = {} /\ ~halted
      BY <2>2 DEF LibOK
    <2>4. Cardinality(running') = 0 /\ IsFiniteSet(running') /\ alive' \in Nat /\ alive' > 0
      BY <2>1, <2>2, <2>3
    <2>5. Lib!Asio' = Lib!Asio
      BY <2>2 DEF Lib!Asio
    <2>6. halted' \in BOOLEAN /\ ~halted' /\ ~asked'
      BY <2>2, <2>3 DEF LibOK
    <2>7. asked' \in BOOLEAN
      BY <2>2
    <2>8. main' = "in" /\ (Lib!Asio => guard' = 1) /\ Cardinality(running') <= alive'
      BY <2>2, <2>4
    <2>. QED BY <2>4, <2>5, <2>6, <2>7, <2>8 DEF LibOK
  <1>2. CASE Lib!Leave
    <2>1. Cardinality(running) \in Nat /\ alive \in Nat
      BY FS_CardinalityType DEF LibOK
    <2>2. Cardinality({}) = 0
      BY FS_EmptySet
    <2>3. /\ alive' = alive - 1 /\ alive > Cardinality(running) /\ halted' = TRUE
          /\ UNCHANGED <<pool, main, guard, asked, queued, running>>
          /\ Lib!Asio /\ (halted \/ (guard = 0 /\ queued = {} /\ running = {}))
      BY <1>2, LibCount DEF Lib!Leave
    <2>4. alive' \in Nat /\ Cardinality(running) <= alive' /\ main # "out"
      BY <2>1, <2>3 DEF LibOK
    <2>. QED BY <2>3, <2>4 DEF LibOK, Lib!Asio
  <1>3. CASE Lib!Stop
    BY <1>3 DEF Lib!Stop, LibOK, Lib!Asio
  <1>4. CASE Lib!BeginJoin
    BY <1>4 DEF Lib!BeginJoin, LibOK, Lib!Asio
  <1>5. CASE Lib!EndJoin
    <2>1. Cardinality(running) \in Nat
      BY FS_CardinalityType DEF LibOK
    <2>2. Lib!Asio => running = {}
      <3>1. ASSUME Lib!Asio PROVE Cardinality(running) = 0
        BY <3>1, <2>1, <1>5 DEF Lib!EndJoin, Lib!Joinable, LibOK
      <3>. QED BY <3>1, FS_EmptySet DEF LibOK
    <2>3. running = {}
      BY <2>2, <1>5 DEF Lib!EndJoin, Lib!Joinable
    <2>5. /\ main' = "out" /\ alive' = 0 /\ halted' = FALSE /\ main = "joining"
          /\ UNCHANGED <<pool, asked, running>>
          /\ (pool = "asio_io" /\ queued' = queued) \/ queued' = {}
      BY <1>5 DEF Lib!EndJoin
    <2>6. queued' # {} => asked /\ pool = "asio_io"
      <3>1. Lib!Asio => alive = 0
        BY <1>5 DEF Lib!EndJoin, Lib!Joinable
      <3>. QED BY <3>1, <2>5 DEF LibOK, Lib!Asio
    <2>7. IsFiniteSet(running') /\ Cardinality(running') = 0
      BY <2>3, <2>5, FS_EmptySet
    <2>8. halted' \in BOOLEAN /\ ~halted'
      BY <2>5
    <2>9. asked' \in BOOLEAN /\ asked' = asked
      BY <2>5 DEF LibOK
    <2>10. Cardinality(running') <= alive'
      BY <2>5, <2>7
    <2>. QED BY <2>3, <2>5, <2>6, <2>7, <2>8, <2>9, <2>10 DEF LibOK
  <1>6. ASSUME NEW j \in Jobs, Lib!Post(j)
        PROVE  LibOK'
    <2>1. main = "in" \/ running # {}
      BY <1>6 DEF Lib!Post
    <2>2. UNCHANGED <<pool, main, guard, alive, halted, asked, running>>
      BY <1>6 DEF Lib!Post
    <2>. QED BY <2>1, <2>2 DEF LibOK, Lib!Asio
  <1>7. ASSUME NEW j \in Jobs, Lib!Take(j)
        PROVE  LibOK'
    <2>1. /\ UNCHANGED <<pool, main, guard, alive, halted, asked>>
          /\ running' = running \cup {j} /\ queued' = queued \ {j} /\ j \in queued /\ ~halted
          /\ Cardinality(running) < alive
      BY <1>7, LibCount DEF Lib!Take
    <2>2. Cardinality(running) \in Nat /\ IsFiniteSet(running)
      BY FS_CardinalityType DEF LibOK
    <2>3. IsFiniteSet(running') /\ Cardinality(running') <= Cardinality(running) + 1
          /\ Cardinality(running') \in Nat
      <3>1. /\ IsFiniteSet(running \cup {j})
            /\ Cardinality(running \cup {j}) =
                  IF j \in running THEN Cardinality(running) ELSE Cardinality(running) + 1
        BY <2>2, FS_AddElement
      <3>. QED BY <3>1, <2>1, <2>2
    <2>4. Cardinality(running') <= alive /\ main # "out"
      BY <2>1, <2>2, <2>3 DEF LibOK
    <2>. QED BY <2>1, <2>3, <2>4 DEF LibOK, Lib!Asio
  <1>8. ASSUME NEW j \in Jobs, Lib!Skip(j)
        PROVE  LibOK'
    BY <1>8 DEF Lib!Skip, LibOK, Lib!Asio
  <1>9. ASSUME NEW j \in Jobs, Lib!EndJob(j)
        PROVE  LibOK'
    <2>1. /\ UNCHANGED <<pool, main, guard, alive, halted, asked, queued>>
          /\ running' = running \ {j} /\ j \in running
      BY <1>9 DEF Lib!EndJob
    <2>2. Cardinality(running) \in Nat /\ IsFiniteSet(running)
      BY FS_CardinalityType DEF LibOK
    <2>3. IsFiniteSet(running') /\ Cardinality(running') <= Cardinality(running)
          /\ Cardinality(running') \in Nat
      <3>1. /\ IsFiniteSet(running \ {j})
            /\ Cardinality(running \ {j}) =
                  IF j \in running THEN Cardinality(running) - 1 ELSE Cardinality(running)
        BY <2>2, FS_RemoveElement
      <3>2. Cardinality(running \ {j}) \in Nat
        BY <3>1, FS_CardinalityType
      <3>. QED BY <3>1, <3>2, <2>1, <2>2
    <2>4. Lib!Asio => Cardinality(running') <= alive
      BY <2>2, <2>3 DEF LibOK
    <2>. QED BY <2>1, <2>3, <2>4 DEF LibOK, Lib!Asio
  <1>. QED BY <1>1, <1>2, <1>3, <1>4, <1>5, <1>6, <1>7, <1>8, <1>9 DEF Lib!Next

LEMMA LibStart ==
    ASSUME Lib!Init
    PROVE  LibOK
  <1>1. IsFiniteSet(running) /\ Cardinality(running) = 0
    BY FS_EmptySet DEF Lib!Init
  <1>2. Cardinality(running) <= alive
    BY <1>1 DEF Lib!Init
  <1>3. main = "out" /\ alive = 0 /\ running = {} /\ queued = {} /\ ~halted /\ ~asked
    BY DEF Lib!Init
  <1>4. asked \in BOOLEAN
    BY DEF Lib!Init
  <1>5. halted \in BOOLEAN
    BY DEF Lib!Init
  <1>. QED BY <1>1, <1>2, <1>3, <1>4, <1>5 DEF LibOK

-----------------------------------------------------------------------------
(* The server of gRPC *)

TagStates == {"none", "posted", "ready", "taken", "done"}

GrpcTypes ==
    /\ tags \in [Grpc!Tags -> [st : TagStates, cq : Grpc!Cqs, ok : BOOLEAN]]
    /\ at \in [Grpc!Threads -> [pc : {"next", "tag", "rearm", "exited"}, tag : Grpc!Tags]]
    /\ next \in Nat /\ bad \in BOOLEAN

\* Tag t waits in a queue for a thread.
Waiting(t) == tags[t].st \in {"posted", "ready"}

\* A thread has left only a queue that is shut down and holds no tag, and, unless gRPC aborts,
\* nothing is posted to such a queue any more; a tag that was taken is handled by a thread.
GrpcOK ==
    /\ GrpcTypes
    /\ srv = "up" => shut = {}
    /\ ~bad => \A th \in Grpc!Threads :
                  at[th].pc = "exited" => /\ th[1] \in shut
                                          /\ \A t \in Grpc!Tags : Waiting(t) => tags[t].cq # th[1]
    /\ \A t \in Grpc!Tags : tags[t].st = "taken" => \E th \in Grpc!Threads : at[th] = Grpc!In(t)
    /\ srv = "down" => ~bad /\ \A th \in Grpc!Threads : at[th].pc = "exited"

\* What a step may do to the tags that wait and to the threads, for the invariant to be kept.
LEMMA GrpcKeeps ==
    ASSUME GrpcOK, ~bad, GrpcTypes', srv' = srv, srv # "down", shut' = shut,
           \A t \in Grpc!Tags : Waiting(t)' /\ ~bad' =>
                (Waiting(t) /\ tags'[t].cq = tags[t].cq) \/ tags'[t].cq \notin shut,
           \A th \in Grpc!Threads : at'[th].pc = "exited" => at[th].pc = "exited",
           \A t \in Grpc!Tags : tags'[t].st = "taken" => \E th \in Grpc!Threads : at'[th] = Grpc!In(t)
    PROVE  GrpcOK'
  <1>1. ASSUME ~bad', NEW th \in Grpc!Threads, at'[th].pc = "exited"
        PROVE  th[1] \in shut' /\ \A t \in Grpc!Tags : Waiting(t)' => tags'[t].cq # th[1]
    <2>1. th[1] \in shut /\ \A t \in Grpc!Tags : Waiting(t) => tags[t].cq # th[1]
      BY <1>1 DEF GrpcOK
    <2>. QED BY <2>1, <1>1
  <1>2. srv' = "up" => shut' = {}
    BY DEF GrpcOK
  <1>. QED BY <1>1, <1>2 DEF GrpcOK, Grpc!In

\* A server that is down has no tag that waits or is being handled: every queue had a thread.
LEMMA GrpcDown ==
    ASSUME GrpcOK, srv = "down"
    PROVE  \A t \in Grpc!Tags : tags[t].st \in {"none", "done"}
  <1>1. ~bad /\ \A th \in Grpc!Threads : at[th].pc = "exited"
    BY DEF GrpcOK
  <1>2. ASSUME NEW t \in Grpc!Tags PROVE ~Waiting(t)
    <2>1. tags[t].cq \in Grpc!Cqs
      BY DEF GrpcOK, GrpcTypes
    <2>2. <<tags[t].cq, 1>> \in Grpc!Threads
      BY <2>1, PoolsAssumption DEF Grpc!SrvAssumption, Grpc!Threads
    <2>. QED BY <2>2, <1>1 DEF GrpcOK
  <1>3. ASSUME NEW t \in Grpc!Tags PROVE tags[t].st # "taken"
    <2>1. \A th \in Grpc!Threads : at[th] # Grpc!In(t)
      BY <1>1 DEF Grpc!In
    <2>. QED BY <2>1 DEF GrpcOK
  <1>. QED BY <1>2, <1>3 DEF Waiting, GrpcOK, GrpcTypes, TagStates

\* gRPC completes a tag.
LEMMA GrpcReady ==
    ASSUME GrpcOK, ~bad, NEW t \in Grpc!Tags, NEW ok \in BOOLEAN, Grpc!Ready(t, ok)
    PROVE  GrpcOK'
  <1>1. /\ tags[t].st = "posted"
        /\ tags' = [tags EXCEPT ![t].st = "ready", ![t].ok = ok]
        /\ UNCHANGED <<srv, shut, at, next, bad>>
    BY DEF Grpc!Ready
  <1>2. GrpcTypes'
    <2> DEFINE g == [tags[t] EXCEPT !.st = "ready", !.ok = ok]
    <2>1. tags \in [Grpc!Tags -> [st : TagStates, cq : Grpc!Cqs, ok : BOOLEAN]]
      BY DEF GrpcOK, GrpcTypes
    <2>2. g \in [st : TagStates, cq : Grpc!Cqs, ok : BOOLEAN]
      BY <2>1 DEF TagStates
    <2>3. tags' = [tags EXCEPT ![t] = g]
      BY <1>1
    <2> HIDE DEF g
    <2>4. tags' \in [Grpc!Tags -> [st : TagStates, cq : Grpc!Cqs, ok : BOOLEAN]]
      BY <2>1, <2>2, <2>3
    <2>. QED BY <2>4, <1>1 DEF GrpcOK, GrpcTypes
  <1>3. /\ tags'[t].st = "ready" /\ tags'[t].cq = tags[t].cq
        /\ \A u \in Grpc!Tags \ {t} : tags'[u] = tags[u]
    BY <1>1 DEF GrpcOK, GrpcTypes
  <1>4. \A u \in Grpc!Tags : Waiting(u)' => Waiting(u) /\ tags'[u].cq = tags[u].cq
    BY <1>1, <1>3 DEF Waiting
  <1>5. \A u \in Grpc!Tags : tags'[u].st = "taken" => \E th \in Grpc!Threads : at'[th] = Grpc!In(u)
    BY <1>1, <1>3 DEF GrpcOK
  <1>6. srv # "down"
    BY <1>1, GrpcDown
  <1>. QED BY <1>1, <1>2, <1>4, <1>5, <1>6, GrpcKeeps

\* Next() hands a tag to a thread.
LEMMA GrpcTake ==
    ASSUME GrpcOK, ~bad, NEW th \in Grpc!Threads, NEW t \in Grpc!Tags, Grpc!Take(th, t)
    PROVE  GrpcOK'
  <1>1. /\ at[th].pc = "next"
        /\ tags' = [tags EXCEPT ![t].st = "taken"]
        /\ at' = [at EXCEPT ![th] = Grpc!In(t)]
        /\ UNCHANGED <<srv, shut, next, bad>>
    BY DEF Grpc!Take
  <1>2. GrpcTypes'
    BY <1>1 DEF GrpcOK, GrpcTypes, TagStates, Grpc!In
  <1>3. /\ tags'[t].st = "taken"
        /\ \A u \in Grpc!Tags \ {t} : tags'[u] = tags[u]
        /\ at'[th] = Grpc!In(t)
        /\ \A x \in Grpc!Threads \ {th} : at'[x] = at[x]
    BY <1>1 DEF GrpcOK, GrpcTypes
  <1>4. \A u \in Grpc!Tags : Waiting(u)' => Waiting(u) /\ tags'[u].cq = tags[u].cq
    BY <1>1, <1>3 DEF Waiting
  <1>5. \A u \in Grpc!Tags : tags'[u].st = "taken" => \E x \in Grpc!Threads : at'[x] = Grpc!In(u)
    <2>1. \A u \in Grpc!Tags : at[th] # Grpc!In(u)
      BY <1>1 DEF Grpc!In
    <2>. QED BY <1>3, <2>1 DEF GrpcOK
  <1>6. \A x \in Grpc!Threads : at'[x].pc = "exited" => at[x].pc = "exited"
    BY <1>3 DEF Grpc!In
  <1>7. srv # "down"
    BY <1>1 DEF GrpcOK
  <1>. QED BY <1>1, <1>2, <1>4, <1>5, <1>6, <1>7, GrpcKeeps

\* Next() returns false: the queue is shut down and empty.
LEMMA GrpcLeave ==
    ASSUME GrpcOK, ~bad, NEW th \in Grpc!Threads, Grpc!Leave(th)
    PROVE  GrpcOK'
  <1>1. /\ at[th].pc = "next" /\ th[1] \in shut
        /\ \A t \in Grpc!Tags : tags[t].cq = th[1] => tags[t].st \notin {"posted", "ready"}
        /\ at' = [at EXCEPT ![th].pc = "exited"]
        /\ UNCHANGED <<srv, tags, shut, next, bad>>
    BY DEF Grpc!Leave, Grpc!Drained
  <1>2. GrpcTypes'
    BY <1>1 DEF GrpcOK, GrpcTypes
  <1>3. \A x \in Grpc!Threads \ {th} : at'[x] = at[x]
    BY <1>1 DEF GrpcOK, GrpcTypes
  <1>4. \A t \in Grpc!Tags : Waiting(t)' => Waiting(t) /\ tags'[t].cq = tags[t].cq
    BY <1>1 DEF Waiting
  <1>5. ASSUME NEW x \in Grpc!Threads, at'[x].pc = "exited"
        PROVE  x[1] \in shut' /\ \A t \in Grpc!Tags : Waiting(t)' => tags'[t].cq # x[1]
    <2>1. CASE x = th
      BY <2>1, <1>1 DEF Waiting
    <2>2. CASE x # th
      BY <2>2, <1>1, <1>3, <1>4, <1>5 DEF GrpcOK
    <2>. QED BY <2>1, <2>2
  <1>6. \A t \in Grpc!Tags : tags'[t].st = "taken" => \E x \in Grpc!Threads : at'[x] = Grpc!In(t)
    <2>1. \A t \in Grpc!Tags : at[th] # Grpc!In(t)
      BY <1>1 DEF Grpc!In
    <2>. QED BY <1>1, <1>3, <2>1 DEF GrpcOK
  <1>7. srv # "down"
    BY <1>1 DEF GrpcOK
  <1>8. srv' = "up" => shut' = {}
    BY <1>1 DEF GrpcOK
  <1>. QED BY <1>1, <1>2, <1>5, <1>6, <1>7, <1>8 DEF GrpcOK, Grpc!In

\* A call was accepted: its handler posts to the queue of the accept.
LEMMA GrpcAccepted ==
    ASSUME GrpcOK, ~bad, NEW th \in Grpc!Threads, Grpc!Accepted(th)
    PROVE  GrpcOK'
  <1> DEFINE q == tags[Grpc!Accept].cq
  <1>1. /\ at[th] = Grpc!In(Grpc!Accept)
        /\ tags' = [[tags EXCEPT ![Grpc!Accept].st = "done"] EXCEPT
                       ![calls'] = [st |-> "posted", cq |-> q, ok |-> FALSE]]
        /\ bad' = (bad \/ q \in shut)
        /\ at' = [at EXCEPT ![th].pc = "rearm"]
        /\ UNCHANGED <<srv, shut, next>>
    BY DEF Grpc!Accepted, Grpc!Posted
  <1>2. Grpc!Accept \in Grpc!Tags /\ q \in Grpc!Cqs
    BY DEF Grpc!Tags, GrpcOK, GrpcTypes
  <1>3. at[th].pc = "tag" /\ at[th].tag = Grpc!Accept
    BY <1>1 DEF Grpc!In
  <1> HIDE DEF q
  <1>4. GrpcTypes'
    <2>1. tags' \in [Grpc!Tags -> [st : TagStates, cq : Grpc!Cqs, ok : BOOLEAN]]
      <3> DEFINE R == [st : TagStates, cq : Grpc!Cqs, ok : BOOLEAN]
                 g == [tags[Grpc!Accept] EXCEPT !.st = "done"]
                 c == [st |-> "posted", cq |-> q, ok |-> FALSE]
                 first == [tags EXCEPT ![Grpc!Accept] = g]
      <3>1. tags \in [Grpc!Tags -> R]
        BY DEF GrpcOK, GrpcTypes
      <3>2. g \in R /\ c \in R
        BY <3>1, <1>2 DEF TagStates
      <3>3. tags' = [first EXCEPT ![calls'] = c]
        BY <1>1
      <3> HIDE DEF R, g, c
      <3>4. first \in [Grpc!Tags -> R]
        BY <3>1, <3>2
      <3> HIDE DEF first
      <3>5. tags' \in [Grpc!Tags -> R]
        BY <3>2, <3>3, <3>4
      <3>. QED BY <3>5 DEF R
    <2>2. at' \in [Grpc!Threads -> [pc : {"next", "tag", "rearm", "exited"}, tag : Grpc!Tags]]
      BY <1>1 DEF GrpcOK, GrpcTypes
    <2>3. bad' \in BOOLEAN
      BY <1>1
    <2>. QED BY <1>1, <2>1, <2>2, <2>3 DEF GrpcOK, GrpcTypes
  <1>5. \A u \in Grpc!Tags : \/ tags'[u].st = "posted" /\ tags'[u].cq = q
                             \/ tags'[u].st = "done" /\ u = Grpc!Accept
                             \/ tags'[u] = tags[u] /\ u # Grpc!Accept
    BY <1>1, <1>2 DEF GrpcOK, GrpcTypes
  <1>6. \A u \in Grpc!Tags : Waiting(u)' /\ ~bad' =>
           (Waiting(u) /\ tags'[u].cq = tags[u].cq) \/ tags'[u].cq \notin shut
    BY <1>1, <1>5 DEF Waiting
  <1>7. at'[th].pc = "rearm" /\ \A x \in Grpc!Threads \ {th} : at'[x] = at[x]
    BY <1>1 DEF GrpcOK, GrpcTypes
  <1>8. \A u \in Grpc!Tags : tags'[u].st = "taken" => \E x \in Grpc!Threads : at'[x] = Grpc!In(u)
    <2>1. ASSUME NEW u \in Grpc!Tags, tags'[u].st = "taken"
          PROVE  \E x \in Grpc!Threads : at'[x] = Grpc!In(u)
      <3>1. tags[u].st = "taken" /\ u # Grpc!Accept
        BY <2>1, <1>5
      <3>2. PICK x \in Grpc!Threads : at[x] = Grpc!In(u)
        BY <3>1 DEF GrpcOK
      <3>3. x # th
        BY <3>1, <3>2, <1>3 DEF Grpc!In
      <3>. QED BY <3>2, <3>3, <1>7
    <2>. QED BY <2>1
  <1>9. \A x \in Grpc!Threads : at'[x].pc = "exited" => at[x].pc = "exited"
    BY <1>7
  <1>10. srv # "down"
    BY <1>3 DEF GrpcOK
  <1>. QED BY <1>1, <1>4, <1>6, <1>8, <1>9, <1>10, GrpcKeeps

\* The next accept is posted, to the next queue.
LEMMA GrpcRearm ==
    ASSUME GrpcOK, ~bad, NEW th \in Grpc!Threads, Grpc!Rearm(th)
    PROVE  GrpcOK'
  <1> DEFINE q == Grpc!NextCq
  <1>1. /\ at[th].pc = "rearm"
        /\ tags' = [tags EXCEPT ![Grpc!Accept] = [st |-> "posted", cq |-> q, ok |-> FALSE]]
        /\ next' = next + 1
        /\ bad' = (bad \/ q \in shut)
        /\ at' = [at EXCEPT ![th].pc = "next"]
        /\ UNCHANGED <<srv, shut>>
    BY DEF Grpc!Rearm, Grpc!Posted
  <1>2. Grpc!Accept \in Grpc!Tags /\ q \in Grpc!Cqs
    <2>1. next % NCq \in 0 .. NCq - 1
      BY PoolsAssumption DEF Grpc!SrvAssumption, GrpcOK, GrpcTypes
    <2>. QED BY <2>1 DEF Grpc!Tags, Grpc!Cqs, Grpc!NextCq
  <1> HIDE DEF q
  <1>3. GrpcTypes'
    <2>1. tags' \in [Grpc!Tags -> [st : TagStates, cq : Grpc!Cqs, ok : BOOLEAN]]
      BY <1>1, <1>2 DEF GrpcOK, GrpcTypes, TagStates
    <2>2. at' \in [Grpc!Threads -> [pc : {"next", "tag", "rearm", "exited"}, tag : Grpc!Tags]]
      BY <1>1 DEF GrpcOK, GrpcTypes
    <2>3. bad' \in BOOLEAN /\ next' \in Nat
      BY <1>1 DEF GrpcOK, GrpcTypes
    <2>. QED BY <2>1, <2>2, <2>3 DEF GrpcTypes
  <1>4. \A u \in Grpc!Tags : \/ tags'[u].st = "posted" /\ tags'[u].cq = q
                             \/ tags'[u] = tags[u]
    BY <1>1, <1>2 DEF GrpcOK, GrpcTypes
  <1>5. \A u \in Grpc!Tags : Waiting(u)' /\ ~bad' =>
           (Waiting(u) /\ tags'[u].cq = tags[u].cq) \/ tags'[u].cq \notin shut
    BY <1>1, <1>4 DEF Waiting
  <1>6. at'[th].pc = "next" /\ \A x \in Grpc!Threads \ {th} : at'[x] = at[x]
    BY <1>1 DEF GrpcOK, GrpcTypes
  <1>7. \A u \in Grpc!Tags : tags'[u].st = "taken" => \E x \in Grpc!Threads : at'[x] = Grpc!In(u)
    <2>1. \A u \in Grpc!Tags : at[th] # Grpc!In(u)
      BY <1>1 DEF Grpc!In
    <2>2. \A u \in Grpc!Tags : tags'[u].st = "taken" => tags[u].st = "taken"
      BY <1>4
    <2>. QED BY <1>6, <2>1, <2>2 DEF GrpcOK
  <1>8. \A x \in Grpc!Threads : at'[x].pc = "exited" => at[x].pc = "exited"
    BY <1>6
  <1>9. srv # "down"
    BY <1>1 DEF GrpcOK
  <1>. QED BY <1>1, <1>3, <1>5, <1>7, <1>8, <1>9, GrpcKeeps

\* Any other tag ends its op.
LEMMA GrpcHandled ==
    ASSUME GrpcOK, ~bad, NEW th \in Grpc!Threads, Grpc!Handled(th)
    PROVE  GrpcOK'
  <1> DEFINE t == at[th].tag
  <1>1. /\ at[th].pc = "tag"
        /\ tags' = [tags EXCEPT ![t].st = "done"]
        /\ at' = [at EXCEPT ![th].pc = "next"]
        /\ UNCHANGED <<srv, shut, next, bad>>
    BY DEF Grpc!Handled
  <1>2. t \in Grpc!Tags
    BY DEF GrpcOK, GrpcTypes
  <1>3. \A u : at[th] = Grpc!In(u) => u = t
    BY DEF Grpc!In
  <1> HIDE DEF t
  <1>4. GrpcTypes'
    BY <1>1, <1>2 DEF GrpcOK, GrpcTypes, TagStates
  <1>5. /\ tags'[t].st = "done" /\ \A u \in Grpc!Tags \ {t} : tags'[u] = tags[u]
        /\ at'[th].pc = "next" /\ \A x \in Grpc!Threads \ {th} : at'[x] = at[x]
    BY <1>1, <1>2 DEF GrpcOK, GrpcTypes
  <1>6. \A u \in Grpc!Tags : Waiting(u)' => Waiting(u) /\ tags'[u].cq = tags[u].cq
    BY <1>5 DEF Waiting
  <1>7. \A u \in Grpc!Tags : tags'[u].st = "taken" => \E x \in Grpc!Threads : at'[x] = Grpc!In(u)
    BY <1>3, <1>5 DEF GrpcOK
  <1>8. \A x \in Grpc!Threads : at'[x].pc = "exited" => at[x].pc = "exited"
    BY <1>5
  <1>9. srv # "down"
    BY <1>1 DEF GrpcOK
  <1>. QED BY <1>1, <1>4, <1>6, <1>7, <1>8, <1>9, GrpcKeeps

LEMMA GrpcTimer ==
    ASSUME GrpcOK, ~bad, Grpc!StartTimer
    PROVE  GrpcOK'
  <1>1. PICK q \in Grpc!Cqs :
          tags' = [tags EXCEPT ![Grpc!Timer] = [st |-> "posted", cq |-> q, ok |-> FALSE]]
    BY DEF Grpc!StartTimer, Grpc!Posted
  <1>2. srv = "up" /\ UNCHANGED <<srv, shut, at, next, bad>>
    BY DEF Grpc!StartTimer
  <1>3. shut = {}
    BY <1>2 DEF GrpcOK
  <1>4. GrpcTypes'
    BY <1>1, <1>2 DEF GrpcOK, GrpcTypes, TagStates
  <1>5. \A u \in Grpc!Tags : tags'[u].st = "posted" \/ tags'[u] = tags[u]
    BY <1>1 DEF GrpcOK, GrpcTypes
  <1>6. \A u \in Grpc!Tags : tags'[u].st = "taken" => \E x \in Grpc!Threads : at'[x] = Grpc!In(u)
    BY <1>2, <1>5 DEF GrpcOK
  <1>. QED BY <1>2, <1>3, <1>4, <1>6, GrpcKeeps

\* stop() and join(), by the owner.
LEMMA GrpcOwner ==
    ASSUME GrpcOK, ~bad, Grpc!Stop \/ Grpc!ShutdownDone \/ Grpc!StopCq \/ Grpc!Join
    PROVE  GrpcOK'
  <1>1. UNCHANGED <<tags, at, next, bad>>
    BY DEF Grpc!Stop, Grpc!ShutdownDone, Grpc!StopCq, Grpc!Join
  <1>2. \A x \in shut : x \in shut'
    BY DEF Grpc!Stop, Grpc!ShutdownDone, Grpc!StopCq, Grpc!Join
  <1>3. srv' # "up"
    BY DEF Grpc!Stop, Grpc!ShutdownDone, Grpc!StopCq, Grpc!Join
  <1>4. srv' = "down" => \A th \in Grpc!Threads : at[th].pc = "exited"
    BY DEF Grpc!Stop, Grpc!ShutdownDone, Grpc!StopCq, Grpc!Join
  <1>5. GrpcTypes'
    BY <1>1 DEF GrpcOK, GrpcTypes
  <1>6. \A t \in Grpc!Tags : Waiting(t)' <=> Waiting(t)
    BY <1>1 DEF Waiting
  <1>. QED BY <1>1, <1>2, <1>3, <1>4, <1>5, <1>6 DEF GrpcOK, Grpc!In

LEMMA GrpcStep ==
    ASSUME GrpcOK, Grpc!Next
    PROVE  GrpcOK'
  <1>1. CASE \E t \in Grpc!Tags, ok \in BOOLEAN : ~bad /\ Grpc!Ready(t, ok)
    BY <1>1, GrpcReady
  <1>2. CASE \E th \in Grpc!Threads : ~bad /\ Grpc!Loop(th)
    BY <1>2, GrpcTake, GrpcLeave DEF Grpc!Loop
  <1>3. CASE \E th \in Grpc!Threads : ~bad /\ Grpc!Handler(th)
    BY <1>3, GrpcAccepted, GrpcRearm, GrpcHandled DEF Grpc!Handler
  <1>4. CASE ~bad /\ (Grpc!StartTimer \/ Grpc!Stop \/ Grpc!ShutdownDone \/ Grpc!StopCq \/ Grpc!Join)
    BY <1>4, GrpcTimer, GrpcOwner
  <1>. QED BY <1>1, <1>2, <1>3, <1>4 DEF Grpc!Next

LEMMA GrpcStart ==
    ASSUME Grpc!Init
    PROVE  GrpcOK
  <1>1. /\ srv = "up" /\ shut = {} /\ next = 1 /\ bad = FALSE
        /\ tags = [t \in Grpc!Tags |-> IF t = Grpc!Accept THEN [Grpc!NoTag EXCEPT !.st = "posted"]
                                       ELSE Grpc!NoTag]
        /\ at = [t \in Grpc!Threads |-> [pc |-> "next", tag |-> Grpc!Accept]]
    BY DEF Grpc!Init
  <1>2. Grpc!Accept \in Grpc!Tags /\ 0 \in Grpc!Cqs
    BY PoolsAssumption DEF Grpc!Tags, Grpc!Cqs, Grpc!SrvAssumption
  <1>3. GrpcTypes
    BY <1>1, <1>2 DEF GrpcTypes, TagStates, Grpc!NoTag
  <1>4. \A t \in Grpc!Tags : tags[t].st # "taken"
    BY <1>1 DEF Grpc!NoTag
  <1>5. \A th \in Grpc!Threads : at[th].pc # "exited"
    BY <1>1
  <1>. QED BY <1>1, <1>3, <1>4, <1>5 DEF GrpcOK

-----------------------------------------------------------------------------
(* The executors together *)

\* The invariants of the executors: each holds of the behaviours of its own part.
PoolsInv ==
    /\ part = "simple" => SimpleOK
    /\ part = "naive"  => NaiveOK
    /\ part = "lib"    => LibOK
    /\ part = "grpc"   => GrpcOK

\* A step of the composition as Scheduler sees it.
PoolsIsStep ==
    /\ part = "simple" => SimpleIsStep
    /\ part = "naive"  => NaiveIsStep

LEMMA PoolsStart ==
    ASSUME Init
    PROVE  /\ PoolsInv
           /\ part = "simple" => Simple!Abstract!Init
           /\ part = "naive"  => Naive!Abstract!Init
  <1>1. CASE part = "simple" /\ Simple!Init
    BY <1>1, SimpleStart DEF PoolsInv
  <1>2. CASE part = "naive" /\ Naive!Init
    BY <1>2, NaiveStart DEF PoolsInv
  <1>3. CASE part = "lib" /\ Lib!Init
    BY <1>3, LibStart DEF PoolsInv
  <1>4. CASE part = "grpc" /\ Grpc!Init
    BY <1>4, GrpcStart DEF PoolsInv
  <1>. QED BY <1>1, <1>2, <1>3, <1>4 DEF Init

LEMMA PoolsStep ==
    ASSUME PoolsInv, [Next]_vars
    PROVE  PoolsInv' /\ (vars' = vars \/ PoolsIsStep)
  <1>1. CASE part = "simple" /\ Simple!Next /\ part' = part
    BY <1>1, SimpleStep DEF PoolsInv, PoolsIsStep
  <1>2. CASE part = "naive" /\ Naive!Next /\ part' = part
    BY <1>2, NaiveStep DEF PoolsInv, PoolsIsStep
  <1>3. CASE part = "lib" /\ Lib!Next /\ part' = part
    BY <1>3, LibStep DEF PoolsInv, PoolsIsStep
  <1>4. CASE part = "grpc" /\ Grpc!Next /\ part' = part
    BY <1>4, GrpcStep DEF PoolsInv, PoolsIsStep
  <1>5. CASE UNCHANGED vars
    <2>1. SimpleOK => SimpleOK'
      BY <1>5 DEF vars, SimpleOK, SimpleTypes, SimpleBooks, Posting, Simple!NoLostWakeup
    <2>2. NaiveOK => NaiveOK'
      BY <1>5 DEF vars, NaiveOK
    <2>3. LibOK => LibOK'
      BY <1>5 DEF vars, LibOK, Lib!Asio
    <2>4. GrpcOK => GrpcOK'
      BY <1>5 DEF vars, GrpcOK, GrpcTypes, Waiting, Grpc!In
    <2>5. part' = part
      BY <1>5 DEF vars
    <2>. QED BY <2>1, <2>2, <2>3, <2>4, <2>5, <1>5 DEF PoolsInv
  <1>6. CASE Next
    BY <1>6, <1>1, <1>2, <1>3, <1>4 DEF Next, InSimple, InNaive, InLib, InGrpc, OthersStay
  <1>. QED BY <1>5, <1>6

LEMMA PoolsInvariant == Spec => []PoolsInv
  <1>1. Init => PoolsInv
    BY PoolsStart
  <1>2. PoolsInv /\ [Next]_vars => PoolsInv'
    BY PoolsStep
  <1>. QED BY <1>1, <1>2, PTL DEF Spec

\* No thread of a simple_thread_pool sleeps on its condition variable while its queue holds a job
\* or the pool is stopped, although post() notifies only when the queue was empty and any thread
\* may take the job first.
THEOREM NoSleeperForgotten == Spec => []NoLostWakeup
  <1>1. PoolsInv => NoLostWakeup
    BY DEF PoolsInv, SimpleOK, NoLostWakeup
  <1>. QED BY <1>1, PoolsInvariant, PTL

\* Once join() of a library pool or of the gRPC server has returned, no job runs, none is left but
\* by stop() in an io_context, and no accept, call or timer waits in a completion queue.
THEOREM JoinedIsEmpty == Spec => []NothingLeftBehind
  <1>1. LibOK => Lib!LibJoined
    BY DEF LibOK, Lib!LibJoined
  <1>2. GrpcOK => Grpc!NothingLeftBehind
    BY GrpcDown DEF Grpc!NothingLeftBehind
  <1>3. PoolsInv => NothingLeftBehind
    BY <1>1, <1>2 DEF PoolsInv, NothingLeftBehind
  <1>. QED BY <1>3, PoolsInvariant, PTL

\* simple_thread_pool and naive_thread_pool implement Scheduler: whatever the locks that fail and
\* the threads that steal, a job posted is in one place until one thread runs it, once, and only
\* join() drops any.
THEOREM PoolsAreSchedulers == Spec => IsScheduler
  <1>1. Init => /\ part = "simple" => Simple!Abstract!Init
                /\ part = "naive"  => Naive!Abstract!Init
    BY PoolsStart
  <1>2. PoolsInv /\ [Next]_vars =>
          [/\ part = "simple" => [Simple!Abstract!Next]_(Simple!Abstract!vars)
           /\ part = "naive"  => [Naive!Abstract!Next]_(Naive!Abstract!vars)]_vars
    BY PoolsStep DEF PoolsIsStep, SimpleIsStep, NaiveIsStep
  <1>. QED BY <1>1, <1>2, PoolsInvariant, PTL DEF Spec, IsScheduler
=============================================================================
