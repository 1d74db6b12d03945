------------------------------- MODULE TaskProofs -------------------------------
(***************************************************************************)
(* Proofs about what MCTasks checks.  OpGroup, for any set of ops: the     *)
(* owner destroys the group only when no op will touch it any more, and    *)
(* learns of every failure.  TimedOp: who resumes the awaiter of a timed   *)
(* op, and with which error.  HttpFiles: where the responses on a          *)
(* connection end.  Of Pipelines, compr_conv: all of the source arrives.   *)
(***************************************************************************)
EXTENDS MCTasks, SequenceTheorems, FiniteSetTheorems, TLAPS

\* A step of a behaviour of one component is a step of that component.
LEMMA StepOfPart ==
    ASSUME [Next]_vars
    PROVE  /\ part' = part
           /\ part = "group" => [Group!Next]_Group!vars
           /\ part = "timed" => [Timed!Next]_Timed!vars
           /\ part = "http" => [Http!Next]_Http!vars
           /\ part = "pipe" => [Pipe!Next]_Pipe!vars
<1> USE DEF Next, InGroup, InTimed, InHttp, InPipe
<1>1. part' = part
  BY DEF OthersStay, vars
<1>2. part = "group" => [Group!Next]_Group!vars
  BY DEF vars, Group!vars
<1>3. part = "timed" => [Timed!Next]_Timed!vars
  BY DEF vars, Timed!vars, Timed!opVars, Timed!outer
<1>4. part = "http" => [Http!Next]_Http!vars
  BY DEF vars, Http!vars
<1>5. part = "pipe" => [Pipe!Next]_Pipe!vars
  BY DEF vars, Pipe!vars
<1> QED
  BY <1>1, <1>2, <1>3, <1>4, <1>5

-----------------------------------------------------------------------------
(* The group. *)

(* An op about to call the continuation left an empty list to an owner     *)
(* that waits, and is the only one; a wait that is over found the list     *)
(* empty.  Without the first two conjuncts a second op could resume, and   *)
(* hence the owner destroy, while the first one is still calling.          *)
ResumeInv ==
    /\ \A o \in Ops : st[o] = "resuming" => owner = "waiting" /\ ops = {}
    /\ \A o, p \in Ops : st[o] = "resuming" /\ st[p] = "resuming" => o = p
    /\ owner = "waiting" => started
    /\ started /\ ops # {} => owner = "waiting"
    /\ owner = "waiting" <=> cont
    /\ owner = "waiting" /\ ops = {} => \E o \in Ops : st[o] = "resuming"
    /\ waited => ops = {}
    /\ owner = "gone" => waited

(* err is set by the ops that have left the list.                          *)
FailInv ==
    /\ \A o \in Ops : failed[o] => st[o] \in {"handled", "resuming", "over"}
    /\ err <=> \E o \in Ops : failed[o] /\ st[o] \in {"resuming", "over"}

GroupInv == Group!TypeOK /\ ResumeInv /\ FailInv

\* A new group satisfies the invariant.
LEMMA GroupInit == Group!Init => GroupInv
  BY DEF Group!Init, GroupInv, Group!TypeOK, ResumeInv, FailInv

\* Every step keeps the types, and the list in agreement with the ops.
LEMMA GroupTypes == GroupInv /\ [Group!Next]_Group!vars => Group!TypeOK'
<1> SUFFICES ASSUME GroupInv, [Group!Next]_Group!vars PROVE Group!TypeOK'
  OBVIOUS
<1> USE DEF GroupInv, Group!TypeOK
<1>1. ASSUME NEW o \in Ops, Group!Add(o) PROVE Group!TypeOK'
  BY <1>1 DEF Group!Add
<1>2. ASSUME NEW o \in Ops, Group!InitiateOp(o) PROVE Group!TypeOK'
  BY <1>2 DEF Group!InitiateOp
<1>3. ASSUME NEW o \in Ops, Group!HandleResult(o) PROVE Group!TypeOK'
  BY <1>3 DEF Group!HandleResult
<1>4. ASSUME NEW o \in Ops, Group!EraseOp(o) PROVE Group!TypeOK'
  BY <1>4 DEF Group!EraseOp
<1>5. ASSUME NEW o \in Ops, Group!ResumeOwner(o) PROVE Group!TypeOK'
  BY <1>5 DEF Group!ResumeOwner
<1>6. CASE Group!UntilAllDone
  BY <1>6 DEF Group!UntilAllDone
<1>7. CASE Group!Destroy
  BY <1>7 DEF Group!Destroy
<1>8. CASE UNCHANGED Group!vars
  BY <1>8 DEF Group!vars
<1> QED
  BY <1>1, <1>2, <1>3, <1>4, <1>5, <1>6, <1>7, <1>8 DEF Group!Next

\* Every step keeps the continuation with one op at most.
LEMMA GroupResume == GroupInv /\ [Group!Next]_Group!vars => ResumeInv'
<1> SUFFICES ASSUME GroupInv, [Group!Next]_Group!vars PROVE ResumeInv'
  OBVIOUS
<1> USE DEF GroupInv, Group!TypeOK, ResumeInv
<1>1. ASSUME NEW o \in Ops, Group!Add(o) PROVE ResumeInv'
  BY <1>1 DEF Group!Add
<1>2. ASSUME NEW o \in Ops, Group!InitiateOp(o) PROVE ResumeInv'
  BY <1>2 DEF Group!InitiateOp
<1>3. ASSUME NEW o \in Ops, Group!HandleResult(o) PROVE ResumeInv'
  BY <1>3 DEF Group!HandleResult
<1>4. ASSUME NEW o \in Ops, Group!EraseOp(o) PROVE ResumeInv'
  <2>1. o \in ops /\ \A p \in Ops : st[p] # "resuming"
    BY <1>4 DEF Group!EraseOp
  <2>2. \A p \in Ops : st'[p] = "resuming" => p = o /\ started /\ ops' = {}
    BY <1>4, <2>1 DEF Group!EraseOp
  <2> QED
    BY <1>4, <2>1, <2>2 DEF Group!EraseOp
<1>5. ASSUME NEW o \in Ops, Group!ResumeOwner(o) PROVE ResumeInv'
  BY <1>5 DEF Group!ResumeOwner
<1>6. CASE Group!UntilAllDone
  BY <1>6 DEF Group!UntilAllDone
<1>7. CASE Group!Destroy
  BY <1>7 DEF Group!Destroy
<1>8. CASE UNCHANGED Group!vars
  BY <1>8 DEF Group!vars
<1> QED
  BY <1>1, <1>2, <1>3, <1>4, <1>5, <1>6, <1>7, <1>8 DEF Group!Next

\* Every step keeps err in agreement with the ops that have left the list.
LEMMA GroupFail == GroupInv /\ [Group!Next]_Group!vars => FailInv'
<1> SUFFICES ASSUME GroupInv, [Group!Next]_Group!vars PROVE FailInv'
  OBVIOUS
<1> USE DEF GroupInv, Group!TypeOK, FailInv
<1>1. ASSUME NEW o \in Ops, Group!Add(o) PROVE FailInv'
  BY <1>1 DEF Group!Add
<1>2. ASSUME NEW o \in Ops, Group!InitiateOp(o) PROVE FailInv'
  BY <1>2 DEF Group!InitiateOp
<1>3. ASSUME NEW o \in Ops, Group!HandleResult(o) PROVE FailInv'
  BY <1>3 DEF Group!HandleResult
<1>4. ASSUME NEW o \in Ops, Group!EraseOp(o) PROVE FailInv'
  BY <1>4 DEF Group!EraseOp
<1>5. ASSUME NEW o \in Ops, Group!ResumeOwner(o) PROVE FailInv'
  BY <1>5 DEF Group!ResumeOwner
<1>6. CASE Group!UntilAllDone
  BY <1>6 DEF Group!UntilAllDone
<1>7. CASE Group!Destroy
  BY <1>7 DEF Group!Destroy
<1>8. CASE UNCHANGED Group!vars
  BY <1>8 DEF Group!vars
<1> QED
  BY <1>1, <1>2, <1>3, <1>4, <1>5, <1>6, <1>7, <1>8 DEF Group!Next

\* The invariant holds in every state.
LEMMA GroupInvariant == Spec => [](part = "group" => GroupInv)
<1> DEFINE Inv == part = "group" => GroupInv
<1>1. Init => Inv
  BY GroupInit DEF Init
<1>2. GroupInv /\ [Group!Next]_Group!vars => GroupInv'
  BY GroupTypes, GroupResume, GroupFail DEF GroupInv
<1>3. Inv /\ [Next]_vars => Inv'
  BY <1>2, StepOfPart
<1> QED
  BY <1>1, <1>3, PTL DEF Spec

-----------------------------------------------------------------------------
\* The list of an async_op_group holds exactly the ops added and not yet
\* erased by their continuations, and the other members keep their types.
THEOREM GroupTypeCorrect == Spec => [](part = "group" => Group!TypeOK)
<1>1. (part = "group" => GroupInv) => (part = "group" => Group!TypeOK)
  BY DEF GroupInv
<1> QED
  BY GroupInvariant, <1>1, PTL

\* An owner that waits is resumed by exactly one op: some op is still in the
\* list, or one has left it last and is about to call the continuation.
THEOREM GroupResumedOnce == Spec => []OneWillResume
<1>1. ASSUME GroupInv PROVE Group!OneWillResume
  <2> DEFINE R == {o \in Ops : st[o] = "resuming"}
  <2>0. Group!Cardinality(R) = Cardinality(R)
    BY DEF Group!Cardinality, Cardinality
  <2> USE <1>1 DEF GroupInv, Group!TypeOK, ResumeInv
  <2>1. CASE owner = "waiting" /\ ops = {}
    <3>1. PICK x \in Ops : st[x] = "resuming"
      BY <2>1
    <3>2. R = {x}
      BY <3>1
    <3>3. Cardinality(R) = 1
      BY <3>2, FS_Singleton
    <3> QED
      BY <2>0, <2>1, <3>3 DEF Group!OneWillResume
  <2>2. CASE ~(owner = "waiting" /\ ops = {})
    <3>1. R = {}
      BY <2>2
    <3>2. Cardinality(R) = 0
      BY <3>1, FS_EmptySet
    <3> QED
      BY <2>0, <2>2, <3>2 DEF Group!OneWillResume
  <2> QED
    BY <2>1, <2>2
<1>2. (part = "group" => GroupInv) => OneWillResume
  BY <1>1 DEF OneWillResume
<1> QED
  BY GroupInvariant, <1>2, PTL

\* However many ops finish, on whatever threads, while others are added and
\* until_all_done() starts: the group is destroyed only when none of them
\* runs or is about to call the continuation.
THEOREM GroupOutlivesOps == Spec => []DestroyedWhenDone
<1>1. (part = "group" => GroupInv) => DestroyedWhenDone
  BY DEF GroupInv, Group!TypeOK, ResumeInv, Group!DestroyedWhenDone, DestroyedWhenDone
<1> QED
  BY GroupInvariant, <1>1, PTL

\* until_all_done() reports an error exactly if an op of the group failed.
THEOREM GroupErrCorrect == Spec => [](part = "group" => Group!ErrIffFailed)
<1>1. (part = "group" => GroupInv) => (part = "group" => Group!ErrIffFailed)
  BY DEF GroupInv, Group!TypeOK, ResumeInv, FailInv, Group!ErrIffFailed
<1> QED
  BY GroupInvariant, <1>1, PTL

-----------------------------------------------------------------------------
(* A timed op. *)

(* The asio operation is started only by an initiate() that goes on, and   *)
(* the op's continuation is called exactly when the op gets its result.    *)
OpInv ==
    /\ ipc \in {"idle", "checked", "registered"} => asio = "none" /\ r = "none"
    /\ ipc \in {"started", "inited"} => asio # "none"
    /\ asio = "pending" => r = "none"
    /\ r # "none" <=> opCb # "no"

(* Nothing runs before initiate() has come to it.                          *)
StartInv ==
    /\ pc # "timing" => ipc = "idle" /\ timer = "none" /\ opCb = "no" /\ first = "none"
    /\ fin = "returned" => pc = "left"
    /\ pc = "left" => fin = "returned"
    /\ parentCb \in {"fired", "canceled_timer"} => parentStop

(* The exchange of _done orders the two parties: the first one never       *)
(* resumes, the other one resumes with its last step.                      *)
RaceInv ==
    /\ done <=> first # "none"
    /\ first = "none" =>
          /\ timer \notin {"won", "lost", "done"}
          /\ opCb \notin {"won", "lost", "done"}
          /\ fin # "resumed"
    /\ first = "timer" =>
          /\ timer \in {"won", "done"}
          /\ opCb \in {"no", "exchange", "lost", "done"}
          /\ fin = "resumed" => opCb = "done"
    /\ first = "op" =>
          /\ opCb \in {"won", "done"}
          /\ timer # "won"
          /\ fin = "resumed" <=> timer = "done"

(* A wait is aborted only for a reason, and _err says which one it was.    *)
ErrInv ==
    /\ timer = "aborted" => first = "op" \/ parentStop
    /\ timer = "exchange" => timedErr = "timeout" \/ first = "op" \/ parentStop
    /\ first = "timer" /\ ~parentStop => timedErr = "timeout"
    /\ first = "op" /\ timer = "done" => timedErr = "none"
    /\ timedErr = "canceled" => pc = "left"

RaceIInv == Timed!TypeOK /\ OpInv /\ StartInv /\ RaceInv /\ ErrInv

\* The constructor's state satisfies the invariant.
LEMMA RaceInit == Timed!Init => RaceIInv
  BY DEF Timed!Init, Timed!OpInit, RaceIInv, Timed!TypeOK, OpInv, StartInv, RaceInv, ErrInv, Timed!Steps

(* The part of TypeOK about the asio operation.                            *)
OpTypes ==
    /\ endless \in BOOLEAN
    /\ ipc \in {"idle", "checked", "registered", "started", "inited", "left"}
    /\ asio \in {"none", "pending", "done"}
    /\ inited \in BOOLEAN
    /\ signaled \in BOOLEAN
    /\ scb \in {"none", "armed", "fired", "over"}
    /\ stop \in BOOLEAN
    /\ r \in {"none", "ok", "failed", "canceled"}

\* A stop request keeps the types of the asio operation.
LEMMA StopTypes == Timed!TypeOK /\ Timed!RequestStop => OpTypes'
<1> SUFFICES ASSUME Timed!TypeOK, Timed!RequestStop PROVE OpTypes'
  OBVIOUS
<1>1. stop' \in BOOLEAN
  BY Zenon DEF Timed!RequestStop
<1>2. scb' \in {"none", "armed", "fired", "over"}
  BY DEF Timed!RequestStop, Timed!TypeOK
<1>3. UNCHANGED <<endless, ipc, asio, inited, signaled, r>>
  BY DEF Timed!RequestStop
<1> QED
  BY <1>1, <1>2, <1>3 DEF OpTypes, Timed!TypeOK

\* So do the steps of its initiate().
LEMMA InitiateTypes ==
    Timed!TypeOK /\ (Timed!CheckStop \/ Timed!Register \/ Timed!StartAsio \/ Timed!StoreInited) => OpTypes'
<1> SUFFICES ASSUME Timed!TypeOK, Timed!CheckStop \/ Timed!Register \/ Timed!StartAsio \/ Timed!StoreInited
             PROVE  OpTypes'
  OBVIOUS
<1> USE DEF Timed!TypeOK, OpTypes
<1>1. CASE Timed!CheckStop
  BY <1>1 DEF Timed!CheckStop
<1>2. CASE Timed!Register
  BY <1>2 DEF Timed!Register
<1>3. CASE Timed!StartAsio
  BY <1>3 DEF Timed!StartAsio
<1>4. CASE Timed!StoreInited
  <2>1. inited' \in BOOLEAN
    BY <1>4, Zenon DEF Timed!StoreInited
  <2> QED
    BY <1>4, <2>1 DEF Timed!StoreInited
<1> QED
  BY <1>1, <1>2, <1>3, <1>4

\* Every step keeps the types.
LEMMA RaceTypes == RaceIInv /\ [Timed!Next]_Timed!vars => Timed!TypeOK'
<1> SUFFICES ASSUME RaceIInv, [Timed!Next]_Timed!vars PROVE Timed!TypeOK'
  OBVIOUS
<1> USE DEF RaceIInv, Timed!TypeOK, Timed!Steps
<1>1. CASE Timed!OuterCheckStop
  BY <1>1 DEF Timed!OuterCheckStop, Timed!opVars
<1>2. CASE Timed!OuterRegister
  <2>1. OpTypes'
    BY <1>2, StopTypes DEF Timed!OuterRegister, OpTypes, Timed!opVars
  <2> QED
    BY <1>2, <2>1 DEF Timed!OuterRegister, OpTypes
<1>3. CASE Timed!AsyncWait
  BY <1>3 DEF Timed!AsyncWait, Timed!opVars
<1>4. CASE Timed!OpInitiates
  BY <1>4, InitiateTypes DEF Timed!OpInitiates, OpTypes
<1>5. CASE Timed!Expire
  BY <1>5 DEF Timed!Expire, Timed!opVars
<1>6. CASE Timed!TimerHandler
  BY <1>6 DEF Timed!TimerHandler, Timed!opVars
<1>7. CASE Timed!TimerExchange
  BY <1>7 DEF Timed!TimerExchange, Timed!opVars
<1>8. CASE Timed!TimerWon
  <2>1. OpTypes'
    BY <1>8, StopTypes DEF Timed!TimerWon, OpTypes, Timed!opVars
  <2> QED
    BY <1>8, <2>1 DEF Timed!TimerWon, OpTypes
<1>9. CASE Timed!TimerLost
  BY <1>9 DEF Timed!TimerLost, Timed!opVars
<1>10. CASE Timed!OpCompletes
  BY <1>10 DEF Timed!OpCompletes, Timed!OnComp
<1>11. CASE Timed!OpStopCallback
  BY <1>11 DEF Timed!OpStopCallback, Timed!StopCallback, Timed!outer
<1>12. CASE Timed!OpExchange
  BY <1>12 DEF Timed!OpExchange, Timed!opVars
<1>13. CASE Timed!OpWon
  BY <1>13 DEF Timed!OpWon, Timed!Canceled, Timed!opVars
<1>14. CASE Timed!OpLost
  BY <1>14 DEF Timed!OpLost, Timed!opVars
<1>15. CASE Timed!ParentStop
  BY <1>15 DEF Timed!ParentStop, Timed!opVars
<1>16. CASE Timed!ParentCbCancelsTimer
  BY <1>16 DEF Timed!ParentCbCancelsTimer, Timed!Canceled, Timed!opVars
<1>17. CASE Timed!ParentCbStopsOp
  <2>1. OpTypes'
    BY <1>17, StopTypes DEF Timed!ParentCbStopsOp, OpTypes, Timed!opVars
  <2> QED
    BY <1>17, <2>1 DEF Timed!ParentCbStopsOp, OpTypes
<1>18. CASE UNCHANGED Timed!vars
  BY <1>18 DEF Timed!vars, Timed!outer, Timed!opVars
<1> QED
  BY <1>1, <1>2, <1>3, <1>4, <1>5, <1>6, <1>7, <1>8, <1>9, <1>10, <1>11, <1>12,
     <1>13, <1>14, <1>15, <1>16, <1>17, <1>18 DEF Timed!Next

\* Every step keeps what is known of the asio operation and its result.
LEMMA RaceOp == RaceIInv /\ [Timed!Next]_Timed!vars => OpInv'
<1> SUFFICES ASSUME RaceIInv, [Timed!Next]_Timed!vars PROVE OpInv'
  OBVIOUS
<1> USE DEF RaceIInv, Timed!TypeOK, OpInv, StartInv
<1>1. CASE Timed!OuterCheckStop
  BY <1>1 DEF Timed!OuterCheckStop, Timed!opVars
<1>2. CASE Timed!OuterRegister
  BY <1>2 DEF Timed!OuterRegister, Timed!RequestStop, Timed!opVars
<1>3. CASE Timed!AsyncWait
  BY <1>3 DEF Timed!AsyncWait, Timed!opVars
<1>4. CASE Timed!OpInitiates
  BY <1>4 DEF Timed!OpInitiates, Timed!CheckStop, Timed!Register, Timed!StartAsio, Timed!StoreInited
<1>5. CASE Timed!Expire
  BY <1>5 DEF Timed!Expire, Timed!opVars
<1>6. CASE Timed!TimerHandler
  BY <1>6 DEF Timed!TimerHandler, Timed!opVars
<1>7. CASE Timed!TimerExchange
  BY <1>7 DEF Timed!TimerExchange, Timed!opVars
<1>8. CASE Timed!TimerWon
  BY <1>8 DEF Timed!TimerWon, Timed!RequestStop, Timed!opVars
<1>9. CASE Timed!TimerLost
  BY <1>9 DEF Timed!TimerLost, Timed!opVars
<1>10. CASE Timed!OpCompletes
  BY <1>10 DEF Timed!OpCompletes, Timed!OnComp
<1>11. CASE Timed!OpStopCallback
  BY <1>11 DEF Timed!OpStopCallback, Timed!StopCallback, Timed!outer
<1>12. CASE Timed!OpExchange
  BY <1>12 DEF Timed!OpExchange, Timed!opVars
<1>13. CASE Timed!OpWon
  BY <1>13 DEF Timed!OpWon, Timed!Canceled, Timed!opVars
<1>14. CASE Timed!OpLost
  BY <1>14 DEF Timed!OpLost, Timed!opVars
<1>15. CASE Timed!ParentStop
  BY <1>15 DEF Timed!ParentStop, Timed!opVars
<1>16. CASE Timed!ParentCbCancelsTimer
  BY <1>16 DEF Timed!ParentCbCancelsTimer, Timed!Canceled, Timed!opVars
<1>17. CASE Timed!ParentCbStopsOp
  BY <1>17 DEF Timed!ParentCbStopsOp, Timed!RequestStop, Timed!opVars
<1>18. CASE UNCHANGED Timed!vars
  BY <1>18 DEF Timed!vars, Timed!outer, Timed!opVars
<1> QED
  BY <1>1, <1>2, <1>3, <1>4, <1>5, <1>6, <1>7, <1>8, <1>9, <1>10, <1>11, <1>12,
     <1>13, <1>14, <1>15, <1>16, <1>17, <1>18 DEF Timed!Next

\* Nothing starts before initiate() comes to it, whatever the step.
LEMMA RaceStart == RaceIInv /\ [Timed!Next]_Timed!vars => StartInv'
<1> SUFFICES ASSUME RaceIInv, [Timed!Next]_Timed!vars PROVE StartInv'
  OBVIOUS
<1> USE DEF RaceIInv, Timed!TypeOK, OpInv, StartInv, RaceInv
<1>1. CASE Timed!OuterCheckStop
  BY <1>1 DEF Timed!OuterCheckStop, Timed!opVars
<1>2. CASE Timed!OuterRegister
  BY <1>2 DEF Timed!OuterRegister, Timed!RequestStop, Timed!opVars
<1>3. CASE Timed!AsyncWait
  BY <1>3 DEF Timed!AsyncWait, Timed!opVars
<1>4. CASE Timed!OpInitiates
  BY <1>4 DEF Timed!OpInitiates, Timed!CheckStop, Timed!Register, Timed!StartAsio, Timed!StoreInited
<1>5. CASE Timed!Expire
  BY <1>5 DEF Timed!Expire, Timed!opVars
<1>6. CASE Timed!TimerHandler
  BY <1>6 DEF Timed!TimerHandler, Timed!opVars
<1>7. CASE Timed!TimerExchange
  BY <1>7 DEF Timed!TimerExchange, Timed!opVars
<1>8. CASE Timed!TimerWon
  BY <1>8 DEF Timed!TimerWon, Timed!RequestStop, Timed!opVars
<1>9. CASE Timed!TimerLost
  BY <1>9 DEF Timed!TimerLost, Timed!opVars
<1>10. CASE Timed!OpCompletes
  BY <1>10 DEF Timed!OpCompletes, Timed!OnComp
<1>11. CASE Timed!OpStopCallback
  BY <1>11 DEF Timed!OpStopCallback, Timed!StopCallback, Timed!outer
<1>12. CASE Timed!OpExchange
  BY <1>12 DEF Timed!OpExchange, Timed!opVars
<1>13. CASE Timed!OpWon
  BY <1>13 DEF Timed!OpWon, Timed!Canceled, Timed!opVars
<1>14. CASE Timed!OpLost
  BY <1>14 DEF Timed!OpLost, Timed!opVars
<1>15. CASE Timed!ParentStop
  BY <1>15 DEF Timed!ParentStop, Timed!opVars
<1>16. CASE Timed!ParentCbCancelsTimer
  BY <1>16 DEF Timed!ParentCbCancelsTimer, Timed!Canceled, Timed!opVars
<1>17. CASE Timed!ParentCbStopsOp
  BY <1>17 DEF Timed!ParentCbStopsOp, Timed!RequestStop, Timed!opVars
<1>18. CASE UNCHANGED Timed!vars
  BY <1>18 DEF Timed!vars, Timed!outer, Timed!opVars
<1> QED
  BY <1>1, <1>2, <1>3, <1>4, <1>5, <1>6, <1>7, <1>8, <1>9, <1>10, <1>11, <1>12,
     <1>13, <1>14, <1>15, <1>16, <1>17, <1>18 DEF Timed!Next

\* Every step keeps the order that the exchange of _done gave the parties.
LEMMA RaceOrder == RaceIInv /\ [Timed!Next]_Timed!vars => RaceInv'
<1> SUFFICES ASSUME RaceIInv, [Timed!Next]_Timed!vars PROVE RaceInv'
  OBVIOUS
<1> USE DEF RaceIInv, Timed!TypeOK, OpInv, StartInv, RaceInv
<1>1. CASE Timed!OuterCheckStop
  BY <1>1 DEF Timed!OuterCheckStop, Timed!opVars
<1>2. CASE Timed!OuterRegister
  BY <1>2 DEF Timed!OuterRegister, Timed!RequestStop, Timed!opVars
<1>3. CASE Timed!AsyncWait
  BY <1>3 DEF Timed!AsyncWait, Timed!opVars
<1>4. CASE Timed!OpInitiates
  BY <1>4 DEF Timed!OpInitiates, Timed!CheckStop, Timed!Register, Timed!StartAsio, Timed!StoreInited
<1>5. CASE Timed!Expire
  BY <1>5 DEF Timed!Expire, Timed!opVars
<1>6. CASE Timed!TimerHandler
  BY <1>6 DEF Timed!TimerHandler, Timed!opVars
<1>7. CASE Timed!TimerExchange
  <2>1. CASE done
    BY <1>7, <2>1 DEF Timed!TimerExchange, Timed!opVars
  <2>2. CASE ~done
    BY <1>7, <2>2 DEF Timed!TimerExchange, Timed!opVars, Timed!Steps
  <2> QED
    BY <2>1, <2>2
<1>8. CASE Timed!TimerWon
  BY <1>8 DEF Timed!TimerWon, Timed!RequestStop, Timed!opVars
<1>9. CASE Timed!TimerLost
  BY <1>9 DEF Timed!TimerLost, Timed!opVars
<1>10. CASE Timed!OpCompletes
  BY <1>10 DEF Timed!OpCompletes, Timed!OnComp
<1>11. CASE Timed!OpStopCallback
  BY <1>11 DEF Timed!OpStopCallback, Timed!StopCallback, Timed!outer
<1>12. CASE Timed!OpExchange
  BY <1>12 DEF Timed!OpExchange, Timed!opVars
<1>13. CASE Timed!OpWon
  BY <1>13 DEF Timed!OpWon, Timed!Canceled, Timed!opVars
<1>14. CASE Timed!OpLost
  BY <1>14 DEF Timed!OpLost, Timed!opVars
<1>15. CASE Timed!ParentStop
  BY <1>15 DEF Timed!ParentStop, Timed!opVars
<1>16. CASE Timed!ParentCbCancelsTimer
  BY <1>16 DEF Timed!ParentCbCancelsTimer, Timed!Canceled, Timed!opVars
<1>17. CASE Timed!ParentCbStopsOp
  BY <1>17 DEF Timed!ParentCbStopsOp, Timed!RequestStop, Timed!opVars
<1>18. CASE UNCHANGED Timed!vars
  BY <1>18 DEF Timed!vars, Timed!outer, Timed!opVars
<1> QED
  BY <1>1, <1>2, <1>3, <1>4, <1>5, <1>6, <1>7, <1>8, <1>9, <1>10, <1>11, <1>12,
     <1>13, <1>14, <1>15, <1>16, <1>17, <1>18 DEF Timed!Next

\* Every step keeps _err in agreement with who was first.
LEMMA RaceErr == RaceIInv /\ [Timed!Next]_Timed!vars => ErrInv'
<1> SUFFICES ASSUME RaceIInv, [Timed!Next]_Timed!vars PROVE ErrInv'
  OBVIOUS
<1> USE DEF RaceIInv, Timed!TypeOK, OpInv, StartInv, RaceInv, ErrInv
<1>1. CASE Timed!OuterCheckStop
  BY <1>1 DEF Timed!OuterCheckStop, Timed!opVars
<1>2. CASE Timed!OuterRegister
  BY <1>2 DEF Timed!OuterRegister, Timed!RequestStop, Timed!opVars
<1>3. CASE Timed!AsyncWait
  BY <1>3 DEF Timed!AsyncWait, Timed!opVars
<1>4. CASE Timed!OpInitiates
  BY <1>4 DEF Timed!OpInitiates, Timed!CheckStop, Timed!Register, Timed!StartAsio, Timed!StoreInited
<1>5. CASE Timed!Expire
  BY <1>5 DEF Timed!Expire, Timed!opVars
<1>6. CASE Timed!TimerHandler
  BY <1>6 DEF Timed!TimerHandler, Timed!opVars
<1>7. CASE Timed!TimerExchange
  BY <1>7 DEF Timed!TimerExchange, Timed!opVars
<1>8. CASE Timed!TimerWon
  BY <1>8 DEF Timed!TimerWon, Timed!RequestStop, Timed!opVars
<1>9. CASE Timed!TimerLost
  BY <1>9 DEF Timed!TimerLost, Timed!opVars
<1>10. CASE Timed!OpCompletes
  BY <1>10 DEF Timed!OpCompletes, Timed!OnComp
<1>11. CASE Timed!OpStopCallback
  BY <1>11 DEF Timed!OpStopCallback, Timed!StopCallback, Timed!outer
<1>12. CASE Timed!OpExchange
  BY <1>12 DEF Timed!OpExchange, Timed!opVars
<1>13. CASE Timed!OpWon
  BY <1>13 DEF Timed!OpWon, Timed!Canceled, Timed!opVars
<1>14. CASE Timed!OpLost
  BY <1>14 DEF Timed!OpLost, Timed!opVars
<1>15. CASE Timed!ParentStop
  BY <1>15 DEF Timed!ParentStop, Timed!opVars
<1>16. CASE Timed!ParentCbCancelsTimer
  BY <1>16 DEF Timed!ParentCbCancelsTimer, Timed!Canceled, Timed!opVars
<1>17. CASE Timed!ParentCbStopsOp
  BY <1>17 DEF Timed!ParentCbStopsOp, Timed!RequestStop, Timed!opVars
<1>18. CASE UNCHANGED Timed!vars
  BY <1>18 DEF Timed!vars, Timed!outer, Timed!opVars
<1> QED
  BY <1>1, <1>2, <1>3, <1>4, <1>5, <1>6, <1>7, <1>8, <1>9, <1>10, <1>11, <1>12,
     <1>13, <1>14, <1>15, <1>16, <1>17, <1>18 DEF Timed!Next

\* The invariant holds in every state.
LEMMA RaceInvariant == Spec => [](part = "timed" => RaceIInv)
<1> DEFINE Inv == part = "timed" => RaceIInv
<1>1. Init => Inv
  BY RaceInit DEF Init
<1>2. RaceIInv /\ [Timed!Next]_Timed!vars => RaceIInv'
  BY RaceTypes, RaceOp, RaceStart, RaceOrder, RaceErr DEF RaceIInv
<1>3. Inv /\ [Next]_vars => Inv'
  BY <1>2, StepOfPart
<1> QED
  BY <1>1, <1>3, PTL DEF Spec

-----------------------------------------------------------------------------
\* The types of the timed op, its timer and its asio operation hold whatever
\* the order in which initiate(), handlers, callbacks and stops run.
THEOREM TimedOpTypeCorrect == Spec => [](part = "timed" => Timed!TypeOK)
<1>1. (part = "timed" => RaceIInv) => (part = "timed" => Timed!TypeOK)
  BY DEF RaceIInv
<1> QED
  BY RaceInvariant, <1>1, PTL

\* The awaiter of a timed op is resumed by the later of the timer's handler
\* and the op's continuation only: _done.exchange(true) decides it once.
THEOREM LastResumes == Spec => []ResumedByTheLast
<1>1. RaceIInv => Timed!ResumedByTheLast
  BY DEF RaceIInv, Timed!TypeOK, OpInv, RaceInv, Timed!ResumedByTheLast
<1>2. (part = "timed" => RaceIInv) => ResumedByTheLast
  BY <1>1 DEF ResumedByTheLast
<1> QED
  BY RaceInvariant, <1>2, PTL

\* The awaiter gets errc::timeout only if the timer was first, the op's own
\* result if the op was, and the timeout for sure if it was not stopped.
THEOREM TimeoutCorrect == Spec => []TimeoutIffTimerFirst
<1>1. RaceIInv => Timed!TimeoutIffTimerFirst
  BY DEF RaceIInv, Timed!TypeOK, RaceInv, ErrInv, Timed!TimeoutIffTimerFirst
<1>2. (part = "timed" => RaceIInv) => TimeoutIffTimerFirst
  BY <1>1 DEF TimeoutIffTimerFirst
<1> QED
  BY RaceInvariant, <1>2, PTL

-----------------------------------------------------------------------------
(* Files over HTTP. *)

\* The bytes of the file from a place on
Bytes(f, m) == [x \in 1 .. m |-> f + x - 1]

\* What is read next is appended.
LEMMA BytesAppended ==
    ASSUME NEW f \in Nat, NEW m \in Nat, NEW k \in Nat
    PROVE  Bytes(f, m) \o Bytes(f + m, k) = Bytes(f, m + k)
<1> DEFINE u == Bytes(f, m)
           w == Bytes(f + m, k)
           t == Bytes(f, m + k)
<1>1. /\ u \in Seq(Int) /\ Len(u) = m /\ \A x \in 1 .. m : u[x] = f + x - 1
      /\ w \in Seq(Int) /\ Len(w) = k /\ \A x \in 1 .. k : w[x] = f + m + x - 1
      /\ t \in Seq(Int) /\ Len(t) = m + k /\ \A x \in 1 .. m + k : t[x] = f + x - 1
  BY DEF Bytes
<1> HIDE DEF u, w, t
<1>2. /\ u \o w \in Seq(Int) /\ Len(u \o w) = m + k
      /\ \A x \in 1 .. m + k : (u \o w)[x] = IF x <= m THEN u[x] ELSE w[x - m]
  <2>1. u \in Seq(Int) /\ w \in Seq(Int)
    BY <1>1
  <2>2. /\ u \o w \in Seq(Int) /\ Len(u \o w) = Len(u) + Len(w)
        /\ \A x \in 1 .. Len(u) + Len(w) : (u \o w)[x] = IF x <= Len(u) THEN u[x] ELSE w[x - Len(u)]
    BY <2>1, ConcatProperties
  <2> QED
    BY <1>1, <2>2
<1>3. ASSUME NEW x \in 1 .. Len(t) PROVE (u \o w)[x] = t[x]
  <2>1. x \in 1 .. m + k /\ x \in Nat
    BY <1>1
  <2>2. x > m => x - m \in 1 .. k
    BY <2>1
  <2>3. t[x] = f + x - 1 /\ (u \o w)[x] = IF x <= m THEN u[x] ELSE w[x - m]
    BY <1>1, <1>2, <2>1
  <2>4. CASE x <= m
    BY <1>1, <2>1, <2>3, <2>4
  <2>5. CASE ~(x <= m)
    BY <1>1, <2>1, <2>2, <2>3, <2>5
  <2> QED
    BY <2>4, <2>5
<1>4. u \o w = t
  BY <1>1, <1>2, <1>3, SeqEqual
<1> QED
  BY <1>4 DEF u, w, t

\* The bytes a request asks for, and the response to it
Ranged(rq, l, p) ==
    /\ p.file /\ p.range.first \in Nat /\ p.range.last \in Int /\ p.range.first <= p.range.last + 1
    /\ p.range.last + 1 <= l /\ p.length = p.range.last + 1 - p.range.first
    /\ Http!Asked(rq.range, l) = p.range.first .. p.range.last

\* The Range header of a request without one
LEMMA PlainRange == Http!Plain \in Http!Ranges /\ Http!Plain.kind = "none"
  BY DEF Http!Plain, Http!Ranges

\* length_to_range() is what the header asks for, within the file.
LEMMA RangeAsked ==
    ASSUME Http!ServerAssumption, NEW h \in Http!Ranges, NEW l \in Nat, Http!ParseRange(h) = "ok",
           Http!LengthToRange(h, l).first >= 0, h.kind # "none"
    PROVE  LET g == Http!LengthToRange(h, l) IN
           /\ g.first \in Nat /\ g.last \in Int /\ g.first <= g.last + 1 /\ g.last + 1 <= l
           /\ Http!Asked(h, l) = g.first .. g.last
<1> DEFINE g == Http!LengthToRange(h, l)
<1>1. h.a \in Nat /\ h.b \in Nat /\ h.kind \in {"bad", "suffix", "from", "both"}
  BY DEF Http!Ranges, Http!ServerAssumption
<1>2. CASE h.kind = "bad"
  BY <1>2 DEF Http!ParseRange
<1>3. CASE h.kind = "suffix"
  <2>1. g = [first |-> IF l < h.a THEN 0 ELSE l - h.a, last |-> l - 1]
    BY <1>1, <1>3 DEF Http!LengthToRange, Http!Min2
  <2> QED
    BY <1>1, <1>3, <2>1 DEF Http!Asked
<1>4. CASE h.kind \in {"from", "both"}
  <2>1. h.a < l
    BY <1>1, <1>4 DEF Http!LengthToRange, Http!None
  <2>2. g = [first |-> h.a, last |-> IF h.kind = "from" THEN l - 1 ELSE IF l - 1 < h.b THEN l - 1 ELSE h.b]
    BY <1>1, <1>4, <2>1 DEF Http!LengthToRange, Http!Min2
  <2>3. h.kind = "both" => h.b >= h.a
    BY <1>1 DEF Http!ParseRange
  <2> QED
    BY <1>1, <1>4, <2>1, <2>2, <2>3 DEF Http!Asked
<1> QED
  BY <1>1, <1>2, <1>3, <1>4

\* What a response to a request for a file of l bytes says
ResponseOk(rq, l, p) ==
    /\ p.file \in BOOLEAN
    /\ p.file => p.status \in {200, 206, 304} /\ rq.verb \in {"get", "head"}
    /\ ~p.file => p.status \notin {200, 206} /\ p.length \in {-1, 1}
    /\ p.status = 200 => p.file /\ p.length = l /\ p.range.first = -1 /\ Http!Asked(rq.range, l) = 0 .. l - 1
    /\ p.status = 206 => Ranged(rq, l, p)

\* make_res() announces no file ...
LEMMA ReasonOk ==
    ASSUME NEW rq, NEW l, NEW p, p.file = FALSE, p.length \in {-1, 1}, p.status \notin {200, 206}
    PROVE  ResponseOk(rq, l, p)
<1>1. p.file \in BOOLEAN /\ (p.file => p.status \in {200, 206, 304} /\ rq.verb \in {"get", "head"})
  OBVIOUS
<1>2. ~p.file => p.status \notin {200, 206} /\ p.length \in {-1, 1}
  OBVIOUS
<1>3. p.status = 200 => p.file /\ p.length = l /\ p.range.first = -1 /\ Http!Asked(rq.range, l) = 0 .. l - 1
  OBVIOUS
<1>4. p.status = 206 => Ranged(rq, l, p)
  OBVIOUS
<1> QED
  BY <1>1, <1>2, <1>3, <1>4 DEF ResponseOk

\* ... and make_file_res() the length of what it sends.
LEMMA FileOk ==
    ASSUME NEW rq, NEW l, NEW p, p.file = TRUE, p.status \in {200, 206, 304}, rq.verb \in {"get", "head"},
           p.status = 200 => p.length = l /\ p.range.first = -1 /\ Http!Asked(rq.range, l) = 0 .. l - 1,
           p.status = 206 => Ranged(rq, l, p)
    PROVE  ResponseOk(rq, l, p)
<1>1. p.file \in BOOLEAN /\ (p.file => p.status \in {200, 206, 304} /\ rq.verb \in {"get", "head"})
  OBVIOUS
<1>2. ~p.file => p.status \notin {200, 206} /\ p.length \in {-1, 1}
  OBVIOUS
<1>3. p.status = 200 => p.file /\ p.length = l /\ p.range.first = -1 /\ Http!Asked(rq.range, l) = 0 .. l - 1
  OBVIOUS
<1> QED
  BY <1>1, <1>2, <1>3 DEF ResponseOk

\* handle_request() settles on what was asked for.
LEMMA ResponseFacts ==
    ASSUME Http!ServerAssumption, NEW rq \in Http!Requests, NEW l \in Nat
    PROVE  ResponseOk(rq, l, Http!Respond(rq, l))
<1> DEFINE p == Http!Respond(rq, l)
           g == Http!LengthToRange(rq.range, l)
<1>1. /\ rq.range \in Http!Ranges /\ rq.verb \in {"get", "head", "post"}
      /\ rq.target \in {"ok", "missing", "illegal", "error"} /\ rq.match \in {"none", "same", "other"}
      /\ rq.match # "none" => rq.range.kind = "none"
  BY PlainRange DEF Http!Requests
<1> USE DEF Http!Reason, Http!File
<1>2. CASE rq.verb = "post" \/ rq.target \in {"illegal", "missing"}
  <2>1. p \in {Http!Reason(400, TRUE), Http!Reason(404, TRUE)}
    BY <1>1, <1>2 DEF Http!Respond
  <2> HIDE DEF p
  <2>2. p.file = FALSE /\ p.length \in {-1, 1} /\ p.status \notin {200, 206}
    BY <2>1
  <2>3. ResponseOk(rq, l, p)
    BY <2>2, ReasonOk
  <2> QED
    BY <2>3 DEF p
<1>3. CASE ~(rq.verb = "post" \/ rq.target \in {"illegal", "missing"})
  <2>1. p = IF rq.match = "same" THEN Http!File(304, l, Http!None)
            ELSE IF rq.match = "other" \/ rq.range.kind = "none" THEN Http!File(200, l, Http!None)
            ELSE IF Http!ParseRange(rq.range) = "parse_failed" THEN Http!Reason(400, TRUE)
            ELSE IF Http!ParseRange(rq.range) = "out_of_bound" \/ g.first < 0 THEN Http!Reason(416, FALSE)
            ELSE Http!File(206, g.last - g.first + 1, g)
    BY <1>1, <1>3 DEF Http!Respond
  <2> HIDE DEF p, g
  <2>2. ASSUME rq.match = "same" PROVE ResponseOk(rq, l, p)
    <3>1. p.file = TRUE /\ p.status \in {200, 206, 304}
      BY <2>1, <2>2
    <3>2. rq.verb \in {"get", "head"}
      BY <1>1, <1>3
    <3>3. p.status = 304
      BY <2>1, <2>2
    <3>4. p.status = 200 => p.length = l /\ p.range.first = -1 /\ Http!Asked(rq.range, l) = 0 .. l - 1
      BY <3>3
    <3>5. p.status = 206 => Ranged(rq, l, p)
      BY <3>3
    <3> QED
      BY <3>1, <3>2, <3>4, <3>5, FileOk
  <2>3. ASSUME rq.match # "same", rq.match = "other" \/ rq.range.kind = "none" PROVE ResponseOk(rq, l, p)
    <3>1. rq.range.kind = "none"
      BY <1>1, <2>3
    <3>2. Http!Asked(rq.range, l) = 0 .. l - 1
      BY <3>1 DEF Http!Asked
    <3>3. p.file = TRUE /\ p.status = 200 /\ p.length = l /\ p.range.first = -1
      BY <2>1, <2>3 DEF Http!None
    <3>4. rq.verb \in {"get", "head"}
      BY <1>1, <1>3
    <3>5. p.file = TRUE /\ p.status \in {200, 206, 304}
      BY <3>3
    <3>6. p.status = 200 => p.length = l /\ p.range.first = -1 /\ Http!Asked(rq.range, l) = 0 .. l - 1
      BY <3>2, <3>3
    <3>7. p.status = 206 => Ranged(rq, l, p)
      BY <3>3
    <3> QED
      BY <3>4, <3>5, <3>6, <3>7, FileOk
  <2>4. ASSUME rq.match = "none", rq.range.kind # "none",
               Http!ParseRange(rq.range) \in {"parse_failed", "out_of_bound"} \/ g.first < 0
        PROVE  ResponseOk(rq, l, p)
    <3>1. p \in {Http!Reason(400, TRUE), Http!Reason(416, FALSE)}
      BY <2>1, <2>4
    <3>2. p.file = FALSE /\ p.length \in {-1, 1} /\ p.status \notin {200, 206}
      BY <3>1
    <3> QED
      BY <3>2, ReasonOk
  <2>5. ASSUME rq.match = "none", rq.range.kind # "none",
               Http!ParseRange(rq.range) \notin {"parse_failed", "out_of_bound"}, ~(g.first < 0)
        PROVE  ResponseOk(rq, l, p)
    <3>1. p = Http!File(206, g.last - g.first + 1, g)
      BY <2>1, <2>5
    <3>2. Http!ParseRange(rq.range) = "ok"
      BY <1>1, <2>5 DEF Http!ParseRange, Http!Ranges
    <3>3. g.first \in Int
      <4>1. rq.range.a \in Nat
        BY <1>1 DEF Http!Ranges, Http!ServerAssumption
      <4> QED
        BY <4>1 DEF g, Http!LengthToRange, Http!Min2, Http!None
    <3>4. /\ g.first \in Nat /\ g.last \in Int /\ g.first <= g.last + 1 /\ g.last + 1 <= l
          /\ Http!Asked(rq.range, l) = g.first .. g.last
      BY <1>1, <2>5, <3>2, <3>3, RangeAsked DEF g
    <3>5. Ranged(rq, l, p)
      BY <3>1, <3>4 DEF Ranged
    <3>6. p.file = TRUE /\ p.status = 206
      BY <3>1
    <3>7. p.file = TRUE /\ p.status \in {200, 206, 304}
      BY <3>6
    <3>8. p.status = 200 => p.length = l /\ p.range.first = -1 /\ Http!Asked(rq.range, l) = 0 .. l - 1
      BY <3>6
    <3>9. p.status = 206 => Ranged(rq, l, p)
      BY <3>5
    <3>10. rq.verb \in {"get", "head"}
      BY <1>1, <1>3
    <3> QED
      BY <3>7, <3>8, <3>9, <3>10, FileOk
  <2>6. ResponseOk(rq, l, p)
    BY <1>1, <2>2, <2>3, <2>4, <2>5
  <2> QED
    BY <2>6 DEF p
<1> QED
  BY <1>2, <1>3

\* What a transfer has written, and what a whole response of it is
AllSent == /\ hreq.verb = "get" /\ hres.status = 200
           /\ filePos \in 0 .. lenOpened /\ owed = lenOpened - filePos /\ body = Bytes(0, filePos)
CountSent == LET f == hres.range.first t == hres.range.last + 1 IN
             /\ hreq.verb = "get" /\ hres.status = 206
             /\ filePos \in f .. t /\ left = t - filePos /\ owed = left /\ body = Bytes(f, filePos - f)
Whole == LET f == hres.range.first t == hres.range.last + 1 IN
         /\ hres.status = 200 => body = Bytes(0, lenOpened)
         /\ hres.status = 206 => body = Bytes(f, t - f)

HttpTypes == /\ hpc \in {"read", "handle", "write", "all", "count", "failed", "handled", "closed"}
             /\ hreq \in Http!Requests /\ fileSize \in Nat /\ lenOpened \in Nat
FramedInv ==
    faults = {} =>
        /\ owed \in Nat
        /\ hpc \in {"read", "handle", "write", "failed", "handled"} => owed = 0
        /\ hpc = "failed" => hreq.target = "error"
        /\ hpc \in {"write", "all", "count"} => lenOpened = fileSize
        /\ hpc \in {"write", "all", "count"} => hres = Http!Respond(hreq, lenOpened)
        /\ hpc = "all" => AllSent
        /\ hpc = "count" => CountSent
        /\ hpc = "handled" /\ hres.status \in {200, 206} /\ hreq.verb = "get" =>
              hres = Http!Respond(hreq, lenOpened) /\ Whole
HttpInv == HttpTypes /\ FramedInv

\* What broke the framing is not forgotten.
LEMMA FaultsStay ==
    ASSUME [Http!Next]_Http!vars
    PROVE  faults \subseteq faults'
  BY DEF Http!Next, Http!vars, Http!ReadRequest, Http!HandleRequest, Http!WriteResponse, Http!TransferAll,
         Http!TransferCount, Http!ServerError, Http!Handled, Http!ConnectionLost, Http!FileChanges

\* The types are kept.
LEMMA HttpTypesStep ==
    ASSUME Http!ServerAssumption, HttpTypes, [Http!Next]_Http!vars
    PROVE  HttpTypes'
<1> USE DEF HttpTypes, Http!vars
<1>1. CASE Http!ReadRequest
  BY <1>1 DEF Http!ReadRequest
<1>2. CASE Http!HandleRequest
  BY <1>2 DEF Http!HandleRequest
<1>3. CASE Http!WriteResponse
  BY <1>3 DEF Http!WriteResponse
<1>4. CASE Http!TransferAll
  BY <1>4 DEF Http!TransferAll, Http!Sent
<1>5. CASE Http!TransferCount
  BY <1>5 DEF Http!TransferCount, Http!Sent
<1>6. CASE Http!ServerError \/ Http!Handled \/ Http!ConnectionLost
  BY <1>6 DEF Http!ServerError, Http!Handled, Http!ConnectionLost
<1>7. CASE Http!FileChanges
  BY <1>7 DEF Http!FileChanges, Http!ServerAssumption
<1>8. CASE UNCHANGED Http!vars
  BY <1>8
<1> QED
  BY <1>1, <1>2, <1>3, <1>4, <1>5, <1>6, <1>7, <1>8 DEF Http!Next

\* A response of the handler, of a request it was read from
LEMMA Responded ==
    ASSUME Http!ServerAssumption, HttpTypes, FramedInv, faults = {}, hpc \in {"write", "all", "count"}
    PROVE  ResponseOk(hreq, lenOpened, hres) /\ hreq.verb \in {"get", "head", "post"}
  BY ResponseFacts DEF HttpTypes, FramedInv, Http!Requests

\* Sent(k) appends what it reads.
LEMMA SentBytes ==
    ASSUME NEW f \in Nat, NEW k \in Nat, filePos \in Nat, f <= filePos, body = Bytes(f, filePos - f),
           Http!Sent(k), owed \in Nat, k <= owed
    PROVE  filePos' = filePos + k /\ owed' = owed - k /\ body' = Bytes(f, filePos' - f)
<1>1. filePos' = filePos + k /\ owed' = owed - k
  BY DEF Http!Sent
<1>2. body' = body \o Bytes(filePos, k)
  BY DEF Http!Sent, Bytes
<1>3. filePos - f \in Nat /\ f + (filePos - f) = filePos /\ (filePos - f) + k = filePos' - f
  BY <1>1
<1>4. Bytes(f, filePos - f) \o Bytes(f + (filePos - f), k) = Bytes(f, (filePos - f) + k)
  <2> DEFINE m == filePos - f
  <2>1. m \in Nat
    BY <1>3
  <2> HIDE DEF m
  <2>2. Bytes(f, m) \o Bytes(f + m, k) = Bytes(f, m + k)
    BY <2>1, BytesAppended
  <2> QED
    BY <2>2 DEF m
<1> QED
  BY <1>1, <1>2, <1>3, <1>4

\* A header announces what follows it.
LEMMA WriteKeepsFrames ==
    ASSUME Http!ServerAssumption, HttpTypes, FramedInv, Http!WriteResponse, faults' = {}
    PROVE  FramedInv'
<1> USE DEF Http!WriteResponse
<1>1. faults = {} /\ hpc = "write" /\ owed = 0 /\ lenOpened = fileSize
      /\ hres = Http!Respond(hreq, lenOpened) /\ lenOpened \in Nat
  BY DEF FramedInv, HttpTypes
<1>2. ResponseOk(hreq, lenOpened, hres) /\ hreq.verb \in {"get", "head", "post"}
  BY <1>1, Responded
<1>3. UNCHANGED <<hreq, fileSize, lenOpened, hres>>
  OBVIOUS
<1> HIDE DEF Http!WriteResponse
<1>4. ASSUME ~hres.file PROVE FramedInv'
  <2>1. hpc' = "handled" /\ hres.status \notin {200, 206} /\ hres.length \in {-1, 1}
    BY <1>2, <1>4 DEF Http!WriteResponse, ResponseOk
  <2>2. ~(hreq.verb = "head" /\ hres.length > 0) /\ ~(hreq.verb # "head" /\ hres.length < 0)
    BY <1>4 DEF Http!WriteResponse
  <2>3. owed' = 0
    BY <1>1, <1>4, <2>1, <2>2 DEF Http!WriteResponse, Http!Announce, Http!Owes, Http!NoBody
  <2> QED
    BY <1>3, <2>1, <2>3 DEF FramedInv
<1>5. ASSUME hres.file, ~(hres.status # 304 /\ hreq.verb = "get") PROVE FramedInv'
  <2>1. hpc' = "handled" /\ owed' = Http!Announce(Http!Owes(hreq))
    BY <1>5 DEF Http!WriteResponse
  <2>2. hres.status = 304 \/ hreq.verb = "head"
    BY <1>2, <1>5 DEF ResponseOk
  <2>3. owed' = 0
    BY <1>1, <2>1, <2>2 DEF Http!Announce, Http!Owes, Http!NoBody
  <2>4. ~(hres.status \in {200, 206} /\ hreq.verb = "get")
    BY <2>2
  <2> QED
    BY <1>3, <2>1, <2>3, <2>4 DEF FramedInv
<1>6. ASSUME hres.file, hres.status # 304, hreq.verb = "get" PROVE FramedInv'
  <2>1. hres.status \in {200, 206}
    BY <1>2, <1>6 DEF ResponseOk
  <2>2. owed' = hres.length /\ body' = <<>>
    BY <1>1, <1>6 DEF Http!WriteResponse, Http!Announce, Http!Owes, Http!NoBody
  <2>3. CASE hres.status = 206
    <3>1. Ranged(hreq, lenOpened, hres)
      BY <1>2, <2>3 DEF ResponseOk
    <3>2. hpc' = "count" /\ filePos' = hres.range.first /\ left' = hres.length
      BY <1>6, <2>3 DEF Http!WriteResponse
    <3>3. Bytes(hres.range.first, 0) = <<>>
      BY DEF Bytes
    <3>4. CountSent'
      BY <1>3, <1>6, <2>2, <2>3, <3>1, <3>2, <3>3 DEF CountSent, Ranged
    <3>5. owed' \in Nat
      BY <2>2, <3>1 DEF Ranged
    <3> QED
      BY <1>1, <1>3, <3>2, <3>4, <3>5 DEF FramedInv
  <2>4. CASE hres.status = 200
    <3>1. hres.length = lenOpened
      BY <1>2, <2>4 DEF ResponseOk
    <3>2. hpc' = "all" /\ filePos' = 0
      BY <1>6, <2>4 DEF Http!WriteResponse
    <3>3. Bytes(0, 0) = <<>>
      BY DEF Bytes
    <3>4. AllSent'
      BY <1>1, <1>3, <1>6, <2>2, <2>4, <3>1, <3>2, <3>3 DEF AllSent
    <3>5. owed' \in Nat
      BY <1>1, <2>2, <3>1
    <3> QED
      BY <1>1, <1>3, <3>2, <3>4, <3>5 DEF FramedInv
  <2> QED
    BY <2>1, <2>3, <2>4
<1> QED
  BY <1>4, <1>5, <1>6

\* transfer() to the end of the file sends the rest of it.
LEMMA AllKeepsFrames ==
    ASSUME Http!ServerAssumption, HttpTypes, FramedInv, Http!TransferAll, faults' = {}
    PROVE  FramedInv'
<1>1. faults = {} /\ hpc = "all" /\ AllSent /\ owed \in Nat /\ lenOpened = fileSize
      /\ hres = Http!Respond(hreq, lenOpened) /\ lenOpened \in Nat
  BY DEF FramedInv, HttpTypes, Http!TransferAll
<1>2. UNCHANGED <<hreq, fileSize, lenOpened, hres>>
  BY DEF Http!TransferAll
<1>3. CASE filePos >= fileSize
  <2>1. hpc' = "handled" /\ UNCHANGED <<body, filePos, owed>>
    BY <1>3 DEF Http!TransferAll
  <2>2. filePos = lenOpened /\ owed = 0 /\ hres.status = 200 /\ body = Bytes(0, lenOpened)
    BY <1>1, <1>3 DEF AllSent
  <2>3. Whole'
    BY <1>2, <2>1, <2>2 DEF Whole
  <2> QED
    BY <1>1, <1>2, <2>1, <2>2, <2>3 DEF FramedInv
<1>4. CASE ~(filePos >= fileSize)
  <2>1. PICK k \in 1 .. Http!Min2(BufSize, fileSize - filePos) : Http!Sent(k) /\ hpc' = hpc
    BY <1>4 DEF Http!TransferAll
  <2>2. filePos \in Nat /\ filePos <= lenOpened /\ owed = lenOpened - filePos /\ body = Bytes(0, filePos)
        /\ hreq.verb = "get" /\ hres.status = 200
    BY <1>1 DEF AllSent
  <2>3. k \in Nat /\ k <= lenOpened - filePos
    BY <1>1, <1>4, <2>2 DEF Http!Min2, Http!ServerAssumption
  <2>4. 0 <= filePos /\ filePos - 0 = filePos /\ k <= owed
    BY <2>2, <2>3
  <2>5. filePos' = filePos + k /\ owed' = owed - k /\ body' = Bytes(0, filePos' - 0)
    BY <1>1, <2>1, <2>2, <2>3, <2>4, SentBytes
  <2>6. filePos' - 0 = filePos'
    BY <2>2, <2>3, <2>5
  <2>7. AllSent' /\ owed' \in Nat
    BY <1>1, <1>2, <2>2, <2>3, <2>5, <2>6 DEF AllSent
  <2> QED
    BY <1>1, <1>2, <2>1, <2>7 DEF FramedInv
<1> QED
  BY <1>3, <1>4

\* transfer() of a number of bytes sends the range and does not meet the end of the file.
LEMMA CountKeepsFrames ==
    ASSUME Http!ServerAssumption, HttpTypes, FramedInv, Http!TransferCount, faults' = {}
    PROVE  FramedInv'
<1>1. faults = {} /\ hpc = "count" /\ CountSent /\ owed \in Nat /\ lenOpened = fileSize
      /\ hres = Http!Respond(hreq, lenOpened) /\ lenOpened \in Nat
  BY DEF FramedInv, HttpTypes, Http!TransferCount
<1>2. UNCHANGED <<hreq, fileSize, lenOpened, hres>>
  BY DEF Http!TransferCount
<1>3. Ranged(hreq, lenOpened, hres)
  BY <1>1, Responded DEF ResponseOk, CountSent
<1> DEFINE f == hres.range.first
           t == hres.range.last + 1
<1>4. f \in Nat /\ t \in Nat /\ f <= t /\ t <= lenOpened
  BY <1>3 DEF Ranged
<1>5. filePos \in f .. t /\ left = t - filePos /\ owed = left /\ body = Bytes(f, filePos - f)
      /\ hreq.verb = "get" /\ hres.status = 206
  BY <1>1 DEF CountSent
<1> HIDE DEF f, t
<1>6. filePos \in Nat /\ filePos >= f /\ filePos <= t
  BY <1>4, <1>5
<1>7. CASE left = 0
  <2>1. hpc' = "handled" /\ UNCHANGED <<body, filePos, owed>>
    BY <1>7 DEF Http!TransferCount
  <2>2. filePos = t /\ body = Bytes(f, t - f) /\ owed = 0
    BY <1>4, <1>5, <1>6, <1>7
  <2>3. Whole'
    BY <1>2, <1>5, <2>1, <2>2 DEF Whole, f, t
  <2> QED
    BY <1>1, <1>2, <2>1, <2>2, <2>3 DEF FramedInv
<1>8. CASE left # 0
  <2>1. ~(filePos >= fileSize)
    BY <1>1, <1>4, <1>5, <1>6, <1>8
  <2>2. PICK k \in 1 .. Http!Min2(Http!Min2(left, BufSize), fileSize - filePos) :
              Http!Sent(k) /\ left' = left - k /\ hpc' = hpc
    BY <1>8, <2>1 DEF Http!TransferCount
  <2>3. k \in Nat /\ k <= left
    BY <1>1, <1>4, <1>5, <1>6, <2>2 DEF Http!Min2, Http!ServerAssumption
  <2>4. filePos' = filePos + k /\ owed' = owed - k /\ body' = Bytes(f, filePos' - f)
    BY <1>1, <1>4, <1>5, <1>6, <2>2, <2>3, SentBytes
  <2>5. filePos' \in f .. t /\ left' = t - filePos' /\ owed' = left' /\ owed' \in Nat
    BY <1>4, <1>5, <1>6, <2>2, <2>3, <2>4
  <2>6. CountSent'
    BY <1>2, <1>5, <2>4, <2>5 DEF CountSent, f, t
  <2> QED
    BY <1>1, <1>2, <2>2, <2>5, <2>6 DEF FramedInv
<1> QED
  BY <1>7, <1>8

\* Every step of the connection keeps responses framed.
LEMMA FramesStep ==
    ASSUME Http!ServerAssumption, HttpInv, [Http!Next]_Http!vars
    PROVE  FramedInv'
<1> USE DEF HttpInv
<1>1. SUFFICES ASSUME faults' = {} PROVE FramedInv'
  BY DEF FramedInv
<1>2. faults = {}
  BY <1>1, FaultsStay
<1>3. CASE Http!ReadRequest
  BY <1>2, <1>3 DEF FramedInv, Http!ReadRequest
<1>4. CASE Http!HandleRequest
  BY <1>2, <1>4 DEF FramedInv, Http!HandleRequest
<1>5. CASE Http!WriteResponse
  BY <1>1, <1>5, WriteKeepsFrames
<1>6. CASE Http!TransferAll
  BY <1>1, <1>6, AllKeepsFrames
<1>7. CASE Http!TransferCount
  BY <1>1, <1>7, CountKeepsFrames
<1>8. CASE Http!ServerError \/ Http!FileChanges
  BY <1>1, <1>8 DEF Http!ServerError, Http!FileChanges
<1>9. CASE Http!Handled
  BY <1>2, <1>9 DEF FramedInv, Http!Handled
<1>10. CASE Http!ConnectionLost
  BY <1>2, <1>10 DEF FramedInv, Http!ConnectionLost
<1>11. CASE UNCHANGED Http!vars
  BY <1>2, <1>11 DEF FramedInv, AllSent, CountSent, Whole, Http!vars
<1> QED
  BY <1>3, <1>4, <1>5, <1>6, <1>7, <1>8, <1>9, <1>10, <1>11 DEF Http!Next

\* Bytes numbered from f on are the bytes of an interval.
LEMMA BytesOfInterval ==
    ASSUME NEW f \in Nat, NEW t \in Nat, f <= t
    PROVE  /\ {Bytes(f, t - f)[x] : x \in DOMAIN Bytes(f, t - f)} = f .. t - 1
           /\ Http!Cardinality(f .. t - 1) = t - f
<1>1. t - f \in Nat /\ (t - 1) - f + 1 = t - f /\ (f > t - 1 => t - f = 0)
  OBVIOUS
<1>2. Cardinality(f .. t - 1) = IF f > t - 1 THEN 0 ELSE (t - 1) - f + 1
  BY FS_Interval
<1>3. Http!Cardinality(f .. t - 1) = Cardinality(f .. t - 1)
  BY DEF Http!Cardinality, Cardinality
<1>4. ASSUME NEW z \in f .. t - 1 PROVE \E x \in 1 .. t - f : z = f + x - 1
  <2>1. z - f + 1 \in 1 .. t - f /\ z = f + (z - f + 1) - 1
    OBVIOUS
  <2> QED
    BY <2>1
<1> DEFINE u == Bytes(f, t - f)
<1>5. DOMAIN u = 1 .. t - f /\ \A x \in 1 .. t - f : u[x] = f + x - 1
  BY DEF Bytes
<1> HIDE DEF u
<1>6. {u[x] : x \in DOMAIN u} = f .. t - 1
  <2>1. ASSUME NEW x \in 1 .. t - f PROVE u[x] \in f .. t - 1
    BY <1>5
  <2>2. ASSUME NEW z \in f .. t - 1 PROVE z \in {u[x] : x \in DOMAIN u}
    <3>1. PICK x \in 1 .. t - f : z = f + x - 1
      BY <1>4, <2>2
    <3>2. x \in DOMAIN u /\ z = u[x]
      BY <1>5, <3>1
    <3> QED
      BY <3>2
  <2>3. ASSUME NEW z \in {u[x] : x \in DOMAIN u} PROVE z \in f .. t - 1
    BY <1>5, <2>1, <2>3
  <2> QED
    BY <2>2, <2>3
<1> QED
  BY <1>1, <1>2, <1>3, <1>6 DEF u

\* A framed response is the one InStep speaks of.
LEMMA FramedInStep ==
    ASSUME Http!ServerAssumption, HttpInv
    PROVE  Http!InStep
<1> USE DEF HttpInv
<1> DEFINE whole == /\ body = [i \in 1 .. Http!Cardinality(Http!Asked(hreq.range, lenOpened)) |->
                               hres.range.first + i - (IF hres.status = 206 THEN 1 ELSE 0)]
                    /\ {body[i] : i \in DOMAIN body} = Http!Asked(hreq.range, lenOpened)
<1>1. ASSUME faults = {}, hpc = "handled", hres.status \in {200, 206}, hreq.verb = "get" PROVE whole
  <2>1. hres = Http!Respond(hreq, lenOpened) /\ Whole /\ lenOpened \in Nat /\ hreq \in Http!Requests
    BY <1>1 DEF FramedInv, HttpTypes
  <2>2. ResponseOk(hreq, lenOpened, hres)
    BY <2>1, ResponseFacts
  <2>3. CASE hres.status = 200
    <3>1. Http!Asked(hreq.range, lenOpened) = 0 .. lenOpened - 1 /\ hres.range.first = -1
      BY <2>2, <2>3 DEF ResponseOk
    <3>2. body = Bytes(0, lenOpened) /\ lenOpened - 0 = lenOpened
      BY <2>1, <2>3 DEF Whole
    <3>3. {body[x] : x \in DOMAIN body} = 0 .. lenOpened - 1 /\ Http!Cardinality(0 .. lenOpened - 1) = lenOpened
      <4>1. 0 \in Nat /\ lenOpened \in Nat /\ 0 <= lenOpened
        BY <2>1
      <4>2. /\ {Bytes(0, lenOpened - 0)[x] : x \in DOMAIN Bytes(0, lenOpened - 0)} = 0 .. lenOpened - 1
            /\ Http!Cardinality(0 .. lenOpened - 1) = lenOpened - 0
        BY <4>1, BytesOfInterval
      <4> QED
        BY <3>2, <4>2
    <3>4. Bytes(0, lenOpened) = [i \in 1 .. lenOpened |-> -1 + i - 0]
      BY DEF Bytes
    <3> QED
      BY <2>3, <3>1, <3>2, <3>3, <3>4
  <2>4. CASE hres.status = 206
    <3> DEFINE f == hres.range.first
               t == hres.range.last + 1
    <3>1. f \in Nat /\ t \in Nat /\ f <= t /\ Http!Asked(hreq.range, lenOpened) = f .. t - 1
      BY <2>2, <2>4 DEF ResponseOk, Ranged
    <3>2. body = Bytes(f, t - f)
      BY <2>1, <2>4 DEF Whole
    <3> HIDE DEF t
    <3>3. {body[x] : x \in DOMAIN body} = f .. t - 1 /\ Http!Cardinality(f .. t - 1) = t - f
      BY <3>1, <3>2, BytesOfInterval
    <3>4. Bytes(f, t - f) = [i \in 1 .. t - f |-> f + i - 1]
      BY DEF Bytes
    <3> QED
      BY <2>4, <3>1, <3>2, <3>3, <3>4
  <2> QED
    BY <1>1, <2>3, <2>4
<1>2. faults = {} => owed >= 0
  BY DEF FramedInv
<1> HIDE DEF whole
<1>3. faults = {} => (hpc \in {"handled", "read"} => owed = 0) /\ (hpc = "failed" => hreq.target = "error")
  BY DEF FramedInv
<1> QED
  BY <1>1, <1>2, <1>3 DEF Http!InStep, whole

\* A client that takes every response of the file server to be as long as its
\* header says is at the start of a response whenever handle_request() is
\* entered, and has got exactly the bytes it asked for, for any size of files
\* and of the buffer of transfer().
THEOREM ResponsesFramed == Spec => []InStep
<1> DEFINE Inv == part = "http" => HttpInv
<1>1. Http!Init => HttpInv
  <2>1. Http!Requests # {}
    <3>1. [verb |-> "get", target |-> "ok", match |-> "none",
          range |-> Http!Plain, keep |-> TRUE] \in Http!Requests
      BY PlainRange DEF Http!Requests
    <3> QED
      BY <3>1
  <2> SUFFICES ASSUME Http!Init PROVE HttpInv
    OBVIOUS
  <2>2. hreq \in Http!Requests
    BY <2>1 DEF Http!Init
  <2> QED
    BY TaskAssumption, <2>2 DEF Http!Init, Http!ServerAssumption, HttpInv, HttpTypes, FramedInv
<1>2. Init => Inv
  BY <1>1 DEF Init
<1>3. HttpInv /\ [Http!Next]_Http!vars => HttpInv'
  BY TaskAssumption, HttpTypesStep, FramesStep DEF HttpInv
<1>4. Inv /\ [Next]_vars => Inv'
  BY <1>3, StepOfPart
<1>5. Inv => InStep
  BY TaskAssumption, FramedInStep DEF InStep
<1> QED
  BY <1>2, <1>4, <1>5, PTL DEF Spec

-----------------------------------------------------------------------------
(* The pipeline of compr_conv. *)

\* Bytes a + 1 to b of a source of n halves; the one after the last is the end of the frame, 0.
Run(n, a, b) == [x \in 1 .. b - a |-> IF a + x <= n THEN a + x ELSE 0]
Seg(n, a, x, b) == a <= b /\ x = Run(n, a, b)
Chain(n, a, Q, b) ==
    \E c \in [0 .. Len(Q) -> Nat] : /\ c[0] = a /\ c[Len(Q)] = b
                                    /\ \A x \in 1 .. Len(Q) : Seg(n, c[x - 1], Q[x], c[x])

\* A segment is empty exactly if its ends are the same.
LEMMA SegFacts ==
    ASSUME NEW n \in Nat, NEW a \in Nat, NEW b \in Nat, NEW x, Seg(n, a, x, b)
    PROVE  x \in Seq(Nat) /\ Len(x) = b - a /\ (x = <<>> <=> a = b)
<1>1. b - a \in Nat /\ x = Run(n, a, b)
  BY DEF Seg
<1>2. x \in Seq(Nat) /\ Len(x) = b - a
  BY <1>1 DEF Run
<1> QED
  BY <1>2

LEMMA SegNone ==
    ASSUME NEW n \in Nat, NEW a \in Nat, NEW b \in Nat, Seg(n, a, <<>>, b)
    PROVE  a = b
  BY SegFacts

\* Nothing is a segment.
LEMMA SegEmpty ==
    ASSUME NEW n \in Nat, NEW a \in Nat
    PROVE  Seg(n, a, <<>>, a)
  BY DEF Seg, Run

\* Adjacent segments are one.
LEMMA SegJoin ==
    ASSUME NEW n \in Nat, NEW a \in Nat, NEW b \in Nat, NEW c \in Nat, NEW x, NEW y,
           Seg(n, a, x, b), Seg(n, b, y, c)
    PROVE  Seg(n, a, x \o y, c)
<1>1. x \in Seq(Nat) /\ Len(x) = b - a
  BY SegFacts
<1>2. y \in Seq(Nat) /\ Len(y) = c - b
  BY SegFacts
<1>3. /\ x \in Seq(Nat) /\ Len(x) = b - a /\ y \in Seq(Nat) /\ Len(y) = c - b
      /\ a <= b /\ b <= c /\ x = Run(n, a, b) /\ y = Run(n, b, c)
  BY <1>1, <1>2 DEF Seg
<1>4. /\ x \o y \in Seq(Nat) /\ Len(x \o y) = Len(x) + Len(y)
      /\ \A i \in 1 .. Len(x) + Len(y) : (x \o y)[i] = IF i <= Len(x) THEN x[i] ELSE y[i - Len(x)]
  BY <1>3, ConcatProperties
<1>5. Len(x) + Len(y) = c - a
  BY <1>3
<1>6. /\ x \o y \in Seq(Nat) /\ Len(x \o y) = c - a
      /\ \A i \in 1 .. c - a : (x \o y)[i] = IF i <= b - a THEN x[i] ELSE y[i - (b - a)]
  BY <1>3, <1>4, <1>5
<1> DEFINE z == Run(n, a, c)
<1>7. z \in Seq(Nat) /\ Len(z) = c - a /\ \A i \in 1 .. c - a : z[i] = IF a + i <= n THEN a + i ELSE 0
  BY <1>3 DEF Run
<1>8. ASSUME NEW i \in 1 .. Len(z) PROVE (x \o y)[i] = z[i]
  <2>1. i \in 1 .. c - a /\ i \in Nat
    BY <1>7
  <2>2. CASE i <= b - a
    <3>1. x[i] = IF a + i <= n THEN a + i ELSE 0
      BY <1>3, <2>1, <2>2 DEF Run
    <3> QED
      BY <1>6, <1>7, <2>1, <2>2, <3>1
  <2>3. CASE ~(i <= b - a)
    <3>1. i - (b - a) \in 1 .. c - b /\ b + (i - (b - a)) = a + i
      BY <1>3, <2>1, <2>3
    <3>2. y[i - (b - a)] = IF a + i <= n THEN a + i ELSE 0
      BY <1>3, <3>1 DEF Run
    <3> QED
      BY <1>6, <1>7, <2>1, <2>3, <3>2
  <2> QED
    BY <2>2, <2>3
<1> HIDE DEF z
<1>9. x \o y = z
  BY <1>6, <1>7, <1>8, SeqEqual
<1> QED
  BY <1>3, <1>9 DEF z, Seg

\* A segment is the one up to a place in it and the one from there.
LEMMA SegSplit ==
    ASSUME NEW n \in Nat, NEW a \in Nat, NEW b \in Nat, NEW x, Seg(n, a, x, b), NEW k \in 0 .. Len(x)
    PROVE  /\ Seg(n, a, SubSeq(x, 1, k), a + k) /\ Seg(n, a + k, SubSeq(x, k + 1, Len(x)), b)
           /\ SubSeq(x, 1, k) \in Seq(Nat) /\ SubSeq(x, k + 1, Len(x)) \in Seq(Nat)
<1>1. x \in Seq(Nat) /\ Len(x) = b - a
  BY SegFacts
<1>2. a <= b /\ x = Run(n, a, b) /\ b - a \in Nat
  BY DEF Seg
<1>3. k \in Nat /\ k <= b - a /\ a + k \in Nat /\ a + k <= b /\ (a + k) - a = k /\ b - (a + k) = Len(x) - k
  BY <1>1, <1>2
<1>4. \A i \in 1 .. Len(x) : x[i] = IF a + i <= n THEN a + i ELSE 0
  BY <1>1, <1>2 DEF Run
<1> DEFINE f == SubSeq(x, 1, k)
           g == SubSeq(x, k + 1, Len(x))
           u == Run(n, a, a + k)
           v == Run(n, a + k, b)
<1>5. f \in Seq(Nat) /\ Len(f) = k /\ \A i \in 1 .. k : f[i] = x[i]
  <2>1. SubSeq(x, 1, k) = [i \in 1 .. k |-> x[i]]
    BY <1>1, <1>3
  <2>2. \A i \in 1 .. k : x[i] \in Nat
    BY <1>1, <1>3
  <2> QED
    BY <1>3, <2>1, <2>2
<1>6. g \in Seq(Nat) /\ Len(g) = Len(x) - k /\ \A i \in 1 .. Len(x) - k : g[i] = x[k + i]
  <2>1. SubSeq(x, k + 1, Len(x)) = [i \in 1 .. Len(x) - k |-> x[k + i]]
    <3>1. Len(x) \in Nat /\ 1 + Len(x) - (k + 1) = Len(x) - k
      BY <1>1, <1>3
    <3>2. SubSeq(x, k + 1, Len(x)) = [i \in 1 .. 1 + Len(x) - (k + 1) |-> x[i + (k + 1) - 1]]
      BY <1>1, <1>3
    <3>3. \A i \in 1 .. Len(x) - k : i + (k + 1) - 1 = k + i
      BY <1>1, <1>3
    <3> QED
      BY <3>1, <3>2, <3>3
  <2> DEFINE m == Len(x) - k
  <2>2. \A i \in 1 .. m : k + i \in 1 .. Len(x) /\ x[k + i] \in Nat
    BY <1>1, <1>2, <1>3
  <2>3. m \in Nat /\ g = [i \in 1 .. m |-> x[k + i]]
    BY <1>1, <1>2, <1>3, <2>1
  <2> DEFINE h == [i \in 1 .. m |-> x[k + i]]
  <2>4. g = h
    BY <2>3
  <2> HIDE DEF m
  <2>5. h \in Seq(Nat) /\ Len(h) = m
    <3>1. m \in Nat
      BY <2>3
    <3>2. \A i \in 1 .. m : x[k + i] \in Nat
      BY <2>2
    <3>3. h \in [1 .. m -> Nat] /\ DOMAIN h = 1 .. m
      BY <3>2
    <3> HIDE DEF h
    <3> QED
      BY <3>1, <3>3
  <2>6. \A i \in 1 .. m : h[i] = x[k + i]
    OBVIOUS
  <2> HIDE DEF h
  <2>7. g \in Seq(Nat) /\ Len(g) = m /\ \A i \in 1 .. m : g[i] = x[k + i]
    BY <2>4, <2>5, <2>6
  <2> QED
    BY <2>7 DEF m
<1>7. u \in Seq(Nat) /\ Len(u) = k /\ \A i \in 1 .. k : u[i] = IF a + i <= n THEN a + i ELSE 0
  BY <1>3 DEF Run
<1>8. v \in Seq(Nat) /\ Len(v) = Len(x) - k
      /\ \A i \in 1 .. Len(x) - k : v[i] = IF (a + k) + i <= n THEN (a + k) + i ELSE 0
  BY <1>1, <1>3 DEF Run
<1> HIDE DEF f, g, u, v
<1>9. f = u
  <2>1. ASSUME NEW i \in 1 .. Len(f) PROVE f[i] = u[i]
    <3>1. i \in 1 .. k /\ i \in 1 .. Len(x)
      BY <1>1, <1>2, <1>3, <1>5
    <3>2. f[i] = x[i]
      BY <1>5, <3>1
    <3>3. x[i] = IF a + i <= n THEN a + i ELSE 0
      BY <1>4, <3>1
    <3> QED
      BY <1>7, <3>1, <3>2, <3>3
  <2> QED
    BY <1>5, <1>7, <2>1, SeqEqual
<1>10. g = v
  <2>1. ASSUME NEW i \in 1 .. Len(g) PROVE g[i] = v[i]
    <3>1. i \in 1 .. Len(x) - k /\ k + i \in 1 .. Len(x) /\ a + (k + i) = (a + k) + i
      BY <1>1, <1>2, <1>3, <1>6
    <3>2. g[i] = x[k + i] /\ x[k + i] = IF a + (k + i) <= n THEN a + (k + i) ELSE 0
      BY <1>4, <1>6, <3>1
    <3> QED
      BY <1>8, <3>1, <3>2
  <2> QED
    BY <1>6, <1>8, <2>1, SeqEqual
<1>11. Seg(n, a, f, a + k) /\ Seg(n, a + k, g, b)
  BY <1>3, <1>9, <1>10 DEF Seg, u, v
<1> QED
  BY <1>5, <1>6, <1>11 DEF f, g

\* An empty queue is between a place and itself.
LEMMA ChainEmpty ==
    ASSUME NEW n \in Nat, NEW a \in Nat, NEW b \in Nat
    PROVE  Chain(n, a, <<>>, a) /\ (Chain(n, a, <<>>, b) => a = b)
<1>1. Chain(n, a, <<>>, a)
  <2> DEFINE c == [i \in 0 .. 0 |-> a]
  <2>1. c \in [0 .. Len(<<>>) -> Nat] /\ c[0] = a /\ c[Len(<<>>)] = a
    OBVIOUS
  <2>2. \A x \in 1 .. Len(<<>>) : Seg(n, c[x - 1], <<>>[x], c[x])
    OBVIOUS
  <2> HIDE DEF c
  <2> QED
    BY <2>1, <2>2 DEF Chain
<1>2. ASSUME Chain(n, a, <<>>, b) PROVE a = b
  BY <1>2 DEF Chain
<1> QED
  BY <1>1, <1>2

\* enqueue() extends a queue by a segment ...
LEMMA ChainAppend ==
    ASSUME NEW n \in Nat, NEW a \in Nat, NEW b \in Nat, NEW c \in Nat, NEW S, NEW Q \in Seq(S), NEW x \in S,
           Chain(n, a, Q, b), Seg(n, b, x, c)
    PROVE  Chain(n, a, Append(Q, x), c)
<1>1. PICK d \in [0 .. Len(Q) -> Nat] :
             /\ d[0] = a /\ d[Len(Q)] = b
             /\ \A i \in 1 .. Len(Q) : Seg(n, d[i - 1], Q[i], d[i])
  BY DEF Chain
<1> DEFINE R == Append(Q, x)
           e == [i \in 0 .. Len(R) |-> IF i <= Len(Q) THEN d[i] ELSE c]
<1>2. /\ Len(Q) \in Nat /\ Len(R) = Len(Q) + 1 /\ R[Len(Q) + 1] = x
      /\ \A i \in 1 .. Len(Q) : R[i] = Q[i]
  BY AppendProperties
<1> HIDE DEF R
<1>3. e \in [0 .. Len(R) -> Nat] /\ e[0] = a /\ e[Len(R)] = c
  BY <1>1, <1>2
<1>4. ASSUME NEW i \in 1 .. Len(R) PROVE Seg(n, e[i - 1], R[i], e[i])
  <2>1. CASE i <= Len(Q)
    <3>1. e[i - 1] = d[i - 1] /\ e[i] = d[i] /\ R[i] = Q[i] /\ i \in 1 .. Len(Q)
      BY <1>2, <2>1
    <3> QED
      BY <1>1, <3>1
  <2>2. CASE ~(i <= Len(Q))
    <3>1. i = Len(Q) + 1
      BY <1>2, <2>2
    <3>2. e[i - 1] = b /\ e[i] = c /\ R[i] = x
      BY <1>1, <1>2, <3>1
    <3> QED
      BY <3>2
  <2> QED
    BY <2>1, <2>2
<1> HIDE DEF e
<1>5. Chain(n, a, R, c)
  BY <1>3, <1>4 DEF Chain
<1> QED
  BY <1>5 DEF R

\* ... and dequeue() takes its first one.
LEMMA ChainTail ==
    ASSUME NEW n \in Nat, NEW a \in Nat, NEW b \in Nat, NEW S, NEW Q \in Seq(S), Q # <<>>, Chain(n, a, Q, b)
    PROVE  \E m \in Nat : Seg(n, a, Head(Q), m) /\ Chain(n, m, Tail(Q), b)
<1>1. PICK d \in [0 .. Len(Q) -> Nat] :
             /\ d[0] = a /\ d[Len(Q)] = b
             /\ \A i \in 1 .. Len(Q) : Seg(n, d[i - 1], Q[i], d[i])
  BY DEF Chain
<1> DEFINE R == Tail(Q)
           e == [i \in 0 .. Len(R) |-> d[i + 1]]
<1>2. /\ Len(Q) \in Nat /\ Len(Q) > 0 /\ Len(R) = Len(Q) - 1 /\ Head(Q) = Q[1]
      /\ \A i \in 1 .. Len(R) : R[i] = Q[i + 1]
  BY HeadTailProperties
<1> HIDE DEF R
<1>3. e \in [0 .. Len(R) -> Nat] /\ e[0] = d[1] /\ e[Len(R)] = b /\ d[1] \in Nat
  BY <1>1, <1>2
<1>4. ASSUME NEW i \in 1 .. Len(R) PROVE Seg(n, e[i - 1], R[i], e[i])
  <2>1. e[i - 1] = d[i] /\ e[i] = d[i + 1] /\ R[i] = Q[i + 1] /\ i + 1 \in 1 .. Len(Q) /\ (i + 1) - 1 = i
    BY <1>2
  <2> QED
    BY <1>1, <2>1
<1> HIDE DEF e
<1>5. Chain(n, d[1], R, b)
  BY <1>3, <1>4 DEF Chain
<1>6. Seg(n, d[0], Q[1], d[1])
  BY <1>1, <1>2
<1> QED
  BY <1>1, <1>2, <1>3, <1>5, <1>6 DEF R

\* What is where in the pipeline, from the end of the source that was read to what was written: the
\* file, the queue to the writer, what compress() enqueues and holds, the queue to it, what
\* decompress() enqueues, the queue to it, and what read_file() enqueues
Line(n, p, w, c3, h3, b3, c2, h2, c1, h1, e) ==
    /\ Seg(n, 0, w, p[1]) /\ Chain(n, p[1], c3, p[2]) /\ Seg(n, p[2], h3, p[3]) /\ Seg(n, p[3], b3, p[4])
    /\ Chain(n, p[4], c2, p[5]) /\ Seg(n, p[5], h2, p[6]) /\ Chain(n, p[6], c1, p[7]) /\ Seg(n, p[7], h1, e)
Piped(n, w, c3, h3, b3, c2, h2, c1, h1, e) ==
    \E p \in [1 .. 7 -> Nat] : Line(n, p, w, c3, h3, b3, c2, h2, c1, h1, e)
Chunk  == Seq(Nat)
Chunks == Seq(Chunk)

\* read_file() reads the next of the source.
LEMMA ReadPiped ==
    ASSUME NEW n \in Nat, NEW e \in Nat, NEW w \in Chunk, NEW c3 \in Chunks, NEW h3 \in Chunk,
           NEW b3 \in Chunk, NEW c2 \in Chunks, NEW h2 \in Chunk, NEW c1 \in Chunks, NEW x \in Chunk,
           NEW f \in Nat,
           Piped(n, w, c3, h3, b3, c2, h2, c1, <<>>, e), Seg(n, e, x, f)
    PROVE  Piped(n, w, c3, h3, b3, c2, h2, c1, x, f)
<1>1. PICK p \in [1 .. 7 -> Nat] : Line(n, p, w, c3, h3, b3, c2, h2, c1, <<>>, e)
  BY DEF Piped
<1>2. p[1] \in Nat /\ p[2] \in Nat /\ p[3] \in Nat /\ p[4] \in Nat /\ p[5] \in Nat /\ p[6] \in Nat /\ p[7] \in Nat
  OBVIOUS
<1>3. /\ Seg(n, 0, w, p[1]) /\ Chain(n, p[1], c3, p[2]) /\ Seg(n, p[2], h3, p[3]) /\ Seg(n, p[3], b3, p[4])
      /\ Chain(n, p[4], c2, p[5]) /\ Seg(n, p[5], h2, p[6]) /\ Chain(n, p[6], c1, p[7]) /\ Seg(n, p[7], <<>>, e)
  BY <1>1 DEF Line
<1>4. p[7] = e
  <2>1. Seg(n, p[7], <<>>, e) /\ p[7] \in Nat /\ e \in Nat
    BY <1>2, <1>3
  <2> QED
    BY <2>1, SegNone
<1>5. Seg(n, p[7], x, f)
  BY <1>4
<1>9. Line(n, p, w, c3, h3, b3, c2, h2, c1, x, f)
  BY <1>3, <1>5 DEF Line
<1> QED
  BY <1>9 DEF Piped

\* read_file() enqueues.
LEMMA FirstPut ==
    ASSUME NEW n \in Nat, NEW e \in Nat, NEW w \in Chunk, NEW c3 \in Chunks, NEW h3 \in Chunk,
           NEW b3 \in Chunk, NEW c2 \in Chunks, NEW h2 \in Chunk, NEW c1 \in Chunks, NEW h1 \in Chunk,
           Piped(n, w, c3, h3, b3, c2, h2, c1, h1, e)
    PROVE  Piped(n, w, c3, h3, b3, c2, h2, Append(c1, h1), <<>>, e)
<1>1. PICK p \in [1 .. 7 -> Nat] : Line(n, p, w, c3, h3, b3, c2, h2, c1, h1, e)
  BY DEF Piped
<1>2. p[1] \in Nat /\ p[2] \in Nat /\ p[3] \in Nat /\ p[4] \in Nat /\ p[5] \in Nat /\ p[6] \in Nat /\ p[7] \in Nat
  OBVIOUS
<1>3. /\ Seg(n, 0, w, p[1]) /\ Chain(n, p[1], c3, p[2]) /\ Seg(n, p[2], h3, p[3]) /\ Seg(n, p[3], b3, p[4])
      /\ Chain(n, p[4], c2, p[5]) /\ Seg(n, p[5], h2, p[6]) /\ Chain(n, p[6], c1, p[7]) /\ Seg(n, p[7], h1, e)
  BY <1>1 DEF Line
<1>5. Chain(n, p[6], Append(c1, h1), e)
  BY <1>2, <1>3, ChainAppend DEF Chunks
<1>6. Seg(n, e, <<>>, e)
  BY SegEmpty
<1> DEFINE u == [p EXCEPT ![7] = e]
<1>8. /\ u \in [1 .. 7 -> Nat]
      /\ u[1] = p[1] /\ u[2] = p[2] /\ u[3] = p[3]
      /\ u[4] = p[4] /\ u[5] = p[5] /\ u[6] = p[6] /\ u[7] = e
  <2>1. u \in [1 .. 7 -> Nat]
    BY <1>2
  <2>2. /\ u[1] = p[1] /\ u[2] = p[2] /\ u[3] = p[3]
        /\ u[4] = p[4] /\ u[5] = p[5] /\ u[6] = p[6] /\ u[7] = e
    BY <1>2
  <2> QED
    BY <2>1, <2>2
<1> HIDE DEF u
<1>9. Line(n, u, w, c3, h3, b3, c2, h2, Append(c1, h1), <<>>, e)
  BY <1>3, <1>5, <1>6, <1>8 DEF Line
<1> QED
  BY <1>8, <1>9 DEF Piped

\* decompress() enqueues.
LEMMA SecondPut ==
    ASSUME NEW n \in Nat, NEW e \in Nat, NEW w \in Chunk, NEW c3 \in Chunks, NEW h3 \in Chunk,
           NEW b3 \in Chunk, NEW c2 \in Chunks, NEW h2 \in Chunk, NEW c1 \in Chunks, NEW h1 \in Chunk,
           Piped(n, w, c3, h3, b3, c2, h2, c1, h1, e)
    PROVE  Piped(n, w, c3, h3, b3, Append(c2, h2), <<>>, c1, h1, e)
<1>1. PICK p \in [1 .. 7 -> Nat] : Line(n, p, w, c3, h3, b3, c2, h2, c1, h1, e)
  BY DEF Piped
<1>2. p[1] \in Nat /\ p[2] \in Nat /\ p[3] \in Nat /\ p[4] \in Nat /\ p[5] \in Nat /\ p[6] \in Nat /\ p[7] \in Nat
  OBVIOUS
<1>3. /\ Seg(n, 0, w, p[1]) /\ Chain(n, p[1], c3, p[2]) /\ Seg(n, p[2], h3, p[3]) /\ Seg(n, p[3], b3, p[4])
      /\ Chain(n, p[4], c2, p[5]) /\ Seg(n, p[5], h2, p[6]) /\ Chain(n, p[6], c1, p[7]) /\ Seg(n, p[7], h1, e)
  BY <1>1 DEF Line
<1>5. Chain(n, p[4], Append(c2, h2), p[6])
  BY <1>2, <1>3, ChainAppend DEF Chunks
<1>6. Seg(n, p[6], <<>>, p[6])
  BY <1>2, SegEmpty
<1> DEFINE u == [p EXCEPT ![5] = p[6]]
<1>8. /\ u \in [1 .. 7 -> Nat]
      /\ u[1] = p[1] /\ u[2] = p[2] /\ u[3] = p[3]
      /\ u[4] = p[4] /\ u[5] = p[6] /\ u[6] = p[6] /\ u[7] = p[7]
  <2>1. u \in [1 .. 7 -> Nat]
    BY <1>2
  <2>2. /\ u[1] = p[1] /\ u[2] = p[2] /\ u[3] = p[3]
        /\ u[4] = p[4] /\ u[5] = p[6] /\ u[6] = p[6] /\ u[7] = p[7]
    BY <1>2
  <2> QED
    BY <2>1, <2>2
<1> HIDE DEF u
<1>9. Line(n, u, w, c3, h3, b3, Append(c2, h2), <<>>, c1, h1, e)
  BY <1>3, <1>5, <1>6, <1>8 DEF Line
<1> QED
  BY <1>8, <1>9 DEF Piped

\* compress() enqueues.
LEMMA ThirdPut ==
    ASSUME NEW n \in Nat, NEW e \in Nat, NEW w \in Chunk, NEW c3 \in Chunks, NEW h3 \in Chunk,
           NEW b3 \in Chunk, NEW c2 \in Chunks, NEW h2 \in Chunk, NEW c1 \in Chunks, NEW h1 \in Chunk,
           Piped(n, w, c3, h3, b3, c2, h2, c1, h1, e)
    PROVE  Piped(n, w, Append(c3, h3), <<>>, b3, c2, h2, c1, h1, e)
<1>1. PICK p \in [1 .. 7 -> Nat] : Line(n, p, w, c3, h3, b3, c2, h2, c1, h1, e)
  BY DEF Piped
<1>2. p[1] \in Nat /\ p[2] \in Nat /\ p[3] \in Nat /\ p[4] \in Nat /\ p[5] \in Nat /\ p[6] \in Nat /\ p[7] \in Nat
  OBVIOUS
<1>3. /\ Seg(n, 0, w, p[1]) /\ Chain(n, p[1], c3, p[2]) /\ Seg(n, p[2], h3, p[3]) /\ Seg(n, p[3], b3, p[4])
      /\ Chain(n, p[4], c2, p[5]) /\ Seg(n, p[5], h2, p[6]) /\ Chain(n, p[6], c1, p[7]) /\ Seg(n, p[7], h1, e)
  BY <1>1 DEF Line
<1>5. Chain(n, p[1], Append(c3, h3), p[3])
  BY <1>2, <1>3, ChainAppend DEF Chunks
<1>6. Seg(n, p[3], <<>>, p[3])
  BY <1>2, SegEmpty
<1> DEFINE u == [p EXCEPT ![2] = p[3]]
<1>8. /\ u \in [1 .. 7 -> Nat]
      /\ u[1] = p[1] /\ u[2] = p[3] /\ u[3] = p[3]
      /\ u[4] = p[4] /\ u[5] = p[5] /\ u[6] = p[6] /\ u[7] = p[7]
  <2>1. u \in [1 .. 7 -> Nat]
    BY <1>2
  <2>2. /\ u[1] = p[1] /\ u[2] = p[3] /\ u[3] = p[3]
        /\ u[4] = p[4] /\ u[5] = p[5] /\ u[6] = p[6] /\ u[7] = p[7]
    BY <1>2
  <2> QED
    BY <2>1, <2>2
<1> HIDE DEF u
<1>9. Line(n, u, w, Append(c3, h3), <<>>, b3, c2, h2, c1, h1, e)
  BY <1>3, <1>5, <1>6, <1>8 DEF Line
<1> QED
  BY <1>8, <1>9 DEF Piped

\* decompress() dequeues what it enqueues.
LEMMA SecondTake ==
    ASSUME NEW n \in Nat, NEW e \in Nat, NEW w \in Chunk, NEW c3 \in Chunks, NEW h3 \in Chunk,
           NEW b3 \in Chunk, NEW c2 \in Chunks, NEW c1 \in Chunks, NEW h1 \in Chunk,
           Piped(n, w, c3, h3, b3, c2, <<>>, c1, h1, e), c1 # <<>>
    PROVE  Piped(n, w, c3, h3, b3, c2, Head(c1), Tail(c1), h1, e)
<1>1. PICK p \in [1 .. 7 -> Nat] : Line(n, p, w, c3, h3, b3, c2, <<>>, c1, h1, e)
  BY DEF Piped
<1>2. p[1] \in Nat /\ p[2] \in Nat /\ p[3] \in Nat /\ p[4] \in Nat /\ p[5] \in Nat /\ p[6] \in Nat /\ p[7] \in Nat
  OBVIOUS
<1>3. /\ Seg(n, 0, w, p[1]) /\ Chain(n, p[1], c3, p[2]) /\ Seg(n, p[2], h3, p[3]) /\ Seg(n, p[3], b3, p[4])
      /\ Chain(n, p[4], c2, p[5]) /\ Seg(n, p[5], <<>>, p[6]) /\ Chain(n, p[6], c1, p[7]) /\ Seg(n, p[7], h1, e)
  BY <1>1 DEF Line
<1>4. PICK m \in Nat : Seg(n, p[6], Head(c1), m) /\ Chain(n, m, Tail(c1), p[7])
  BY <1>2, <1>3, ChainTail DEF Chunks
<1>5. Seg(n, p[5], Head(c1), m)
  <2>1. p[5] = p[6]
    <3>1. Seg(n, p[5], <<>>, p[6]) /\ p[5] \in Nat /\ p[6] \in Nat
      BY <1>2, <1>3
    <3> QED
      BY <3>1, SegNone
  <2> QED
    BY <1>4, <2>1
<1>6. Chain(n, m, Tail(c1), p[7])
  BY <1>4
<1> DEFINE u == [p EXCEPT ![6] = m]
<1>8. /\ u \in [1 .. 7 -> Nat]
      /\ u[1] = p[1] /\ u[2] = p[2] /\ u[3] = p[3]
      /\ u[4] = p[4] /\ u[5] = p[5] /\ u[6] = m /\ u[7] = p[7]
  <2>1. u \in [1 .. 7 -> Nat]
    BY <1>2, <1>4
  <2>2. /\ u[1] = p[1] /\ u[2] = p[2] /\ u[3] = p[3]
        /\ u[4] = p[4] /\ u[5] = p[5] /\ u[6] = m /\ u[7] = p[7]
    BY <1>2, <1>4
  <2> QED
    BY <2>1, <2>2
<1> HIDE DEF u
<1>9. Line(n, u, w, c3, h3, b3, c2, Head(c1), Tail(c1), h1, e)
  BY <1>3, <1>5, <1>6, <1>8 DEF Line
<1> QED
  BY <1>8, <1>9 DEF Piped

\* compress() dequeues what it holds.
LEMMA ThirdTake ==
    ASSUME NEW n \in Nat, NEW e \in Nat, NEW w \in Chunk, NEW c3 \in Chunks, NEW h3 \in Chunk,
           NEW b3 \in Chunk, NEW c2 \in Chunks, NEW h2 \in Chunk, NEW c1 \in Chunks, NEW h1 \in Chunk,
           Piped(n, w, c3, h3, b3, c2, h2, c1, h1, e), c2 # <<>>
    PROVE  Piped(n, w, c3, h3, b3 \o Head(c2), Tail(c2), h2, c1, h1, e)
<1>1. PICK p \in [1 .. 7 -> Nat] : Line(n, p, w, c3, h3, b3, c2, h2, c1, h1, e)
  BY DEF Piped
<1>2. p[1] \in Nat /\ p[2] \in Nat /\ p[3] \in Nat /\ p[4] \in Nat /\ p[5] \in Nat /\ p[6] \in Nat /\ p[7] \in Nat
  OBVIOUS
<1>3. /\ Seg(n, 0, w, p[1]) /\ Chain(n, p[1], c3, p[2]) /\ Seg(n, p[2], h3, p[3]) /\ Seg(n, p[3], b3, p[4])
      /\ Chain(n, p[4], c2, p[5]) /\ Seg(n, p[5], h2, p[6]) /\ Chain(n, p[6], c1, p[7]) /\ Seg(n, p[7], h1, e)
  BY <1>1 DEF Line
<1>4. PICK m \in Nat : Seg(n, p[4], Head(c2), m) /\ Chain(n, m, Tail(c2), p[5])
  BY <1>2, <1>3, ChainTail DEF Chunks
<1>5. Seg(n, p[3], b3 \o Head(c2), m)
  BY <1>2, <1>3, <1>4, SegJoin
<1>6. Chain(n, m, Tail(c2), p[5])
  BY <1>4
<1> DEFINE u == [p EXCEPT ![4] = m]
<1>8. /\ u \in [1 .. 7 -> Nat]
      /\ u[1] = p[1] /\ u[2] = p[2] /\ u[3] = p[3]
      /\ u[4] = m /\ u[5] = p[5] /\ u[6] = p[6] /\ u[7] = p[7]
  <2>1. u \in [1 .. 7 -> Nat]
    BY <1>2, <1>4
  <2>2. /\ u[1] = p[1] /\ u[2] = p[2] /\ u[3] = p[3]
        /\ u[4] = m /\ u[5] = p[5] /\ u[6] = p[6] /\ u[7] = p[7]
    BY <1>2, <1>4
  <2> QED
    BY <2>1, <2>2
<1> HIDE DEF u
<1>9. Line(n, u, w, c3, h3, b3 \o Head(c2), Tail(c2), h2, c1, h1, e)
  BY <1>3, <1>5, <1>6, <1>8 DEF Line
<1> QED
  BY <1>8, <1>9 DEF Piped

\* compress() gives the first k of the bytes it holds.
LEMMA ThirdGives ==
    ASSUME NEW n \in Nat, NEW e \in Nat, NEW w \in Chunk, NEW c3 \in Chunks, NEW b3 \in Chunk,
           NEW c2 \in Chunks, NEW h2 \in Chunk, NEW c1 \in Chunks, NEW h1 \in Chunk,
           Piped(n, w, c3, <<>>, b3, c2, h2, c1, h1, e), NEW k \in 0 .. Len(b3)
    PROVE  Piped(n, w, c3, SubSeq(b3, 1, k), SubSeq(b3, k + 1, Len(b3)), c2, h2, c1, h1, e)
<1>1. PICK p \in [1 .. 7 -> Nat] : Line(n, p, w, c3, <<>>, b3, c2, h2, c1, h1, e)
  BY DEF Piped
<1>2. p[1] \in Nat /\ p[2] \in Nat /\ p[3] \in Nat /\ p[4] \in Nat /\ p[5] \in Nat /\ p[6] \in Nat /\ p[7] \in Nat
  OBVIOUS
<1>3. /\ Seg(n, 0, w, p[1]) /\ Chain(n, p[1], c3, p[2]) /\ Seg(n, p[2], <<>>, p[3]) /\ Seg(n, p[3], b3, p[4])
      /\ Chain(n, p[4], c2, p[5]) /\ Seg(n, p[5], h2, p[6]) /\ Chain(n, p[6], c1, p[7]) /\ Seg(n, p[7], h1, e)
  BY <1>1 DEF Line
<1>4. p[2] = p[3]
  <2>1. Seg(n, p[2], <<>>, p[3]) /\ p[2] \in Nat /\ p[3] \in Nat
    BY <1>2, <1>3
  <2> QED
    BY <2>1, SegNone
<1>5. Seg(n, p[2], b3, p[4])
  BY <1>3, <1>4
<1> DEFINE f == SubSeq(b3, 1, k)
           g == SubSeq(b3, k + 1, Len(b3))
           m == p[2] + k
<1>6. Seg(n, p[2], f, m) /\ Seg(n, m, g, p[4]) /\ m \in Nat
  <2>1. p[2] \in Nat /\ p[4] \in Nat
    BY <1>2
  <2>2. Seg(n, p[2], b3, p[4]) /\ k \in 0 .. Len(b3) /\ Len(b3) \in Nat
    BY <1>5 DEF Chunk
  <2>3. m \in Nat
    <3>1. k \in Nat
      BY <2>2
    <3>2. \A x, y \in Nat : x + y \in Nat
      OBVIOUS
    <3> QED
      BY <2>1, <3>1, <3>2, Zenon
  <2>4. Seg(n, p[2], f, m)
    BY <2>1, <2>2, SegSplit
  <2>5. Seg(n, m, g, p[4])
    BY <2>1, <2>2, SegSplit
  <2> HIDE DEF f, g, m
  <2> QED
    BY <2>3, <2>4, <2>5
<1> HIDE DEF f, g, m
<1> DEFINE u == [p EXCEPT ![3] = m]
<1>8. /\ u \in [1 .. 7 -> Nat]
      /\ u[1] = p[1] /\ u[2] = p[2] /\ u[3] = m
      /\ u[4] = p[4] /\ u[5] = p[5] /\ u[6] = p[6] /\ u[7] = p[7]
  <2>1. u \in [1 .. 7 -> Nat]
    BY <1>2, <1>6
  <2>2. /\ u[1] = p[1] /\ u[2] = p[2] /\ u[3] = m
        /\ u[4] = p[4] /\ u[5] = p[5] /\ u[6] = p[6] /\ u[7] = p[7]
    BY <1>2
  <2> QED
    BY <2>1, <2>2
<1> HIDE DEF u
<1>9. Line(n, u, w, c3, f, g, c2, h2, c1, h1, e)
  BY <1>3, <1>5, <1>6, <1>8 DEF Line
<1> QED
  BY <1>8, <1>9 DEF Piped, f, g

\* write_file() writes what it dequeues.
LEMMA FourthTake ==
    ASSUME NEW n \in Nat, NEW e \in Nat, NEW w \in Chunk, NEW c3 \in Chunks, NEW h3 \in Chunk,
           NEW b3 \in Chunk, NEW c2 \in Chunks, NEW h2 \in Chunk, NEW c1 \in Chunks, NEW h1 \in Chunk,
           Piped(n, w, c3, h3, b3, c2, h2, c1, h1, e), c3 # <<>>
    PROVE  Piped(n, w \o Head(c3), Tail(c3), h3, b3, c2, h2, c1, h1, e)
<1>1. PICK p \in [1 .. 7 -> Nat] : Line(n, p, w, c3, h3, b3, c2, h2, c1, h1, e)
  BY DEF Piped
<1>2. p[1] \in Nat /\ p[2] \in Nat /\ p[3] \in Nat /\ p[4] \in Nat /\ p[5] \in Nat /\ p[6] \in Nat /\ p[7] \in Nat
  OBVIOUS
<1>3. /\ Seg(n, 0, w, p[1]) /\ Chain(n, p[1], c3, p[2]) /\ Seg(n, p[2], h3, p[3]) /\ Seg(n, p[3], b3, p[4])
      /\ Chain(n, p[4], c2, p[5]) /\ Seg(n, p[5], h2, p[6]) /\ Chain(n, p[6], c1, p[7]) /\ Seg(n, p[7], h1, e)
  BY <1>1 DEF Line
<1>4. PICK m \in Nat : Seg(n, p[1], Head(c3), m) /\ Chain(n, m, Tail(c3), p[2])
  BY <1>2, <1>3, ChainTail DEF Chunks
<1>5. Seg(n, 0, w \o Head(c3), m)
  BY <1>2, <1>3, <1>4, SegJoin
<1>6. Chain(n, m, Tail(c3), p[2])
  BY <1>4
<1> DEFINE u == [p EXCEPT ![1] = m]
<1>8. /\ u \in [1 .. 7 -> Nat]
      /\ u[1] = m /\ u[2] = p[2] /\ u[3] = p[3]
      /\ u[4] = p[4] /\ u[5] = p[5] /\ u[6] = p[6] /\ u[7] = p[7]
  <2>1. u \in [1 .. 7 -> Nat]
    BY <1>2, <1>4
  <2>2. /\ u[1] = m /\ u[2] = p[2] /\ u[3] = p[3]
        /\ u[4] = p[4] /\ u[5] = p[5] /\ u[6] = p[6] /\ u[7] = p[7]
    BY <1>2, <1>4
  <2> QED
    BY <2>1, <2>2
<1> HIDE DEF u
<1>9. Line(n, u, w \o Head(c3), Tail(c3), h3, b3, c2, h2, c1, h1, e)
  BY <1>3, <1>5, <1>6, <1>8 DEF Line
<1> QED
  BY <1>8, <1>9 DEF Piped

\* compress() ends: all of the source is past it, and the end of the frame follows.
LEMMA EndPiped ==
    ASSUME NEW n \in Nat, NEW w \in Chunk, NEW c3 \in Chunks, NEW b3 \in Chunk,
           Piped(n, w, c3, <<>>, b3, <<>>, <<>>, <<>>, <<>>, n)
    PROVE  Piped(n, w, c3, Append(b3, 0), <<>>, <<>>, <<>>, <<>>, <<>>, n + 1)
<1>1. PICK p \in [1 .. 7 -> Nat] : Line(n, p, w, c3, <<>>, b3, <<>>, <<>>, <<>>, <<>>, n)
  BY DEF Piped
<1>2. \A i \in 1 .. 7 : p[i] \in Nat
  OBVIOUS
<1>3. /\ Seg(n, 0, w, p[1]) /\ Chain(n, p[1], c3, p[2]) /\ Seg(n, p[2], <<>>, p[3]) /\ Seg(n, p[3], b3, p[4])
      /\ Chain(n, p[4], <<>>, p[5]) /\ Seg(n, p[5], <<>>, p[6]) /\ Chain(n, p[6], <<>>, p[7])
      /\ Seg(n, p[7], <<>>, n)
  BY <1>1 DEF Line
<1>4. p[2] = p[3]
  <2>1. Seg(n, p[2], <<>>, p[3]) /\ p[2] \in Nat /\ p[3] \in Nat
    BY <1>2, <1>3
  <2> QED
    BY <2>1, SegNone
<1>5. p[4] = n
  <2>1. p[4] = p[5]
    <3>1. Chain(n, p[4], <<>>, p[5]) /\ p[4] \in Nat /\ p[5] \in Nat
      BY <1>2, <1>3
    <3> QED
      BY <3>1, ChainEmpty
  <2>2. p[5] = p[6]
    <3>1. Seg(n, p[5], <<>>, p[6]) /\ p[5] \in Nat /\ p[6] \in Nat
      BY <1>2, <1>3
    <3> QED
      BY <3>1, SegNone
  <2>3. p[6] = p[7]
    <3>1. Chain(n, p[6], <<>>, p[7]) /\ p[6] \in Nat /\ p[7] \in Nat
      BY <1>2, <1>3
    <3> QED
      BY <3>1, ChainEmpty
  <2>4. p[7] = n
    <3>1. Seg(n, p[7], <<>>, n) /\ p[7] \in Nat /\ n \in Nat
      BY <1>2, <1>3
    <3> QED
      BY <3>1, SegNone
  <2> QED
    BY <2>1, <2>2, <2>3, <2>4
<1>6. Seg(n, p[2], Append(b3, 0), n + 1)
  <2>1. Seg(n, n, <<0>>, n + 1)
    <3>1. Run(n, n, n + 1) = <<0>>
      BY DEF Run
    <3> QED
      BY <3>1 DEF Seg
  <2>2. Seg(n, p[2], b3, n)
    BY <1>3, <1>4, <1>5
  <2>3. Seg(n, p[2], b3 \o <<0>>, n + 1)
    <3>1. p[2] \in Nat /\ n + 1 \in Nat
      BY <1>2
    <3> QED
      BY <2>1, <2>2, <3>1, SegJoin
  <2>4. b3 \o <<0>> = Append(b3, 0)
    BY DEF Chunk
  <2> QED
    BY <2>3, <2>4
<1> DEFINE u == [i \in 1 .. 7 |-> IF i < 3 THEN p[i] ELSE n + 1]
<1>7. u \in [1 .. 7 -> Nat] /\ u[1] = p[1] /\ u[2] = p[2] /\ \A i \in 3 .. 7 : u[i] = n + 1
  BY <1>2
<1> HIDE DEF u
<1>8. Seg(n, n + 1, <<>>, n + 1) /\ Chain(n, n + 1, <<>>, n + 1)
  BY SegEmpty, ChainEmpty
<1>9. Line(n, u, w, c3, Append(b3, 0), <<>>, <<>>, <<>>, <<>>, <<>>, n + 1)
  BY <1>3, <1>6, <1>7, <1>8 DEF Line
<1> QED
  BY <1>7, <1>9 DEF Piped

\* Everything was written.
LEMMA AllPiped ==
    ASSUME NEW n \in Nat, NEW e \in Nat, NEW w, Piped(n, w, <<>>, <<>>, <<>>, <<>>, <<>>, <<>>, <<>>, e)
    PROVE  Seg(n, 0, w, e)
<1>1. PICK p \in [1 .. 7 -> Nat] : Line(n, p, w, <<>>, <<>>, <<>>, <<>>, <<>>, <<>>, <<>>, e)
  BY DEF Piped
<1>2. \A i \in 1 .. 7 : p[i] \in Nat
  OBVIOUS
<1>3. /\ Seg(n, 0, w, p[1]) /\ Chain(n, p[1], <<>>, p[2]) /\ Seg(n, p[2], <<>>, p[3]) /\ Seg(n, p[3], <<>>, p[4])
      /\ Chain(n, p[4], <<>>, p[5]) /\ Seg(n, p[5], <<>>, p[6]) /\ Chain(n, p[6], <<>>, p[7])
      /\ Seg(n, p[7], <<>>, e)
  BY <1>1 DEF Line
<1>4. p[1] = p[2]
  <2>1. Chain(n, p[1], <<>>, p[2]) /\ p[1] \in Nat /\ p[2] \in Nat
    BY <1>2, <1>3
  <2> QED
    BY <2>1, ChainEmpty
<1>5. p[2] = p[3]
  <2>1. Seg(n, p[2], <<>>, p[3]) /\ p[2] \in Nat /\ p[3] \in Nat
    BY <1>2, <1>3
  <2> QED
    BY <2>1, SegNone
<1>6. p[3] = p[4]
  <2>1. Seg(n, p[3], <<>>, p[4]) /\ p[3] \in Nat /\ p[4] \in Nat
    BY <1>2, <1>3
  <2> QED
    BY <2>1, SegNone
<1>7. p[4] = e
  <2>1. p[4] = p[5]
    <3>1. Chain(n, p[4], <<>>, p[5]) /\ p[4] \in Nat /\ p[5] \in Nat
      BY <1>2, <1>3
    <3> QED
      BY <3>1, ChainEmpty
  <2>2. p[5] = p[6]
    <3>1. Seg(n, p[5], <<>>, p[6]) /\ p[5] \in Nat /\ p[6] \in Nat
      BY <1>2, <1>3
    <3> QED
      BY <3>1, SegNone
  <2>3. p[6] = p[7]
    <3>1. Chain(n, p[6], <<>>, p[7]) /\ p[6] \in Nat /\ p[7] \in Nat
      BY <1>2, <1>3
    <3> QED
      BY <3>1, ChainEmpty
  <2>4. p[7] = e
    <3>1. Seg(n, p[7], <<>>, e) /\ p[7] \in Nat /\ e \in Nat
      BY <1>2, <1>3
    <3> QED
      BY <3>1, SegNone
  <2> QED
    BY <2>1, <2>2, <2>3, <2>4
<1> QED
  BY <1>3, <1>4, <1>5, <1>6, <1>7

Unfailed == \A t \in Pipe!Tasks : taskPc[t] # "failed"
Reached  == (Pipe!NHalf - unread) + (IF taskPc[3] \in {"last", "done"} THEN 1 ELSE 0)

PipeTypes ==
    /\ app = "compr_conv" /\ items \in Files
    /\ taskPc \in [1 .. 4 -> {"run", "put", "last", "done", "failed"}]
    /\ chunks \in [1 .. 3 -> Chunks] /\ endMarked \in [1 .. 3 -> BOOLEAN]
    /\ hand \in [1 .. 4 -> Chunk] /\ held \in [1 .. 4 -> Chunk]
    /\ written \in Chunk /\ unread \in 0 .. Pipe!NHalf
    /\ taskPc[4] \in {"run", "done", "failed"}

PipedInv == Piped(Pipe!NHalf, written, chunks[3], hand[3], held[3], chunks[2], hand[2], chunks[1], hand[1],
                  Reached)

Flow ==
    /\ \A t \in 1 .. 3 : endMarked[t] <=> taskPc[t] = "done"
    /\ \A t \in 1 .. 3 : taskPc[t] \in {"run", "done"} => hand[t] = <<>>
    /\ held[2] = <<>> /\ taskPc[1] # "last" /\ taskPc[2] # "last"
    /\ taskPc[1] = "done" => unread = 0
    /\ taskPc[2] = "done" => taskPc[1] = "done" /\ chunks[1] = <<>>
    /\ taskPc[3] \in {"last", "done"} => taskPc[2] = "done" /\ chunks[2] = <<>> /\ held[3] = <<>>
    /\ taskPc[4] = "done" => taskPc[3] = "done" /\ chunks[3] = <<>>

PipeInv == PipeTypes /\ (Unfailed => Flow /\ PipedInv)

\* The source has a length.
LEMMA HalvesNat ==
    ASSUME Pipe!FilesAssumption, items \in Files
    PROVE  Pipe!NHalf \in Nat
  BY DEF Pipe!FilesAssumption, Pipe!NHalf

\* When all tasks are done, everything was written.
LEMMA ConvEnd ==
    ASSUME Pipe!FilesAssumption, PipeInv
    PROVE  Pipe!NothingLost
<1> DEFINE n == Pipe!NHalf
<1>1. n \in Nat /\ app = "compr_conv"
  BY HalvesNat DEF PipeInv, PipeTypes
<1>2. ASSUME Pipe!AllDone PROVE written = Append([i \in 1 .. n |-> i], 0)
  <2>1. taskPc[1] = "done" /\ taskPc[2] = "done" /\ taskPc[3] = "done" /\ taskPc[4] = "done" /\ Unfailed
    BY <1>2 DEF Pipe!AllDone, Pipe!Tasks, Unfailed
  <2>2. Flow /\ PipedInv
    BY <2>1 DEF PipeInv
  <2>3. /\ chunks[1] = <<>> /\ chunks[2] = <<>> /\ chunks[3] = <<>> /\ held[3] = <<>>
        /\ hand[1] = <<>> /\ hand[2] = <<>> /\ hand[3] = <<>> /\ unread = 0
    BY <2>1, <2>2 DEF Flow
  <2>4. Reached = n + 1
    BY <1>1, <2>1, <2>3 DEF Reached
  <2>5. Piped(n, written, <<>>, <<>>, <<>>, <<>>, <<>>, <<>>, <<>>, n + 1)
    BY <2>2, <2>3, <2>4 DEF PipedInv
  <2> HIDE DEF n
  <2>6. Seg(n, 0, written, n + 1)
    BY <1>1, <2>5, AllPiped
  <2>7. written = Run(n, 0, n + 1)
    BY <2>6 DEF Seg
  <2>8. Run(n, 0, n + 1) = Append([i \in 1 .. n |-> i], 0)
    <3> DEFINE u == Run(n, 0, n + 1)
               v == [i \in 1 .. n |-> i]
    <3>1. u \in Seq(Nat) /\ Len(u) = n + 1 /\ \A i \in 1 .. n + 1 : u[i] = IF i <= n THEN i ELSE 0
      BY <1>1 DEF Run
    <3>2. v \in Seq(Nat) /\ Len(v) = n /\ \A i \in 1 .. n : v[i] = i
      BY <1>1
    <3> HIDE DEF u, v
    <3>3. /\ Append(v, 0) \in Seq(Nat) /\ Len(Append(v, 0)) = n + 1 /\ Append(v, 0)[n + 1] = 0
          /\ \A i \in 1 .. n : Append(v, 0)[i] = v[i]
      BY <3>2, AppendProperties
    <3>4. ASSUME NEW i \in 1 .. Len(u) PROVE u[i] = Append(v, 0)[i]
      <4>1. i \in 1 .. n + 1 /\ (i <= n => i \in 1 .. n) /\ (~(i <= n) => i = n + 1)
        BY <1>1, <3>1
      <4> QED
        BY <3>1, <3>2, <3>3, <4>1
    <3>5. u = Append(v, 0)
      BY <3>1, <3>3, <3>4, SeqEqual
    <3> QED
      BY <3>5 DEF u, v
  <2> QED
    BY <2>7, <2>8
<1> QED
  BY <1>1, <1>2 DEF Pipe!NothingLost

\* The variables of PipeTypes, one by one
LEMMA PipeFacts ==
    ASSUME PipeTypes
    PROVE  /\ taskPc \in [1 .. 4 -> {"run", "put", "last", "done", "failed"}]
           /\ endMarked \in [1 .. 3 -> BOOLEAN]
           /\ chunks \in [1 .. 3 -> Chunks] /\ hand \in [1 .. 4 -> Chunk] /\ held \in [1 .. 4 -> Chunk]
           /\ \A t \in 1 .. 3 : chunks[t] \in Chunks /\ hand[t] \in Chunk /\ held[t] \in Chunk
           /\ written \in Chunk /\ unread \in 0 .. Pipe!NHalf
<1>1. chunks \in [1 .. 3 -> Chunks] /\ hand \in [1 .. 4 -> Chunk] /\ held \in [1 .. 4 -> Chunk]
  BY DEF PipeTypes
<1>2. \A t \in 1 .. 3 : chunks[t] \in Chunks
  BY <1>1
<1>3. \A t \in 1 .. 3 : hand[t] \in Chunk /\ held[t] \in Chunk
  BY <1>1
<1>4. taskPc \in [1 .. 4 -> {"run", "put", "last", "done", "failed"}] /\ endMarked \in [1 .. 3 -> BOOLEAN]
  BY DEF PipeTypes
<1>5. written \in Chunk /\ unread \in 0 .. Pipe!NHalf
  BY DEF PipeTypes
<1> QED
  BY <1>1, <1>2, <1>3, <1>4, <1>5

\* enqueue(), and mark_end() after the last one, keep the line.
LEMMA PutKeeps ==
    ASSUME Pipe!FilesAssumption, PipeInv, NEW t \in 1 .. 3, Pipe!Put(t), Unfailed'
    PROVE  Flow' /\ PipedInv'
<1> DEFINE n == Pipe!NHalf
<1>1. n \in Nat /\ PipeTypes
  BY HalvesNat DEF PipeInv, PipeTypes
<1>2. /\ taskPc[t] \in {"put", "last"}
      /\ chunks' = [chunks EXCEPT ![t] = Append(@, hand[t])]
      /\ hand' = [hand EXCEPT ![t] = <<>>]
      /\ endMarked' = [endMarked EXCEPT ![t] = @ \/ taskPc[t] = "last"]
      /\ taskPc' = [taskPc EXCEPT ![t] = IF taskPc[t] = "last" THEN "done" ELSE "run"]
      /\ UNCHANGED <<app, items, unread, held, written>>
  BY DEF Pipe!Put, Pipe!Data
<1>3. /\ taskPc \in [1 .. 4 -> {"run", "put", "last", "done", "failed"}]
      /\ endMarked \in [1 .. 3 -> BOOLEAN]
  BY <1>1, PipeFacts
<1>4. /\ chunks \in [1 .. 3 -> Chunks] /\ hand \in [1 .. 4 -> Chunk]
      /\ \A i \in 1 .. 3 : chunks[i] \in Chunks /\ hand[i] \in Chunk /\ held[i] \in Chunk
      /\ written \in Chunk
  BY <1>1, PipeFacts
<1>5. /\ \A i \in (1 .. 3) \ {t} : chunks'[i] = chunks[i] /\ hand'[i] = hand[i]
      /\ chunks'[t] = Append(chunks[t], hand[t]) /\ hand'[t] = <<>>
  BY <1>2, <1>4
<1>6. /\ \A i \in (1 .. 4) \ {t} : taskPc'[i] = taskPc[i]
      /\ taskPc'[t] = IF taskPc[t] = "last" THEN "done" ELSE "run"
      /\ \A i \in (1 .. 3) \ {t} : endMarked'[i] = endMarked[i]
      /\ endMarked'[t] = (endMarked[t] \/ taskPc[t] = "last")
  BY <1>2, <1>3
<1>7. Unfailed
  BY <1>2, <1>6 DEF Unfailed, Pipe!Tasks
<1>8. Flow /\ PipedInv
  BY <1>7 DEF PipeInv
<1>9. Flow'
  <2>1. ASSUME NEW i \in 1 .. 3 PROVE endMarked'[i] <=> taskPc'[i] = "done"
    <3>1. endMarked[i] <=> taskPc[i] = "done"
      BY <1>8 DEF Flow
    <3>2. CASE i = t
      <4>1. endMarked'[t] = (endMarked[t] \/ taskPc[t] = "last") /\ ~endMarked[t]
        BY <1>2, <1>6, <3>1, <3>2
      <4>2. taskPc'[t] = "done" <=> taskPc[t] = "last"
        BY <1>6
      <4> QED
        BY <3>2, <4>1, <4>2, Zenon
    <3>3. CASE i # t
      BY <1>6, <3>1, <3>3
    <3> QED
      BY <3>2, <3>3
  <2>2. \A i \in 1 .. 3 : taskPc'[i] \in {"run", "done"} => hand'[i] = <<>>
    BY <1>2, <1>5, <1>6, <1>8 DEF Flow
  <2>3. held'[2] = <<>> /\ taskPc'[1] # "last" /\ taskPc'[2] # "last"
    BY <1>2, <1>6, <1>8 DEF Flow
  <2>4. taskPc'[1] = "done" => unread' = 0
    BY <1>2, <1>6, <1>8 DEF Flow
  <2>5. taskPc'[2] = "done" => taskPc'[1] = "done" /\ chunks'[1] = <<>>
    BY <1>2, <1>5, <1>6, <1>8 DEF Flow
  <2>6. taskPc'[3] \in {"last", "done"} => taskPc'[2] = "done" /\ chunks'[2] = <<>> /\ held'[3] = <<>>
    BY <1>2, <1>5, <1>6, <1>8 DEF Flow
  <2>7. taskPc'[4] = "done" => taskPc'[3] = "done" /\ chunks'[3] = <<>>
    BY <1>2, <1>5, <1>6, <1>8 DEF Flow
  <2> QED
    BY <2>1, <2>2, <2>3, <2>4, <2>5, <2>6, <2>7 DEF Flow
<1>10. Reached' = Reached /\ n' = n /\ Reached \in Nat
  <2>1. n' = n /\ unread' = unread
    BY <1>2 DEF Pipe!NHalf
  <2>2. taskPc'[3] \in {"last", "done"} <=> taskPc[3] \in {"last", "done"}
    <3>1. CASE t = 3
      BY <1>2, <1>6, <3>1
    <3>2. CASE t # 3
      BY <1>6, <3>2
    <3> QED
      BY <3>1, <3>2
  <2>3. unread \in 0 .. n
    BY <1>1 DEF PipeTypes
  <2> QED
    BY <1>1, <2>1, <2>2, <2>3 DEF Reached
<1> HIDE DEF n
<1>11. Piped(n, written, chunks[3], hand[3], held[3], chunks[2], hand[2], chunks[1], hand[1], Reached)
  BY <1>8 DEF PipedInv, n
<1>12. /\ chunks[1] \in Chunks /\ chunks[2] \in Chunks /\ chunks[3] \in Chunks
       /\ hand[1] \in Chunk /\ hand[2] \in Chunk /\ hand[3] \in Chunk /\ held[3] \in Chunk /\ written \in Chunk
  BY <1>4
<1>13. Piped(n, written, chunks'[3], hand'[3], held[3], chunks'[2], hand'[2], chunks'[1], hand'[1], Reached)
  <2>1. CASE t = 1
    <3>1. Piped(n, written, chunks[3], hand[3],
                held[3], chunks[2], hand[2], Append(chunks[1], hand[1]), <<>>, Reached)
      BY <1>1, <1>12, <1>10, <1>11, FirstPut
    <3>2. chunks'[1] = Append(chunks[1], hand[1]) /\ hand'[1] = <<>>
      BY <1>5, <2>1
    <3>3. \A i \in {2, 3} : chunks'[i] = chunks[i] /\ hand'[i] = hand[i]
      BY <1>5, <2>1
    <3> QED
      BY <3>1, <3>2, <3>3
  <2>2. CASE t = 2
    <3>1. Piped(n, written, chunks[3], hand[3],
                held[3], Append(chunks[2], hand[2]), <<>>, chunks[1], hand[1], Reached)
      BY <1>1, <1>12, <1>10, <1>11, SecondPut
    <3>2. chunks'[2] = Append(chunks[2], hand[2]) /\ hand'[2] = <<>>
      BY <1>5, <2>2
    <3>3. \A i \in {1, 3} : chunks'[i] = chunks[i] /\ hand'[i] = hand[i]
      BY <1>5, <2>2
    <3> QED
      BY <3>1, <3>2, <3>3
  <2>3. CASE t = 3
    <3>1. Piped(n, written, Append(chunks[3], hand[3]), <<>>,
                held[3], chunks[2], hand[2], chunks[1], hand[1], Reached)
      BY <1>1, <1>12, <1>10, <1>11, ThirdPut
    <3>2. chunks'[3] = Append(chunks[3], hand[3]) /\ hand'[3] = <<>>
      BY <1>5, <2>3
    <3>3. \A i \in {1, 2} : chunks'[i] = chunks[i] /\ hand'[i] = hand[i]
      BY <1>5, <2>3
    <3> QED
      BY <3>1, <3>2, <3>3
  <2> QED
    BY <2>1, <2>2, <2>3
<1>14. PipedInv'
  BY <1>2, <1>10, <1>13 DEF PipedInv, n
<1> QED
  BY <1>9, <1>14

\* What happens in compr_conv
LEMMA PipeSteps ==
    ASSUME PipeTypes, Pipe!Next
    PROVE  \/ \E t \in 1 .. 4 : Pipe!Canceled(t)
           \/ \E t \in 1 .. 3 : Pipe!Put(t)
           \/ Pipe!ReadFile \/ Pipe!Decompress \/ Pipe!Compress \/ Pipe!WriteFile
<1>1. app # "wiki_hist" /\ taskPc[4] # "post"
  BY DEF PipeTypes
<1>2. PICK t \in 1 .. 4 : Pipe!StepOf(t)
  BY DEF Pipe!Next, Pipe!Tasks
<1>3. ~Pipe!ParseJson /\ ~Pipe!PopulateDb /\ ~Pipe!PostItem /\ ~Pipe!PostEnd
  BY <1>1 DEF Pipe!ParseJson, Pipe!PopulateDb, Pipe!PostItem, Pipe!PostEnd
<1>4. t <= 3 => t \in 1 .. 3
  OBVIOUS
<1> QED
  BY <1>2, <1>3, <1>4 DEF Pipe!StepOf

\* What Hand(t, h, last) leaves, place by place
Handed(t, h) ==
    /\ hand' \in [1 .. 4 -> Chunk] /\ endMarked' \in [1 .. 3 -> BOOLEAN]
    /\ taskPc' \in [1 .. 4 -> {"run", "put", "last", "done", "failed"}] /\ taskPc'[4] = taskPc[4]
    /\ hand'[t] = h /\ \A i \in (1 .. 3) \ {t} : hand'[i] = hand[i]
    /\ \A i \in (1 .. 3) \ {t} : taskPc'[i] = taskPc[i] /\ endMarked'[i] = endMarked[i]

\* A chunk before the end ...
LEMMA HandsOn ==
    ASSUME PipeTypes, NEW t \in 1 .. 3, NEW h \in Chunk, Pipe!Hand(t, h, FALSE)
    PROVE  /\ Handed(t, h)
           /\ h # <<>> => taskPc'[t] = "put"
           /\ h = <<>> => taskPc'[t] = "run"
           /\ endMarked'[t] <=> endMarked[t]
<1>1. hand \in [1 .. 4 -> Chunk] /\ endMarked \in [1 .. 3 -> BOOLEAN]
      /\ taskPc \in [1 .. 4 -> {"run", "put", "last", "done", "failed"}]
  BY PipeFacts
<1> DEFINE c == IF h # <<>> THEN "put" ELSE "run"
           e == endMarked[t] \/ (FALSE /\ h = <<>>)
<1>2. /\ hand' = [hand EXCEPT ![t] = h] /\ taskPc' = [taskPc EXCEPT ![t] = c]
      /\ endMarked' = [endMarked EXCEPT ![t] = e]
  BY DEF Pipe!Hand
<1>3. c \in {"run", "put", "last", "done"} /\ (h # <<>> => c = "put") /\ (h = <<>> => c = "run")
  OBVIOUS
<1>4. e \in BOOLEAN
  OBVIOUS
<1> HIDE DEF c
<1>5. hand' \in [1 .. 4 -> Chunk] /\ hand'[t] = h /\ \A i \in (1 .. 3) \ {t} : hand'[i] = hand[i]
  BY <1>1, <1>2
<1>6. /\ taskPc' \in [1 .. 4 -> {"run", "put", "last", "done", "failed"}] /\ taskPc'[t] = c
      /\ \A i \in (1 .. 4) \ {t} : taskPc'[i] = taskPc[i]
  BY <1>1, <1>2, <1>3
<1>7. (endMarked'[t] <=> endMarked[t])
  BY <1>1, <1>2, Zenon
<1> HIDE DEF e
<1>8. endMarked' \in [1 .. 3 -> BOOLEAN] /\ \A i \in (1 .. 3) \ {t} : endMarked'[i] = endMarked[i]
  BY <1>1, <1>2, <1>4
<1>9. Handed(t, h)
  BY <1>5, <1>6, <1>8 DEF Handed
<1> QED
  BY <1>3, <1>6, <1>7, <1>9

\* ... and the last one
LEMMA HandsLast ==
    ASSUME PipeTypes, NEW t \in 1 .. 3, NEW h \in Chunk, Pipe!Hand(t, h, TRUE)
    PROVE  /\ Handed(t, h)
           /\ h # <<>> => taskPc'[t] = "last"
           /\ h = <<>> => taskPc'[t] = "done"
           /\ endMarked'[t] <=> endMarked[t] \/ h = <<>>
<1>1. hand \in [1 .. 4 -> Chunk] /\ endMarked \in [1 .. 3 -> BOOLEAN]
      /\ taskPc \in [1 .. 4 -> {"run", "put", "last", "done", "failed"}]
  BY PipeFacts
<1> DEFINE c == IF h # <<>> THEN "last" ELSE "done"
           e == endMarked[t] \/ (TRUE /\ h = <<>>)
<1>2. /\ hand' = [hand EXCEPT ![t] = h] /\ taskPc' = [taskPc EXCEPT ![t] = c]
      /\ endMarked' = [endMarked EXCEPT ![t] = e]
  BY DEF Pipe!Hand
<1>3. c \in {"run", "put", "last", "done"} /\ (h # <<>> => c = "last") /\ (h = <<>> => c = "done")
  OBVIOUS
<1>4. e \in BOOLEAN
  OBVIOUS
<1> HIDE DEF c
<1>5. hand' \in [1 .. 4 -> Chunk] /\ hand'[t] = h /\ \A i \in (1 .. 3) \ {t} : hand'[i] = hand[i]
  BY <1>1, <1>2
<1>6. /\ taskPc' \in [1 .. 4 -> {"run", "put", "last", "done", "failed"}] /\ taskPc'[t] = c
      /\ \A i \in (1 .. 4) \ {t} : taskPc'[i] = taskPc[i]
  BY <1>1, <1>2, <1>3
<1>7. (endMarked'[t] <=> endMarked[t] \/ h = <<>>)
  BY <1>1, <1>2, Zenon
<1> HIDE DEF e
<1>8. endMarked' \in [1 .. 3 -> BOOLEAN] /\ \A i \in (1 .. 3) \ {t} : endMarked'[i] = endMarked[i]
  BY <1>1, <1>2, <1>4
<1>9. Handed(t, h)
  BY <1>5, <1>6, <1>8 DEF Handed
<1> QED
  BY <1>3, <1>6, <1>7, <1>9

\* Taken(t), place by place
LEMMA TakenFacts ==
    ASSUME PipeTypes, NEW t \in 2 .. 4, chunks' = Pipe!Taken(t), chunks[t - 1] # <<>>
    PROVE  /\ chunks' \in [1 .. 3 -> Chunks] /\ chunks'[t - 1] = Tail(chunks[t - 1])
           /\ Pipe!Next1(t) = Head(chunks[t - 1]) /\ Head(chunks[t - 1]) \in Chunk
           /\ \A i \in (1 .. 3) \ {t - 1} : chunks'[i] = chunks[i]
<1>1. chunks \in [1 .. 3 -> Chunks] /\ t - 1 \in 1 .. 3
  BY PipeFacts
<1>2. chunks' = [chunks EXCEPT ![t - 1] = Tail(@)] /\ Pipe!Next1(t) = Head(chunks[t - 1])
  BY DEF Pipe!Taken, Pipe!Next1
<1>3. Tail(chunks[t - 1]) \in Chunks /\ Head(chunks[t - 1]) \in Chunk
  <2>1. chunks[t - 1] \in Seq(Chunk)
    BY <1>1 DEF Chunks
  <2> QED
    BY <2>1, HeadTailProperties DEF Chunks
<1> QED
  BY <1>1, <1>2, <1>3

\* read_file() puts the next of the source at the end of the line.
LEMMA ReadKeeps ==
    ASSUME Pipe!FilesAssumption, PipeInv, Pipe!ReadFile
    PROVE  PipeTypes' /\ (Unfailed' => Flow' /\ PipedInv')
<1> DEFINE n == Pipe!NHalf
<1>1. n \in Nat /\ PipeTypes /\ unread \in 0 .. n
  BY HalvesNat DEF PipeInv, PipeTypes
<1>2. taskPc[1] = "run" /\ UNCHANGED <<app, items, chunks, held, written>>
  BY DEF Pipe!ReadFile
<1>3. n' = n
  BY <1>2 DEF Pipe!NHalf
<1>4. CASE Pipe!Fail(1) /\ UNCHANGED <<unread, hand, endMarked>>
  <2>1. taskPc' = [taskPc EXCEPT ![1] = "failed"]
    BY <1>4 DEF Pipe!Fail
  <2>2. taskPc' \in [1 .. 4 -> {"run", "put", "last", "done", "failed"}] /\ taskPc'[4] = taskPc[4]
        /\ taskPc'[1] = "failed"
    BY <1>1, <2>1, PipeFacts
  <2>3. ~Unfailed'
    BY <2>2 DEF Unfailed, Pipe!Tasks
  <2>4. PipeTypes'
    BY <1>1, <1>2, <1>3, <1>4, <2>2 DEF PipeTypes
  <2> QED
    BY <2>3, <2>4
<1>5. CASE unread = 0 /\ Pipe!Hand(1, <<>>, TRUE) /\ unread' = unread
  <2>1. <<>> \in Chunk
    BY DEF Chunk
  <2>2. /\ hand' \in [1 .. 4 -> Chunk] /\ endMarked' \in [1 .. 3 -> BOOLEAN]
        /\ taskPc' \in [1 .. 4 -> {"run", "put", "last", "done", "failed"}] /\ taskPc'[4] = taskPc[4]
        /\ hand'[1] = <<>> /\ hand'[2] = hand[2] /\ hand'[3] = hand[3] /\ taskPc'[1] = "done"
        /\ (endMarked'[1] <=> TRUE)
        /\ \A i \in (1 .. 3) \ {1} : taskPc'[i] = taskPc[i] /\ endMarked'[i] = endMarked[i]
    <3>1. Handed(1, <<>>) /\ taskPc'[1] = "done" /\ (endMarked'[1] <=> TRUE)
      <4>1. 1 \in 1 .. 3
        OBVIOUS
      <4> QED
        BY <1>1, <1>5, <2>1, <4>1, HandsLast, Zenon
    <3>2. hand'[2] = hand[2] /\ hand'[3] = hand[3]
      BY <3>1 DEF Handed
    <3> QED
      BY <3>1, <3>2 DEF Handed
  <2>3. PipeTypes'
    BY <1>1, <1>2, <1>3, <1>5, <2>2 DEF PipeTypes
  <2>4. ASSUME Unfailed' PROVE Flow' /\ PipedInv'
    <3>1. Unfailed
      BY <1>2, <2>2, <2>4 DEF Unfailed, Pipe!Tasks
    <3>2. Flow /\ PipedInv
      BY <3>1 DEF PipeInv
    <3>3. Flow'
      BY <1>2, <1>5, <2>2, <3>2 DEF Flow
    <3>4. hand[1] = <<>>
      BY <1>2, <3>2 DEF Flow
    <3>5. Reached' = Reached
      BY <1>3, <1>5, <2>2 DEF Reached
    <3>6. PipedInv'
      BY <1>2, <1>3, <2>2, <3>2, <3>4, <3>5 DEF PipedInv
    <3> QED
      BY <3>3, <3>6
  <2> QED
    BY <2>3, <2>4
<1>6. ASSUME NEW k \in 1 .. IF unread < 3 THEN unread ELSE 3,
             Pipe!Hand(1, [i \in 1 .. k |-> n - unread + i], FALSE), unread' = unread - k
      PROVE  PipeTypes' /\ (Unfailed' => Flow' /\ PipedInv')
  <2> DEFINE x == [i \in 1 .. k |-> n - unread + i]
  <2>1. x \in Chunk /\ x # <<>> /\ k \in Nat /\ k <= unread /\ k > 0
    BY <1>1, <1>6 DEF Chunk
  <2>2. /\ hand' \in [1 .. 4 -> Chunk] /\ endMarked' \in [1 .. 3 -> BOOLEAN]
        /\ taskPc' \in [1 .. 4 -> {"run", "put", "last", "done", "failed"}] /\ taskPc'[4] = taskPc[4]
        /\ hand'[1] = x /\ hand'[2] = hand[2] /\ hand'[3] = hand[3] /\ taskPc'[1] = "put"
        /\ (endMarked'[1] <=> endMarked[1])
        /\ \A i \in (1 .. 3) \ {1} : taskPc'[i] = taskPc[i] /\ endMarked'[i] = endMarked[i]
    <3>1. Pipe!Hand(1, x, FALSE)
      BY <1>6
    <3> HIDE DEF x
    <3> QED
      <4>1. Handed(1, x) /\ taskPc'[1] = "put" /\ (endMarked'[1] <=> endMarked[1])
        <5>1. 1 \in 1 .. 3
          OBVIOUS
        <5> QED
          BY <1>1, <2>1, <3>1, <5>1, HandsOn, Zenon
      <4>2. hand'[2] = hand[2] /\ hand'[3] = hand[3]
        BY <4>1 DEF Handed
      <4> QED
        BY <4>1, <4>2 DEF Handed
  <2>3. PipeTypes'
    <3>1. unread' \in 0 .. n
      BY <1>1, <1>6, <2>1
    <3> QED
      BY <1>1, <1>2, <1>3, <2>2, <3>1 DEF PipeTypes
  <2>4. ASSUME Unfailed' PROVE Flow' /\ PipedInv'
    <3>1. Unfailed
      BY <1>2, <2>2, <2>4 DEF Unfailed, Pipe!Tasks
    <3>2. Flow /\ PipedInv
      BY <3>1 DEF PipeInv
    <3>3. Flow'
      BY <1>2, <2>2, <3>2 DEF Flow
    <3>4. hand[1] = <<>> /\ taskPc[3] \notin {"last", "done"}
      BY <1>2, <3>2 DEF Flow
    <3>5. Reached = n - unread /\ Reached' = n - unread + k /\ Reached \in Nat /\ Reached' \in Nat
      BY <1>1, <1>3, <1>6, <2>1, <2>2, <3>4 DEF Reached
    <3>6. Seg(n, n - unread, x, n - unread + k)
      <4>1. Run(n, n - unread, n - unread + k) = x
        BY <1>1, <2>1 DEF Run
      <4> QED
        BY <1>1, <2>1, <4>1 DEF Seg
    <3>7. /\ chunks[1] \in Chunks /\ chunks[2] \in Chunks /\ chunks[3] \in Chunks
          /\ hand[2] \in Chunk /\ hand[3] \in Chunk /\ held[3] \in Chunk /\ written \in Chunk
      BY <1>1, PipeFacts
    <3> HIDE DEF x, n
    <3>8. Piped(n, written, chunks[3], hand[3], held[3], chunks[2], hand[2], chunks[1], <<>>, n - unread)
      BY <3>2, <3>4, <3>5 DEF PipedInv, n
    <3>9. Piped(n, written, chunks[3], hand[3], held[3], chunks[2], hand[2], chunks[1], x, n - unread + k)
      <4>1. n - unread \in Nat /\ n - unread + k \in Nat
        BY <3>5
      <4> QED
        BY <1>1, <2>1, <3>6, <3>7, <3>8, <4>1, ReadPiped
    <3>10. PipedInv'
      BY <1>2, <1>3, <2>2, <3>5, <3>9 DEF PipedInv, n
    <3> QED
      BY <3>3, <3>10
  <2> QED
    BY <2>3, <2>4
<1> QED
  BY <1>4, <1>5, <1>6 DEF Pipe!ReadFile

\* A task that is canceled has failed.
LEMMA CanceledKeeps ==
    ASSUME PipeInv, NEW t \in 1 .. 4, Pipe!Canceled(t)
    PROVE  PipeTypes' /\ ~Unfailed'
<1>1. PipeTypes /\ taskPc' = [taskPc EXCEPT ![t] = "failed"]
      /\ UNCHANGED <<app, items, unread, chunks, endMarked, hand, held, written>>
  BY DEF PipeInv, Pipe!Canceled, Pipe!Data
<1>2. taskPc \in [1 .. 4 -> {"run", "put", "last", "done", "failed"}] /\ taskPc[4] \in {"run", "done", "failed"}
  BY <1>1 DEF PipeTypes
<1>3. taskPc' \in [1 .. 4 -> {"run", "put", "last", "done", "failed"}] /\ taskPc'[t] = "failed"
      /\ taskPc'[4] \in {"run", "done", "failed"}
  BY <1>1, <1>2
<1>4. Pipe!NHalf' = Pipe!NHalf
  BY <1>1 DEF Pipe!NHalf
<1>5. PipeTypes'
  BY <1>1, <1>3, <1>4 DEF PipeTypes
<1> QED
  BY <1>3, <1>5 DEF Unfailed, Pipe!Tasks

\* enqueue() keeps the types.
LEMMA PutTypes ==
    ASSUME PipeInv, NEW t \in 1 .. 3, Pipe!Put(t)
    PROVE  PipeTypes'
<1>1. PipeTypes
  BY DEF PipeInv
<1>2. /\ chunks' = [chunks EXCEPT ![t] = Append(@, hand[t])]
      /\ hand' = [hand EXCEPT ![t] = <<>>]
      /\ endMarked' = [endMarked EXCEPT ![t] = @ \/ taskPc[t] = "last"]
      /\ taskPc' = [taskPc EXCEPT ![t] = IF taskPc[t] = "last" THEN "done" ELSE "run"]
      /\ UNCHANGED <<app, items, unread, held, written>>
  BY DEF Pipe!Put, Pipe!Data
<1>3. /\ taskPc \in [1 .. 4 -> {"run", "put", "last", "done", "failed"}]
      /\ endMarked \in [1 .. 3 -> BOOLEAN]
  BY <1>1, PipeFacts
<1>4. chunks \in [1 .. 3 -> Chunks] /\ hand \in [1 .. 4 -> Chunk] /\ hand[t] \in Chunk
  BY <1>1, PipeFacts
<1>5. Pipe!NHalf' = Pipe!NHalf
  BY <1>2 DEF Pipe!NHalf
<1>6. chunks' \in [1 .. 3 -> Chunks]
  BY <1>2, <1>4 DEF Chunks
<1>7. endMarked' \in [1 .. 3 -> BOOLEAN]
  BY <1>2, <1>3
<1>8. hand' \in [1 .. 4 -> Chunk]
  BY <1>2, <1>4 DEF Chunk
<1>9. taskPc' \in [1 .. 4 -> {"run", "put", "last", "done", "failed"}] /\ taskPc'[4] = taskPc[4]
  BY <1>2, <1>3
<1>10. app' = app /\ items' = items /\ held' = held /\ written' = written /\ unread' = unread
  BY <1>2
<1> QED
  BY <1>1, <1>5, <1>6, <1>7, <1>8, <1>9, <1>10 DEF PipeTypes

\* decompress() passes on what it takes.
LEMMA DecompressKeeps ==
    ASSUME Pipe!FilesAssumption, PipeInv, Pipe!Decompress
    PROVE  PipeTypes' /\ (Unfailed' => Flow' /\ PipedInv')
<1> DEFINE n == Pipe!NHalf
<1>1. n \in Nat /\ PipeTypes /\ unread \in 0 .. n /\ app = "compr_conv"
  BY HalvesNat DEF PipeInv, PipeTypes
<1>2. UNCHANGED <<app, items, unread, written>> /\ n' = n
  BY DEF Pipe!Decompress, Pipe!NHalf
<1>3. /\ chunks[1] \in Chunks /\ chunks[2] \in Chunks /\ chunks[3] \in Chunks
      /\ hand[1] \in Chunk /\ hand[2] \in Chunk /\ hand[3] \in Chunk /\ held[3] \in Chunk /\ written \in Chunk
      /\ held[2] \in Chunk /\ held \in [1 .. 4 -> Chunk]
  BY <1>1, PipeFacts
<1>4. 2 \in 1 .. 3 /\ 2 \in 2 .. 4 /\ 2 - 1 = 1 /\ <<>> \in Chunk
  BY DEF Chunk
<1>5. CASE Pipe!Fail(2) /\ chunks' = Pipe!Taken(2) /\ Pipe!Has(2) /\ UNCHANGED <<hand, endMarked, held>>
  <2>1. taskPc' = [taskPc EXCEPT ![2] = "failed"] /\ chunks[1] # <<>>
    BY <1>4, <1>5 DEF Pipe!Fail, Pipe!Has
  <2>2. taskPc' \in [1 .. 4 -> {"run", "put", "last", "done", "failed"}] /\ taskPc'[4] = taskPc[4]
        /\ taskPc'[2] = "failed"
    BY <1>1, <2>1, PipeFacts
  <2>3. ~Unfailed'
    BY <2>2 DEF Unfailed, Pipe!Tasks
  <2>4. chunks' \in [1 .. 3 -> Chunks]
    BY <1>1, <1>4, <1>5, <2>1, TakenFacts
  <2>5. PipeTypes'
    BY <1>1, <1>2, <1>5, <2>2, <2>4 DEF PipeTypes
  <2> QED
    BY <2>3, <2>5
<1>6. ASSUME Pipe!Has(2), chunks' = Pipe!Taken(2), Pipe!Hand(2, held[2] \o Pipe!Next1(2), FALSE),
             held' = [held EXCEPT ![2] = <<>>]
      PROVE  PipeTypes' /\ (Unfailed' => Flow' /\ PipedInv')
  <2> DEFINE h == held[2] \o Pipe!Next1(2)
  <2>1. taskPc[2] = "run" /\ chunks[1] # <<>>
    BY <1>4, <1>6 DEF Pipe!Has
  <2>2. /\ chunks' \in [1 .. 3 -> Chunks] /\ chunks'[1] = Tail(chunks[1])
        /\ Pipe!Next1(2) = Head(chunks[1]) /\ Head(chunks[1]) \in Chunk
        /\ chunks'[2] = chunks[2] /\ chunks'[3] = chunks[3]
    BY <1>1, <1>4, <1>6, <2>1, TakenFacts
  <2>3. h \in Chunk
    BY <1>3, <2>2 DEF Chunk
  <2>4. Pipe!Hand(2, h, FALSE)
    BY <1>6
  <2>5. held' \in [1 .. 4 -> Chunk] /\ held'[2] = <<>> /\ held'[3] = held[3]
    BY <1>3, <1>4, <1>6
  <2>6. Handed(2, h) /\ (h # <<>> => taskPc'[2] = "put") /\ (h = <<>> => taskPc'[2] = "run")
        /\ (endMarked'[2] <=> endMarked[2])
    <3> HIDE DEF h
    <3> QED
      BY <1>1, <1>4, <2>3, <2>4, HandsOn, Zenon
  <2>7. hand'[2] = h /\ hand'[1] = hand[1] /\ hand'[3] = hand[3]
        /\ taskPc'[1] = taskPc[1] /\ taskPc'[3] = taskPc[3] /\ taskPc'[4] = taskPc[4]
        /\ (endMarked'[1] <=> endMarked[1]) /\ (endMarked'[3] <=> endMarked[3])
    BY <2>6 DEF Handed
  <2>8. PipeTypes'
    BY <1>1, <1>2, <2>2, <2>5, <2>6 DEF PipeTypes, Handed
  <2>9. ASSUME Unfailed' PROVE Flow' /\ PipedInv'
    <3>1. Unfailed
      BY <2>1, <2>7, <2>9 DEF Unfailed, Pipe!Tasks
    <3>2. Flow /\ PipedInv
      BY <3>1 DEF PipeInv
    <3>3. hand[2] = <<>> /\ held[2] = <<>>
      BY <2>1, <3>2 DEF Flow
    <3>4. h = Head(chunks[1])
      BY <2>2, <3>3 DEF Chunk
    <3> HIDE DEF h
    <3>5. taskPc'[2] \in {"run", "put"} /\ (taskPc'[2] = "run" => hand'[2] = <<>>)
      BY <2>6, <2>7
    <3>6. ~endMarked[2]
      BY <2>1, <3>2 DEF Flow
    <3>7. Flow'
      BY <1>2, <2>1, <2>2, <2>5, <2>6, <2>7, <3>2, <3>5, <3>6 DEF Flow
    <3>8. Reached' = Reached /\ Reached \in Nat
      BY <1>1, <1>2, <2>7 DEF Reached
    <3> HIDE DEF n
    <3>9. Piped(n, written, chunks[3], hand[3], held[3], chunks[2], <<>>, chunks[1], hand[1], Reached)
      BY <3>2, <3>3 DEF PipedInv, n
    <3>10. Piped(n, written, chunks[3], hand[3], held[3], chunks[2], Head(chunks[1]), Tail(chunks[1]), hand[1],
                 Reached)
      BY <1>1, <1>3, <2>1, <3>8, <3>9, SecondTake
    <3>11. PipedInv'
      BY <1>2, <2>2, <2>5, <2>7, <3>4, <3>8, <3>10 DEF PipedInv, n
    <3> QED
      BY <3>7, <3>11
  <2> QED
    BY <2>8, <2>9
<1>7. ASSUME Pipe!EndSeen(2), chunks' = chunks, Pipe!Hand(2, held[2], TRUE), held' = [held EXCEPT ![2] = <<>>]
      PROVE  PipeTypes' /\ (Unfailed' => Flow' /\ PipedInv')
  <2>1. taskPc[2] = "run" /\ chunks[1] = <<>> /\ endMarked[1]
    BY <1>4, <1>7 DEF Pipe!EndSeen
  <2>2. held' \in [1 .. 4 -> Chunk] /\ held'[2] = <<>> /\ held'[3] = held[3]
    BY <1>3, <1>4, <1>7
  <2>3. Handed(2, held[2]) /\ (held[2] # <<>> => taskPc'[2] = "last") /\ (held[2] = <<>> => taskPc'[2] = "done")
        /\ (endMarked'[2] <=> endMarked[2] \/ held[2] = <<>>)
    BY <1>1, <1>3, <1>4, <1>7, HandsLast, Zenon
  <2>4. hand'[2] = held[2] /\ hand'[1] = hand[1] /\ hand'[3] = hand[3]
        /\ taskPc'[1] = taskPc[1] /\ taskPc'[3] = taskPc[3] /\ taskPc'[4] = taskPc[4]
        /\ (endMarked'[1] <=> endMarked[1]) /\ (endMarked'[3] <=> endMarked[3])
    BY <2>3 DEF Handed
  <2>5. PipeTypes'
    BY <1>1, <1>2, <1>7, <2>2, <2>3 DEF PipeTypes, Handed
  <2>6. ASSUME Unfailed' PROVE Flow' /\ PipedInv'
    <3>1. Unfailed
      BY <2>1, <2>4, <2>6 DEF Unfailed, Pipe!Tasks
    <3>2. Flow /\ PipedInv
      BY <3>1 DEF PipeInv
    <3>3. hand[2] = <<>> /\ held[2] = <<>> /\ taskPc[1] = "done"
      BY <2>1, <3>2 DEF Flow
    <3>4. taskPc'[2] = "done" /\ endMarked'[2]
      BY <2>3, <3>3
    <3>5. Flow'
      BY <1>2, <1>7, <2>1, <2>2, <2>4, <3>2, <3>3, <3>4 DEF Flow
    <3>6. Reached' = Reached
      BY <1>2, <2>4 DEF Reached
    <3>7. PipedInv'
      BY <1>2, <1>7, <2>2, <2>4, <3>2, <3>3, <3>6 DEF PipedInv
    <3> QED
      BY <3>5, <3>7
  <2> QED
    BY <2>5, <2>6
<1> QED
  BY <1>1, <1>5, <1>6, <1>7 DEF Pipe!Decompress

\* compress() holds or gives what it took, and adds the end of the frame last.
LEMMA CompressKeeps ==
    ASSUME Pipe!FilesAssumption, PipeInv, Pipe!Compress
    PROVE  PipeTypes' /\ (Unfailed' => Flow' /\ PipedInv')
<1> DEFINE n == Pipe!NHalf
<1>1. n \in Nat /\ PipeTypes /\ unread \in 0 .. n
  BY HalvesNat DEF PipeInv, PipeTypes
<1>2. UNCHANGED <<app, items, unread, written>> /\ n' = n
  BY DEF Pipe!Compress, Pipe!NHalf
<1>3. /\ chunks[1] \in Chunks /\ chunks[2] \in Chunks /\ chunks[3] \in Chunks
      /\ hand[1] \in Chunk /\ hand[2] \in Chunk /\ hand[3] \in Chunk /\ held[3] \in Chunk /\ written \in Chunk
      /\ held \in [1 .. 4 -> Chunk]
  BY <1>1, PipeFacts
<1>4. 3 \in 1 .. 3 /\ 3 \in 2 .. 4 /\ 3 - 1 = 2 /\ <<>> \in Chunk
  BY DEF Chunk
<1> DEFINE b == held[3] \o Pipe!Next1(3)
<1>5. ASSUME Pipe!Has(3), chunks' = Pipe!Taken(3), NEW x \in Chunk, NEW y \in Chunk,
             NEW k \in 0 .. Len(b), x = SubSeq(b, 1, k), y = SubSeq(b, k + 1, Len(b)),
             Pipe!Hand(3, x, FALSE), held' = [held EXCEPT ![3] = y]
      PROVE  PipeTypes' /\ (Unfailed' => Flow' /\ PipedInv')
  <2>1. taskPc[3] = "run" /\ chunks[2] # <<>>
    BY <1>4, <1>5 DEF Pipe!Has
  <2>2. /\ chunks' \in [1 .. 3 -> Chunks] /\ chunks'[2] = Tail(chunks[2])
        /\ Pipe!Next1(3) = Head(chunks[2]) /\ Head(chunks[2]) \in Chunk
        /\ chunks'[1] = chunks[1] /\ chunks'[3] = chunks[3]
    BY <1>1, <1>4, <1>5, <2>1, TakenFacts
  <2>3. held' \in [1 .. 4 -> Chunk] /\ held'[3] = y /\ held'[2] = held[2]
    BY <1>3, <1>4, <1>5
  <2>4. Handed(3, x) /\ (x # <<>> => taskPc'[3] = "put") /\ (x = <<>> => taskPc'[3] = "run")
        /\ (endMarked'[3] <=> endMarked[3])
    BY <1>1, <1>4, <1>5, HandsOn, Zenon
  <2>5. hand'[3] = x /\ hand'[1] = hand[1] /\ hand'[2] = hand[2]
        /\ taskPc'[1] = taskPc[1] /\ taskPc'[2] = taskPc[2] /\ taskPc'[4] = taskPc[4]
        /\ (endMarked'[1] <=> endMarked[1]) /\ (endMarked'[2] <=> endMarked[2])
    BY <2>4 DEF Handed
  <2>6. PipeTypes'
    BY <1>1, <1>2, <2>2, <2>3, <2>4 DEF PipeTypes, Handed
  <2>7. ASSUME Unfailed' PROVE Flow' /\ PipedInv'
    <3>1. Unfailed
      BY <2>1, <2>5, <2>7 DEF Unfailed, Pipe!Tasks
    <3>2. Flow /\ PipedInv
      BY <3>1 DEF PipeInv
    <3>3. hand[3] = <<>> /\ ~endMarked[3]
      BY <2>1, <3>2 DEF Flow
    <3>4. taskPc'[3] \in {"run", "put"} /\ (taskPc'[3] = "run" => hand'[3] = <<>>)
      BY <2>4, <2>5
    <3>5. taskPc[2] = "done" => taskPc[1] = "done" /\ chunks[1] = <<>>
      BY <3>2 DEF Flow
    <3>6. Flow'
      BY <1>2, <2>1, <2>2, <2>3, <2>4, <2>5, <3>2, <3>3, <3>4, <3>5 DEF Flow
    <3>7. Reached' = Reached /\ Reached \in Nat
      BY <1>1, <1>2, <2>1, <3>4 DEF Reached
    <3> DEFINE z == held[3] \o Head(chunks[2])
    <3>8. z = b /\ z \in Chunk
      <4>1. z = b
        BY <2>2
      <4>2. held[3] \in Seq(Nat) /\ Head(chunks[2]) \in Seq(Nat)
        BY <1>3, <2>2 DEF Chunk
      <4>3. z \in Seq(Nat)
        BY <4>2
      <4> QED
        BY <4>1, <4>3 DEF Chunk
    <3>9. Tail(chunks[2]) \in Chunks
      <4>1. chunks[2] \in Seq(Chunk)
        BY <1>3 DEF Chunks
      <4> QED
        BY <2>1, <4>1, HeadTailProperties DEF Chunks
    <3> HIDE DEF n
    <3>10. Piped(n, written, chunks[3], <<>>, held[3], chunks[2], hand[2], chunks[1], hand[1], Reached)
      BY <3>2, <3>3 DEF PipedInv, n
    <3>11. Piped(n, written, chunks[3], <<>>, z, Tail(chunks[2]), hand[2], chunks[1], hand[1], Reached)
      BY <1>1, <1>3, <1>4, <2>1, <3>7, <3>10, ThirdTake
    <3> HIDE DEF z, b
    <3>12. k \in 0 .. Len(z) /\ x = SubSeq(z, 1, k) /\ y = SubSeq(z, k + 1, Len(z))
      BY <1>5, <3>8
    <3>13. Piped(n, written, chunks[3], x, y, Tail(chunks[2]), hand[2], chunks[1], hand[1], Reached)
      BY <1>1, <1>3, <3>7, <3>8, <3>9, <3>11, <3>12, ThirdGives
    <3>14. PipedInv'
      BY <1>2, <2>2, <2>3, <2>5, <3>7, <3>13 DEF PipedInv, n
    <3> QED
      BY <3>6, <3>14
  <2> QED
    BY <2>6, <2>7
<1>6. ASSUME Pipe!Has(3), chunks' = Pipe!Taken(3), NEW k \in 0 .. Len(b),
             Pipe!Hand(3, SubSeq(b, 1, k), FALSE), held' = [held EXCEPT ![3] = SubSeq(b, k + 1, Len(b))]
      PROVE  PipeTypes' /\ (Unfailed' => Flow' /\ PipedInv')
  <2> DEFINE x == SubSeq(b, 1, k)
             y == SubSeq(b, k + 1, Len(b))
  <2>1. chunks[2] # <<>>
    BY <1>4, <1>6 DEF Pipe!Has
  <2>2. Pipe!Next1(3) = Head(chunks[2]) /\ Head(chunks[2]) \in Chunk
    BY <1>1, <1>4, <1>6, <2>1, TakenFacts
  <2>3. b \in Seq(Nat) /\ Len(b) \in Nat
    BY <1>3, <2>2 DEF Chunk
  <2>4. k \in Nat /\ k <= Len(b)
    BY <1>6, <2>3
  <2> HIDE DEF b
  <2>5. x \in Seq(Nat)
    <3>1. \A i \in 1 .. k : b[i] \in Nat
      BY <2>3, <2>4
    <3> QED
      BY <2>3, <2>4, <3>1, SubSeqProperties
  <2>6. y \in Seq(Nat)
    <3>1. \A i \in k + 1 .. Len(b) : b[i] \in Nat
      BY <2>3, <2>4
    <3> QED
      BY <2>3, <2>4, <3>1, SubSeqProperties
  <2>7. x \in Chunk /\ y \in Chunk
    BY <2>5, <2>6 DEF Chunk
  <2>8. Pipe!Hand(3, x, FALSE) /\ held' = [held EXCEPT ![3] = y] /\ x = SubSeq(b, 1, k) /\ y = SubSeq(b, k + 1, Len(b))
    BY <1>6
  <2> HIDE DEF x, y
  <2> QED
    BY <1>5, <1>6, <2>7, <2>8
<1>7. ASSUME Pipe!EndSeen(3), chunks' = chunks, Pipe!Hand(3, Append(held[3], 0), TRUE),
             held' = [held EXCEPT ![3] = <<>>]
      PROVE  PipeTypes' /\ (Unfailed' => Flow' /\ PipedInv')
  <2> DEFINE h == Append(held[3], 0)
  <2>1. taskPc[3] = "run" /\ chunks[2] = <<>> /\ endMarked[2]
    BY <1>4, <1>7 DEF Pipe!EndSeen
  <2>2. held' \in [1 .. 4 -> Chunk] /\ held'[3] = <<>> /\ held'[2] = held[2]
    BY <1>3, <1>4, <1>7
  <2>3. h \in Chunk /\ h # <<>>
    <3>1. held[3] \in Seq(Nat) /\ 0 \in Nat
      BY <1>3 DEF Chunk
    <3>2. h \in Seq(Nat) /\ Len(h) = Len(held[3]) + 1 /\ Len(held[3]) \in Nat
      BY <3>1, AppendProperties
    <3> QED
      BY <3>2 DEF Chunk
  <2>4. Pipe!Hand(3, h, TRUE)
    BY <1>7
  <2> HIDE DEF h
  <2>5. Handed(3, h) /\ taskPc'[3] = "last" /\ (endMarked'[3] <=> endMarked[3])
    BY <1>1, <1>4, <2>3, <2>4, HandsLast, Zenon
  <2>6. hand'[3] = h /\ hand'[1] = hand[1] /\ hand'[2] = hand[2]
        /\ taskPc'[1] = taskPc[1] /\ taskPc'[2] = taskPc[2] /\ taskPc'[4] = taskPc[4]
        /\ (endMarked'[1] <=> endMarked[1]) /\ (endMarked'[2] <=> endMarked[2])
    BY <2>5 DEF Handed
  <2>7. PipeTypes'
    BY <1>1, <1>2, <1>7, <2>2, <2>5 DEF PipeTypes, Handed
  <2>8. ASSUME Unfailed' PROVE Flow' /\ PipedInv'
    <3>1. Unfailed
      BY <2>1, <2>6, <2>8 DEF Unfailed, Pipe!Tasks
    <3>2. Flow /\ PipedInv
      BY <3>1 DEF PipeInv
    <3>3. taskPc[2] = "done" /\ taskPc[1] = "done" /\ chunks[1] = <<>> /\ unread = 0
      BY <2>1, <3>2 DEF Flow
    <3>4. hand[1] = <<>> /\ hand[2] = <<>> /\ hand[3] = <<>> /\ ~endMarked[3]
      BY <2>1, <3>2, <3>3 DEF Flow
    <3>5. Flow'
      BY <1>2, <1>7, <2>1, <2>2, <2>5, <2>6, <3>2, <3>3, <3>4 DEF Flow
    <3>6. Reached = n /\ Reached' = n + 1
      BY <1>1, <1>2, <2>1, <2>5, <3>3 DEF Reached
    <3> HIDE DEF n
    <3>7. Piped(n, written, chunks[3], <<>>, held[3], <<>>, <<>>, <<>>, <<>>, n)
      BY <2>1, <3>2, <3>3, <3>4, <3>6 DEF PipedInv, n
    <3>8. Piped(n, written, chunks[3], Append(held[3], 0), <<>>, <<>>, <<>>, <<>>, <<>>, n + 1)
      BY <1>1, <1>3, <3>7, EndPiped
    <3>9. PipedInv'
      BY <1>2, <1>7, <2>1, <2>2, <2>6, <3>3, <3>4, <3>6, <3>8 DEF PipedInv, n, h
    <3> QED
      BY <3>5, <3>9
  <2> QED
    BY <2>7, <2>8
<1>8. ASSUME chunks' = chunks \/ (Pipe!Has(3) /\ chunks' = Pipe!Taken(3)), Pipe!Fail(3),
             UNCHANGED <<hand, endMarked, held>>
      PROVE  PipeTypes' /\ (Unfailed' => Flow' /\ PipedInv')
  <2>1. chunks' \in [1 .. 3 -> Chunks]
    <3>1. CASE chunks' = chunks
      BY <1>1, <3>1 DEF PipeTypes
    <3>2. CASE Pipe!Has(3) /\ chunks' = Pipe!Taken(3)
      <4>1. chunks[2] # <<>>
        BY <1>4, <3>2 DEF Pipe!Has
      <4> QED
        BY <1>1, <1>4, <3>2, <4>1, TakenFacts
    <3> QED
      BY <1>8, <3>1, <3>2
  <2>2. taskPc' = [taskPc EXCEPT ![3] = "failed"] /\ hand' = hand /\ endMarked' = endMarked /\ held' = held
    BY <1>8 DEF Pipe!Fail
  <2>3. taskPc \in [1 .. 4 -> {"run", "put", "last", "done", "failed"}] /\ taskPc[4] \in {"run", "done", "failed"}
    BY <1>1 DEF PipeTypes
  <2>4. taskPc' \in [1 .. 4 -> {"run", "put", "last", "done", "failed"}] /\ taskPc'[3] = "failed"
        /\ taskPc'[4] \in {"run", "done", "failed"}
    BY <2>2, <2>3
  <2>5. PipeTypes'
    BY <1>1, <1>2, <2>1, <2>2, <2>4 DEF PipeTypes
  <2> QED
    BY <2>4, <2>5 DEF Unfailed, Pipe!Tasks
<1> QED
  BY <1>6, <1>7, <1>8 DEF Pipe!Compress

\* write_file() writes the front of the line.
LEMMA WriteKeeps ==
    ASSUME Pipe!FilesAssumption, PipeInv, Pipe!WriteFile
    PROVE  PipeTypes' /\ (Unfailed' => Flow' /\ PipedInv')
<1> DEFINE n == Pipe!NHalf
<1>1. n \in Nat /\ PipeTypes /\ unread \in 0 .. n
  BY HalvesNat DEF PipeInv, PipeTypes
<1>2. UNCHANGED <<app, items, unread, endMarked, hand, held>> /\ n' = n
  BY DEF Pipe!WriteFile, Pipe!NHalf
<1>3. /\ chunks[1] \in Chunks /\ chunks[2] \in Chunks /\ chunks[3] \in Chunks
      /\ hand[1] \in Chunk /\ hand[2] \in Chunk /\ hand[3] \in Chunk /\ held[3] \in Chunk /\ written \in Chunk
      /\ taskPc \in [1 .. 4 -> {"run", "put", "last", "done", "failed"}]
  BY <1>1, PipeFacts
<1>4. 4 \in 2 .. 4 /\ 4 - 1 = 3
  OBVIOUS
<1>5. ASSUME Pipe!Has(4), chunks' = Pipe!Taken(4), written' = written \o Pipe!Next1(4), taskPc' = taskPc
      PROVE  PipeTypes' /\ (Unfailed' => Flow' /\ PipedInv')
  <2>1. taskPc[4] = "run" /\ chunks[3] # <<>>
    BY <1>4, <1>5 DEF Pipe!Has
  <2>2. /\ chunks' \in [1 .. 3 -> Chunks] /\ chunks'[3] = Tail(chunks[3])
        /\ Pipe!Next1(4) = Head(chunks[3]) /\ Head(chunks[3]) \in Chunk
        /\ chunks'[1] = chunks[1] /\ chunks'[2] = chunks[2]
    BY <1>1, <1>4, <1>5, <2>1, TakenFacts
  <2>3. written' \in Chunk
    BY <1>3, <1>5, <2>2 DEF Chunk
  <2>4. PipeTypes'
    BY <1>1, <1>2, <1>5, <2>2, <2>3 DEF PipeTypes
  <2>5. ASSUME Unfailed' PROVE Flow' /\ PipedInv'
    <3>1. Flow /\ PipedInv
      BY <1>5, <2>5 DEF PipeInv, Unfailed, Pipe!Tasks
    <3>2. Flow'
      BY <1>2, <1>5, <2>1, <2>2, <3>1 DEF Flow
    <3>3. Reached' = Reached /\ Reached \in Nat
      BY <1>1, <1>2, <1>5 DEF Reached
    <3> HIDE DEF n
    <3>4. Piped(n, written, chunks[3], hand[3], held[3], chunks[2], hand[2], chunks[1], hand[1], Reached)
      BY <3>1 DEF PipedInv, n
    <3>5. Piped(n, written \o Head(chunks[3]), Tail(chunks[3]), hand[3], held[3], chunks[2], hand[2], chunks[1],
                hand[1], Reached)
      BY <1>1, <1>3, <2>1, <3>3, <3>4, FourthTake
    <3>6. PipedInv'
      BY <1>2, <1>5, <2>2, <3>3, <3>5 DEF PipedInv, n
    <3> QED
      BY <3>2, <3>6
  <2> QED
    BY <2>4, <2>5
<1>6. CASE Pipe!Has(4) /\ chunks' = Pipe!Taken(4) /\ Pipe!Fail(4) /\ written' = written
  <2>1. chunks[3] # <<>> /\ taskPc' = [taskPc EXCEPT ![4] = "failed"]
    BY <1>4, <1>6 DEF Pipe!Has, Pipe!Fail
  <2>2. chunks' \in [1 .. 3 -> Chunks]
    BY <1>1, <1>4, <1>6, <2>1, TakenFacts
  <2>3. taskPc' \in [1 .. 4 -> {"run", "put", "last", "done", "failed"}] /\ taskPc'[4] = "failed"
    BY <1>3, <2>1
  <2>4. ~Unfailed'
    BY <2>3 DEF Unfailed, Pipe!Tasks
  <2>5. PipeTypes'
    BY <1>1, <1>2, <1>6, <2>2, <2>3 DEF PipeTypes
  <2> QED
    BY <2>4, <2>5
<1>7. CASE Pipe!EndSeen(4) /\ taskPc' = [taskPc EXCEPT ![4] = "done"] /\ UNCHANGED <<chunks, written>>
  <2>1. taskPc[4] = "run" /\ chunks[3] = <<>> /\ endMarked[3]
    BY <1>4, <1>7 DEF Pipe!EndSeen
  <2>2. taskPc' \in [1 .. 4 -> {"run", "put", "last", "done", "failed"}] /\ taskPc'[4] = "done"
        /\ taskPc'[1] = taskPc[1] /\ taskPc'[2] = taskPc[2] /\ taskPc'[3] = taskPc[3]
    BY <1>3, <1>7
  <2>3. PipeTypes'
    BY <1>1, <1>2, <1>7, <2>2 DEF PipeTypes
  <2>4. ASSUME Unfailed' PROVE Flow' /\ PipedInv'
    <3>1. Unfailed
      BY <2>1, <2>2, <2>4 DEF Unfailed, Pipe!Tasks
    <3>2. Flow /\ PipedInv
      BY <3>1 DEF PipeInv
    <3>3. taskPc[3] = "done"
      BY <2>1, <3>2 DEF Flow
    <3>4. Flow'
      BY <1>2, <1>7, <2>1, <2>2, <3>2, <3>3 DEF Flow
    <3>5. Reached' = Reached
      BY <1>2, <2>2 DEF Reached
    <3>6. PipedInv'
      BY <1>2, <1>7, <3>2, <3>5 DEF PipedInv
    <3> QED
      BY <3>4, <3>6
  <2> QED
    BY <2>3, <2>4
<1> QED
  BY <1>5, <1>6, <1>7 DEF Pipe!WriteFile

\* Nothing was read yet.
LEMMA PipeInit ==
    ASSUME Pipe!FilesAssumption, Pipe!Init, app = "compr_conv"
    PROVE  PipeInv
<1> DEFINE n == Pipe!NHalf
<1>1. /\ items \in Files /\ taskPc = [t \in 1 .. 4 |-> "run"] /\ unread = n
      /\ chunks = [t \in 1 .. 3 |-> <<>>] /\ endMarked = [t \in 1 .. 3 |-> FALSE]
      /\ hand = [t \in 1 .. 4 |-> <<>>] /\ held = [t \in 1 .. 4 |-> <<>>] /\ written = <<>>
  BY DEF Pipe!Init, Pipe!Tasks
<1>2. n \in Nat /\ <<>> \in Chunk /\ <<>> \in Chunks
  BY <1>1, HalvesNat DEF Chunk, Chunks
<1>3. PipeTypes
  BY <1>1, <1>2 DEF PipeTypes
<1>4. Flow
  BY <1>1 DEF Flow
<1>5. Reached = 0
  BY <1>1, <1>2 DEF Reached
<1>6. PipedInv
  <2> HIDE DEF n
  <2> DEFINE u == [i \in 1 .. 7 |-> 0]
  <2>1. u \in [1 .. 7 -> Nat] /\ \A i \in 1 .. 7 : u[i] = 0
    OBVIOUS
  <2> HIDE DEF u
  <2>2. Seg(n, 0, <<>>, 0) /\ Chain(n, 0, <<>>, 0)
    BY <1>2, SegEmpty, ChainEmpty
  <2>3. Line(n, u, <<>>, <<>>, <<>>, <<>>, <<>>, <<>>, <<>>, <<>>, 0)
    BY <2>1, <2>2 DEF Line
  <2>4. Piped(n, <<>>, <<>>, <<>>, <<>>, <<>>, <<>>, <<>>, <<>>, 0)
    BY <2>1, <2>3 DEF Piped
  <2> QED
    BY <1>1, <1>5, <2>4 DEF PipedInv, n
<1> QED
  BY <1>3, <1>4, <1>6 DEF PipeInv

\* Every step of compr_conv keeps the invariant.
LEMMA PipeStep ==
    ASSUME Pipe!FilesAssumption, PipeInv, [Pipe!Next]_Pipe!vars
    PROVE  PipeInv'
<1>1. ASSUME Pipe!Next PROVE PipeInv'
  <2>1. \/ \E t \in 1 .. 4 : Pipe!Canceled(t)
        \/ \E t \in 1 .. 3 : Pipe!Put(t)
        \/ Pipe!ReadFile \/ Pipe!Decompress \/ Pipe!Compress \/ Pipe!WriteFile
    BY <1>1, PipeSteps DEF PipeInv
  <2>2. CASE \E t \in 1 .. 4 : Pipe!Canceled(t)
    BY <2>2, CanceledKeeps DEF PipeInv
  <2>3. CASE \E t \in 1 .. 3 : Pipe!Put(t)
    BY <2>3, PutKeeps, PutTypes DEF PipeInv
  <2>4. CASE Pipe!ReadFile
    BY <2>4, ReadKeeps DEF PipeInv
  <2>5. CASE Pipe!Decompress
    BY <2>5, DecompressKeeps DEF PipeInv
  <2>6. CASE Pipe!Compress
    BY <2>6, CompressKeeps DEF PipeInv
  <2>7. CASE Pipe!WriteFile
    BY <2>7, WriteKeeps DEF PipeInv
  <2> QED
    BY <2>1, <2>2, <2>3, <2>4, <2>5, <2>6, <2>7
<1>2. ASSUME UNCHANGED Pipe!vars PROVE PipeInv'
  <2>1. UNCHANGED <<app, items, taskPc, unread, chunks, endMarked, hand, held, written>>
    BY <1>2 DEF Pipe!vars
  <2>2. Pipe!NHalf' = Pipe!NHalf /\ Reached' = Reached
    BY <2>1 DEF Pipe!NHalf, Reached
  <2> QED
    BY <2>1, <2>2 DEF PipeInv, PipeTypes, Unfailed, Flow, PipedInv
<1> QED
  BY <1>1, <1>2

\* When no task of compr_conv failed, what write_file() wrote is all of the
\* source, once and in order, with the end of the frame, for queues of any
\* capacity, chunks of any size, and whatever compress() holds back.
THEOREM AllWritten == Spec => [](app = "compr_conv" => NothingLost)
<1> DEFINE Inv == part = "pipe" /\ app = "compr_conv" => PipeInv
<1>1. Init => Inv
  BY TaskAssumption, PipeInit DEF Init
<1>2. Inv /\ [Next]_vars => Inv'
  <2>1. [Pipe!Next]_Pipe!vars => app' = app
    BY DEF Pipe!Next, Pipe!StepOf, Pipe!vars, Pipe!Canceled, Pipe!Put, Pipe!Data, Pipe!ReadFile, Pipe!Decompress,
           Pipe!Compress, Pipe!WriteFile, Pipe!ParseJson, Pipe!PopulateDb, Pipe!PostItem, Pipe!PostEnd
  <2>2. PipeInv /\ [Pipe!Next]_Pipe!vars => PipeInv'
    BY TaskAssumption, PipeStep
  <2> QED
    BY <2>1, <2>2, StepOfPart
<1>3. Inv => (app = "compr_conv" => NothingLost)
  BY TaskAssumption, ConvEnd DEF NothingLost
<1> QED
  BY <1>1, <1>2, <1>3, PTL DEF Spec
=============================================================================
