------------------------------- MODULE TimedOp -------------------------------
(***************************************************************************)
(* An asio operation as an async op (async_op_for_use_async_op of          *)
(* include/dsk/asio/use_async_op.hpp), and timed_async_op of               *)
(* include/dsk/asio/timer.hpp, what wait_for(d, op) and wait_until(t, op)  *)
(* return, around it.                                                      *)
(*                                                                         *)
(* A stop request is forwarded to asio as a cancellation signal once       *)
(* `inited' is set, which initiate() does after it has started the asio    *)
(* operation.  The operation is external: it completes on a thread of its  *)
(* io_context, with a value or an error, or with operation_aborted after   *)
(* the signal; an endless one completes only after the signal.             *)
(*                                                                         *)
(* The timer's handler and the op's continuation race for _done: the first *)
(* one stops the other, the last one resumes the awaiter, which then       *)
(* destroys the timed_async_op.                                            *)
(***************************************************************************)
VARIABLES
    endless,    \* does the asio operation complete only when canceled?
    ipc,        \* initiate(): "idle", "checked", "registered", "started", "inited", "left"
    asio,       \* the asio operation: "none", "pending", "done"
    inited,     \* sd->inited
    signaled,   \* sd->cancelSig was emitted
    scb,        \* _scb: "none", "armed", "fired", "over"
    stop,       \* stop requested on the stop_source of the op's context
    r           \* _r: "none", "ok", "failed", "canceled"

opVars == <<endless, ipc, asio, inited, signaled, scb, stop, r>>

OpInit ==
    /\ endless \in BOOLEAN
    /\ ipc = "idle"
    /\ asio = "none"
    /\ inited = FALSE
    /\ signaled = FALSE
    /\ scb = "none"
    /\ stop = FALSE
    /\ r = "none"

\* if(stop_requested(ctx)): return false with errc::canceled
CheckStop ==
    /\ ipc = "idle"
    /\ IF stop THEN ipc' = "left" /\ r' = "canceled"
               ELSE ipc' = "checked" /\ UNCHANGED r
    /\ UNCHANGED <<endless, asio, inited, signaled, scb, stop>>

\* _scb.emplace(): with a stop requested meanwhile the callback runs here, and
\* finds inited still false.
Register ==
    /\ ipc = "checked"
    /\ ipc' = "registered"
    /\ scb' = IF stop THEN "over" ELSE "armed"
    /\ UNCHANGED <<endless, asio, inited, signaled, stop, r>>

\* mut_move(_init)(...)
StartAsio ==
    /\ ipc = "registered"
    /\ ipc' = "started"
    /\ asio' = "pending"
    /\ UNCHANGED <<endless, inited, signaled, scb, stop, r>>

StoreInited ==
    /\ ipc = "started"
    /\ ipc' = "inited"
    /\ inited' = TRUE
    /\ UNCHANGED <<endless, asio, signaled, scb, stop, r>>

RequestStop ==
    /\ ~stop
    /\ stop' = TRUE
    /\ scb' = IF scb = "armed" THEN "fired" ELSE scb
    /\ UNCHANGED <<endless, ipc, asio, inited, signaled, r>>

\* The stop callback.
StopCallback ==
    /\ scb = "fired"
    /\ scb' = "over"
    /\ signaled' = (signaled \/ (inited /\ asio = "pending"))
    /\ UNCHANGED <<endless, ipc, asio, inited, stop, r>>

\* The asio operation completes and calls onComp, which stores the result.
OnComp ==
    /\ asio = "pending"
    /\ asio' = "done"
    /\ \E v \in {"ok", "failed", "canceled"} :
          /\ v = "canceled" => signaled
          /\ endless => signaled
          /\ r' = v
    /\ UNCHANGED <<endless, ipc, inited, signaled, scb, stop>>

-----------------------------------------------------------------------------
(* timed_async_op *)

VARIABLES
    pc,         \* initiate(): "idle", "checked", "registered", "timing" (then the op's own), "left"
    timer,      \* "none", "pending", "expired"/"aborted" (handler due), or the handler's step
    opCb,       \* the op's continuation: "no", or the step it is at
    done,       \* _done
    err,        \* _err
    parentStop, \* stop requested on the awaiter's stop_source
    parentCb,   \* _scb: "none", "armed", "fired", "canceled_timer", "over"
    first,      \* history: who won the exchange: "none", "timer", "op"
    fin         \* "no", "returned" false, "resumed" the continuation

outer == <<pc, timer, opCb, done, err, parentStop, parentCb, first, fin>>
vars == <<opVars, outer>>

Init ==
    /\ OpInit
    /\ pc = "idle"
    /\ timer = "none"
    /\ opCb = "no"
    /\ done = FALSE
    /\ err = "none"
    /\ parentStop = FALSE
    /\ parentCb = "none"
    /\ first = "none"
    /\ fin = "no"

\* _timer.cancel(): only a pending wait can be canceled.
Canceled(t) == IF t = "pending" THEN "aborted" ELSE t

Steps == {"exchange", "won", "lost"}

-----------------------------------------------------------------------------
(* initiate() *)

OuterCheckStop ==
    /\ pc = "idle"
    /\ IF parentStop
       THEN /\ pc' = "left"
            /\ err' = "canceled"
            /\ fin' = "returned"
       ELSE /\ pc' = "checked"
            /\ UNCHANGED <<err, fin>>
    /\ UNCHANGED <<opVars, timer, opCb, done, parentStop, parentCb, first>>

\* _scb.emplace(): the callback may run right here.
OuterRegister ==
    /\ pc = "checked"
    /\ pc' = "registered"
    /\ IF parentStop
       THEN RequestStop /\ parentCb' = "over"
       ELSE parentCb' = "armed" /\ UNCHANGED opVars
    /\ UNCHANGED <<timer, opCb, done, err, parentStop, first, fin>>

\* _timer.async_wait(...)
AsyncWait ==
    /\ pc = "registered"
    /\ pc' = "timing"
    /\ timer' = "pending"
    /\ UNCHANGED <<opVars, opCb, done, err, parentStop, parentCb, first, fin>>

\* manual_initiate(_op, ssCtx, ...): an op that does not start calls the
\* continuation at once.
OpInitiates ==
    /\ pc = "timing"
    /\ CheckStop \/ Register \/ StartAsio \/ StoreInited
    /\ opCb' = IF asio = "none" /\ r' # "none" THEN "exchange" ELSE opCb
    /\ UNCHANGED <<pc, timer, done, err, parentStop, parentCb, first, fin>>

-----------------------------------------------------------------------------
(* The timer and its handler. *)

Expire ==
    /\ timer = "pending"
    /\ timer' = "expired"
    /\ UNCHANGED <<opVars, pc, opCb, done, err, parentStop, parentCb, first, fin>>

\* if(! ec) _err = errc::timeout
TimerHandler ==
    /\ timer \in {"expired", "aborted"}
    /\ timer' = "exchange"
    /\ err' = IF timer = "expired" THEN "timeout" ELSE err
    /\ UNCHANGED <<opVars, pc, opCb, done, parentStop, parentCb, first, fin>>

\* _done.exchange(true)
TimerExchange ==
    /\ timer = "exchange"
    /\ done' = TRUE
    /\ timer' = IF done THEN "lost" ELSE "won"
    /\ first' = IF done THEN first ELSE "timer"
    /\ UNCHANGED <<opVars, pc, opCb, err, parentStop, parentCb, fin>>

\* Mutant: the op is not stopped.
TimerWonNoStop ==
    /\ timer = "won"
    /\ timer' = "done"
    /\ UNCHANGED <<opVars, pc, opCb, done, err, parentStop, parentCb, first, fin>>

\* if(! ec) _opSs.request_stop()
TimerWon ==
    /\ timer = "won"
    /\ timer' = "done"
    /\ IF err = "timeout" /\ ~stop THEN RequestStop ELSE UNCHANGED opVars
    /\ UNCHANGED <<pc, opCb, done, err, parentStop, parentCb, first, fin>>

\* Mutant: _err is not reset.
TimerLostKeepsErr ==
    /\ timer = "lost"
    /\ timer' = "done"
    /\ fin' = "resumed"
    /\ UNCHANGED <<opVars, pc, opCb, done, err, parentStop, parentCb, first>>

\* _err = errc(), and the continuation is resumed.
TimerLost ==
    /\ timer = "lost"
    /\ timer' = "done"
    /\ err' = "none"
    /\ fin' = "resumed"
    /\ UNCHANGED <<opVars, pc, opCb, done, parentStop, parentCb, first>>

-----------------------------------------------------------------------------
(* The op and its continuation. *)

OpCompletes ==
    /\ OnComp
    /\ opCb' = "exchange"
    /\ UNCHANGED <<pc, timer, done, err, parentStop, parentCb, first, fin>>

OpStopCallback ==
    /\ StopCallback
    /\ UNCHANGED outer

\* Mutant: resumes whatever the exchange says.
OpExchangeResumes ==
    /\ opCb = "exchange"
    /\ done' = TRUE
    /\ opCb' = IF done THEN "lost" ELSE "won"
    /\ first' = IF done THEN first ELSE "op"
    /\ fin' = "resumed"
    /\ UNCHANGED <<opVars, pc, timer, err, parentStop, parentCb>>

OpExchange ==
    /\ opCb = "exchange"
    /\ done' = TRUE
    /\ opCb' = IF done THEN "lost" ELSE "won"
    /\ first' = IF done THEN first ELSE "op"
    /\ UNCHANGED <<opVars, pc, timer, err, parentStop, parentCb, fin>>

OpWon ==
    /\ opCb = "won"
    /\ opCb' = "done"
    /\ timer' = Canceled(timer)
    /\ UNCHANGED <<opVars, pc, done, err, parentStop, parentCb, first, fin>>

OpLost ==
    /\ opCb = "lost"
    /\ opCb' = "done"
    /\ fin' = "resumed"
    /\ UNCHANGED <<opVars, pc, timer, done, err, parentStop, parentCb, first>>

-----------------------------------------------------------------------------
(* The awaiter's stop: the callback cancels the timer, then stops the op. *)

ParentStop ==
    /\ ~parentStop
    /\ parentStop' = TRUE
    /\ parentCb' = IF parentCb = "armed" /\ fin = "no" THEN "fired" ELSE parentCb
    /\ UNCHANGED <<opVars, pc, timer, opCb, done, err, first, fin>>

ParentCbCancelsTimer ==
    /\ parentCb = "fired"
    /\ parentCb' = "canceled_timer"
    /\ timer' = Canceled(timer)
    /\ UNCHANGED <<opVars, pc, opCb, done, err, parentStop, first, fin>>

ParentCbStopsOp ==
    /\ parentCb = "canceled_timer"
    /\ parentCb' = "over"
    /\ IF stop THEN UNCHANGED opVars ELSE RequestStop
    /\ UNCHANGED <<pc, timer, opCb, done, err, parentStop, first, fin>>

-----------------------------------------------------------------------------
Next ==
    \/ OuterCheckStop \/ OuterRegister \/ AsyncWait \/ OpInitiates
    \/ Expire \/ TimerHandler \/ TimerExchange \/ TimerWon \/ TimerLost
    \/ OpCompletes \/ OpStopCallback \/ OpExchange \/ OpWon \/ OpLost
    \/ ParentStop \/ ParentCbCancelsTimer \/ ParentCbStopsOp

Spec == Init /\ [][Next]_vars

(* Threads go on, the timer expires unless canceled, an asio operation     *)
(* that can complete does.                                                 *)
Fairness ==
    /\ WF_vars(OuterCheckStop \/ OuterRegister \/ AsyncWait \/ OpInitiates)
    /\ WF_vars(Expire)
    /\ WF_vars(TimerHandler)
    /\ WF_vars(TimerExchange \/ TimerWon \/ TimerLost)
    /\ WF_vars(OpCompletes)
    /\ WF_vars(OpStopCallback)
    /\ WF_vars(OpExchange \/ OpWon \/ OpLost)
    /\ WF_vars(ParentCbCancelsTimer \/ ParentCbStopsOp)

FairSpec == Spec /\ Fairness

-----------------------------------------------------------------------------
TypeOK ==
    /\ ipc \in {"idle", "checked", "registered", "started", "inited", "left"}
    /\ asio \in {"none", "pending", "done"}
    /\ endless \in BOOLEAN
    /\ inited \in BOOLEAN
    /\ signaled \in BOOLEAN
    /\ stop \in BOOLEAN
    /\ done \in BOOLEAN
    /\ parentStop \in BOOLEAN
    /\ scb \in {"none", "armed", "fired", "over"}
    /\ r \in {"none", "ok", "failed", "canceled"}
    /\ pc \in {"idle", "checked", "registered", "timing", "left"}
    /\ timer \in {"none", "pending", "expired", "aborted", "done"} \cup Steps
    /\ opCb \in {"no", "done"} \cup Steps
    /\ err \in {"none", "timeout", "canceled"}
    /\ parentCb \in {"none", "armed", "fired", "canceled_timer", "over"}
    /\ first \in {"none", "timer", "op"}
    /\ fin \in {"no", "returned", "resumed"}

\* The awaiter is resumed by the later of the two only: when it is, the op has a
\* result, the timer has no pending handler, and both exchanges are made, one of
\* them first.  Nothing waits for the rest of the callback that was first: it
\* may still be about to cancel the timer or to stop the op.
ResumedByTheLast ==
    fin = "resumed" =>
        /\ r # "none" /\ opCb \in {"won", "done"}
        /\ timer \in {"won", "done"}
        /\ opCb = "won" => first = "op"
        /\ timer = "won" => first = "timer"
        /\ first # "none"

\* errc::timeout is reported exactly if the timer expired before the op was
\* done; an op that was done first keeps its result even if the timer expires
\* before it can be canceled.
TimeoutIffTimerFirst ==
    fin = "resumed" =>
        /\ err = "timeout" => first = "timer"
        /\ first = "op" => err = "none"
        /\ first = "timer" /\ ~parentStop => err = "timeout"

(* The stop came before initiate() had set inited, and nobody repeats it   *)
(* to an asio operation that never completes by itself.                    *)
LostStop == endless /\ asio = "pending" /\ scb = "over" /\ ~signaled

\* A timed op ends, even if its op would never complete by itself: the timer
\* stops it.  Only a stop that reaches the op while it initiates is lost.
TimedOpEnds == (pc = "checked") ~> (fin # "no" \/ LostStop)
=============================================================================
