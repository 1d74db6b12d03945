------------------------------- MODULE MCTasks -------------------------------
(*****************************************************************************)
(* What the tasks of a program wait for, one component at a time: the ops of *)
(* a group (the server of the examples has one for its connections), an op   *)
(* with a timer, the requests on a connection of that server, and the queues *)
(* of a pipeline.  "part" says which one a behaviour is of; variables that   *)
(* it does not have stay empty.                                              *)
(*****************************************************************************)
EXTENDS Integers, Sequences, FiniteSets

CONSTANTS
    Ops,                         \* of OpGroup
    MaxSize, BufSize, MaxReqs,   \* of HttpFiles
    Apps, Files, Cap, Batch, Faults   \* of Pipelines

VARIABLES
    part,   \* the component this behaviour is of
    \* OpGroup
    ops, st, failed, started, cont, err, waited, owner,
    \* TimedOp
    endless, ipc, asio, inited, signaled, scb, stop, r, pc, timer, opCb, done, timedErr, parentStop,
    parentCb, first, fin,
    \* HttpFiles
    hpc, hreq, fileSize, lenOpened, hres, filePos, left, body, owed, faults, reqs,
    \* Pipelines
    app, items, taskPc, unread, chunks, endMarked, hand, held, written, refused, locs, newRows,
    stored, stats, stopped

Group == INSTANCE OpGroup
Timed == INSTANCE TimedOp WITH err <- timedErr
Http == INSTANCE HttpFiles WITH
    pc <- hpc, req <- hreq, size <- fileSize, len <- lenOpened, res <- hres, pos <- filePos, n <- reqs
Pipe == INSTANCE Pipelines WITH
    pc <- taskPc, src <- unread, q <- chunks, ended <- endMarked, buf <- held, out <- written,
    rows <- newRows, db <- stored, stop <- stopped

ASSUME TaskAssumption == Http!ServerAssumption /\ Pipe!FilesAssumption

vars == <<part, ops, st, failed, started, cont, err, waited, owner, endless, ipc, asio, inited,
        signaled, scb, stop, r, pc, timer, opCb, done, timedErr, parentStop, parentCb, first,
        fin, hpc, hreq, fileSize, lenOpened, hres, filePos, left, body, owed, faults, reqs,
        app, items, taskPc, unread, chunks, endMarked, hand, held, written, refused,
        locs, newRows, stored, stats, stopped>>

\* Items of wiki_hist (Undated is Pipe!NoDate): with a place of their own, a place, and at a place that comes before or after.
Undated == <<0, 0, 0>>
War    == [id |-> 1, classes |-> <<"war">>, partOf |-> "none", organizer |-> "none", props |-> {},
           coord |-> FALSE, at |-> [k \in {} |-> 0], start |-> Undated, end |-> Undated,
           date |-> Undated]
Here   == [War EXCEPT !.id = 5, !.coord = TRUE, !.date = <<1900, 1, 1>>]
Town   == [War EXCEPT !.id = 2, !.coord = TRUE, !.classes = <<"event">>]
InTown == [War EXCEPT !.at = [k \in {"admin", "country"} |-> IF k = "admin" THEN 2 ELSE 9],
                      !.start = <<-44, 3, 0>>, !.end = <<-44, 3, 15>>,
                      !.classes = <<"series of wars">>]
WikiFiles ==
    {<<InTown, [InTown EXCEPT !.id = 4], Town>>,
     <<InTown, [Here EXCEPT !.classes = <<"war", "sports season">>], [InTown EXCEPT !.id = 3]>>,
     <<Town, [InTown EXCEPT !.id = 3, !.classes = <<"event", "war">>]>>,
     <<[Here EXCEPT !.start = <<-5, 2, 1>>, !.end = <<-5, 1, 1>>, !.date = Undated],
       [Here EXCEPT !.id = 6, !.props = {"office"}]>>}

\* the variables of the other components
Unused ==
    /\ IF part = "group" THEN TRUE ELSE
        /\ ops = <<>> /\ st = <<>> /\ failed = <<>> /\ started = <<>> /\ cont = <<>> /\ err = <<>>
        /\ waited = <<>> /\ owner = <<>>
    /\ IF part = "timed" THEN TRUE ELSE
        /\ endless = <<>> /\ ipc = <<>> /\ asio = <<>> /\ inited = <<>> /\ signaled = <<>>
        /\ scb = <<>> /\ stop = <<>> /\ r = <<>> /\ pc = <<>> /\ timer = <<>> /\ opCb = <<>>
        /\ done = <<>> /\ timedErr = <<>> /\ parentStop = <<>> /\ parentCb = <<>> /\ first = <<>>
        /\ fin = <<>>
    /\ IF part = "http" THEN TRUE ELSE
        /\ hpc = <<>> /\ hreq = <<>> /\ fileSize = <<>> /\ lenOpened = <<>> /\ hres = <<>>
        /\ filePos = <<>> /\ left = <<>> /\ body = <<>> /\ owed = <<>> /\ faults = <<>> /\ reqs = <<>>
    /\ IF part = "pipe" THEN TRUE ELSE
        /\ app = <<>> /\ items = <<>> /\ taskPc = <<>> /\ unread = <<>> /\ chunks = <<>>
        /\ endMarked = <<>> /\ hand = <<>> /\ held = <<>> /\ written = <<>> /\ refused = <<>>
        /\ locs = <<>>
        /\ newRows = <<>> /\ stored = <<>> /\ stats = <<>> /\ stopped = <<>>

OthersStay ==
    /\ UNCHANGED part
    /\ IF part = "group" THEN TRUE ELSE
           UNCHANGED <<ops, st, failed, started, cont, err, waited, owner>>
    /\ IF part = "timed" THEN TRUE ELSE
           UNCHANGED <<endless, ipc, asio, inited, signaled, scb, stop, r, pc, timer, opCb, done,
                       timedErr, parentStop, parentCb, first, fin>>
    /\ IF part = "http" THEN TRUE ELSE
           UNCHANGED <<hpc, hreq, fileSize, lenOpened, hres, filePos, left, body, owed, faults,
                       reqs>>
    /\ IF part = "pipe" THEN TRUE ELSE
           UNCHANGED <<app, items, taskPc, unread, chunks, endMarked, hand, held, written, refused,
                       locs, newRows, stored, stats, stopped>>

Init ==
    \/ part = "group" /\ Group!Init /\ Unused
    \/ part = "timed" /\ Timed!Init /\ Unused
    \/ part = "http" /\ Http!Init /\ Unused
    \/ part = "pipe" /\ Pipe!Init /\ Unused

\* a step of one component
InGroup(A) == part = "group" /\ A /\ OthersStay
InTimed(A) == part = "timed" /\ A /\ OthersStay
InHttp(A) == part = "http" /\ A /\ OthersStay
InPipe(A) == part = "pipe" /\ A /\ OthersStay

Next ==
    \/ InGroup(Group!Next)
    \/ InTimed(Timed!Next)
    \/ InHttp(Http!Next)
    \/ InPipe(Pipe!Next)

\* Initiated ops finish, their continuations run, and the owner of a group ends its scope; threads go
\* on, a timer expires unless canceled, an asio operation that can complete does; every task of a
\* pipeline runs on a scheduler that runs what is posted to it.
Fairness ==
    /\ \A o \in Ops : WF_vars(InGroup(Group!InitiateOp(o) \/ Group!HandleResult(o)))
                      /\ WF_vars(InGroup(Group!EraseOp(o) \/ Group!ResumeOwner(o)))
    /\ WF_vars(InGroup(Group!UntilAllDone)) /\ WF_vars(InGroup(Group!Destroy))
    /\ WF_vars(InTimed(\/ Timed!OuterCheckStop \/ Timed!OuterRegister \/ Timed!AsyncWait
                       \/ Timed!OpInitiates))
    /\ WF_vars(InTimed(Timed!Expire)) /\ WF_vars(InTimed(Timed!TimerHandler))
    /\ WF_vars(InTimed(Timed!TimerExchange \/ Timed!TimerWon \/ Timed!TimerLost))
    /\ WF_vars(InTimed(Timed!OpCompletes)) /\ WF_vars(InTimed(Timed!OpStopCallback))
    /\ WF_vars(InTimed(Timed!OpExchange \/ Timed!OpWon \/ Timed!OpLost))
    /\ WF_vars(InTimed(Timed!ParentCbCancelsTimer \/ Timed!ParentCbStopsOp))
    /\ \A t \in Pipe!Tasks : WF_vars(InPipe(Pipe!StepOf(t)))

Spec == Init /\ [][Next]_vars /\ Fairness

-----------------------------------------------------------------------------
\* The owner that waits for its group is resumed by exactly one op: either ops are left in the list,
\* or one has left it last and is about to call the continuation, also when ops finish while
\* until_all_done() starts.
OneWillResume == part = "group" => Group!OneWillResume

\* When a group is destroyed no op is running and no continuation is about to touch it (the
\* DSK_ASSERT of the destructor).
DestroyedWhenDone == part = "group" => Group!DestroyedWhenDone

\* The awaiter of a timed op is resumed by the later of the timer's handler and the op's continuation
\* only, when the op has a result and no handler is pending.  The callback that was first may still be
\* about to cancel the timer or to stop the op, though the awaiter may destroy both.
ResumedByTheLast == part = "timed" => Timed!ResumedByTheLast

\* errc::timeout is reported exactly if the timer expired before the op was done; an op that was done
\* first keeps its result even if the timer expires before it can be canceled.
TimeoutIffTimerFirst == part = "timed" => Timed!TimeoutIffTimerFirst

\* A client that takes every response to be as long as its header says is at the start of a response
\* whenever the server reads the next request, and has got the bytes it asked for, unless the file
\* changed meanwhile or the response was one of an error; no transfer of an unchanged file fails.
InStep == part = "http" => Http!InStep

\* When no task of a pipeline failed, all of the source arrived at its end, once, however the chunks
\* cut the lines and wherever the place of an item comes in the source; only items whose INSERT failed,
\* which populate_db() reports and goes on, have no row.
NothingLost == part = "pipe" => Pipe!NothingLost

\* The owner of a group gets past until_all_done().
OwnerLeaves == (part = "group" /\ owner = "waiting") ~> (part # "group" \/ owner = "gone")

\* A timed op ends, even if its op would never complete by itself: the timer stops it.  Only a stop
\* that reaches the op while it initiates is lost.
TimedOpEnds ==
    (part = "timed" /\ pc = "checked") ~> (part # "timed" \/ fin # "no" \/ Timed!LostStop)

\* Every task of a pipeline ends, also the ones that wait at a full or an empty queue when another
\* one fails.
PipelineEnds == <>(part # "pipe" \/ \A t \in Pipe!Tasks : taskPc[t] \in {"done", "failed"})
=============================================================================
