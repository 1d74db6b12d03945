----------------------------- MODULE Resumption ------------------------------
(***************************************************************************)
(* Where coroutines run: the async op protocol (async_op.hpp), async       *)
(* contexts, resumers and continuations that know their resumer            *)
(* (resumer.hpp, any_resumer.hpp, continuation.hpp), start_on(), run_on(), *)
(* solely_run_on(), resume_on(), set_resumer() and set_stop_source(), task *)
(* and sync_wait.                                                          *)
(*                                                                         *)
(* An op is the sequence of what wraps it, from outside to inside, down to *)
(* a leaf: "now" completes in initiate(), "imm" is immediate, "io" is      *)
(* completed later by a scheduler of its own, or canceled at once when     *)
(* stop was requested.  A task is a coroutine that awaits the rest of the  *)
(* sequence and returns.  A coroutine with the resumer Home awaits the op. *)
(* initiate() of a wrapper calls that of the op it wraps, maybe posted.    *)
(***************************************************************************)
EXTENDS Naturals, Sequences

CONSTANTS
    Scheds,   \* schedulers
    MaxWraps  \* wrappers around a leaf

WrapsAssumption == MaxWraps \in Nat

VARIABLES
    op,     \* the op
    stops,  \* stop was requested of: "home", the stop source of the
            \* coroutine; "own", the one set_stop_source() sets
    calls,  \* calls of initiate() under way: calls[i] is that of op from i on
    r       \* <<what the last of them has come to>>
vars == <<op, stops, calls, r>>

Home  == "home"
Wraps == [k : {"start_on", "run_on", "solely_run_on", "resume_on", "set_resumer"}, s : Scheds]
         \cup [k : {"task", "set_stop_source"}, s : {"-"}]
Leafs == [k : {"now", "imm", "io"}, s : {"-"}]
Starters == {"start_on", "run_on", "solely_run_on"}

\* scheduler::post(); a bound of "-" is a continuation without a resumer.
\* Wrappers derive from the op they wrap, and a task that was not started is
\* not immediate: op from i on
IsImmediate(i) == op[Len(op)].k = "imm" /\ \A j \in i .. Len(op) - 1 : op[j].k # "task"

\* A coroutine returns: its continuation is resumed inline, or posted by
\* the resumer it knows.  conts: the bindings of the continuations, the
\* innermost first; where the outermost coroutine goes on.
Unwind(conts, at) ==
    LET known == {i \in DOMAIN conts : conts[i] # "-"}
    IN IF known = {} THEN at ELSE conts[CHOOSE i \in known : \A j \in known : j <= i]

\* Resume(cont, ctx): by the resumer of the continuation, else the context's
Resume(conts, res) ==
    Unwind(Tail(conts), IF Head(conts) = "-" THEN res ELSE Head(conts))

\* Mutant: the continuation keeps the resumer it had.
BindResumerKeep(conts, s) == conts

\* bind_resumer() replaces the resumer a continuation knows
BindResumer(conts, s) == <<s>> \o Tail(conts)

Canceled(stop) == stop \in stops

\* What initiate() of an op is called with: the resumer and the stop source
\* of the context, the continuation, and where the caller runs.
First == [res |-> Home, stop |-> "home", conts |-> <<"-">>, cur |-> Home]

\* sync: initiate() returned false, and cont was not touched.  Otherwise at
\* is where the outermost coroutine goes on.  on, stop: where the leaf was
\* initiated and with which stop source.
Now(cur, stop) == [sync |-> TRUE, at |-> cur, on |-> cur, stop |-> stop]
Later(at, on, stop) == [sync |-> FALSE, at |-> at, on |-> on, stop |-> stop]

\* With what the wrapper w, initiated by c, initiates the op it wraps; a task
\* runs right away, with the same context.
Passed(w, c) ==
    [res   |-> IF w.k \in {"set_resumer", "run_on", "solely_run_on"} THEN w.s ELSE c.res,
     stop  |-> IF w.k = "set_stop_source" THEN "own" ELSE c.stop,
     cur   |-> IF w.k \in Starters THEN w.s ELSE c.cur,
     conts |-> IF w.k = "resume_on" THEN BindResumer(c.conts, w.s)
               ELSE IF w.k = "solely_run_on" THEN BindResumer(c.conts, c.res)
               ELSE IF w.k = "task" THEN <<"-">> \o c.conts
               ELSE c.conts]

Init ==
    /\ \E n \in 0 .. MaxWraps, l \in Leafs : \E ws \in [1 .. n -> Wraps] : op = Append(ws, l)
    /\ stops \in SUBSET {"home", "own"} /\ calls = <<>> /\ r = <<>>

Depth == Len(calls)

\* The coroutine awaits the op.
Await ==
    /\ calls = <<>>
    /\ calls' = <<First>>
    /\ r' = IF IsImmediate(1) THEN <<Now(Home, "home")>> ELSE <<>>
    /\ UNCHANGED <<op, stops>>

\* Starters and tasks do not initiate an op that is immediate.
Checks == op[Depth].k \in Starters \cup {"task"} /\ IsImmediate(Depth + 1)

\* initiate() of a wrapper
Initiate ==
    /\ calls # <<>> /\ r = <<>> /\ Depth < Len(op) /\ ~Checks
    /\ calls' = Append(calls, Passed(op[Depth], calls[Depth]))
    /\ UNCHANGED <<op, stops, r>>

\* the leaf: a use_async_op, a queue op, ... or sync_async_op
InitiateLeaf ==
    /\ calls # <<>> /\ r = <<>> /\ Depth = Len(op)
    /\ LET c == calls[Depth] IN
       r' = <<IF op[Depth].k = "now" \/ Canceled(c.stop) THEN Now(c.cur, c.stop)
              ELSE Later(Resume(c.conts, c.res), c.cur, c.stop)>>
    /\ UNCHANGED <<op, stops, calls>>

\* manual_initiate() with d of an op that is immediate or whose initiate()
\* returned false resumes the continuation as if it had completed later; a
\* task initiated by c that awaits such an op, at a place, goes on and returns.
Continue(w, c, d, at) ==
    IF w.k = "task" THEN Unwind(c.conts, at) ELSE Resume(d.conts, d.res)

ImmediateInner ==
    /\ calls # <<>> /\ r = <<>> /\ Depth < Len(op) /\ Checks
    /\ LET c == calls[Depth] IN
       r' = <<Later(Continue(op[Depth], c, Passed(op[Depth], c), c.cur), "none", c.stop)>>
    /\ UNCHANGED <<op, stops, calls>>

\* initiate() of the wrapped op returns to the wrapper.
ReturnInner ==
    /\ r # <<>> /\ Depth > 1
    /\ calls' = SubSeq(calls, 1, Depth - 1)
    /\ LET w == op[Depth - 1]
           i == r[1]
       IN r' = IF i.sync /\ w.k \in Starters \cup {"task"}
               THEN <<Later(Continue(w, calls[Depth - 1], calls[Depth], i.at), i.on, i.stop)>>
               ELSE r
    /\ UNCHANGED <<op, stops>>

Next == Await \/ Initiate \/ InitiateLeaf \/ ImmediateInner \/ ReturnInner
Spec == Init /\ [][Next]_vars

(***************************************************************************)
(* Properties.                                                             *)
(***************************************************************************)
Done     == r # <<>> /\ Depth = 1
Inits(o) == {i \in DOMAIN o : o[i].k \in Starters}

\* The leaf is initiated by the innermost scheduler it was to be started
\* on, with the innermost stop source; and a coroutine that awaits
\* solely_run_on() of a task goes on where it was, whatever the task awaits
\* and wherever that is completed.
RunsWhereAsked ==
    Done /\ ~IsImmediate(1) =>
        /\ r[1].on # "none" =>
             /\ r[1].on = IF Inits(op) = {} THEN Home
                          ELSE op[CHOOSE i \in Inits(op) : \A j \in Inits(op) : j <= i].s
             /\ (r[1].stop = "own") = (\E i \in DOMAIN op : op[i].k = "set_stop_source")
        /\ Len(op) > 2 /\ op[1].k = "solely_run_on" /\ op[2].k = "task" => r[1].at = Home

\* resume_on.hpp:23: "Resumes the continuation of 'op' on 'sr'."
ResumesOnIt == Done /\ op[1].k = "resume_on" => r[1].at = op[1].s
=============================================================================
