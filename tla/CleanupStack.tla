----------------------------- MODULE CleanupStack -----------------------------
(***************************************************************************)
(* Async cleanup of coroutines: lazy_async_op_group and its stack          *)
(* (include/dsk/async_op_group.hpp) as task and generator use them         *)
(* (include/dsk/task.hpp, include/dsk/generator.hpp).  A coroutine keeps a *)
(* stack of cleanup scopes, each a group of ops that are only initiated    *)
(* when the scope ends.  Returning or failing runs the groups from the     *)
(* innermost outwards, one after the other, before the coroutine is        *)
(* destroyed and its awaiter resumed.                                      *)
(*                                                                         *)
(* The system is one task and one generator that lives in it.  The first   *)
(* next() adds to the task's current scope an op (GenOp) that cleans up    *)
(* whatever the generator has not cleaned up itself.  The other cleanup    *)
(* ops are external: they finish on any thread, successfully or not.       *)
(***************************************************************************)
EXTENDS Naturals, SequencesExt

CONSTANTS
    Ops,        \* cleanup ops that can be added, each at most once
    GenOp,      \* the generator's parent_cleanup_op
    MaxDepth,   \* bound: scopes open at a time in one coroutine
    Reuse       \* may ops be added to a scope that has been cleaned up once?

ConstAssumption ==
    /\ GenOp \notin Ops
    /\ MaxDepth \in Nat \ {0}
    /\ Reuse \in BOOLEAN

AllOps == Ops \cup {GenOp}
Coros  == {"task", "gen"}

VARIABLES
    stack,  \* per coroutine: _cleanupGpStack, records of lazy_async_op_groups
    pc,     \* per coroutine: where it is
    next,   \* per coroutine: index of the op the loop of until_all_done initiates next, or 0
    res,    \* per coroutine: the result stored in its host
    cerr,   \* per coroutine: _err of the stack's until_all_done_op
    ost,    \* per op: "new", "added", "running", "counted", "done"
    home,   \* per op: the coroutine it was added to
    ofail,  \* per op: it failed
    old     \* per op: what _n.fetch_add returned to its completion

vars == <<stack, pc, next, res, cerr, ost, home, ofail, old>>

\* _n starts at 1.
NewGroup(scope) == [ops |-> << >>, n |-> 1, err |-> FALSE, scope |-> scope]

\* Mutant: the stack is read from its bottom.
Outermost(c) == Head(stack[c])

Top(c) == Last(stack[c])

Init ==
    /\ stack = [c \in Coros |-> << >>]
    /\ pc = [c \in Coros |-> IF c = "task" THEN "body" ELSE "new"]
    /\ next = [c \in Coros |-> 0]
    /\ res = [c \in Coros |-> "none"]
    /\ cerr = [c \in Coros |-> FALSE]
    /\ ost = [o \in AllOps |-> "new"]
    /\ home = [o \in AllOps |-> "task"]
    /\ ofail = [o \in AllOps |-> FALSE]
    /\ old = [o \in AllOps |-> 0]

-----------------------------------------------------------------------------
(* The body of a coroutine. *)

\* make_cleanup_scope(): push_pop_guard
OpenScope(c) ==
    /\ pc[c] = "body"
    /\ Len(stack[c]) < MaxDepth
    /\ stack' = [stack EXCEPT ![c] = Append(@, NewGroup(TRUE))]
    /\ UNCHANGED <<pc, next, res, cerr, ost, home, ofail, old>>

\* coro_promise_base::add_cleanup(): the implicit scope is made on demand.
WithOp(s, o) ==
    IF s = << >> THEN << [NewGroup(FALSE) EXCEPT !.ops = <<o>>] >>
                 ELSE [s EXCEPT ![Len(s)].ops = Append(@, o)]

\* lazy_async_op_group::add() requires _n == 1; a scope cleaned up before has
\* a larger one.
CanAdd(g) == g.n = 1 \/ Reuse

AddCleanup(c, o) ==
    /\ pc[c] = "body"
    /\ ost[o] = "new"
    /\ stack[c] # << >> => CanAdd(Top(c))
    /\ stack' = [stack EXCEPT ![c] = WithOp(@, o)]
    /\ ost' = [ost EXCEPT ![o] = "added"]
    /\ home' = [home EXCEPT ![o] = c]
    /\ UNCHANGED <<pc, next, res, cerr, ofail, old>>

\* push_pop_guard::add(): any open scope, not only the innermost.
AddToScope(c, k, o) ==
    /\ pc[c] = "body"
    /\ ost[o] = "new"
    /\ k < Len(stack[c])
    /\ stack[c][k].scope /\ CanAdd(stack[c][k])
    /\ stack' = [stack EXCEPT ![c][k].ops = Append(@, o)]
    /\ ost' = [ost EXCEPT ![o] = "added"]
    /\ home' = [home EXCEPT ![o] = c]
    /\ UNCHANGED <<pc, next, res, cerr, ofail, old>>

\* DSK_TRY scope.until_all_done(): the ops of the innermost scope are initiated.
EndScope(c) ==
    /\ pc[c] = "body"
    /\ stack[c] # << >> /\ Top(c).scope /\ Top(c).ops # << >>
    /\ pc' = [pc EXCEPT ![c] = "scope"]
    /\ next' = [next EXCEPT ![c] = 1]
    /\ UNCHANGED <<stack, res, cerr, ost, home, ofail, old>>

\* ~push_pop_guard() of a scope whose ops have been cleaned up.
CloseScope(c) ==
    /\ pc[c] = "body"
    /\ stack[c] # << >> /\ Top(c).scope /\ Top(c).ops = << >>
    /\ stack' = [stack EXCEPT ![c] = Front(@)]
    /\ UNCHANGED <<pc, next, res, cerr, ost, home, ofail, old>>

\* DSK_RETURN, DSK_THROW or a failed DSK_TRY.
Leave(c, v) ==
    /\ pc[c] = "body"
    /\ res' = [res EXCEPT ![c] = v]
    /\ pc' = [pc EXCEPT ![c] = "leaving"]
    /\ UNCHANGED <<stack, next, cerr, ost, home, ofail, old>>

-----------------------------------------------------------------------------
(* The generator. *)

\* next(): the first one registers the generator with the current scope.
NextOfGen ==
    /\ pc["task"] = "body"
    /\ \/ /\ pc["gen"] = "new"
          /\ stack["task"] # << >> => CanAdd(Top("task"))
          /\ stack' = [stack EXCEPT !["task"] = WithOp(@, GenOp)]
          /\ ost' = [ost EXCEPT ![GenOp] = "added"]
       \/ /\ pc["gen"] = "yielded"
          /\ UNCHANGED <<stack, ost>>
    /\ pc' = [pc EXCEPT !["task"] = "awaiting", !["gen"] = "body"]
    /\ UNCHANGED <<next, res, cerr, home, ofail, old>>

Yield ==
    /\ pc["gen"] = "body"
    /\ pc' = [pc EXCEPT !["task"] = "body", !["gen"] = "yielded"]
    /\ UNCHANGED <<stack, next, res, cerr, ost, home, ofail, old>>

-----------------------------------------------------------------------------
(* Running the groups of a stack. *)

\* pop_untill_non_empty()
WithoutEmpty(s) ==
    IF \E k \in 1..Len(s) : s[k].ops # << >>
    THEN SubSeq(s, 1, CHOOSE k \in 1..Len(s) :
                          s[k].ops # << >> /\ \A j \in (k + 1)..Len(s) : s[j].ops = << >>)
    ELSE << >>

\* All groups are done: the result is overwritten if a cleanup op failed, the
\* coroutine destroyed and its awaiter resumed.  When it is the task that
\* cleans up the generator, the generator is left where it is.
Ended == [c \in Coros |-> IF c = "gen" THEN [pc EXCEPT !["gen"] = "gone", !["task"] = "body"]
                                       ELSE [pc EXCEPT !["task"] = "gone"]]

\* Mutant: the failure is not stored.
KeepsResult(c, failed) ==
    IF pc[c] \in {"pleaving", "pcleanup"}
    THEN pc' = [pc EXCEPT ![c] = "cleaned"] /\ UNCHANGED res
    ELSE pc' = Ended[c] /\ UNCHANGED res

AfterCleanup(c, failed) ==
    IF pc[c] \in {"pleaving", "pcleanup"}
    THEN pc' = [pc EXCEPT ![c] = "cleaned"] /\ UNCHANGED res
    ELSE pc' = Ended[c] /\ res' = [res EXCEPT ![c] = IF failed THEN "cleanup_failed" ELSE @]

\* lazy_async_op_group_stack's until_all_done: initiated by initiate_cleanup()
\* of a coroutine that leaves or by the task's parent_cleanup_op.
StartCleanup(c) ==
    /\ pc[c] \in {"leaving", "pleaving"}
    /\ LET s == WithoutEmpty(stack[c]) IN
       /\ stack' = [stack EXCEPT ![c] = s]
       /\ IF s = << >>
          THEN AfterCleanup(c, FALSE) /\ UNCHANGED next
          ELSE /\ next' = [next EXCEPT ![c] = 1]
               /\ pc' = [pc EXCEPT ![c] = IF @ = "leaving" THEN "cleanup" ELSE "pcleanup"]
               /\ UNCHANGED res
    /\ UNCHANGED <<cerr, ost, home, ofail, old>>

\* One iteration of the loop of lazy_async_op_group's until_all_done.  The
\* generator's op starts the cleanup of a generator that has not finished.
StartOp(c) ==
    /\ next[c] # 0
    /\ LET o == Top(c).ops[next[c]] IN
       /\ ost' = [ost EXCEPT ![o] = "running"]
       /\ pc' = IF o = GenOp /\ pc["gen"] # "gone" THEN [pc EXCEPT !["gen"] = "pleaving"] ELSE pc
    /\ next' = [next EXCEPT ![c] = IF @ = Len(Top(c).ops) THEN 0 ELSE @ + 1]
    /\ UNCHANGED <<stack, res, cerr, home, ofail, old>>

Alive(o) == stack[home[o]] # << >> /\ Contains(Top(home[o]).ops, o)

\* A completion stores the error and increments _n, and keeps the old value ...
\* Completions are taken one at a time: one that overlaps with the last one
\* reads a group that may be destroyed, see the README.
CountOp(o) ==
    /\ ost[o] = "running"
    /\ Alive(o)
    /\ o = GenOp => pc["gen"] \in {"gone", "cleaned"}
    /\ \A p \in AllOps : ost[p] # "counted"
    /\ \E f \in IF o # GenOp THEN BOOLEAN ELSE {pc["gen"] = "cleaned" /\ cerr["gen"]} :
          /\ ofail' = [ofail EXCEPT ![o] = f]
          /\ stack' = [stack EXCEPT ![home[o]][Len(stack[home[o]])] =
                          [Top(home[o]) EXCEPT !.n = @ + 1, !.err = @ \/ f]]
    /\ old' = [old EXCEPT ![o] = Top(home[o]).n]
    /\ ost' = [ost EXCEPT ![o] = "counted"]
    /\ UNCHANGED <<pc, next, res, cerr, home>>

\* The group's continuation, called by the completion that found it complete.
\* An explicit until_all_done() takes the result, which clears the ops, and
\* DSK_TRY leaves the coroutine if it is an error ...
ScopeResumes(c) ==
    /\ pc[c] = "scope"
    /\ stack' = [stack EXCEPT ![c][Len(stack[c])].ops = << >>]
    /\ IF Top(c).err
       THEN /\ pc' = [pc EXCEPT ![c] = "leaving"]
            /\ res' = [res EXCEPT ![c] = "cleanup_failed"]
       ELSE /\ pc' = [pc EXCEPT ![c] = "body"]
            /\ UNCHANGED res
    /\ UNCHANGED <<next, cerr>>

\* ... and the stack's until_all_done() goes on to the next group.
StackResumes(c) ==
    /\ pc[c] \in {"cleanup", "pcleanup"}
    /\ cerr' = [cerr EXCEPT ![c] = @ \/ Top(c).err]
    /\ LET s == WithoutEmpty(Front(stack[c])) IN
       /\ stack' = [stack EXCEPT ![c] = s]
       /\ IF s = << >>
          THEN AfterCleanup(c, cerr'[c]) /\ UNCHANGED next
          ELSE next' = [next EXCEPT ![c] = 1] /\ UNCHANGED <<pc, res>>

\* Mutant: one op too late.
GroupCompleteNever(o) == old[o] = Len(Top(home[o]).ops) + 1

\* ... which it compares with the size of the group.
GroupComplete(o) == old[o] = Len(Top(home[o]).ops)

CompareSize(o) ==
    /\ ost[o] = "counted"
    /\ Alive(o)
    /\ ost' = [ost EXCEPT ![o] = "done"]
    /\ IF GroupComplete(o)
       THEN ScopeResumes(home[o]) \/ StackResumes(home[o])
       ELSE UNCHANGED <<stack, pc, next, res, cerr>>
    /\ UNCHANGED <<home, ofail, old>>

-----------------------------------------------------------------------------
Next ==
    \/ \E c \in Coros :
          \/ OpenScope(c)
          \/ \E o \in Ops : AddCleanup(c, o) \/ \E k \in 1..MaxDepth : AddToScope(c, k, o)
          \/ EndScope(c)
          \/ CloseScope(c)
          \/ \E v \in {"val", "err"} : Leave(c, v)
          \/ StartCleanup(c)
          \/ StartOp(c)
    \/ NextOfGen
    \/ Yield
    \/ \E o \in AllOps : CountOp(o) \/ CompareSize(o)

Spec == Init /\ [][Next]_vars

(* Initiated cleanup goes on and cleanup ops finish; the bodies need not.  *)
Fairness ==
    /\ \A c \in Coros : WF_vars(StartCleanup(c)) /\ WF_vars(StartOp(c))
    /\ \A o \in AllOps : WF_vars(CountOp(o)) /\ WF_vars(CompareSize(o))

FairSpec == Spec /\ Fairness

-----------------------------------------------------------------------------
Groups == [ops : Seq(AllOps), n : Nat \ {0}, err : BOOLEAN, scope : BOOLEAN]

TypeOK ==
    /\ stack \in [Coros -> Seq(Groups)]
    /\ pc \in [Coros -> {"new", "body", "yielded", "awaiting", "scope", "leaving", "cleanup",
                         "pleaving", "pcleanup", "cleaned", "gone"}]
    /\ next \in [Coros -> Nat]
    /\ res \in [Coros -> {"none", "val", "err", "cleanup_failed"}]
    /\ cerr \in [Coros -> BOOLEAN]
    /\ ost \in [AllOps -> {"new", "added", "running", "counted", "done"}]
    /\ home \in [AllOps -> Coros]
    /\ ofail \in [AllOps -> BOOLEAN]
    /\ old \in [AllOps -> Nat]

\* "cleanup ops will also be executed scope by scope": while a scope's ops run,
\* those of the enclosing scopes have not been initiated, in either coroutine.
InnermostFirst ==
    \A c \in Coros : \A k \in 1..Len(stack[c]) :
        k < Len(stack[c]) =>
            \A i \in 1..Len(stack[c][k].ops) : ost[stack[c][k].ops[i]] = "added"

\* "all of them should be finished, no matter the results": when a coroutine
\* is destroyed, every cleanup op added to it has been run to its end.  For
\* the generator that is when the task, whose local it is, is destroyed: the
\* DSK_RELEASE_ASSERT of ~coro_promise_base() never fires.
DestroyedWhenClean ==
    /\ \A c \in Coros : pc[c] = "gone" =>
          \A o \in AllOps : home[o] = c => ost[o] \in {"new", "done"}
    /\ pc["task"] = "gone" =>
          /\ WithoutEmpty(stack["gen"]) = << >>
          /\ \A o \in AllOps : ost[o] \in {"new", "done"}

\* A scope that is left or a coroutine body that goes on after
\* until_all_done() finds none of the scope's ops still running.
ResumedWhenScopeDone ==
    \A c \in Coros :
        pc[c] = "body" =>
            \A o \in AllOps : home[o] = c => ost[o] \in {"new", "added", "done"}

\* "If any error raises from cleanup ops, errc::one_or_more_cleanup_ops_failed
\* will overwrite the result": the result of a coroutine reports a failed
\* cleanup exactly if one of the ops it has cleaned up itself failed, the
\* generator's op and what it cleaned up on behalf of it included.
FailureReported ==
    \A c \in Coros : pc[c] = "gone" =>
        (res[c] = "cleanup_failed" <=> \E o \in AllOps : home[o] = c /\ ofail[o])

\* A coroutine that returns or fails is destroyed and its awaiter resumed.
LeaverEnds == \A c \in Coros : (pc[c] = "leaving") ~> (pc[c] = "gone")
=============================================================================
