------------------------------- MODULE OpGroup -------------------------------
(***************************************************************************)
(* async_op_group of include/dsk/async_op_group.hpp: ops are initiated as  *)
(* they are added and finish on any thread, while their owner goes on      *)
(* adding; until_all_done() waits for those that are left.  Made through   *)
(* make_async_op_group(), the group is waited for once more by the cleanup *)
(* scope, which is where its owner may destroy it.                         *)
(***************************************************************************)
EXTENDS Naturals, FiniteSets

CONSTANT Ops    \* ops that can be added, each at most once

VARIABLES
    ops,        \* ops: entries of the list
    st,         \* per op: "new", "added", "running", "handled", "resuming", "over"
    failed,     \* per op: it finished unsuccessfully
    started,    \* started
    cont,       \* cont is set and not yet called
    err,        \* err is set
    waited,     \* an until_all_done() op has completed since the last addition
    owner       \* "run", "adding" (between lock and initiation), "waiting", "gone"

vars == <<ops, st, failed, started, cont, err, waited, owner>>

Init ==
    /\ ops = {}
    /\ st = [o \in Ops |-> "new"]
    /\ failed = [o \in Ops |-> FALSE]
    /\ started = FALSE
    /\ cont = FALSE
    /\ err = FALSE
    /\ waited = FALSE
    /\ owner = "run"

\* add_and_initiate(): the entry is made under the mutex ...
Add(o) ==
    /\ owner = "run"
    /\ ~started             \* the caller's obligation, DSK_ASSERTed
    /\ st[o] = "new"
    /\ ops' = ops \cup {o}
    /\ st' = [st EXCEPT ![o] = "added"]
    /\ owner' = "adding"
    /\ waited' = FALSE
    /\ UNCHANGED <<failed, started, cont, err>>

\* ... and the op initiated after it.
InitiateOp(o) ==
    /\ owner = "adding"
    /\ st[o] = "added"
    /\ st' = [st EXCEPT ![o] = "running"]
    /\ owner' = "run"
    /\ UNCHANGED <<ops, failed, started, cont, err, waited>>

\* The op finishes; its continuation calls the result handler, outside the mutex.
HandleResult(o) ==
    /\ st[o] = "running"
    /\ st' = [st EXCEPT ![o] = "handled"]
    /\ \E f \in BOOLEAN : failed' = [failed EXCEPT ![o] = f]
    /\ UNCHANGED <<ops, started, cont, err, waited, owner>>

\* Mutant: tests the list before the erasure.
EraseTestsBefore(o) ==
    /\ st[o] = "handled"
    /\ err' = (err \/ failed[o])
    /\ ops' = ops \ {o}
    /\ st' = [st EXCEPT ![o] = IF started /\ ops = {} THEN "resuming" ELSE "over"]
    /\ UNCHANGED <<failed, started, cont, waited, owner>>
\* Mutant: resumes whoever waits or not.
EraseIgnoresStarted(o) ==
    /\ st[o] = "handled"
    /\ err' = (err \/ failed[o])
    /\ ops' = ops \ {o}
    /\ st' = [st EXCEPT ![o] = IF ops' = {} THEN "resuming" ELSE "over"]
    /\ UNCHANGED <<failed, started, cont, waited, owner>>
\* The critical section of the continuation: done == started && ops.empty().
EraseOp(o) ==
    /\ st[o] = "handled"
    /\ err' = (err \/ failed[o])
    /\ ops' = ops \ {o}
    /\ st' = [st EXCEPT ![o] = IF started /\ ops' = {} THEN "resuming" ELSE "over"]
    /\ UNCHANGED <<failed, started, cont, waited, owner>>

\* mut_move(d->cont)(), outside the mutex: the owner goes on.
ResumeOwner(o) ==
    /\ st[o] = "resuming"
    /\ st' = [st EXCEPT ![o] = "over"]
    /\ cont' = FALSE
    /\ waited' = TRUE
    /\ owner' = "run"
    /\ UNCHANGED <<ops, failed, started, err>>

\* until_all_done(): returns false when the list is empty.  Called by the owner
\* as often as it likes, and by the cleanup scope in any case.
UntilAllDone ==
    /\ owner = "run"
    /\ IF ops = {}
       THEN /\ waited' = TRUE
            /\ UNCHANGED <<cont, started, owner>>
       ELSE /\ cont' = TRUE
            /\ started' = TRUE
            /\ owner' = "waiting"
            /\ UNCHANGED waited
    /\ UNCHANGED <<ops, st, failed, err>>

\* The scope was cleaned up: the group is destroyed.
Destroy ==
    /\ owner = "run"
    /\ waited
    /\ owner' = "gone"
    /\ UNCHANGED <<ops, st, failed, started, cont, err, waited>>

Next ==
    \/ \E o \in Ops :
          Add(o) \/ InitiateOp(o) \/ HandleResult(o) \/ EraseOp(o) \/ ResumeOwner(o)
    \/ UntilAllDone
    \/ Destroy

Spec == Init /\ [][Next]_vars

(* Initiated ops finish, their continuations run, the owner ends its scope. *)
Fairness ==
    /\ \A o \in Ops : WF_vars(InitiateOp(o)) /\ WF_vars(HandleResult(o))
                      /\ WF_vars(EraseOp(o)) /\ WF_vars(ResumeOwner(o))
    /\ WF_vars(UntilAllDone)
    /\ WF_vars(Destroy)

FairSpec == Spec /\ Fairness

-----------------------------------------------------------------------------
\* The list holds the ops that are added and not yet erased.
TypeOK ==
    /\ ops = {o \in Ops : st[o] \in {"added", "running", "handled"}}
    /\ st \in [Ops -> {"new", "added", "running", "handled", "resuming", "over"}]
    /\ failed \in [Ops -> BOOLEAN]
    /\ started \in BOOLEAN
    /\ cont \in BOOLEAN
    /\ err \in BOOLEAN
    /\ waited \in BOOLEAN
    /\ owner \in {"run", "adding", "waiting", "gone"}

\* The owner waits for a continuation that exactly one op will call: either
\* ops are left in the list, or one op has left it last and is about to call.
\* (A lost or a doubled resumption needs an op that finishes while
\* until_all_done() is being initiated.)
OneWillResume ==
    /\ owner = "waiting" <=> cont
    /\ Cardinality({o \in Ops : st[o] = "resuming"})
       = IF owner = "waiting" /\ ops = {} THEN 1 ELSE 0

\* When the group is destroyed no op is running and no continuation is about
\* to touch it (the DSK_ASSERT of the destructor).
DestroyedWhenDone ==
    owner = "gone" => ops = {} /\ \A o \in Ops : st[o] \in {"new", "over"}

\* The result of until_all_done(): an error exactly if some op failed.
ErrIffFailed ==
    waited => (err <=> \E o \in Ops : failed[o])

\* The owner gets past until_all_done().
OwnerLeaves == (owner = "waiting") ~> (owner = "gone")
=============================================================================
