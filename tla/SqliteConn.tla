------------------------------ MODULE SqliteConn ------------------------------
(***************************************************************************)
(* Transactions and savepoints of sqlite3_conn (include/dsk/sqlite3/       *)
(* conn.hpp): transaction_t and savepoint_t are guards, whose cleanup ops  *)
(* are added to the current cleanup scope of the task and undo what was    *)
(* not committed or released.  All calls are synchronous.                  *)
(*                                                                         *)
(* The engine is external: a stack of frames, one for BEGIN and one per    *)
(* savepoint, the rows written in each of them, and the rows on disk.      *)
(***************************************************************************)
EXTENDS Naturals, Sequences, SequencesExt, FiniteSetsExt

CONSTANTS
    MaxGuards, \* bound on guards made
    MaxRows,   \* bound on rows written
    PerScope,  \* bound on the guards of one cleanup scope
    Named,     \* do savepoints have names of their own, or the default name?
    Faults     \* may commands fail (SQLITE_BUSY and the like)?

VARIABLES
    frames,  \* the engine's stack: [name (0 for BEGIN), rows]
    disk,    \* committed rows
    guards,  \* all guards made: [kind, done, alive]
    scopes,  \* open cleanup scopes, sequences of guards in the order their ops were added
    rows,    \* per row written: the guards it was written under
    leaving, \* an error makes the task leave all scopes
    asserted \* an assertion of a guard's destructor has failed

vars == <<frames, disk, guards, scopes, rows, leaving, asserted>>

Init ==
    /\ frames = <<>> /\ disk = {}
    /\ guards = <<>> /\ scopes = <<>>
    /\ rows = <<>>
    /\ leaving = FALSE /\ asserted = FALSE

-----------------------------------------------------------------------------
(* The engine: the states a command can leave, none if it must fail. *)

Db == [frames |-> frames, disk |-> disk]
AllRows(fs) == UNION {fs[i].rows : i \in DOMAIN fs}

Begin == IF frames = <<>> THEN {[Db EXCEPT !.frames = <<[name |-> 0, rows |-> {}]>>]} ELSE {}

Commit == IF frames # <<>> THEN {[frames |-> <<>>, disk |-> disk \cup AllRows(frames)]} ELSE {}

Rollback == IF frames # <<>> THEN {[Db EXCEPT !.frames = <<>>]} ELSE {}

NameOf(g) == IF Named THEN g ELSE 1
Savepoint(n) == {[Db EXCEPT !.frames = Append(@, [name |-> n, rows |-> {}])]}

\* The most recent savepoint with a matching name, 0 if there is none.
Match(n) == Max({i \in DOMAIN frames : frames[i].name = n} \cup {0})

\* RELEASE gives the rows of the savepoint and of those above it to the frame below, or commits them.
Release(n) ==
    LET i == Match(n) IN
    CASE i = 0 -> {}
      [] i = 1 -> Commit
      [] i > 1 -> {[Db EXCEPT !.frames = [SubSeq(@, 1, i - 1) EXCEPT
                       ![i - 1].rows = frames[i - 1].rows \cup AllRows(SubSeq(frames, i, Len(frames)))]]}

\* ROLLBACK TO keeps the savepoint itself.
RollbackTo(n) ==
    LET i == Match(n) IN
    IF i = 0 THEN {} ELSE {[Db EXCEPT !.frames = [SubSeq(@, 1, i) EXCEPT ![i].rows = {}]]}

\* exec() of a command: done, or failed (ok = FALSE), which it must if it can not be done.
Exec(states, ok) ==
    IF ok THEN \E s \in states : frames' = s.frames /\ disk' = s.disk
    ELSE (Faults \/ states = {}) /\ UNCHANGED <<frames, disk>>

-----------------------------------------------------------------------------
(* The task. *)

Running == ~leaving /\ ~asserted
Open == {g \in DOMAIN guards : guards[g].alive}

\* DSK_CLEANUP_SCOPE_BEGIN
OpenScope ==
    /\ Running
    /\ Len(scopes) < MaxGuards
    /\ scopes # <<>> => Last(scopes) # <<>>
    /\ scopes' = Append(scopes, <<>>)
    /\ UNCHANGED <<frames, disk, guards, rows, leaving, asserted>>

\* A guard is made and its cleanup op added to the scope.
Guarded(kind) ==
    /\ guards' = Append(guards, [kind |-> kind, done |-> FALSE, alive |-> TRUE])
    /\ scopes' = [scopes EXCEPT ![Len(scopes)] = Append(@, Len(guards) + 1)]

CanGuard ==
    Running /\ Len(guards) < MaxGuards /\ scopes # <<>> /\ Len(Last(scopes)) < PerScope

\* make_transaction(): nothing is made if BEGIN fails.
MakeTransaction(ok) ==
    /\ CanGuard
    /\ Exec(Begin, ok)
    /\ IF ok THEN Guarded("txn") ELSE UNCHANGED <<guards, scopes>>
    /\ leaving' = ~ok
    /\ UNCHANGED <<rows, asserted>>

\* make_savepoint(): the guard is made first, and destroyed if SAVEPOINT fails, with an assertion in
\* debug builds.  A name that the call owns has been moved into the guard by then: SAVEPOINT has none
\* and fails.  It is made inside of a transaction (alone it would stay in the engine, see RollbackTo).
MakeSavepoint(owned, ok) ==
    /\ CanGuard /\ frames # <<>>
    /\ Exec(IF owned THEN {} ELSE Savepoint(NameOf(Len(guards) + 1)), ok)
    /\ IF ok THEN Guarded("sp") ELSE UNCHANGED <<guards, scopes>>
    /\ asserted' \in {FALSE, ~ok}
    /\ leaving' = ~ok
    /\ UNCHANGED rows

\* Mutant: done although COMMIT or RELEASE has failed.
FinishAnyway(g, ok) ==
    /\ Running /\ g \in Open /\ ~guards[g].done
    /\ g = Max(Open)
    /\ Exec(IF guards[g].kind = "txn" THEN Commit ELSE Release(NameOf(g)), ok)
    /\ guards' = [guards EXCEPT ![g].done = TRUE]
    /\ UNCHANGED <<scopes, rows, leaving, asserted>>

\* commit() and release(), of the innermost guard: done is set only after success.
Finish(g, ok) ==
    /\ Running /\ g \in Open /\ ~guards[g].done
    /\ g = Max(Open)
    /\ Exec(IF guards[g].kind = "txn" THEN Commit ELSE Release(NameOf(g)), ok)
    /\ guards' = [guards EXCEPT ![g].done = ok]
    /\ leaving' = ~ok
    /\ UNCHANGED <<scopes, rows, asserted>>

\* transaction_t::rollback()
RollbackTransaction(g, ok) ==
    /\ Running /\ g \in Open /\ ~guards[g].done
    /\ g = Max(Open) /\ guards[g].kind = "txn"
    /\ Exec(Rollback, ok)
    /\ guards' = IF ok THEN [guards EXCEPT ![g].kind = "rolled_back", ![g].done = TRUE] ELSE guards
    /\ leaving' = ~ok
    /\ UNCHANGED <<scopes, rows, asserted>>

\* commit_and_begin(): the rows so far are on disk even if BEGIN fails.
CommitAndBegin(g, okC, okB) ==
    /\ Running /\ g \in Open /\ ~guards[g].done
    /\ g = Max(Open) /\ guards[g].kind = "txn"
    /\ IF okC
       THEN /\ Commit # {}
            /\ okB \/ Faults
            /\ disk' = disk \cup AllRows(frames)
            /\ frames' = IF okB THEN <<[name |-> 0, rows |-> {}]>> ELSE <<>>
            /\ rows' = [r \in DOMAIN rows |-> rows[r] \ {g}]
       ELSE ~okB /\ Exec(Commit, FALSE) /\ UNCHANGED rows
    /\ leaving' = ~okB
    /\ UNCHANGED <<guards, scopes, asserted>>

\* exec() of a statement that writes a row.  Some errors make the engine roll back as a whole.
Write(outcome) ==
    /\ Running /\ Len(rows) < MaxRows
    /\ \/ /\ outcome = "ok"
          /\ rows' = Append(rows, {g \in Open : ~guards[g].done})
          /\ IF frames = <<>> THEN disk' = disk \cup {Len(rows) + 1} /\ UNCHANGED frames
             ELSE /\ frames' = [frames EXCEPT ![Len(frames)].rows = @ \cup {Len(rows) + 1}]
                  /\ UNCHANGED disk
          /\ UNCHANGED leaving
       \/ outcome = "failed" /\ Faults /\ leaving' = TRUE /\ UNCHANGED <<frames, disk, rows>>
       \/ outcome = "rolled_back" /\ Faults /\ frames' = <<>> /\ leaving' = TRUE /\ UNCHANGED <<disk, rows>>
    /\ UNCHANGED <<guards, scopes, asserted>>

\* An error of the task's own
Fail ==
    /\ Running /\ scopes # <<>>
    /\ leaving' = TRUE
    /\ UNCHANGED <<frames, disk, guards, scopes, rows, asserted>>

\* rollback_if_uncommited(), rollback_if_unreleased()
Undo(g) == IF guards[g].kind = "txn" THEN Rollback ELSE RollbackTo(NameOf(g))

\* The cleanup op of the first guard of the innermost scope whose op has not run, in the order they
\* were added (lazy_async_op_group); the destructor then asserts that the guard is done.
Cleanup(g, ok) ==
    /\ ~asserted /\ scopes # <<>> /\ Last(scopes) # <<>>
    /\ g = Last(scopes)[1]
    /\ IF guards[g].done THEN ok /\ UNCHANGED <<frames, disk>> ELSE Exec(Undo(g), ok)
    /\ guards' = [guards EXCEPT ![g].alive = FALSE]
    /\ scopes' = [scopes EXCEPT ![Len(scopes)] = Tail(@)]
    /\ asserted' = ~ok
    /\ UNCHANGED <<rows, leaving>>

\* A scope without ops is left; when all are, the caller of the task sees the error.
CloseScope ==
    /\ ~asserted /\ scopes # <<>> /\ Last(scopes) = <<>>
    /\ scopes' = Front(scopes)
    /\ leaving' = (leaving /\ Len(scopes) > 1)
    /\ UNCHANGED <<frames, disk, guards, rows, asserted>>

Next ==
    \/ OpenScope \/ Fail \/ CloseScope
    \/ \E ok \in BOOLEAN : MakeTransaction(ok) \/ \E owned \in BOOLEAN : MakeSavepoint(owned, ok)
    \/ \E g \in DOMAIN guards, ok \in BOOLEAN : Finish(g, ok) \/ RollbackTransaction(g, ok) \/ Cleanup(g, ok)
    \/ \E g \in DOMAIN guards, okC, okB \in BOOLEAN : CommitAndBegin(g, okC, okB)
    \/ \E o \in {"ok", "failed", "rolled_back"} : Write(o)

Spec == Init /\ [][Next]_vars

-----------------------------------------------------------------------------
(* Properties *)

\* The rows written under a guard that was neither committed nor released are gone with its scope, as
\* the tests of both have it.
Committed(g) == guards[g].done /\ guards[g].kind # "rolled_back"
UndoneRowsGone == \A r \in disk : \A g \in rows[r] : Committed(g)

\* Besides, once no guard is open no transaction is, and the rows of guards that were committed or
\* released are on disk: a scope that is left early, or whose commands fail, leaves nothing behind
\* (transaction_t, savepoint_t).
DiskIsCommitted ==
    /\ UndoneRowsGone
    /\ (~asserted /\ Open = {}) =>
          /\ frames = <<>>
          /\ \A r \in DOMAIN rows : (\A g \in rows[r] : Committed(g)) => r \in disk
=============================================================================
