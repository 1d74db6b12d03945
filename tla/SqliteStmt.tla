------------------------------ MODULE SqliteStmt ------------------------------
(***************************************************************************)
(* sqlite3_pstmt (include/dsk/sqlite3/stmt.hpp), a prepared statement that *)
(* is bound, stepped, read and reset again and again.  The engine is       *)
(* external: its view of the statement is "vm", and it may fail.           *)
(* reset_state() is reached through the binding of an argument, so that a  *)
(* statement without parameters is reset by exec()'s resetter or by hand.  *)
(***************************************************************************)
EXTENDS Naturals

VARIABLES
    vm,        \* the engine: "start" (reset), "row", "done", "err"
    needReset, \* _needReset
    stepErr,   \* _stepErr # 0
    misuse,    \* has the engine been called in a way it forbids?
    params,    \* has the statement parameters? (arg_count() > 0)
    last       \* the last call, where the engine was when it stepped, and the outcome

vars == <<vm, needReset, stepErr, misuse, params, last>>

Init ==
    /\ vm = "start" /\ needReset = FALSE /\ stepErr = FALSE /\ misuse = FALSE
    /\ params \in BOOLEAN
    /\ last = [call |-> "none", from |-> "start", res |-> "none"]

\* The statement as one value, for calls of several steps.
Stmt == [vm |-> vm, needReset |-> needReset, stepErr |-> stepErr, misuse |-> misuse]
Becomes(s, call, from, res) ==
    /\ vm' = s.vm /\ needReset' = s.needReset /\ stepErr' = s.stepErr /\ misuse' = s.misuse
    /\ last' = [call |-> call, from |-> from, res |-> res]
    /\ UNCHANGED params

\* Mutant: a statement that has run to its end is taken for reset.
NoResetAtEnd(s) ==
    IF s.needReset /\ s.vm # "done"
    THEN [s EXCEPT !.vm = "start", !.needReset = FALSE, !.stepErr = FALSE] ELSE s

\* reset_state(), which change_to_explain() and the resetter of exec() call too
ResetState(s) ==
    IF s.needReset THEN [s EXCEPT !.vm = "start", !.needReset = FALSE, !.stepErr = FALSE] ELSE s

\* null_arg(), num_arg(), blob_arg(), text_arg(), ptr_arg(): the engine binds only where it starts.
Bind(s) == LET t == ResetState(s) IN [t EXCEPT !.misuse = @ \/ t.vm # "start"]

\* args(): a bound argument resets, and none is bound where there is none.
Bound(s) == IF params THEN Bind(s) ELSE s

\* next(): what sqlite3_step() can return
Step(s, r) ==
    [s EXCEPT !.vm = r, !.needReset = TRUE, !.stepErr = IF r = "err" THEN TRUE ELSE @]

\* Columns: what the engine has, what the caller asks for.
ColTypes == {"int", "float", "text", "blob", "null"}
Wants == {"num", "buf", "optional num", "optional buf"}

\* get_num(), get_text(), get_blob() and the dsk_get_sqlite3_col() that choose them; a number that does
\* not fit is an error of num_cast.
GetCol(type, want, fits) ==
    CASE want \in {"optional num", "optional buf"} /\ type = "null" -> "nullopt"
      [] want \in {"num", "optional num"} /\ type \in {"int", "float"} -> IF fits THEN "value" ELSE "num_cast"
      [] want \in {"buf", "optional buf"} /\ type \in {"text", "blob"} -> "value"
      [] OTHER -> "mismatch"

\* next<T>() and next(vs...): the outcome for a row is that of its columns.
Outcome(r, void, opt, col) ==
    CASE r = "err" -> "error"
      [] r = "done" -> IF void THEN "false" ELSE IF opt THEN "nullopt" ELSE "no_more_row"
      [] r = "row"  -> IF void THEN "true" ELSE col

-----------------------------------------------------------------------------
\* args(): the first error ends it, and no argument gives none.
Args(ok) ==
    /\ ok \/ params
    /\ Becomes(Bound(Stmt), "args", "start", IF ok THEN "value" ELSE "error")

NextRow(r, void, opt, col) ==
    /\ Becomes(Step(Stmt, r), "next", vm, Outcome(r, void, opt, col))

\* exec(): args(), next(), and the resetter however they end
Exec(ok, r, void, opt, col) ==
    LET b == Bound(Stmt)
    IN  /\ ok \/ params
        /\ IF ok THEN Becomes(ResetState(Step(b, r)), "exec", b.vm, Outcome(r, void, opt, col))
                 ELSE Becomes(ResetState(b), "exec", "start", "error")

\* exec<T, Start, false>(): the caller goes on from where it stopped.
ExecKept(ok, r, void, opt, col) ==
    LET b == Bound(Stmt)
    IN  /\ ok \/ params
        /\ IF ok THEN Becomes(Step(b, r), "exec kept", b.vm, Outcome(r, void, opt, col))
                 ELSE Becomes(b, "exec kept", "start", "error")

\* reset_state(), ~scoped_resetter_t(), change_to_explain()
Reset ==
    /\ Becomes(ResetState(Stmt), "reset", "start", "value")

Next ==
    \/ \E ok \in BOOLEAN : Args(ok)
    \/ \E r \in {"row", "done", "err"}, void, opt, fits \in BOOLEAN, t \in ColTypes, w \in Wants :
          \/ NextRow(r, void, opt, GetCol(t, w, fits))
          \/ \E ok \in BOOLEAN : \/ Exec(ok, r, void, opt, GetCol(t, w, fits))
                               \/ ExecKept(ok, r, void, opt, GetCol(t, w, fits))
    \/ Reset

Spec == Init /\ [][Next]_vars

-----------------------------------------------------------------------------
\* Arguments are only bound to a statement that the engine has at its start; exec() with its resetter
\* leaves it there however it ends, so that it holds no cursor and no lock; and exec() takes the first
\* row, whatever was done with the statement before, if the statement has parameters.  One without
\* goes on from where next() or exec<T, Start, false>() left it: args() binds nothing, so nothing
\* resets it.
StatementReady ==
    /\ ~misuse
    /\ last.call = "exec" => vm = "start"
    /\ params /\ last.call \in {"exec", "exec kept"} => last.from = "start"
=============================================================================
