------------------------------ MODULE MysqlConn ------------------------------
(***************************************************************************)
(* mysql_conn and mysql_conn_pool (include/dsk/mysql/conn.hpp,             *)
(* conn_pool.hpp, fields.hpp): a connection taken from the pool executes   *)
(* statements, reads one row of one result set into a variable, and runs   *)
(* transactions whose guard rolls back when the coroutine scope that made  *)
(* them is left.  Every statement is a call of boost.mysql that succeeds,  *)
(* fails on the server, loses the connection, or is canceled, after which  *)
(* boost.mysql can use the connection no more, whatever the server did.    *)
(***************************************************************************)
EXTENDS Integers, Sequences

CONSTANT
    MaxCalls      \* bound: statements executed

VARIABLES
    pool,         \* mysql_conn_pool: "off", "on", "canceled", "joined"
    held,         \* a connection of the pool is held
    link,         \* it is connected, and can be used
    open,         \* server: a transaction is open
    trxn,         \* transaction_t: <<>> or <<[done]>>, alive as long as its scope
    asserted,     \* ~transaction_t() found done = false: a build with assertions ends here
    r,            \* the optional variable exec_get() fills: <<>> or <<value>>
    last,         \* the last exec_get(): [err, sets], or err = "none"
    calls         \* statements executed

vars == <<pool, held, link, open, trxn, asserted, r, last, calls>>

NoResult == [err |-> "none", sets |-> << >>]

Init ==
    /\ pool = "off"
    /\ held = FALSE
    /\ link = FALSE
    /\ open = FALSE
    /\ trxn = << >>
    /\ asserted = FALSE
    /\ r = << >>
    /\ last = NoResult
    /\ calls = 0

-----------------------------------------------------------------------------
(* mysql_conn_pool.  _run stays valid after join(): the pool does not start again. *)

PoolStart ==
    /\ pool = "off"
    /\ pool' = "on"
    /\ UNCHANGED <<held, link, open, trxn, asserted, r, last, calls>>

PoolStop ==
    /\ pool = "on"
    /\ pool' = "canceled"
    /\ UNCHANGED <<held, link, open, trxn, asserted, r, last, calls>>

PoolJoin ==
    /\ pool = "canceled"
    /\ pool' = "joined"
    /\ UNCHANGED <<held, link, open, trxn, asserted, r, last, calls>>

\* get_conn(): the pool hands out connections whose session it has reset.
GetConn ==
    /\ pool = "on" /\ ~held
    /\ held' = TRUE
    /\ link' = TRUE
    /\ open' = FALSE
    /\ UNCHANGED <<pool, trxn, asserted, r, last, calls>>

PutConn ==
    /\ held /\ trxn = << >>
    /\ held' = FALSE
    /\ UNCHANGED <<pool, link, open, trxn, asserted, r, last, calls>>

-----------------------------------------------------------------------------
(* Statements. *)

Callable == held /\ calls < MaxCalls

\* A statement that loses the connection, is canceled, or is sent on one that cannot be used: the
\* server has carried it out, which leaves its transaction "after", or has not, or closes it.
Broken(after) ==
    /\ link' = FALSE
    /\ open' \in IF link THEN {FALSE, open, after} ELSE {FALSE, open}

\* to_request() and execute() of a statement that makes no transaction; some, as CREATE
\* TABLE, commit the one that is open.
Exec ==
    /\ Callable
    /\ calls' = calls + 1
    /\ \/ link /\ UNCHANGED <<link, open>>
       \/ link /\ open' = FALSE /\ UNCHANGED link
       \/ Broken(FALSE)
    /\ UNCHANGED <<pool, held, trxn, asserted, r, last>>

At(k, len) == IF k >= 0 THEN k ELSE len + k
Fields == {"num", "null", "date"}

\* get_mysql_field() into an optional number: null resets it, a date does not convert.
GetField(f) ==
    CASE f = "num"  -> [err |-> "", r |-> <<"num">>]
      [] f = "null" -> [err |-> "", r |-> << >>]
      [] OTHER      -> [err |-> "type_mismatch", r |-> <<"num">>]

\* exec_get<StartCol, Row, Set = -1>(): the row is chosen by its position, a negative one
\* from the end; no such row is out_of_bound, or resets an optional tuple.
ExecGet ==
    /\ Callable /\ link
    /\ calls' = calls + 1
    /\ \E Row \in {-2, -1, 0, 1}, sets \in UNION {[1..k -> {<< >>, <<"num">>, <<"date">>, <<"null", "num">>}] : k \in 1..2} :
         LET rows == sets[At(-1, Len(sets)) + 1]
             k    == At(Row, Len(rows))
         IN  IF k \in 0..(Len(rows) - 1)
             THEN /\ last' = [err |-> GetField(rows[k + 1]).err, sets |-> sets]
                  /\ r' = GetField(rows[k + 1]).r
             ELSE \/ last' = [err |-> "out_of_bound", sets |-> sets] /\ UNCHANGED r
                  \/ last' = [err |-> "", sets |-> sets] /\ r' = << >>
    /\ UNCHANGED <<pool, held, link, open, trxn, asserted>>

-----------------------------------------------------------------------------
(* Transactions. *)

\* make_transaction(): no guard unless the statement succeeded.
MakeTransaction ==
    /\ Callable /\ trxn = << >>
    /\ calls' = calls + 1
    /\ \/ link /\ open' = TRUE /\ trxn' = <<[done |-> FALSE]>> /\ UNCHANGED link
       \/ link /\ UNCHANGED <<link, open, trxn>>
       \/ Broken(TRUE) /\ UNCHANGED trxn
    /\ UNCHANGED <<pool, held, asserted, r, last>>

\* COMMIT or ROLLBACK succeeds, is refused by the server, or breaks the connection; the guard is done
\* if it succeeds.
EndsTransaction ==
    \/ link /\ open' = FALSE /\ trxn' = <<[done |-> TRUE]>> /\ UNCHANGED link
    \/ link /\ UNCHANGED <<link, open, trxn>>
    \/ Broken(FALSE) /\ UNCHANGED trxn

\* Mutant: the guard is done before the statement is.
CommitDoneFirst ==
    /\ Callable /\ trxn # << >> /\ ~trxn[1].done
    /\ calls' = calls + 1
    /\ trxn' = <<[done |-> TRUE]>>
    /\ \/ link /\ open' = FALSE /\ UNCHANGED link
       \/ link /\ UNCHANGED <<link, open>>
       \/ Broken(FALSE)
    /\ UNCHANGED <<pool, held, asserted, r, last>>

\* commit(): a failed COMMIT leaves the guard to roll back.
Commit ==
    /\ Callable /\ trxn # << >> /\ ~trxn[1].done
    /\ calls' = calls + 1
    /\ EndsTransaction
    /\ UNCHANGED <<pool, held, asserted, r, last>>

Rollback ==
    /\ Callable /\ trxn # << >> /\ ~trxn[1].done
    /\ calls' = calls + 1
    /\ EndsTransaction
    /\ UNCHANGED <<pool, held, asserted, r, last>>

\* The scope is left: rollback_if_uncommited(), added by make_transaction(), then ~transaction_t(), which
\* asserts that the ROLLBACK, if there was one, has succeeded.
LeaveScope ==
    /\ trxn # << >>
    /\ trxn' = << >>
    /\ \/ trxn[1].done /\ UNCHANGED <<link, open, asserted>>
       \/ ~trxn[1].done /\ link /\ open' = FALSE /\ UNCHANGED <<link, asserted>>
       \/ ~trxn[1].done /\ link /\ asserted' = TRUE /\ UNCHANGED <<link, open>>
       \/ ~trxn[1].done /\ Broken(FALSE) /\ asserted' = TRUE
    /\ UNCHANGED <<pool, held, r, last, calls>>

Next ==
    /\ ~asserted
    /\ \/ PoolStart \/ PoolStop \/ PoolJoin \/ GetConn \/ PutConn
       \/ Exec \/ ExecGet \/ MakeTransaction \/ Commit \/ Rollback \/ LeaveScope

Spec == Init /\ [][Next]_vars

-----------------------------------------------------------------------------
\* On a connection that can be used a transaction is open only as long as its guard is alive and not
\* done, whatever statement fails or is canceled: a caller never finds the transaction of another one,
\* and none is left behind by a scope unless the guard's assertion has said so.
MysqlTrxnClosed == open /\ link => asserted \/ (trxn # << >> /\ ~trxn[1].done)
=============================================================================
