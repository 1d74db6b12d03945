---------------------------- MODULE DatabaseProofs ----------------------------
(*****************************************************************************)
(* Proofs about the databases of MCClients, for every value of its           *)
(* constants: transactions end with their guards (PostgreSQL, MySQL, SQLite) *)
(* and what a call gives back belongs to that call (PostgreSQL, Redis,       *)
(* SQLite).  What is proved of a connection by itself holds of its           *)
(* behaviours here, since the others do not touch its variables.             *)
(*****************************************************************************)
EXTENDS MCClients, SequenceTheorems, FiniteSetTheorems, WellFoundedInduction, TLAPS

\* A step while one client is running is a step of that client.
LEMMA StepOfPart ==
    ASSUME [Next]_vars
    PROVE  /\ part' = part
           /\ part = "pq" => [Pq!Next]_Pq!vars
           /\ part = "sqlite" => [Lite!Next]_Lite!vars
           /\ part = "stmt" => [Stmt!Next]_Stmt!vars
           /\ part = "settings" => [Setting!Next]_Setting!vars
           /\ part = "mysql" => [Mysql!Next]_Mysql!vars
           /\ part = "redis" => [Redis!Next]_Redis!vars
<1> USE DEF Next, InCurl, InSocks, InPq, InLite, InStmt, InSetting, InRpc, InMysql, InRedis
<1>1. part' = part
  BY DEF OthersStay, vars
<1>2. part = "pq" => [Pq!Next]_Pq!vars
  BY DEF vars, Pq!vars
<1>3. part = "sqlite" => [Lite!Next]_Lite!vars
  BY DEF vars, Lite!vars
<1>4. part = "stmt" => [Stmt!Next]_Stmt!vars
  BY DEF vars, Stmt!vars
<1>5. part = "settings" => [Setting!Next]_Setting!vars
  BY DEF vars, Setting!vars
<1>6. part = "mysql" => [Mysql!Next]_Mysql!vars
  BY DEF vars, Mysql!vars
<1>7. part = "redis" => [Redis!Next]_Redis!vars
  BY DEF vars, Redis!vars
<1> QED
  BY <1>1, <1>2, <1>3, <1>4, <1>5, <1>6, <1>7

-----------------------------------------------------------------------------
(* The transactions of a pooled MySQL connection. *)

Guarded == <<[done |-> FALSE]>>

\* A transaction on a connection that can be used has its guard.
MysqlInv ==
    /\ trxn \in {<< >>, Guarded, <<[done |-> TRUE]>>}
    /\ open \in BOOLEAN /\ link \in BOOLEAN /\ asserted \in BOOLEAN
    /\ open = TRUE /\ link = TRUE /\ asserted = FALSE => trxn = Guarded

\* At first there is no transaction.
LEMMA MysqlInit == Mysql!Init => MysqlInv
  BY DEF Mysql!Init, MysqlInv

\* What the invariant says
LEMMA MysqlSafe == MysqlInv => Mysql!MysqlTrxnClosed
<1> SUFFICES ASSUME MysqlInv, open, link, ~asserted PROVE trxn # << >> /\ ~trxn[1].done
  BY DEF Mysql!MysqlTrxnClosed
<1>1. trxn = Guarded
  <2>1. open = TRUE /\ link = TRUE /\ asserted = FALSE
    BY Zenon DEF MysqlInv
  <2> QED
    BY <2>1 DEF MysqlInv
<1> QED
  BY <1>1 DEF Guarded

\* Every statement that may fail leaves the transaction to its guard, or the connection unusable.
LEMMA MysqlStep == MysqlInv /\ [Mysql!Next]_Mysql!vars => MysqlInv'
<1> SUFFICES ASSUME MysqlInv, [Mysql!Next]_Mysql!vars PROVE MysqlInv'
  OBVIOUS
<1> USE DEF MysqlInv
<1>1. CASE Mysql!PoolStart \/ Mysql!PoolStop \/ Mysql!PoolJoin
  BY <1>1 DEF Mysql!PoolStart, Mysql!PoolStop, Mysql!PoolJoin
<1>2. CASE Mysql!GetConn \/ Mysql!PutConn
  BY <1>2 DEF Mysql!GetConn, Mysql!PutConn
<1>3. \A after \in BOOLEAN : Mysql!Broken(after) => link' = FALSE /\ open' \in BOOLEAN
  BY DEF Mysql!Broken
<1>4. CASE Mysql!Exec
  BY <1>3, <1>4 DEF Mysql!Exec
<1>5. CASE Mysql!ExecGet
  BY <1>5 DEF Mysql!ExecGet
<1>6. CASE Mysql!MakeTransaction
  BY <1>3, <1>6 DEF Mysql!MakeTransaction, Guarded
<1>7. CASE Mysql!Commit \/ Mysql!Rollback
  BY <1>3, <1>7 DEF Mysql!Commit, Mysql!Rollback, Mysql!EndsTransaction
<1>8. CASE Mysql!LeaveScope
  <2>1. trxn[1].done => trxn # Guarded
    BY DEF Guarded
  <2>2. trxn' = << >> /\ << >> # Guarded /\ asserted' \in BOOLEAN
    BY <1>8 DEF Mysql!LeaveScope, Guarded
  <2>3. \/ trxn # Guarded /\ UNCHANGED <<open, link, asserted>>
        \/ open' = FALSE /\ link' = link
        \/ asserted' = TRUE /\ UNCHANGED <<open, link>>
        \/ Mysql!Broken(FALSE)
    BY <1>8, <2>1 DEF Mysql!LeaveScope
  <2> QED
    BY <1>3, <2>2, <2>3
<1>9. CASE UNCHANGED Mysql!vars
  BY <1>9 DEF Mysql!vars
<1> QED
  BY <1>1, <1>2, <1>4, <1>5, <1>6, <1>7, <1>8, <1>9 DEF Mysql!Next

-----------------------------------------------------------------------------
(* Prepared statements of SQLite. *)

Stmts == [vm : {"start", "row", "done", "err"}, needReset : BOOLEAN, stepErr : BOOLEAN, misuse : {FALSE}]

\* The engine has left the start of a statement only if _needReset says so.
StmtInv ==
    /\ Stmt!Stmt \in Stmts
    /\ vm # "start" => needReset
    /\ params \in BOOLEAN
    /\ Stmt!StatementReady

\* A statement is prepared at its start.
LEMMA StmtInit == Stmt!Init => StmtInv
<1> SUFFICES ASSUME Stmt!Init PROVE StmtInv
  OBVIOUS
<1>1. Stmt!Stmt \in Stmts /\ params \in BOOLEAN /\ vm = "start"
  BY DEF Stmt!Init, Stmts, Stmt!Stmt
<1>2. last.call = "none"
  BY DEF Stmt!Init
<1>3. misuse = FALSE
  BY DEF Stmt!Init
<1> QED
  BY <1>1, <1>2, <1>3 DEF StmtInv, Stmt!StatementReady

\* reset_state() leaves a statement at its start, and arguments are bound there.
LEMMA ResetToStart ==
    ASSUME NEW s \in Stmts, s.vm # "start" => s.needReset
    PROVE  /\ Stmt!ResetState(s) \in Stmts /\ Stmt!ResetState(s).vm = "start"
           /\ Stmt!Bind(s) \in Stmts /\ Stmt!Bind(s).vm = "start"
<1> DEFINE t == Stmt!ResetState(s)
<1>1. t \in Stmts /\ t.vm = "start"
  BY DEF Stmt!ResetState, Stmts
<1> HIDE DEF t
<1>2. Stmt!Bind(s) = [t EXCEPT !.misuse = t.misuse \/ t.vm # "start"]
  BY DEF Stmt!Bind, t
<1>3. (t.misuse \/ t.vm # "start") = FALSE
  <2>1. t.misuse = FALSE
    BY <1>1 DEF Stmts
  <2> QED
    BY <1>1, <2>1, Zenon
<1>4. Stmt!Bind(s) = [t EXCEPT !.misuse = FALSE]
  BY <1>2, <1>3
<1> QED
  BY <1>1, <1>4 DEF t, Stmts

\* A statement that is stepped needs a reset, which brings it back to its start.
LEMMA SteppedAndReset ==
    ASSUME NEW s \in Stmts, NEW v \in {"row", "done", "err"}
    PROVE  /\ Stmt!Step(s, v) \in Stmts /\ Stmt!Step(s, v).needReset
           /\ Stmt!ResetState(Stmt!Step(s, v)) \in Stmts
           /\ Stmt!ResetState(Stmt!Step(s, v)).vm = "start"
<1> DEFINE t == Stmt!Step(s, v)
           e == IF v = "err" THEN TRUE ELSE s.stepErr
<1>1. e \in BOOLEAN
  BY DEF Stmts
<1>2. t = [s EXCEPT !.vm = v, !.needReset = TRUE, !.stepErr = e]
  BY DEF Stmt!Step
<1> HIDE DEF t, e
<1>3. t \in Stmts /\ t.needReset
  BY <1>1, <1>2 DEF Stmts
<1> QED
  BY <1>3, ResetToStart DEF t

\* Every call keeps it, whatever the engine answers and wherever exec() ends.
LEMMA StmtStep == StmtInv /\ [Stmt!Next]_Stmt!vars => StmtInv'
<1> SUFFICES ASSUME StmtInv, [Stmt!Next]_Stmt!vars PROVE StmtInv'
  OBVIOUS
<1> DEFINE s == Stmt!Stmt
           b == Stmt!Bound(s)
<1>1. s \in Stmts /\ (s.vm # "start" => s.needReset)
  BY DEF Stmt!Stmt, StmtInv
<1> HIDE DEF s
<1>2. Stmt!ResetState(s) \in Stmts /\ Stmt!ResetState(s).vm = "start"
  BY <1>1, ResetToStart
<1>3. b \in Stmts /\ (b.vm # "start" => b.needReset) /\ (params => b.vm = "start")
  BY <1>1, ResetToStart DEF Stmt!Bound
<1> HIDE DEF b
<1>4. Stmt!ResetState(b) \in Stmts /\ Stmt!ResetState(b).vm = "start"
  BY <1>3, ResetToStart
<1>5. ASSUME NEW v \in {"row", "done", "err"}
      PROVE  /\ Stmt!Step(s, v) \in Stmts /\ Stmt!Step(s, v).needReset
             /\ Stmt!Step(b, v) \in Stmts /\ Stmt!Step(b, v).needReset
             /\ Stmt!ResetState(Stmt!Step(b, v)) \in Stmts
             /\ Stmt!ResetState(Stmt!Step(b, v)).vm = "start"
  BY <1>1, <1>3, SteppedAndReset
<1>6. ASSUME NEW t \in Stmts, NEW outcome, NEW name, NEW from, Stmt!Becomes(t, name, from, outcome),
             t.vm # "start" => t.needReset, name = "exec" => t.vm = "start",
             params /\ name \in {"exec", "exec kept"} => from = "start"
      PROVE  StmtInv'
  BY <1>6 DEF Stmt!Becomes, StmtInv, Stmt!StatementReady, Stmts, Stmt!Stmt
<1>7. ASSUME NEW ok \in BOOLEAN, Stmt!Args(ok) PROVE StmtInv'
  BY <1>3, <1>6, <1>7 DEF Stmt!Args, b, s
<1>8. ASSUME NEW v \in {"row", "done", "err"}, NEW void, NEW opt, NEW col, Stmt!NextRow(v, void, opt, col)
      PROVE  StmtInv'
  BY <1>5, <1>6, <1>8 DEF Stmt!NextRow, s
<1>9. ASSUME NEW ok \in BOOLEAN, NEW v \in {"row", "done", "err"}, NEW void, NEW opt, NEW col,
             Stmt!Exec(ok, v, void, opt, col)
      PROVE  StmtInv'
  <2>1. CASE ok
    BY <1>3, <1>5, <1>6, <1>9, <2>1 DEF Stmt!Exec, b, s
  <2>2. CASE ~ok
    BY <1>4, <1>6, <1>9, <2>2 DEF Stmt!Exec, b, s
  <2> QED
    BY <2>1, <2>2
<1>10. ASSUME NEW ok \in BOOLEAN, NEW v \in {"row", "done", "err"}, NEW void, NEW opt, NEW col,
             Stmt!ExecKept(ok, v, void, opt, col)
      PROVE  StmtInv'
  <2>1. CASE ok
    BY <1>3, <1>5, <1>6, <1>10, <2>1 DEF Stmt!ExecKept, b, s
  <2>2. CASE ~ok
    BY <1>3, <1>6, <1>10, <2>2 DEF Stmt!ExecKept, b, s
  <2> QED
    BY <2>1, <2>2
<1>11. CASE Stmt!Reset
  BY <1>2, <1>6, <1>11 DEF Stmt!Reset, s
<1>12. CASE UNCHANGED Stmt!vars
  BY <1>12 DEF Stmt!vars, StmtInv, Stmt!StatementReady, Stmts, Stmt!Stmt
<1> QED
  BY <1>7, <1>8, <1>9, <1>10, <1>11, <1>12 DEF Stmt!Next

-----------------------------------------------------------------------------
(* The settings of a SQLite connection. *)

Values == [num : Int, mode : Int, cache : Int, page : Nat \ {0}, chunk : Int]

\* The engine's cache setting is the one that was asked for, in pages or, negative, in KiB.
SettingInv ==
    /\ raw \in [Schemas -> Values]
    /\ newPage \in [Schemas -> Nat \ {0}]
    /\ asked \in [Schemas -> {"pages", "KiB"} \X Nat]
    /\ \A s \in Schemas : raw[s].cache = IF asked[s][1] = "pages" THEN asked[s][2] ELSE - asked[s][2]
    /\ last.res = "ok" /\ last.call \in {"num", "mode", "cache", "chunk"} =>
          raw[Setting!Answers(last.on)][last.call] = last.arg

\* The getter of a schema reads that schema.
LEMMA AnswersOfOne == ASSUME NEW s PROVE Setting!Answers({s}) = s
<1>1. Setting!Cardinality({s}) = 1
  <2>1. Cardinality({s}) = 1
    BY FS_Singleton
  <2> QED
    BY <2>1 DEF Cardinality, Setting!Cardinality
<1> QED
  BY <1>1 DEF Setting!Answers

\* Asked of all schemas, a pragma answers for one of them.
LEMMA AnswersOfAll == ASSUME Setting!SettingAssumption PROVE Setting!Answers(Schemas) \in Schemas
  BY DEF Setting!Answers, Setting!SettingAssumption

\* A size in KiB, rounded up to pages.
LEMMA RoundedUp ==
    ASSUME NEW k \in Nat, NEW p \in Nat \ {0}
    PROVE  ((k + p - 1) \div p) * p - k \in 0 .. p - 1
  OBVIOUS

\* The invariant is what is promised of the getters.
LEMMA CacheAnswers == Setting!SettingAssumption /\ SettingInv => Setting!CacheAsAsked
<1> SUFFICES ASSUME Setting!SettingAssumption, SettingInv PROVE Setting!CacheAsAsked
  OBVIOUS
<1> DEFINE m == Setting!Main
           page == Setting!PageSize
<1>1. m \in Schemas /\ page = raw[m].page /\ page \in Nat \ {0} /\ raw[m].cache \in Int
  BY DEF Setting!SettingAssumption, SettingInv, Values, Setting!PageSize
<1>2. ASSUME NEW s \in Schemas
      PROVE  asked[s][2] = IF asked[s][1] = "pages" THEN Setting!CachePages(s) ELSE Setting!CacheSize(s)
  <2>1. asked[s][2] \in Nat /\ asked[s][1] \in {"pages", "KiB"}
    BY DEF SettingInv
  <2>2. raw[s].cache = IF asked[s][1] = "pages" THEN asked[s][2] ELSE - asked[s][2]
    BY DEF SettingInv
  <2> QED
    BY <2>1, <2>2 DEF Setting!CachePages, Setting!CacheSize
<1>3. Setting!CachePages(m) * page - Setting!CacheSize(m) \in 0 .. page - 1
  <2> DEFINE c == raw[m].cache
  <2>1. CASE c >= 0
    <3>1. Setting!CachePages(m) = c /\ Setting!CacheSize(m) = IF c = 0 THEN 0 ELSE page * c
      BY <1>1, <2>1 DEF Setting!CachePages, Setting!CacheSize
    <3> HIDE DEF page, c
    <3>2. c * page - (IF c = 0 THEN 0 ELSE page * c) = 0
      BY <1>1, <2>1 DEF c
    <3> QED
      BY <1>1, <3>1, <3>2
  <2>2. CASE c < 0
    <3>1. Setting!CachePages(m) = ((- c) + page - 1) \div page /\ Setting!CacheSize(m) = - c
      BY <1>1, <2>2 DEF Setting!CachePages, Setting!CacheSize
    <3>2. - c \in Nat
      BY <1>1, <2>2
    <3> HIDE DEF page, c
    <3> QED
      BY <1>1, <3>1, <3>2, RoundedUp
  <2> QED
    BY <1>1, <2>1, <2>2
<1> QED
  BY <1>2, <1>3 DEF SettingInv, Setting!CacheAsAsked

\* Before the first pragma nothing was asked for.
LEMMA SettingInit == Setting!SettingAssumption /\ Setting!Init => SettingInv
  BY DEF Setting!Init, SettingInv, Values, Setting!NoCall

\* A pragma that is read back, of other settings than the cache ...
LEMMA PragmaKept ==
    ASSUME Setting!SettingAssumption, SettingInv, NEW on \in SUBSET Schemas, NEW x \in {"num", "mode"}, NEW v \in Int, NEW kept,
           Setting!PragmaSet(on, x, v, kept), UNCHANGED asked
    PROVE  SettingInv'
<1>1. /\ newPage' = newPage
      /\ last' = [call |-> x, on |-> on, arg |-> v,
                  res |-> IF raw'[Setting!Answers(on)][x] = v THEN "ok" ELSE "pragma_set_value_diff"]
  BY DEF Setting!PragmaSet
<1>2. /\ raw' \in [Schemas -> Values]
      /\ \A s \in Schemas : raw'[s].cache = raw[s].cache
  BY DEF Setting!PragmaSet, Setting!Pragma, SettingInv, Values
<1>3. last'.res = "ok" => raw'[Setting!Answers(last'.on)][last'.call] = last'.arg
  BY <1>1
<1> QED
  BY <1>1, <1>2, <1>3 DEF SettingInv

\* ... and of the cache, in pages or in KiB.
LEMMA CacheKept ==
    ASSUME SettingInv, NEW s \in Schemas, NEW v \in Int, NEW kept, NEW unit \in {"pages", "KiB"}, NEW k \in Nat,
           v = IF unit = "pages" THEN k ELSE - k,
           Setting!PragmaSet({s}, "cache", v, kept), Setting!Asked(s, unit, k)
    PROVE  SettingInv'
<1>1. /\ newPage' = newPage
      /\ last' = [call |-> "cache", on |-> {s}, arg |-> v,
                  res |-> IF raw'[Setting!Answers({s})].cache = v THEN "ok" ELSE "pragma_set_value_diff"]
  BY DEF Setting!PragmaSet
<1>2. last'.res = "ok" <=> raw'[s].cache = v
  BY <1>1, AnswersOfOne
<1>3. /\ raw' \in [Schemas -> Values]
      /\ \A t \in Schemas : t # s => raw'[t].cache = raw[t].cache
      /\ raw'[s].cache \in {v, raw[s].cache}
  <2>1. raw \in [Schemas -> Values]
    BY DEF SettingInv
  <2>2. CASE raw' = raw
    BY <2>1, <2>2
  <2>3. CASE raw' = [t \in Schemas |-> IF t \in {s} THEN [raw[t] EXCEPT !["cache"] = v] ELSE raw[t]]
    <3>1. raw' = [t \in Schemas |-> IF t = s THEN [raw[t] EXCEPT !.cache = v] ELSE raw[t]]
      BY <2>3
    <3>2. raw[s] \in Values /\ [raw[s] EXCEPT !.cache = v] \in Values /\ [raw[s] EXCEPT !.cache = v].cache = v
      BY <2>1 DEF Values
    <3> QED
      BY <2>1, <3>1, <3>2
  <2> QED
    BY <2>2, <2>3 DEF Setting!PragmaSet, Setting!Pragma
<1>4. asked' = IF raw'[s].cache = v THEN [asked EXCEPT ![s] = <<unit, k>>] ELSE asked
  BY <1>2 DEF Setting!Asked
<1>5. /\ asked' \in [Schemas -> {"pages", "KiB"} \X Nat]
      /\ \A t \in Schemas : raw'[t].cache = IF asked'[t][1] = "pages" THEN asked'[t][2] ELSE - asked'[t][2]
  BY <1>3, <1>4 DEF SettingInv
<1>6. last'.res = "ok" => raw'[Setting!Answers(last'.on)][last'.call] = last'.arg
  BY <1>1
<1> QED
  BY <1>1, <1>3, <1>5, <1>6 DEF SettingInv

\* A chunk size, set for some databases, and the size of a page, which the next VACUUM takes.
LEMMA ChunkKept ==
    ASSUME Setting!SettingAssumption, SettingInv, NEW on \in SUBSET Schemas, NEW done2 \in SUBSET Schemas, NEW v \in Int, NEW res,
           Setting!Answers(on) \in Schemas, res = "ok" => Setting!Answers(on) \in done2,
           raw' = [s \in Schemas |-> IF s \in done2 THEN [raw[s] EXCEPT !.chunk = v] ELSE raw[s]],
           last' = [call |-> "chunk", on |-> on, arg |-> v, res |-> res],
           UNCHANGED <<newPage, asked>>
    PROVE  SettingInv'
<1>1. /\ raw' \in [Schemas -> Values]
      /\ \A s \in Schemas : raw'[s].cache = raw[s].cache
      /\ \A s \in done2 : raw'[s].chunk = v
  BY DEF SettingInv, Values
<1>2. last'.res = "ok" => raw'[Setting!Answers(last'.on)][last'.call] = last'.arg
  BY <1>1
<1> QED
  BY <1>1, <1>2 DEF SettingInv

\* A new page size takes effect with the VACUUM of clear(), and keeps what was asked of the cache.
LEMMA PageKept ==
    ASSUME Setting!SettingAssumption, SettingInv,
           \/ \E s \in Schemas, size \in Sizes : Setting!SetPageSize(s, size)
           \/ \E steps \in 0 .. 3 : Setting!Clear(steps)
    PROVE  SettingInv'
<1>1. ASSUME NEW s \in Schemas, NEW size \in Sizes, Setting!SetPageSize(s, size) PROVE SettingInv'
  BY <1>1 DEF Setting!SetPageSize, SettingInv, Setting!SettingAssumption
<1>2. ASSUME NEW steps \in 0 .. 3, Setting!Clear(steps) PROVE SettingInv'
  <2> DEFINE m == Setting!Main
  <2>1. /\ raw' = raw \/ raw' = [raw EXCEPT ![m].page = newPage[m]]
        /\ newPage' = newPage /\ asked' = asked
    BY <1>2 DEF Setting!Clear
  <2>2. last'.call = "clear"
    BY <1>2 DEF Setting!Clear, Setting!NoCall
  <2>3. m \in Schemas
    BY DEF Setting!SettingAssumption
  <2> HIDE DEF m
  <2>4. /\ raw' \in [Schemas -> Values]
        /\ \A t \in Schemas : raw'[t].cache = raw[t].cache
    BY <2>1, <2>3 DEF SettingInv, Values
  <2> QED
    BY <2>1, <2>2, <2>4 DEF SettingInv
<1> QED
  BY <1>1, <1>2

\* Every pragma keeps what the last question about the cache was answered with.
LEMMA SettingStep == Setting!SettingAssumption /\ SettingInv /\ [Setting!Next]_Setting!vars => SettingInv'
<1> SUFFICES ASSUME Setting!SettingAssumption, SettingInv, [Setting!Next]_Setting!vars PROVE SettingInv'
  OBVIOUS
<1>1. ASSUME NEW s \in Schemas, NEW k \in 0 .. 3, NEW kept,
             Setting!SetCachePages(s, k, kept) \/ Setting!SetCacheSize(s, k, kept)
      PROVE  SettingInv'
  <2>1. k \in Nat /\ k \in Int /\ -k \in Int
    OBVIOUS
  <2>2. CASE Setting!SetCachePages(s, k, kept)
    <3>1. Setting!PragmaSet({s}, "cache", k, kept) /\ Setting!Asked(s, "pages", k)
      BY <2>2 DEF Setting!SetCachePages
    <3> QED
      BY <2>1, <3>1, CacheKept
  <2>3. CASE Setting!SetCacheSize(s, k, kept)
    <3>1. Setting!PragmaSet({s}, "cache", -k, kept) /\ Setting!Asked(s, "KiB", k)
      BY <2>3 DEF Setting!SetCacheSize
    <3> QED
      BY <2>1, <3>1, CacheKept
  <2> QED
    BY <1>1, <2>2, <2>3
<1>2. CASE Setting!Caches
  BY <1>1, <1>2, PageKept DEF Setting!Caches
<1>3. ASSUME NEW s \in Schemas, NEW v \in {0, 1}, NEW kept,
             \/ Setting!SetVersion(s, v, kept) \/ Setting!SetAutoVacuum(s, v, kept)
             \/ Setting!SetMmapSize(s, v, kept) \/ Setting!SetJournalSizeLimit(s, v, kept)
      PROVE  SettingInv'
  <2>1. Setting!PragmaSet({s}, "num", v, kept) /\ UNCHANGED asked
    BY <1>3 DEF Setting!SetVersion, Setting!SetAutoVacuum, Setting!SetMmapSize, Setting!SetJournalSizeLimit
  <2> QED
    BY <2>1, PragmaKept
<1>4. ASSUME NEW v \in {0, 1}, NEW kept, Setting!Enable(v, kept) PROVE SettingInv'
  BY <1>4, PragmaKept DEF Setting!Enable
<1>5. ASSUME NEW on \in {{s} : s \in Schemas} \cup {Schemas}, NEW m \in Setting!Modes, NEW kept,
             Setting!SetLockingMode(on, m, kept) \/ Setting!SetJournalMode(on, m, kept)
      PROVE  SettingInv'
  <2>1. Setting!PragmaSet(on, "mode", m, kept) /\ UNCHANGED asked
    BY <1>5 DEF Setting!SetLockingMode, Setting!SetJournalMode
  <2>2. on \in SUBSET Schemas /\ m \in Int
    BY DEF Setting!Modes
  <2> QED
    BY <2>1, <2>2, PragmaKept
<1>6. ASSUME NEW s \in Schemas, NEW v \in {0, 1}, NEW ok \in BOOLEAN, Setting!SetChunkSize(s, v, ok)
      PROVE  SettingInv'
  <2> DEFINE res == IF ok THEN "ok" ELSE "error"
             on == IF ok THEN {s} ELSE {}
  <2>1. raw' = [t \in Schemas |-> IF t \in on THEN [raw[t] EXCEPT !.chunk = v] ELSE raw[t]]
    BY <1>6 DEF Setting!SetChunkSize, SettingInv
  <2>2. last' = [call |-> "chunk", on |-> {s}, arg |-> v, res |-> res] /\ UNCHANGED <<newPage, asked>>
    BY <1>6 DEF Setting!SetChunkSize
  <2>3. /\ {s} \in SUBSET Schemas /\ on \in SUBSET Schemas /\ v \in Int
        /\ Setting!Answers({s}) \in Schemas
        /\ res = "ok" => Setting!Answers({s}) \in on
    <3>1. Setting!Answers({s}) = s
      BY AnswersOfOne
    <3>2. on \in SUBSET Schemas /\ (res = "ok" => s \in on)
      OBVIOUS
    <3> HIDE DEF res, on
    <3> QED
      BY <3>1, <3>2
  <2> HIDE DEF res, on
  <2> QED
    BY <2>1, <2>2, <2>3, ChunkKept
<1>7. ASSUME NEW v \in {0, 1}, NEW on \in SUBSET Schemas, Setting!SetAllChunkSize(v, on) PROVE SettingInv'
  <2> DEFINE res == IF on = Schemas THEN "ok" ELSE "error"
  <2>1. /\ raw' = [t \in Schemas |-> IF t \in on THEN [raw[t] EXCEPT !.chunk = v] ELSE raw[t]]
        /\ last' = [call |-> "chunk", on |-> Schemas, arg |-> v, res |-> res]
        /\ UNCHANGED <<newPage, asked>>
    BY <1>7 DEF Setting!SetAllChunkSize
  <2>2. Schemas \in SUBSET Schemas /\ v \in Int /\ Setting!Answers(Schemas) \in Schemas
        /\ (res = "ok" => Setting!Answers(Schemas) \in on)
    BY AnswersOfAll
  <2> HIDE DEF res
  <2> QED
    BY <2>1, <2>2, ChunkKept
<1>8. CASE Setting!Others
  BY <1>3, <1>4, <1>5, <1>6, <1>7, <1>8 DEF Setting!Others
<1>9. CASE UNCHANGED Setting!vars
  BY <1>9 DEF Setting!vars, SettingInv
<1> QED
  BY <1>2, <1>8, <1>9 DEF Setting!Next

-----------------------------------------------------------------------------
(* The replies of Redis. *)

\* Where the reply to a command is, and what its adapter has counted: the element whose nodes come,
\* and the nodes of it that follow the one that comes next.
CountersInv ==
    IF due[2] > 0 THEN i[cmd] = elm /\ n[cmd] = due[2] - 1
    ELSE IF due[1] > 0 THEN i[cmd] = elm + 1 /\ n[cmd] = 0
    ELSE i[cmd] = 1 /\ n[cmd] = 0

RedisInv ==
    /\ tuple \in [1..RedisCmds -> 0..MaxElms] /\ cmd \in Nat \ {0}
    /\ due \in [0..2 -> Nat] /\ due[0] = 0 /\ elm \in Nat
    /\ i \in [1..RedisCmds -> Nat] /\ n \in [1..RedisCmds -> Nat]
    /\ \A c \in 1..RedisCmds : c > cmd => i[c] = 1 /\ n[c] = 0
    /\ ec = "none" => /\ stored = owners
                      /\ cmd \in 1..RedisCmds /\ tuple[cmd] > 0 => CountersInv

\* Before the first node no adapter has taken any.
LEMMA RedisInit == Redis!RedisAssumption /\ ~Nested /\ Redis!Init => RedisInv
  BY DEF Redis!RedisAssumption, Redis!Init, RedisInv, CountersInv, Redis!Depths

\* A node comes.
LEMMA NodeComes ==
    ASSUME Redis!RedisAssumption, ~Nested, RedisInv, NEW nd \in Redis!Nodes, Redis!Comes(nd)
    PROVE  /\ nd.depth \in 0..2 /\ nd.size \in Nat
           /\ nd.depth = 2 => nd.kind = "value"
           /\ nd.kind # "agg" => nd.size = 0
           /\ ec = "none" /\ cmd \in 1..RedisCmds
           /\ due' \in [0..2 -> Nat] /\ due'[0] = 0 /\ elm' \in Nat
           /\ nd.depth = 0 => due[1] = 0 /\ due[2] = 0 /\ due'[1] = nd.size /\ due'[2] = 0 /\ elm' = 0
           /\ nd.depth = 1 => due[1] > 0 /\ due[2] = 0 /\ due'[1] = due[1] - 1 /\ due'[2] = nd.size /\ elm' = elm + 1
           /\ nd.depth = 2 => due[2] > 0 /\ due'[1] = due[1] /\ due'[2] = due[2] - 1 /\ elm' = elm
           /\ cmd' = IF due'[1] = 0 /\ due'[2] = 0 THEN cmd + 1 ELSE cmd
<1>1. /\ nd.depth \in 0..2 /\ nd.size \in Nat
      /\ nd.depth = 2 => nd.kind = "value"
      /\ nd.kind # "agg" => nd.size = 0
  BY DEF Redis!Nodes, Redis!Node, Redis!Depths, Redis!RedisAssumption
<1>2. ec = "none" /\ cmd \in 1..RedisCmds
  BY DEF Redis!Comes, RedisInv, Redis!RedisAssumption
<1>3. Redis!Depths = 0..2
  BY DEF Redis!Depths
<1>4. /\ nd.depth = 0 => due[1] = 0 /\ due[2] = 0
      /\ nd.depth = 1 => due[1] > 0 /\ due[2] = 0
      /\ nd.depth = 2 => due[2] > 0
  BY <1>1, <1>3 DEF Redis!Comes, Redis!Follows
<1>5. due' = [d \in 0..2 |-> IF d = nd.depth /\ d > 0 THEN due[d] - 1
                             ELSE IF d = nd.depth + 1 THEN nd.size ELSE due[d]]
  BY <1>3 DEF Redis!Comes
<1>6. /\ due' \in [0..2 -> Nat] /\ due'[0] = 0
      /\ nd.depth = 0 => due'[1] = nd.size /\ due'[2] = 0
      /\ nd.depth = 1 => due'[1] = due[1] - 1 /\ due'[2] = nd.size
      /\ nd.depth = 2 => due'[1] = due[1] /\ due'[2] = due[2] - 1
  BY <1>1, <1>4, <1>5 DEF RedisInv
<1>7. elm' = IF nd.depth = 0 THEN 0 ELSE IF nd.depth = 1 THEN elm + 1 ELSE elm
  BY DEF Redis!Comes, Redis!Elm
<1>8. elm' \in Nat
  BY <1>7 DEF RedisInv
<1>9. cmd' = IF due'[1] = 0 /\ due'[2] = 0 THEN cmd + 1 ELSE cmd
  <2>1. (\A d \in 0..2 : due'[d] = 0) <=> due'[1] = 0 /\ due'[2] = 0
    BY <1>6
  <2> QED
    BY <1>3, <2>1 DEF Redis!Comes
<1> QED
  BY <1>1, <1>2, <1>4, <1>6, <1>7, <1>8, <1>9

\* A node goes to the adapter of its command, and counters start again with the next command.
LEMMA RedisStep == Redis!RedisAssumption /\ ~Nested /\ RedisInv /\ [Redis!Next]_Redis!vars => RedisInv'
<1> SUFFICES ASSUME Redis!RedisAssumption, ~Nested, RedisInv, [Redis!Next]_Redis!vars PROVE RedisInv'
  OBVIOUS
<1>1. ASSUME NEW nd \in Redis!Nodes, Redis!FeedSingle(nd) PROVE RedisInv'
  <2>1. Redis!Comes(nd) /\ tuple[cmd] = 0 /\ tuple' = tuple /\ i' = i /\ n' = n
    BY <1>1 DEF Redis!FeedSingle, Redis!Comes
  <2>2. cmd' = cmd \/ (cmd' = cmd + 1 /\ due'[1] = 0 /\ due'[2] = 0)
    BY <2>1, NodeComes
  <2>3. ec' = "none" => stored' = owners'
    <3>1. owners' = Append(owners, <<cmd, 0, nd.kind>>)
      BY <2>1 DEF Redis!Comes, Redis!Owner
    <3>2. ec' = "none" => stored' = Append(stored, <<cmd, 0, nd.kind>>)
      BY <1>1 DEF Redis!FeedSingle, Redis!Single
    <3>3. stored = owners
      BY <2>1, NodeComes DEF RedisInv
    <3> QED
      BY <3>1, <3>2, <3>3
  <2>4. due' \in [0..2 -> Nat] /\ due'[0] = 0 /\ elm' \in Nat
    BY <2>1, NodeComes
  <2>5. cmd' \in 1..RedisCmds /\ tuple'[cmd'] > 0 => CountersInv'
    BY <2>1, <2>2 DEF RedisInv, CountersInv
  <2> QED
    BY <2>1, <2>2, <2>3, <2>4, <2>5 DEF RedisInv
<1>2. ASSUME NEW nd \in Redis!Nodes, Redis!FeedArray(nd) PROVE RedisInv'
  <2>1. /\ Redis!Comes(nd) /\ tuple[cmd] > 0 /\ nd.depth = 0 /\ tuple' = tuple
        /\ i' = i /\ n' = n /\ stored' = stored /\ owners' = owners
        /\ ec' = "none" => nd.size = tuple[cmd]
    BY <1>2 DEF Redis!FeedArray, Redis!Comes
  <2>2. /\ ec = "none" /\ cmd \in 1..RedisCmds
        /\ due[1] = 0 /\ due[2] = 0 /\ due'[1] = nd.size /\ due'[2] = 0 /\ elm' = 0
        /\ due' \in [0..2 -> Nat] /\ due'[0] = 0
        /\ cmd' = IF due'[1] = 0 /\ due'[2] = 0 THEN cmd + 1 ELSE cmd
    BY <2>1, NodeComes
  <2>3. i[cmd] = 1 /\ n[cmd] = 0
    BY <2>1, <2>2 DEF RedisInv, CountersInv
  <2>4. ec' = "none" => cmd' = cmd /\ CountersInv'
    BY <2>1, <2>2, <2>3 DEF RedisInv, CountersInv
  <2> QED
    BY <2>1, <2>2, <2>4 DEF RedisInv
<1>3. ASSUME NEW nd \in Redis!Nodes, Redis!FeedElm(nd) PROVE RedisInv'
  <2>1. /\ Redis!Comes(nd) /\ tuple[cmd] > 0 /\ nd.depth > 0 /\ tuple' = tuple
        /\ i' = [i EXCEPT ![cmd] = Redis!Advanced(cmd, nd).i]
        /\ n' = [n EXCEPT ![cmd] = Redis!Advanced(cmd, nd).n]
        /\ ec' = "none" => stored' = Append(stored, <<cmd, i[cmd], nd.kind>>)
        /\ owners' = Append(owners, <<cmd, Redis!Elm(nd), nd.kind>>)
    BY <1>3 DEF Redis!FeedElm, Redis!Comes, Redis!Single, Redis!Owner
  <2>2. /\ ec = "none" /\ cmd \in 1..RedisCmds /\ nd.depth \in {1, 2} /\ nd.size \in Nat
        /\ due' \in [0..2 -> Nat] /\ due'[0] = 0 /\ elm' \in Nat
        /\ nd.depth = 2 => nd.kind = "value"
        /\ nd.kind # "agg" => nd.size = 0
        /\ nd.depth = 1 => due[1] > 0 /\ due[2] = 0 /\ due'[1] = due[1] - 1 /\ due'[2] = nd.size /\ elm' = elm + 1
        /\ nd.depth = 2 => due[2] > 0 /\ due'[1] = due[1] /\ due'[2] = due[2] - 1 /\ elm' = elm
        /\ cmd' = IF due'[1] = 0 /\ due'[2] = 0 THEN cmd + 1 ELSE cmd
    BY <2>1, NodeComes
  <2>3. stored = owners /\ CountersInv
    BY <2>1, <2>2 DEF RedisInv
  <2>4. Redis!Elm(nd) = i[cmd]
    BY <2>2, <2>3 DEF CountersInv, Redis!Elm, RedisInv
  <2>5. ec' = "none" => stored' = owners'
    BY <2>1, <2>3, <2>4
  <2> DEFINE m == IF nd.depth = 1 /\ nd.kind = "agg" THEN nd.size ELSE n[cmd]
  <2>6. m \in Nat /\ i[cmd] \in Nat /\ n[cmd] \in Nat
    BY <2>2 DEF RedisInv
  <2>7. /\ i' \in [1..RedisCmds -> Nat] /\ n' \in [1..RedisCmds -> Nat]
        /\ \A c \in 1..RedisCmds : c # cmd => i'[c] = i[c] /\ n'[c] = n[c]
        /\ i'[cmd] = IF m = 0 THEN i[cmd] + 1 ELSE i[cmd]
        /\ n'[cmd] = IF m = 0 THEN 0 ELSE m - 1
    <3>1. Redis!Advanced(cmd, nd) = IF m = 0 THEN [i |-> i[cmd] + 1, n |-> 0] ELSE [i |-> i[cmd], n |-> m - 1]
      BY DEF Redis!Advanced
    <3>2. /\ Redis!Advanced(cmd, nd).i = IF m = 0 THEN i[cmd] + 1 ELSE i[cmd]
          /\ Redis!Advanced(cmd, nd).n = IF m = 0 THEN 0 ELSE m - 1
      BY <3>1
    <3> HIDE DEF m
    <3> QED
      BY <2>1, <2>2, <2>6, <3>2 DEF RedisInv
  <2>8. m = due'[2]
    BY <2>2, <2>3 DEF CountersInv, RedisInv
  <2> HIDE DEF m
  <2>9. cmd' = cmd => CountersInv'
    BY <2>2, <2>3, <2>6, <2>7, <2>8 DEF CountersInv, RedisInv
  <2>10. cmd' = cmd + 1 /\ cmd' \in 1..RedisCmds => CountersInv'
    BY <2>2, <2>7 DEF CountersInv, RedisInv
  <2>11. \A c \in 1..RedisCmds : c > cmd' => i'[c] = 1 /\ n'[c] = 0
    BY <2>2, <2>7 DEF RedisInv
  <2> QED
    BY <2>1, <2>2, <2>5, <2>7, <2>9, <2>10, <2>11 DEF RedisInv
<1>4. CASE UNCHANGED Redis!vars
  BY <1>4 DEF Redis!vars, RedisInv, CountersInv
<1> QED
  BY <1>1, <1>2, <1>3, <1>4 DEF Redis!Next

-----------------------------------------------------------------------------
(* The connections to PostgreSQL. *)

Plain == {"tuples", "row", "empty", "err", "ok", "sync", "aborted"}
ResultsSet == [cmd : Nat, k : Plain \cup {"copy_in", "copy_out", "null"}]

\* The l results of q are those of commands rd + 1 to st, each ended by its null; a COPY is alone and
\* has not ended.
Groups(q, l, rd, st) ==
    /\ \A a, b \in 1 .. l : a <= b /\ (\A m \in a .. b - 1 : q[m].k # "null") => q[b].cmd = q[a].cmd
    /\ \A a \in 1 .. l - 1 : q[a].k = "null" => q[a + 1].cmd = q[a].cmd + 1
    /\ \A a \in 1 .. l : q[a].k \in Pq!Copies => l = 1
    /\ \A a \in 1 .. l : q[a].cmd \in Nat /\ q[a].cmd <= st
    /\ l = 0 => rd = st
    /\ l > 0 => q[1].cmd = rd + 1 /\ q[l].cmd = st /\ q[l].k \in {"null"} \cup Pq!Copies

\* No COPY is under way; t is the results of command c alone; u is q followed by t; u is q without
\* its first e results.
NoCopies(q, l) == \A a \in 1 .. l : q[a].k \notin Pq!Copies
OneGroup(t, l, c) ==
    /\ \A a \in 1 .. l : t[a].cmd = c /\ (a < l => t[a].k # "null")
    /\ \/ t[l].k = "null" /\ NoCopies(t, l)
       \/ l = 1 /\ t[1].k \in Pq!Copies
Joined(u, q, lq, t, lt) ==
    /\ \A a \in 1 .. lq : u[a] = q[a]
    /\ \A a \in 1 .. lt : u[lq + a] = t[a]
Rest(u, q, l, e) == \A a \in 1 .. l - e : u[a] = q[a + e]

\* The results of one more command are added,
LEMMA GroupAdded ==
    ASSUME NEW rd \in Nat, NEW st \in Nat, NEW q, NEW lq \in Nat, Groups(q, lq, rd, st), NoCopies(q, lq),
           NEW t, NEW lt \in Nat \ {0}, OneGroup(t, lt, st + 1), lq = 0 \/ NoCopies(t, lt),
           NEW u, Joined(u, q, lq, t, lt)
    PROVE  Groups(u, lq + lt, rd, st + 1)
<1> USE DEF NoCopies, OneGroup, Joined
<1>1. \A a \in lq + 1 .. lq + lt : /\ u[a].cmd = st + 1 /\ (a < lq + lt => u[a].k # "null")
                                   /\ u[a] = t[a - lq] /\ a - lq \in 1 .. lt
  <2> SUFFICES ASSUME NEW a \in lq + 1 .. lq + lt
               PROVE  /\ u[a].cmd = st + 1 /\ (a < lq + lt => u[a].k # "null")
                      /\ u[a] = t[a - lq] /\ a - lq \in 1 .. lt
    OBVIOUS
  <2>1. a - lq \in 1 .. lt /\ lq + (a - lq) = a
    OBVIOUS
  <2>2. u[a] = t[a - lq]
    BY <2>1
  <2> QED
    BY <2>1, <2>2
<1>2. lq > 0 => u[lq].k = "null" /\ u[lq].cmd = st /\ u[1].cmd = rd + 1
  BY DEF Groups
<1>3. \A a, b \in 1 .. lq + lt : a <= b /\ (\A m \in a .. b - 1 : u[m].k # "null") => u[b].cmd = u[a].cmd
  <2> SUFFICES ASSUME NEW a \in 1 .. lq + lt, NEW b \in 1 .. lq + lt, a <= b, \A m \in a .. b - 1 : u[m].k # "null"
               PROVE  u[b].cmd = u[a].cmd
    OBVIOUS
  <2>1. CASE b <= lq
    <3>1. a \in 1 .. lq /\ b \in 1 .. lq /\ \A m \in a .. b - 1 : q[m].k # "null"
      BY <2>1
    <3>2. q[b].cmd = q[a].cmd
      BY <3>1 DEF Groups
    <3> QED
      BY <3>1, <3>2
  <2>2. CASE a > lq
    <3>1. a \in lq + 1 .. lq + lt /\ b \in lq + 1 .. lq + lt
      BY <2>2
    <3> QED
      BY <1>1, <3>1
  <2>3. CASE a <= lq /\ b > lq
    <3>1. lq \in a .. b - 1 /\ lq > 0
      BY <2>3
    <3> QED
      BY <1>2, <3>1
  <2> QED
    BY <2>1, <2>2, <2>3
<1>4. \A a \in 1 .. lq + lt - 1 : u[a].k = "null" => u[a + 1].cmd = u[a].cmd + 1
  <2> SUFFICES ASSUME NEW a \in 1 .. lq + lt - 1, u[a].k = "null" PROVE u[a + 1].cmd = u[a].cmd + 1
    OBVIOUS
  <2>1. CASE a < lq
    <3>1. a \in 1 .. lq - 1 /\ a \in 1 .. lq /\ a + 1 \in 1 .. lq
      BY <2>1
    <3> QED
      BY <3>1 DEF Groups
  <2>2. CASE a = lq
    <3>1. lq + 1 \in lq + 1 .. lq + lt /\ lq > 0
      BY <2>2
    <3> QED
      BY <1>1, <1>2, <2>2, <3>1
  <2>3. CASE a > lq
    <3>1. a \in lq + 1 .. lq + lt /\ a < lq + lt
      BY <2>3
    <3> QED
      BY <1>1, <3>1
  <2> QED
    BY <2>1, <2>2, <2>3
<1>5. \A a \in 1 .. lq + lt : u[a].k \in Pq!Copies => lq + lt = 1
  <2> SUFFICES ASSUME NEW a \in 1 .. lq + lt, u[a].k \in Pq!Copies PROVE lq + lt = 1
    OBVIOUS
  <2>1. a \in lq + 1 .. lq + lt
    OBVIOUS
  <2>2. t[a - lq].k \in Pq!Copies /\ a - lq \in 1 .. lt
    BY <1>1, <2>1
  <2> QED
    BY <2>2
<1>6. u[1].cmd = rd + 1 /\ u[lq + lt].cmd = st + 1 /\ u[lq + lt].k \in {"null"} \cup Pq!Copies
  <2>1. lq + lt \in lq + 1 .. lq + lt /\ (lq = 0 => 1 \in lq + 1 .. lq + lt)
    OBVIOUS
  <2>2. lq = 0 => rd = st
    BY DEF Groups
  <2>3. u[lq + lt].cmd = st + 1 /\ u[lq + lt] = t[lt]
    BY <1>1, <2>1
  <2>4. u[1].cmd = rd + 1
    BY <1>1, <1>2, <2>1, <2>2
  <2> QED
    BY <2>3, <2>4
<1>7. \A a \in 1 .. lq + lt : u[a].cmd \in Nat /\ u[a].cmd <= st + 1
  <2> SUFFICES ASSUME NEW a \in 1 .. lq + lt PROVE u[a].cmd \in Nat /\ u[a].cmd <= st + 1
    OBVIOUS
  <2>1. CASE a <= lq
    BY <2>1 DEF Groups
  <2>2. CASE a > lq
    <3>1. a \in lq + 1 .. lq + lt
      BY <2>2
    <3> QED
      BY <1>1, <3>1
  <2> QED
    BY <2>1, <2>2
<1> QED
  BY <1>3, <1>4, <1>5, <1>6, <1>7 DEF Groups

\* and results are got, up to and with the first null at most.
LEMMA GroupGot ==
    ASSUME NEW rd \in Nat, NEW st \in Nat, NEW q, NEW l \in Nat, Groups(q, l, rd, st),
           NEW e \in 1 .. l, \A m \in 1 .. e - 1 : q[m].k # "null", q[1].k \notin Pq!Copies,
           NEW u, Rest(u, q, l, e), NEW rd2, rd2 = IF q[e].k = "null" THEN rd + 1 ELSE rd
    PROVE  Groups(u, l - e, rd2, st)
<1> USE DEF Rest
<1>1. q[e].cmd = rd + 1 /\ 1 \in 1 .. l
  BY DEF Groups
<1>2. \A a \in 1 .. l : q[a].k \notin Pq!Copies
  BY <1>1 DEF Groups
<1>3. \A a \in 1 .. l - e : a + e \in 1 .. l
  OBVIOUS
<1>4. \A a, b \in 1 .. l - e : a <= b /\ (\A m \in a .. b - 1 : u[m].k # "null") => u[b].cmd = u[a].cmd
  <2> SUFFICES ASSUME NEW a \in 1 .. l - e, NEW b \in 1 .. l - e, a <= b, \A m \in a .. b - 1 : u[m].k # "null"
               PROVE  u[b].cmd = u[a].cmd
    OBVIOUS
  <2>1. \A m \in a + e .. b + e - 1 : q[m].k # "null"
    <3> SUFFICES ASSUME NEW m \in a + e .. b + e - 1 PROVE q[m].k # "null"
      OBVIOUS
    <3>1. m - e \in a .. b - 1 /\ m - e \in 1 .. l - e /\ (m - e) + e = m
      OBVIOUS
    <3> QED
      BY <3>1
  <2>2. a + e \in 1 .. l /\ b + e \in 1 .. l /\ a + e <= b + e
    OBVIOUS
  <2>3. q[b + e].cmd = q[a + e].cmd
    BY <2>1, <2>2 DEF Groups
  <2> QED
    BY <2>3
<1>5. \A a \in 1 .. l - e - 1 : u[a].k = "null" => u[a + 1].cmd = u[a].cmd + 1
  <2> SUFFICES ASSUME NEW a \in 1 .. l - e - 1, u[a].k = "null" PROVE u[a + 1].cmd = u[a].cmd + 1
    OBVIOUS
  <2>1. a + e \in 1 .. l - 1 /\ a \in 1 .. l - e /\ a + 1 \in 1 .. l - e /\ (a + 1) + e = (a + e) + 1
    OBVIOUS
  <2>2. u[a] = q[a + e] /\ u[a + 1] = q[(a + e) + 1]
    BY <2>1
  <2> QED
    BY <2>1, <2>2 DEF Groups
<1>6. \A a \in 1 .. l - e : u[a].k \notin Pq!Copies
  BY <1>2, <1>3
<1>7. l - e = 0 => rd2 = st
  <2>1. l - e = 0 => e = l
    OBVIOUS
  <2> QED
    BY <1>1, <1>2, <2>1 DEF Groups
<1>8. l - e > 0 => u[1].cmd = rd2 + 1 /\ u[l - e].cmd = st /\ u[l - e].k \in {"null"} \cup Pq!Copies
  <2> SUFFICES ASSUME l - e > 0 PROVE u[1].cmd = rd2 + 1 /\ u[l - e].cmd = st /\ u[l - e].k \in {"null"} \cup Pq!Copies
    OBVIOUS
  <2>1. 1 \in 1 .. l - e /\ l - e \in 1 .. l - e /\ (l - e) + e = l /\ e \in 1 .. l - 1 /\ e + 1 \in 1 .. l
    OBVIOUS
  <2>2. u[1] = q[e + 1] /\ u[l - e] = q[l]
    <3>1. u[1] = q[1 + e] /\ 1 + e = e + 1
      BY <2>1
    <3> QED
      BY <2>1, <3>1
  <2>3. q[e + 1].cmd = rd2 + 1
    <3>1. CASE q[e].k = "null"
      BY <1>1, <2>1, <3>1 DEF Groups
    <3>2. CASE q[e].k # "null"
      <4>1. \A m \in 1 .. (e + 1) - 1 : q[m].k # "null"
        BY <3>2
      <4> QED
        BY <1>1, <2>1, <3>2, <4>1 DEF Groups
    <3> QED
      BY <3>1, <3>2
  <2> QED
    BY <2>2, <2>3 DEF Groups
<1>9. \A a \in 1 .. l - e : u[a].cmd \in Nat /\ u[a].cmd <= st
  BY <1>3 DEF Groups
<1> QED
  BY <1>4, <1>5, <1>6, <1>7, <1>8, <1>9 DEF Groups

\* When all commands have ended nothing is left.
LEMMA NothingLeft ==
    ASSUME NEW rd \in Nat, NEW q, NEW l \in Nat, Groups(q, l, rd, rd)
    PROVE  l = 0
<1>1. l > 0 => 1 \in 1 .. l
  OBVIOUS
<1> QED
  BY <1>1 DEF Groups

PqOutcomes == {"none", "value", "failed", "canceled", "refused", "lost", "error", "null", "nullopt", "out_of_bound"}
PqCalls == [pc : {"idle", "connect", "flush", "get", "notify", "copy"}, for : {"user", "begin", "end", "cleanup"},
            want : {"all", "none", "row"}, last : BOOLEAN, cmd : Nat, ran : BOOLEAN, skt : {0, 1, 2}, r : ResultsSet,
            res : PqOutcomes]

\* What is to be got, of the commands whose results have not ended; a COPY needs the connection.
QueueInv ==
    /\ queue \in Seq(ResultsSet) /\ read \in Nat /\ sent \in Nat
    /\ Groups(queue, Len(queue), read, sent)
    /\ \A a \in 1 .. Len(queue) : queue[a].k \in Pq!Copies => link = "ok" /\ pipe = "off"

\* A call that has sent a command outside of pipelines has the queue for itself, and leaves it empty or
\* in its COPY.
CallInv ==
    /\ call \in PqCalls
    /\ call.pc = "connect" => link = "connecting" /\ queue = <<>> /\ call.skt = fd
    /\ call.pc \in {"connect", "notify", "copy"} => call.cmd = 0 /\ call.for = "user"
    /\ call.cmd # 0 /\ call.pc # "idle" =>
          /\ link = "ok" /\ call.last = TRUE /\ sent = call.cmd
          /\ pipe \in {"off", "stale"} => call.r.cmd \in {0, call.cmd} /\ (queue # <<>> => read + 1 = sent)
    /\ call.cmd # 0 /\ call.pc = "idle" /\ pipe = "off" /\ sent = call.cmd =>
          call.r.cmd \in {0, call.cmd} /\ (queue # <<>> => queue[1].k \in Pq!Copies)

\* The calls of transaction_t: a COMMIT or ROLLBACK that was not skipped has closed the transaction, and
\* the one of the cleanup is refused only on a lost connection or if results are left.
TrxnInv ==
    /\ trxn \in {"none", "open", "done", "ended", "void", "leaked"}
    /\ call.for = "begin" => trxn \in {"none", "ended", "void"}
    /\ call.for \in {"end", "cleanup"} => trxn = "open"
    /\ call.for \in {"end", "cleanup"} /\ (call.pc # "idle" \/ call.res \in {"value", "null"}) =>
          srv = "none" \/ call.ran = FALSE
    /\ call.for = "cleanup" => srv = "none" \/ call.ran = FALSE \/ (call.pc = "idle" /\ queue # <<>>)
    /\ trxn \in {"done", "ended"} /\ call.for = "user" => srv = "none"
    /\ trxn = "leaked" => /\ call.pc = "idle" /\ call.for = "user"
                          /\ srv = "none" \/ call.ran = FALSE \/ queue # <<>>

\* The socket libpq uses
LinkInv ==
    /\ link = "ok" => skt \in {0, fd} /\ fd # 0
    /\ link # "ok" => srv = "none"

PqInv == QueueInv /\ CallInv /\ TrxnInv /\ LinkInv

\* A call of which nothing has happened, and one that has ended
LEMMA NewCallFields ==
    LET c == Pq!NewCall IN
    /\ c \in PqCalls /\ c.pc = "idle" /\ c.for = "user" /\ c.want = "all" /\ c.last = FALSE
    /\ c.cmd = 0 /\ c.r.cmd = 0 /\ c.r \in ResultsSet /\ c.res = "none" /\ c.ran = TRUE /\ c.skt = 0
<1>1. Pq!NullResult \in ResultsSet /\ Pq!NullResult.cmd = 0
  BY DEF Pq!NullResult, ResultsSet
<1> QED
  BY <1>1 DEF Pq!NewCall, PqCalls, PqOutcomes

LEMMA EndedFields ==
    ASSUME call \in PqCalls, NEW res \in PqOutcomes
    PROVE  LET c == Pq!Ended(res) IN
           /\ c \in PqCalls /\ c.pc = "idle" /\ c.for = call.for /\ c.cmd = 0 /\ c.ran = call.ran /\ c.res = res
<1> DEFINE c0 == Pq!NewCall
           c1 == [c0 EXCEPT !.for = call.for]
           c2 == [c1 EXCEPT !.ran = call.ran]
           c3 == [c2 EXCEPT !.res = res]
<1>1. Pq!Ended(res) = c3
  BY DEF Pq!Ended
<1>2. c0 \in PqCalls /\ c0.pc = "idle" /\ c0.cmd = 0
  BY NewCallFields
<1> HIDE DEF c0
<1>3. c1 \in PqCalls /\ c1.pc = "idle" /\ c1.cmd = 0 /\ c1.for = call.for
  BY <1>2 DEF PqCalls
<1> HIDE DEF c1
<1>4. call.ran \in BOOLEAN
  BY DEF PqCalls
<1>5. c2 \in PqCalls /\ c2.pc = "idle" /\ c2.cmd = 0 /\ c2.for = call.for /\ c2.ran = call.ran
  BY <1>3, <1>4 DEF PqCalls
<1> HIDE DEF c2
<1>6. c3 \in PqCalls /\ c3.pc = "idle" /\ c3.cmd = 0 /\ c3.for = call.for /\ c3.ran = call.ran /\ c3.res = res
  BY <1>5 DEF PqCalls
<1> HIDE DEF c3
<1> QED
  BY <1>1, <1>6

LEMMA GivesFields ==
    ASSUME call \in PqCalls, NEW res \in PqOutcomes, NEW from \in ResultsSet
    PROVE  LET c == Pq!Gives(res, from) IN
           /\ c \in PqCalls /\ c.pc = "idle" /\ c.for = call.for /\ c.cmd = call.cmd /\ c.ran = call.ran
           /\ c.r = from /\ c.res = res
<1> DEFINE c0 == Pq!Ended(res)
           c1 == [c0 EXCEPT !.cmd = call.cmd]
           c2 == [c1 EXCEPT !.r = from]
<1>1. Pq!Gives(res, from) = c2
  BY DEF Pq!Gives
<1>2. c0 \in PqCalls /\ c0.pc = "idle" /\ c0.for = call.for /\ c0.ran = call.ran /\ c0.res = res
  BY EndedFields
<1> HIDE DEF c0
<1>3. c1 \in PqCalls /\ c1.pc = "idle" /\ c1.for = call.for /\ c1.ran = call.ran /\ c1.res = res /\ c1.cmd = call.cmd
  BY <1>2 DEF PqCalls
<1> HIDE DEF c1
<1>4. /\ c2 \in PqCalls /\ c2.pc = "idle" /\ c2.for = call.for /\ c2.ran = call.ran /\ c2.res = res /\ c2.cmd = call.cmd
      /\ c2.r = from
  BY <1>3 DEF PqCalls
<1> HIDE DEF c2
<1> QED
  BY <1>1, <1>4

\* Before connecting the queue is empty, and nobody calls.
LEMMA PqInit == Pq!Init => PqInv
<1> SUFFICES ASSUME Pq!Init PROVE PqInv
  OBVIOUS
<1> USE DEF Pq!Init, Pq!NewCall, Pq!NullResult
<1>1. QueueInv
  BY DEF QueueInv, Groups
<1>2. CallInv
  BY DEF CallInv, PqCalls, PqOutcomes, ResultsSet
<1>3. TrxnInv /\ LinkInv
  BY DEF TrxnInv, LinkInv
<1> QED
  BY <1>1, <1>2, <1>3 DEF PqInv

\* What the invariant says of the connection
LEMMA PqSafe == PqInv => Pq!ResultsInStep /\ Pq!ExecLeavesReady /\ Pq!WaitsForItsSocket /\ Pq!TrxnClosed
<1> SUFFICES ASSUME PqInv PROVE Pq!ResultsInStep /\ Pq!ExecLeavesReady /\ Pq!WaitsForItsSocket /\ Pq!TrxnClosed
  OBVIOUS
<1>1. queue # <<>> => Len(queue) > 0
  BY DEF PqInv, QueueInv
<1>2. Pq!ResultsInStep
  BY <1>1 DEF Pq!ResultsInStep, PqInv, QueueInv, Groups
<1>3. Pq!ExecLeavesReady
  BY DEF Pq!ExecLeavesReady, PqInv, CallInv
<1>4. Pq!WaitsForItsSocket
  BY DEF Pq!WaitsForItsSocket, PqInv, LinkInv, CallInv
<1>5. Pq!TrxnClosed
  <2>1. call.ran = FALSE => ~call.ran
    OBVIOUS
  <2> QED
    BY <2>1 DEF Pq!TrxnClosed, PqInv, TrxnInv
<1> QED
  BY <1>2, <1>3, <1>4, <1>5

\* The results of a command with its null
LEMMA TaggedGroup ==
    ASSUME NEW ks \in Seq(Plain), NEW c \in Nat
    PROVE  LET t == Pq!Tagged(Append(ks, "null"), c) IN
           /\ t \in Seq(ResultsSet) /\ Len(t) = Len(ks) + 1 /\ Len(ks) \in Nat
           /\ \A a \in 1 .. Len(t) : t[a].cmd = c /\ (a < Len(t) => t[a].k \in Plain)
           /\ t[Len(t)].k = "null"
<1> DEFINE s == Append(ks, "null")
           t == Pq!Tagged(s, c)
<1>1. Len(ks) \in Nat
  OBVIOUS
<1>2. /\ Len(s) = Len(ks) + 1 /\ s[Len(ks) + 1] = "null"
      /\ \A a \in 1 .. Len(ks) : s[a] = ks[a] /\ ks[a] \in Plain
  OBVIOUS
<1> HIDE DEF s
<1>3. t = [a \in 1 .. Len(ks) + 1 |-> [cmd |-> c, k |-> s[a]]]
  BY <1>2 DEF Pq!Tagged
<1>4. \A a \in 1 .. Len(ks) + 1 : [cmd |-> c, k |-> s[a]] \in ResultsSet
  BY <1>1, <1>2 DEF ResultsSet
<1> HIDE DEF t
<1>5. t \in [1 .. Len(ks) + 1 -> ResultsSet]
  BY <1>3, <1>4
<1>6. t \in Seq(ResultsSet) /\ Len(t) = Len(ks) + 1
  BY <1>1, <1>5
<1>7. \A a \in 1 .. Len(ks) + 1 : t[a].cmd = c /\ t[a].k = s[a]
  <2> SUFFICES ASSUME NEW a \in 1 .. Len(ks) + 1 PROVE t[a].cmd = c /\ t[a].k = s[a]
    OBVIOUS
  <2>1. t[a] = [cmd |-> c, k |-> s[a]]
    BY <1>3
  <2> QED
    BY <2>1
<1>8. /\ \A a \in 1 .. Len(t) : t[a].cmd = c /\ (a < Len(t) => t[a].k \in Plain)
      /\ t[Len(t)].k = "null"
  BY <1>1, <1>2, <1>6, <1>7
<1> QED
  BY <1>1, <1>6, <1>8 DEF t, s

\* The result that starts a COPY belongs to the command that was sent.
LEMMA TaggedCopy ==
    ASSUME NEW k \in Pq!Copies, NEW c \in Nat
    PROVE  LET t == Pq!Tagged(<<k>>, c) IN
           /\ t \in Seq(ResultsSet) /\ Len(t) = 1 /\ t[1].cmd = c /\ t[1].k = k
<1> DEFINE t == Pq!Tagged(<<k>>, c)
<1>1. t = [a \in 1 .. 1 |-> [cmd |-> c, k |-> k]]
  BY DEF Pq!Tagged
<1>2. [cmd |-> c, k |-> k] \in ResultsSet
  BY DEF ResultsSet, Pq!Copies
<1>3. t \in [1 .. 1 -> ResultsSet]
  BY <1>1, <1>2
<1> HIDE DEF t
<1>4. t \in Seq(ResultsSet) /\ Len(t) = 1
  <2>1. t \in Seq(ResultsSet)
    BY <1>3, SeqDef
  <2>2. DOMAIN t = 1 .. 1 /\ DOMAIN t = 1 .. Len(t) /\ Len(t) \in Nat
    BY <1>3, <2>1, LenProperties
  <2>3. 1 .. Len(t) = 1 .. 1
    BY <2>2
  <2> QED
    BY <2>1, <2>2, <2>3
<1> QED
  BY <1>1, <1>4 DEF t

\* What a command of a call, or one of a pipeline, puts into the queue
LEMMA QueuedGroups ==
    ASSUME QueueInv, NoCopies(queue, Len(queue)), NEW ks,
           \/ ks \in Seq(Plain)
           \/ queue = <<>> /\ ks \in {<<"copy_in">>, <<"copy_out">>}
    PROVE  LET q == Pq!Queued(ks) IN
           /\ q \in Seq(ResultsSet) /\ q # <<>> /\ Groups(q, Len(q), read, sent + 1)
           /\ ks \notin {<<"copy_in">>, <<"copy_out">>} => NoCopies(q, Len(q))
<1> DEFINE tail == IF ks \in {<<"copy_in">>, <<"copy_out">>} THEN ks ELSE Append(ks, "null")
           t == Pq!Tagged(tail, sent + 1)
           q == queue \o t
<1>1. /\ Len(queue) \in Nat /\ read \in Nat /\ sent \in Nat /\ sent + 1 \in Nat
      /\ queue \in Seq(ResultsSet) /\ Groups(queue, Len(queue), read, sent)
  BY DEF QueueInv
<1>2. /\ t \in Seq(ResultsSet) /\ Len(t) \in Nat \ {0} /\ OneGroup(t, Len(t), sent + 1)
      /\ Len(queue) = 0 \/ NoCopies(t, Len(t))
      /\ ks \notin {<<"copy_in">>, <<"copy_out">>} => NoCopies(t, Len(t))
  <2>1. CASE ks \in {<<"copy_in">>, <<"copy_out">>}
    <3>1. PICK k \in Pq!Copies : ks = <<k>>
      BY <2>1 DEF Pq!Copies
    <3>2. t = Pq!Tagged(<<k>>, sent + 1)
      BY <2>1, <3>1
    <3> HIDE DEF t
    <3>3. t \in Seq(ResultsSet) /\ Len(t) = 1 /\ t[1].cmd = sent + 1 /\ t[1].k = k
      BY <1>1, <3>2, TaggedCopy
    <3>4. Len(queue) = 0
      <4>1. ASSUME ks \in Seq(Plain) PROVE FALSE
        <5>1. ks[1] \in Plain /\ ks[1] = k
          BY <3>1, <4>1
        <5> QED
          BY <5>1 DEF Plain, Pq!Copies
      <4> QED
        BY <4>1
    <3> QED
      BY <2>1, <3>3, <3>4 DEF OneGroup, NoCopies
  <2>2. CASE ks \notin {<<"copy_in">>, <<"copy_out">>}
    <3>1. ks \in Seq(Plain) /\ t = Pq!Tagged(Append(ks, "null"), sent + 1)
      BY <2>2
    <3> HIDE DEF t
    <3>2. /\ t \in Seq(ResultsSet) /\ Len(t) = Len(ks) + 1 /\ Len(ks) \in Nat
          /\ \A a \in 1 .. Len(t) : t[a].cmd = sent + 1 /\ (a < Len(t) => t[a].k \in Plain)
          /\ t[Len(t)].k = "null"
      BY <1>1, <3>1, TaggedGroup
    <3>3. \A a \in 1 .. Len(t) : t[a].k \notin Pq!Copies /\ (a < Len(t) => t[a].k # "null")
      BY <3>2 DEF Plain, Pq!Copies
    <3> QED
      BY <2>2, <3>2, <3>3 DEF OneGroup, NoCopies
  <2> QED
    BY <2>1, <2>2
<1>3. Pq!Queued(ks) = q
  BY DEF Pq!Queued
<1> HIDE DEF t
<1>4. /\ q \in Seq(ResultsSet) /\ Len(q) = Len(queue) + Len(t)
      /\ \A a \in 1 .. Len(queue) : q[a] = queue[a]
      /\ \A a \in 1 .. Len(t) : q[Len(queue) + a] = t[a]
  BY <1>1, <1>2, ConcatProperties
<1>5. Groups(q, Len(q), read, sent + 1)
  <2> HIDE DEF q
  <2>1. Joined(q, queue, Len(queue), t, Len(t))
    BY <1>4 DEF Joined
  <2>2. Groups(q, Len(queue) + Len(t), read, sent + 1)
    BY <1>1, <1>2, <2>1, GroupAdded
  <2> QED
    BY <1>4, <2>2
<1>6. q # <<>>
  BY <1>1, <1>2, <1>4
<1>7. ks \notin {<<"copy_in">>, <<"copy_out">>} => NoCopies(q, Len(q))
  <2> HIDE DEF q
  <2> SUFFICES ASSUME NoCopies(t, Len(t)), NEW a \in 1 .. Len(q) PROVE q[a].k \notin Pq!Copies
    BY <1>2 DEF NoCopies
  <2>1. CASE a <= Len(queue)
    BY <1>1, <1>4, <2>1 DEF NoCopies
  <2>2. CASE a > Len(queue)
    <3>1. a - Len(queue) \in 1 .. Len(t) /\ Len(queue) + (a - Len(queue)) = a
      BY <1>1, <1>2, <1>4, <2>2
    <3> QED
      BY <1>4, <3>1 DEF NoCopies
  <2> QED
    BY <1>1, <2>1, <2>2
<1> QED
  BY <1>3, <1>4, <1>5, <1>6, <1>7

\* What the server may answer to a command: results that are data, none if it skips the command, or one
\* that starts a COPY.
LEMMA AnswersOfCommands ==
    ASSUME NEW cm \in {"query", "rows", "multi", "copy_in", "copy_out", "begin", "commit", "rollback"},
           NEW ks \in Pq!Answers(cm)
    PROVE  \/ ks \in Seq(Plain)
           \/ ks \in {<<"copy_in">>, <<"copy_out">>} /\ cm \in Pq!Copies
<1> USE DEF Plain
<1>1. /\ <<"tuples">> \in Seq(Plain) /\ <<"empty">> \in Seq(Plain) /\ <<"err">> \in Seq(Plain) /\ <<"ok">> \in Seq(Plain)
      /\ <<"row", "row", "empty">> \in Seq(Plain) /\ <<"row", "err">> \in Seq(Plain)
      /\ <<"tuples", "ok">> \in Seq(Plain) /\ <<"tuples", "err">> \in Seq(Plain)
      /\ <<"aborted">> \in Seq(Plain) /\ <<>> \in Seq(Plain)
  OBVIOUS
<1>2. ASSUME ks \in Pq!Results(cm)
      PROVE  /\ ks \in {<<"tuples">>, <<"empty">>, <<"err">>, <<"ok">>, <<"row", "row", "empty">>, <<"row", "err">>,
                         <<"tuples", "ok">>, <<"tuples", "err">>, <<"copy_in">>, <<"copy_out">>}
             /\ cm \notin Pq!Copies => ks \in {<<"tuples">>, <<"empty">>, <<"err">>, <<"ok">>, <<"row", "row", "empty">>,
                                               <<"row", "err">>, <<"tuples", "ok">>, <<"tuples", "err">>}
  BY <1>2 DEF Pq!Results, Pq!Copies
<1>3. ks \in {<<"aborted">>, <<>>} \/ ks \in Pq!Results(cm)
  BY DEF Pq!Answers
<1> HIDE DEF Plain
<1> QED
  BY <1>1, <1>2, <1>3

\* connect(), reconnect() and close(), when no transaction is open
LEMMA PqConnect ==
    ASSUME PqInv,
           \/ Pq!User /\ \E again \in BOOLEAN : Pq!ConnectStart(again)
           \/ Pq!Poll \/ Pq!ConnectStopped
           \/ Pq!User /\ Pq!Close
    PROVE  PqInv'
<1> USE DEF PqInv
\* A round waits for the descriptor of this round, or fails.
<1>0. ASSUME Pq!Round
      PROVE  /\ call' \in PqCalls /\ call'.cmd = 0 /\ call'.for = "user"
             /\ call'.pc = "idle" \/ (call'.pc = "connect" /\ call'.skt = fd')
  <2> DEFINE c0 == Pq!NewCall
             c1 == [c0 EXCEPT !.pc = "connect"]
             c2 == [c1 EXCEPT !.skt = fd']
             c3 == [c0 EXCEPT !.res = "failed"]
  <2>1. (call' = c2 /\ fd' \in {1, 2}) \/ call' = c3
    BY <1>0 DEF Pq!Round
  <2>2. c0 \in PqCalls /\ c0.cmd = 0 /\ c0.for = "user" /\ c0.pc = "idle"
    BY NewCallFields
  <2> HIDE DEF c0
  <2>3. c1 \in PqCalls /\ c1.cmd = 0 /\ c1.for = "user" /\ c1.pc = "connect"
    BY <2>2 DEF PqCalls
  <2> HIDE DEF c1
  <2>4. fd' \in {1, 2} => c2 \in PqCalls /\ c2.cmd = 0 /\ c2.for = "user" /\ c2.pc = "connect" /\ c2.skt = fd'
    BY <2>3 DEF PqCalls
  <2>5. c3 \in PqCalls /\ c3.cmd = 0 /\ c3.for = "user" /\ c3.pc = "idle"
    BY <2>2 DEF PqCalls, PqOutcomes
  <2> HIDE DEF c2, c3
  <2> QED
    BY <2>1, <2>4, <2>5
<1>1. CASE Pq!User /\ \E again \in BOOLEAN : Pq!ConnectStart(again)
  <2> USE <1>1 DEF Pq!ConnectStart, Pq!User
  <2>1. /\ queue' = <<>> /\ read' = 0 /\ sent' = 0 /\ srv' = "none" /\ pipe' = "off" /\ skt' = 0
        /\ trxn' = trxn /\ trxn \notin {"open", "done", "leaked"} /\ link' \in {"connecting", "bad"}
    OBVIOUS
  <2>2. \/ Pq!Round /\ link' = "connecting"
        \/ call' = [Pq!NewCall EXCEPT !.res = "failed"]
    OBVIOUS
  <2>3. /\ call' \in PqCalls /\ call'.cmd = 0 /\ call'.for = "user"
        /\ call'.pc = "idle" \/ (call'.pc = "connect" /\ call'.skt = fd' /\ link' = "connecting")
    BY <1>0, <2>2, NewCallFields DEF PqCalls, PqOutcomes
  <2>4. QueueInv'
    BY <2>1 DEF QueueInv, Groups
  <2>5. CallInv'
    BY <2>1, <2>3 DEF CallInv
  <2>6. TrxnInv' /\ LinkInv'
    BY <2>1, <2>3 DEF TrxnInv, LinkInv
  <2> QED
    BY <2>4, <2>5, <2>6
<1>2. CASE Pq!Poll
  <2> USE <1>2 DEF Pq!Poll, Pq!session
  <2>1. /\ UNCHANGED <<queue, pipe, sent, read, srv, trxn>>
        /\ call.pc = "connect" /\ call.cmd = 0 /\ call.for = "user" /\ link = "connecting" /\ queue = <<>>
        /\ call \in PqCalls /\ trxn # "leaked" /\ srv = "none"
    BY DEF CallInv, TrxnInv, LinkInv
  <2>2. \/ Pq!Round /\ link' = link
        \/ call' \in {Pq!Ended("value"), Pq!Ended("failed")} /\ link' = "ok" /\ skt' \in {0, fd'} /\ fd' # 0
        \/ call' = Pq!Ended("failed") /\ link' = "bad"
    BY DEF Pq!Connected
  <2>3. /\ call' \in PqCalls /\ call'.cmd = 0 /\ call'.for = "user"
        /\ call'.pc = "idle" \/ (call'.pc = "connect" /\ call'.skt = fd' /\ link' = "connecting")
    <3>1. CASE Pq!Round /\ link' = link
      BY <1>0, <2>1, <3>1
    <3>2. CASE call' \in {Pq!Ended("value"), Pq!Ended("failed")}
      <4>1. "value" \in PqOutcomes /\ "failed" \in PqOutcomes
        BY DEF PqOutcomes
      <4> QED
        BY <2>1, <3>2, <4>1, EndedFields
    <3> QED
      BY <2>2, <3>1, <3>2
  <2>4. QueueInv'
    BY <2>1 DEF QueueInv, Groups
  <2>5. CallInv'
    BY <2>1, <2>3 DEF CallInv
  <2>6. TrxnInv' /\ LinkInv'
    BY <2>1, <2>2, <2>3 DEF TrxnInv, LinkInv
  <2> QED
    BY <2>4, <2>5, <2>6
<1>3. CASE Pq!ConnectStopped
  <2> USE <1>3 DEF Pq!ConnectStopped, Pq!session
  <2>1. /\ UNCHANGED <<link, skt, queue, pipe, sent, read, srv, trxn>>
        /\ call.for = "user" /\ link = "connecting" /\ queue = <<>>
        /\ call \in PqCalls /\ trxn # "leaked" /\ call' = Pq!Ended("canceled")
    BY DEF CallInv, TrxnInv
  <2>2. call' \in PqCalls /\ call'.cmd = 0 /\ call'.for = "user" /\ call'.pc = "idle"
    <3>1. "canceled" \in PqOutcomes
      BY DEF PqOutcomes
    <3> QED
      BY <2>1, <3>1, EndedFields
  <2>3. QueueInv'
    BY <2>1 DEF QueueInv, Groups
  <2>4. CallInv'
    BY <2>1, <2>2 DEF CallInv
  <2>5. TrxnInv' /\ LinkInv'
    BY <2>1, <2>2 DEF TrxnInv, LinkInv
  <2> QED
    BY <2>3, <2>4, <2>5
<1>4. CASE Pq!User /\ Pq!Close
  <2> USE <1>4 DEF Pq!Close, Pq!User
  <2>1. QueueInv'
    BY DEF QueueInv, Groups
  <2>2. CallInv'
    BY NewCallFields DEF CallInv
  <2>3. TrxnInv' /\ LinkInv'
    BY NewCallFields DEF TrxnInv, LinkInv
  <2> QED
    BY <2>1, <2>2, <2>3
<1> QED
  BY <1>1, <1>2, <1>3, <1>4

\* do_send() for a caller, or for transaction_t: the command is refused, or joins those before it, which
\* are none outside of pipelines.
LEMMA PqSend ==
    ASSUME PqInv, trxn # "leaked",
           NEW cm \in {"query", "rows", "multi", "copy_in", "copy_out", "begin", "commit", "rollback"},
           NEW for \in {"user", "begin", "end", "cleanup"}, NEW want \in {"all", "none", "row"},
           for = "user" => cm \notin {"begin", "commit", "rollback"},
           for # "user" => cm \in {"begin", "commit", "rollback"},
           for = "begin" => trxn \in {"none", "ended", "void"},
           for \in {"end", "cleanup"} => trxn = "open" /\ cm \in {"commit", "rollback"},
           call.for = "user", cm \in Pq!Copies => pipe = "off",
           Pq!Send(cm, for, want, TRUE)
    PROVE  PqInv'
<1> USE DEF PqInv
<1> DEFINE c       == [Pq!NewCall EXCEPT !.for = for]
           refused == [c EXCEPT !.res = "refused"]
<1>1. UNCHANGED <<link, fd, skt, trxn>> /\ sent \in Nat /\ read \in Nat
  BY DEF Pq!Send, QueueInv
<1>2. c \in PqCalls /\ c.cmd = 0 /\ c.for = for /\ c.r.cmd = 0 /\ c.res = "none" /\ c.pc = "idle"
  BY NewCallFields DEF PqCalls
<1> HIDE DEF c
<1>3. refused \in PqCalls /\ refused.cmd = 0 /\ refused.for = for /\ refused.res = "refused" /\ refused.pc = "idle"
  BY <1>2 DEF PqCalls, PqOutcomes
<1>4. CASE Pq!Refuses(cm) /\ call' = refused /\ UNCHANGED <<queue, pipe, sent, read, srv>>
  <2> HIDE DEF refused
  <2>1. QueueInv' /\ LinkInv'
    BY <1>1, <1>4 DEF QueueInv, LinkInv
  <2>2. CallInv'
    BY <1>3, <1>4 DEF CallInv
  <2>3. for # "user" => link # "ok" \/ queue # <<>>
    BY <1>4 DEF Pq!Refuses
  <2>4. TrxnInv'
    BY <1>1, <1>3, <1>4, <2>3 DEF TrxnInv, LinkInv
  <2> QED
    BY <2>1, <2>2, <2>4
<1>5. ASSUME ~Pq!Refuses(cm), NEW ks \in Pq!Answers(cm), queue' = Pq!Queued(ks), srv' = Pq!SrvAfter(cm, ks),
             pipe' = Pq!PipeAfter(cm, ks), sent' = sent + 1, read' = read,
             \/ call' = [c EXCEPT !.pc = "flush", !.want = want, !.last = TRUE, !.cmd = sent + 1,
                                  !.ran = ks \notin Pq!Skipped]
             \/ cm = "rows" /\ call' = refused
      PROVE  PqInv'
  <2>1. link = "ok" /\ (pipe \in {"off", "stale"} => queue = <<>> /\ read = sent)
    BY <1>5 DEF Pq!Refuses, QueueInv, Groups
  <2>2. \/ ks \in Seq(Plain)
        \/ ks \in {<<"copy_in">>, <<"copy_out">>} /\ cm \in Pq!Copies
    BY AnswersOfCommands
  <2>3. NoCopies(queue, Len(queue))
    <3>1. CASE pipe \in {"off", "stale"}
      BY <2>1, <3>1 DEF NoCopies
    <3>2. CASE pipe \notin {"off", "stale"}
      BY <3>2 DEF NoCopies, QueueInv
    <3> QED
      BY <3>1, <3>2
  <2>4. /\ queue' \in Seq(ResultsSet) /\ queue' # <<>> /\ Groups(queue', Len(queue'), read, sent + 1)
        /\ ks \notin {<<"copy_in">>, <<"copy_out">>} => NoCopies(queue', Len(queue'))
    <3>1. ks \in Seq(Plain) \/ (queue = <<>> /\ ks \in {<<"copy_in">>, <<"copy_out">>})
      BY <2>1, <2>2
    <3> QED
      BY <1>5, <2>3, <3>1, QueuedGroups
  <2>5. /\ pipe = "off" => pipe' = "off"
        /\ pipe' \in {"off", "stale"} => pipe \in {"off", "stale"}
    BY <1>5 DEF Pq!PipeAfter
  <2>6. QueueInv'
    <3>1. \A a \in 1 .. Len(queue') : queue'[a].k \in Pq!Copies => link = "ok" /\ pipe' = "off"
      <4>1. CASE ks \in {<<"copy_in">>, <<"copy_out">>} /\ cm \in Pq!Copies
        BY <2>1, <2>5, <4>1
      <4>2. CASE ks \notin {<<"copy_in">>, <<"copy_out">>}
        BY <2>4, <4>2 DEF NoCopies
      <4>3. CASE ks \in Seq(Plain) /\ ks \in {<<"copy_in">>, <<"copy_out">>}
        <5>1. ks[1] \in Plain /\ ks[1] \in Pq!Copies
          BY <4>3 DEF Pq!Copies
        <5> QED
          BY <5>1 DEF Plain, Pq!Copies
      <4> QED
        BY <2>2, <4>1, <4>2, <4>3
    <3> QED
      BY <1>1, <1>5, <2>4, <3>1 DEF QueueInv
  <2>7. LinkInv'
    BY <1>1, <2>1 DEF LinkInv
  <2>8. /\ for \in {"end", "cleanup"} => srv' = "none" \/ ks \in Pq!Skipped
        /\ for = "user" /\ srv = "none" => srv' = "none"
    BY <1>5 DEF Pq!SrvAfter
  <2>9. CASE cm = "rows" /\ call' = refused
    <3> HIDE DEF refused
    <3>1. for = "user"
      BY <2>9
    <3>2. CallInv'
      BY <1>3, <2>9, <3>1 DEF CallInv
    <3>3. TrxnInv'
      BY <1>1, <1>3, <2>8, <2>9, <3>1 DEF TrxnInv
    <3> QED
      BY <2>6, <2>7, <3>2, <3>3
  <2>10. CASE call' = [c EXCEPT !.pc = "flush", !.want = want, !.last = TRUE, !.cmd = sent + 1,
                                !.ran = ks \notin Pq!Skipped]
    <3> DEFINE ran == ks \notin Pq!Skipped
               c1  == [c EXCEPT !.pc = "flush"]
               c2  == [c1 EXCEPT !.want = want]
               c3  == [c2 EXCEPT !.last = TRUE]
               c4  == [c3 EXCEPT !.cmd = sent + 1]
               c5  == [c4 EXCEPT !.ran = ran]
    <3>1. call' = c5
      BY <2>10
    <3>2. ran \in BOOLEAN /\ (ks \in Pq!Skipped => ran = FALSE)
      OBVIOUS
    <3> HIDE DEF ran
    <3>3. c1 \in PqCalls /\ c1.for = for /\ c1.r.cmd = 0 /\ c1.res = "none" /\ c1.pc = "flush"
      BY <1>2 DEF PqCalls
    <3> HIDE DEF c1
    <3>4. c2 \in PqCalls /\ c2.for = for /\ c2.r.cmd = 0 /\ c2.res = "none" /\ c2.pc = "flush"
      BY <3>3 DEF PqCalls
    <3> HIDE DEF c2
    <3>5. c3 \in PqCalls /\ c3.for = for /\ c3.r.cmd = 0 /\ c3.res = "none" /\ c3.pc = "flush" /\ c3.last = TRUE
      BY <3>4 DEF PqCalls
    <3> HIDE DEF c3
    <3>6. /\ c4 \in PqCalls /\ c4.for = for /\ c4.r.cmd = 0 /\ c4.res = "none" /\ c4.pc = "flush" /\ c4.last = TRUE
          /\ c4.cmd = sent + 1
      BY <1>1, <3>5 DEF PqCalls
    <3> HIDE DEF c4
    <3>7. /\ c5 \in PqCalls /\ c5.for = for /\ c5.r.cmd = 0 /\ c5.res = "none" /\ c5.pc = "flush" /\ c5.last = TRUE
          /\ c5.cmd = sent + 1 /\ c5.ran = ran
      BY <3>2, <3>6 DEF PqCalls
    <3> HIDE DEF c5
    <3>8. CallInv'
      BY <1>1, <1>5, <2>1, <2>5, <3>1, <3>7 DEF CallInv
    <3>9. TrxnInv'
      BY <1>1, <1>5, <2>8, <3>1, <3>2, <3>7 DEF TrxnInv
    <3> QED
      BY <2>6, <2>7, <3>8, <3>9
  <2> QED
    BY <1>5, <2>9, <2>10
<1> QED
  BY <1>4, <1>5 DEF Pq!Send, Pq!session, c

\* The first null of results that are not those of a COPY
LEMMA FirstNull ==
    ASSUME NEW q \in Seq(ResultsSet), q # <<>>, q[Len(q)].k = "null"
    PROVE  \E e \in 1 .. Len(q) : /\ q[e].k = "null" /\ \A m \in 1 .. e - 1 : q[m].k # "null"
                                  /\ Pq!Drained(q) = SubSeq(q, e + 1, Len(q))
<1> DEFINE S == {a \in DOMAIN q : q[a].k = "null"} \cup {Len(q)}
<1>1. Len(q) \in Nat /\ Len(q) > 0 /\ DOMAIN q = 1 .. Len(q)
  OBVIOUS
<1>2. S = {a \in 1 .. Len(q) : q[a].k = "null"} /\ Len(q) \in S
  BY <1>1
<1>3. S \in SUBSET Nat /\ S # {}
  BY <1>1, <1>2
<1> DEFINE LessThan == {ss \in Nat \X Nat : ss[1] < ss[2]}
<1>4. IsWellFoundedOn(LessThan, Nat)
  BY NatLessThanWellFounded DEF OpToRel
<1>5. PICK e \in S : \A y \in S : ~(<<y, e>> \in LessThan)
  <2> HIDE DEF LessThan, S
  <2> QED
    BY <1>3, <1>4, WFMin
<1>6. \A y \in S : e <= y
  <2>1. \A y \in S : ~(y < e)
    BY <1>3, <1>5
  <2> HIDE DEF S
  <2> QED
    BY <1>3, <2>1
<1>7. Pq!Min(S) = e
  <2>1. \A x \in S : (\A y \in S : x <= y) => x = e
    BY <1>3, <1>6
  <2> QED
    BY <1>6, <2>1 DEF Pq!Min
<1>8. Pq!Drained(q) = SubSeq(q, e + 1, Len(q))
  BY <1>7 DEF Pq!Drained
<1>9. e \in 1 .. Len(q) /\ q[e].k = "null" /\ \A m \in 1 .. e - 1 : q[m].k # "null"
  <2>1. e \in 1 .. Len(q) /\ q[e].k = "null"
    BY <1>2
  <2>2. ASSUME NEW m \in 1 .. e - 1, q[m].k = "null" PROVE FALSE
    <3>1. m \in S /\ m < e
      <4>1. m \in 1 .. Len(q) /\ m < e
        BY <1>1, <2>1
      <4> QED
        BY <1>2, <2>2, <4>1
    <3>2. e <= m /\ m \in Nat /\ e \in Nat
      BY <1>3, <1>6, <3>1
    <3> QED
      BY <3>1, <3>2
  <2> QED
    BY <2>1, <2>2
<1> QED
  BY <1>8, <1>9

\* What is left of the queue after some results were got
LEMMA QueueGot ==
    ASSUME QueueInv, NEW e \in 1 .. Len(queue), \A m \in 1 .. e - 1 : queue[m].k # "null",
           queue[1].k \notin Pq!Copies
    PROVE  LET u   == SubSeq(queue, e + 1, Len(queue))
               rd2 == IF queue[e].k = "null" THEN read + 1 ELSE read
           IN  /\ u \in Seq(ResultsSet) /\ rd2 \in Nat /\ Groups(u, Len(u), rd2, sent)
               /\ NoCopies(u, Len(u)) /\ (queue[e].k # "null" => u # <<>>)
<1> DEFINE u   == SubSeq(queue, e + 1, Len(queue))
           rd2 == IF queue[e].k = "null" THEN read + 1 ELSE read
<1>1. Len(queue) \in Nat /\ read \in Nat /\ sent \in Nat /\ queue \in Seq(ResultsSet) /\ rd2 \in Nat
  BY DEF QueueInv
<1>2. u \in Seq(ResultsSet) /\ Len(u) = Len(queue) - e /\ \A a \in 1 .. Len(u) : u[a] = queue[a + e]
  <2>0. \A a \in e + 1 .. Len(queue) : queue[a] \in ResultsSet
    BY <1>1
  <2>1. /\ u \in Seq(ResultsSet)
        /\ Len(u) = IF e + 1 <= Len(queue) THEN Len(queue) - (e + 1) + 1 ELSE 0
        /\ \A a \in 1 .. Len(queue) - (e + 1) + 1 : u[a] = queue[e + 1 + a - 1]
    BY <1>1, <2>0, SubSeqProperties
  <2> HIDE DEF u
  <2>2. Len(u) = Len(queue) - e
    BY <1>1, <2>1
  <2>3. ASSUME NEW a \in 1 .. Len(u) PROVE u[a] = queue[a + e]
    <3>1. a \in 1 .. Len(queue) - (e + 1) + 1 /\ e + 1 + a - 1 = a + e
      BY <1>1, <2>2
    <3> QED
      BY <2>1, <3>1
  <2> QED
    BY <2>1, <2>2, <2>3
<1> HIDE DEF u
<1>3. NoCopies(queue, Len(queue))
  <2>1. \A a \in 1 .. Len(queue) : queue[a].k \in Pq!Copies => Len(queue) = 1
    BY DEF QueueInv, Groups
  <2> QED
    BY <1>1, <2>1 DEF NoCopies
<1>4. Groups(u, Len(queue) - e, rd2, sent)
  <2>1. Rest(u, queue, Len(queue), e) /\ Groups(queue, Len(queue), read, sent)
    BY <1>2 DEF Rest, QueueInv
  <2> QED
    BY <1>1, <2>1, GroupGot
<1>5. NoCopies(u, Len(u))
  <2> SUFFICES ASSUME NEW a \in 1 .. Len(u) PROVE u[a].k \notin Pq!Copies
    BY DEF NoCopies
  <2>1. a + e \in 1 .. Len(queue)
    BY <1>1, <1>2
  <2> QED
    BY <1>2, <1>3, <2>1 DEF NoCopies
<1>6. queue[e].k # "null" => u # <<>>
  <2>1. e = Len(queue) => queue[e].k = "null"
    BY <1>1, <1>3 DEF QueueInv, Groups, NoCopies
  <2> QED
    BY <1>1, <1>2, <2>1
<1> QED
  BY <1>1, <1>2, <1>4, <1>5, <1>6 DEF u

\* A round of do_get_result()
LEMMA PqGetResult == PqInv /\ Pq!GetResult => PqInv'
<1> SUFFICES ASSUME PqInv, Pq!GetResult PROVE PqInv'
  OBVIOUS
<1> USE DEF PqInv
<1> DEFINE t     == Pq!Head0
           skips == call.want = "row" /\ t.k \in {"empty", "tuples"}
           keeps == call.last /\ t.k \notin {"null"} \cup Pq!Copies /\ link # "bad"
\* What the queue is before
<1>1. /\ call.pc = "get" /\ call \in PqCalls /\ UNCHANGED <<link, fd, skt, pipe, sent, srv, trxn>>
      /\ Len(queue) \in Nat /\ read \in Nat /\ sent \in Nat /\ queue \in Seq(ResultsSet) /\ trxn # "leaked"
      /\ call.cmd # 0 => link = "ok" /\ sent = call.cmd /\ call.last = TRUE
      /\ call.cmd # 0 /\ pipe \in {"off", "stale"} => call.r.cmd \in {0, call.cmd} /\ (queue # <<>> => read + 1 = sent)
  BY DEF Pq!GetResult, CallInv, QueueInv, TrxnInv
<1>2. /\ t \in ResultsSet
      /\ queue = <<>> => t.k = "null" /\ Pq!Tail0 = queue
      /\ queue # <<>> => t = queue[1] /\ t.cmd = read + 1 /\ Len(queue) > 0 /\ 1 \in 1 .. Len(queue)
      /\ t.k \in Pq!Copies => Pq!Tail0 = queue
      /\ queue # <<>> /\ t.k \notin Pq!Copies => Pq!Tail0 = SubSeq(queue, 2, Len(queue))
  <2>1. CASE queue = <<>>
    BY <1>1, <2>1 DEF Pq!Head0, Pq!Tail0, Pq!NullResult, ResultsSet, Pq!Copies
  <2>2. CASE queue # <<>>
    <3>1. Len(queue) > 0 /\ 1 \in 1 .. Len(queue) /\ t = queue[1]
      BY <1>1, <2>2 DEF Pq!Head0
    <3>2. t.cmd = read + 1
      BY <1>1, <3>1 DEF QueueInv, Groups
    <3>3. Tail(queue) = SubSeq(queue, 2, Len(queue))
      BY <1>1, <2>2, TailIsSubSeq
    <3>4. t \in ResultsSet
      BY <1>1, <3>1
    <3> QED
      BY <2>2, <3>1, <3>2, <3>3, <3>4 DEF Pq!Tail0
  <2> QED
    BY <2>1, <2>2
<1> HIDE DEF t
\* and when a result that is not of a COPY is taken from it
<1>3. ASSUME queue # <<>>, t.k \notin Pq!Copies
      PROVE  LET u == SubSeq(queue, 2, Len(queue)) IN
             /\ u \in Seq(ResultsSet) /\ Groups(u, Len(u), IF t.k = "null" THEN read + 1 ELSE read, sent)
             /\ NoCopies(u, Len(u)) /\ (t.k # "null" => u # <<>>)
  <2>1. \A m \in 1 .. 1 - 1 : queue[m].k # "null"
    OBVIOUS
  <2>2. 1 + 1 = 2
    OBVIOUS
  <2> QED
    BY <1>2, <1>3, <2>1, <2>2, QueueGot
<1>4. CASE t.k = "err"
  <2>1. queue' = Pq!Drained(queue) /\ read' = read + 1 /\ call' = Pq!Gives("error", Pq!NullResult)
    BY <1>4 DEF Pq!GetResult, t
  <2>2. queue # <<>> /\ t.k \notin Pq!Copies
    BY <1>2, <1>4 DEF Pq!Copies
  <2>3. queue[Len(queue)].k = "null"
    <3>1. queue[Len(queue)].k \in {"null"} \cup Pq!Copies /\ Len(queue) \in 1 .. Len(queue)
      BY <1>1, <1>2, <2>2 DEF QueueInv, Groups
    <3>2. queue[Len(queue)].k \in Pq!Copies => Len(queue) = 1
      BY <3>1 DEF QueueInv, Groups
    <3> QED
      BY <1>2, <2>2, <3>1, <3>2
  <2>4. PICK e \in 1 .. Len(queue) : /\ queue[e].k = "null" /\ \A m \in 1 .. e - 1 : queue[m].k # "null"
                                    /\ Pq!Drained(queue) = SubSeq(queue, e + 1, Len(queue))
    BY <1>1, <2>2, <2>3, FirstNull
  <2>5. queue' \in Seq(ResultsSet) /\ Groups(queue', Len(queue'), read + 1, sent) /\ NoCopies(queue', Len(queue'))
    BY <1>2, <2>1, <2>2, <2>4, QueueGot
  <2>6. QueueInv' /\ LinkInv'
    BY <1>1, <2>1, <2>5 DEF QueueInv, LinkInv, NoCopies
  <2>7. call.cmd # 0 /\ pipe \in {"off", "stale"} => queue' = <<>>
    <3>1. call.cmd # 0 /\ pipe \in {"off", "stale"} => Len(queue') = 0
      BY <1>1, <2>2, <2>5, NothingLeft
    <3> QED
      BY <2>5, <3>1
  <2>8. /\ call' \in PqCalls /\ call'.pc = "idle" /\ call'.for = call.for /\ call'.cmd = call.cmd /\ call'.ran = call.ran
        /\ call'.r.cmd = 0 /\ call'.res = "error"
    <3>1. "error" \in PqOutcomes /\ Pq!NullResult \in ResultsSet /\ Pq!NullResult.cmd = 0
      BY DEF PqOutcomes, Pq!NullResult, ResultsSet
    <3> QED
      BY <1>1, <2>1, <3>1, GivesFields
  <2>9. CallInv'
    BY <1>1, <2>7, <2>8 DEF CallInv
  <2>10. TrxnInv'
    BY <1>1, <2>8 DEF TrxnInv
  <2> QED
    BY <2>6, <2>9, <2>10
<1>5. CASE t.k # "err" /\ (skips \/ keeps)
  <2>1. queue' = Pq!Tail0 /\ read' = read /\ call' = IF skips THEN call ELSE [call EXCEPT !.r = t]
    BY <1>5 DEF Pq!GetResult, t
  <2>2. t.k # "null" /\ t.k \notin Pq!Copies
    BY <1>5 DEF Pq!Copies
  <2>3. queue # <<>> /\ queue' = SubSeq(queue, 2, Len(queue))
    BY <1>2, <2>1, <2>2
  <2>4. queue' \in Seq(ResultsSet) /\ Groups(queue', Len(queue'), read, sent) /\ NoCopies(queue', Len(queue'))
    BY <1>3, <2>2, <2>3
  <2>5. QueueInv' /\ LinkInv'
    BY <1>1, <2>1, <2>4 DEF QueueInv, LinkInv, NoCopies
  <2>6. /\ call' \in PqCalls /\ call'.pc = "get" /\ call'.for = call.for /\ call'.cmd = call.cmd /\ call'.last = call.last
        /\ call'.ran = call.ran /\ (call'.r = call.r \/ call'.r.cmd = read + 1) /\ call'.res = call.res
    BY <1>1, <1>2, <2>1, <2>3 DEF PqCalls
  <2>7. CallInv'
    BY <1>1, <2>1, <2>3, <2>6 DEF CallInv
  <2>8. TrxnInv'
    BY <1>1, <2>6 DEF TrxnInv
  <2> QED
    BY <2>5, <2>7, <2>8
<1>6. CASE t.k # "err" /\ ~skips /\ ~keeps
  <2> DEFINE res == IF call.last /\ t.k = "null" THEN call.r ELSE t
  <2>1. queue' = Pq!Tail0 /\ read' = (IF t.k = "null" /\ queue # <<>> THEN read + 1 ELSE read)
    <3> HIDE DEF res
    <3> QED
      BY <1>6 DEF Pq!GetResult, t
  <2>2. PICK form \in {"result", "refs", "value", "optional"} :
               call' = Pq!Gives(Pq!Outcome(res, form), [Pq!NullResult EXCEPT !.cmd = res.cmd])
    <3>1. \E form \in IF call.for = "user" THEN {"result", "refs", "value", "optional"} ELSE {"result"} :
              call' = Pq!Gives(Pq!Outcome(res, form), [Pq!NullResult EXCEPT !.cmd = res.cmd])
      BY <1>6, Zenon DEF Pq!GetResult, t
    <3> HIDE DEF res
    <3> QED
      BY <3>1
  <2>3. Pq!Outcome(res, form) \in PqOutcomes
    BY DEF Pq!Outcome, PqOutcomes
  <2>4. res \in ResultsSet
    BY <1>1, <1>2 DEF PqCalls
  <2>5. /\ call' \in PqCalls /\ call'.pc = "idle" /\ call'.for = call.for /\ call'.cmd = call.cmd /\ call'.ran = call.ran
        /\ call'.r.cmd = res.cmd
    <3> DEFINE from == [Pq!NullResult EXCEPT !.cmd = res.cmd]
               out  == Pq!Outcome(res, form)
    <3> HIDE DEF res
    <3>1. from \in ResultsSet /\ from.cmd = res.cmd
      BY <2>4 DEF Pq!NullResult, ResultsSet
    <3>2. call' = Pq!Gives(out, from) /\ out \in PqOutcomes
      BY <2>2, <2>3
    <3> HIDE DEF from, out
    <3> QED
      BY <1>1, <3>1, <3>2, GivesFields
  <2>6. \/ queue = <<>> /\ queue' = queue /\ read' = read
        \/ queue # <<>> /\ t.k \in Pq!Copies /\ queue' = queue /\ read' = read
        \/ queue # <<>> /\ t.k \notin Pq!Copies /\ queue' = SubSeq(queue, 2, Len(queue))
              /\ read' = IF t.k = "null" THEN read + 1 ELSE read
    BY <1>2, <2>1 DEF Pq!Copies
  <2>7. QueueInv' /\ LinkInv'
    <3>1. CASE queue' = queue /\ read' = read
      BY <1>1, <3>1 DEF QueueInv, LinkInv
    <3>2. CASE queue # <<>> /\ t.k \notin Pq!Copies /\ queue' = SubSeq(queue, 2, Len(queue))
                 /\ read' = IF t.k = "null" THEN read + 1 ELSE read
      <4>1. queue' \in Seq(ResultsSet) /\ Groups(queue', Len(queue'), read', sent) /\ NoCopies(queue', Len(queue'))
        BY <1>3, <3>2
      <4> QED
        BY <1>1, <3>2, <4>1 DEF QueueInv, LinkInv, NoCopies
    <3> QED
      BY <2>6, <3>1, <3>2
  <2>8. CallInv'
    <3>1. call.cmd # 0 => t.k \in {"null"} \cup Pq!Copies
      BY <1>1, <1>6
    <3>2. call.cmd # 0 /\ pipe = "off" /\ queue' # <<>> => queue'[1].k \in Pq!Copies
      <4>1. SUFFICES ASSUME call.cmd # 0, pipe = "off", queue # <<>>, t.k \notin Pq!Copies PROVE queue' = <<>>
        BY <1>2, <2>6
      <4>2. read' = sent /\ queue' \in Seq(ResultsSet) /\ Groups(queue', Len(queue'), sent, sent)
        BY <1>1, <1>3, <2>6, <3>1, <4>1
      <4>3. Len(queue') = 0
        BY <1>1, <4>2, NothingLeft
      <4> QED
        BY <4>2, <4>3
    <3>3. call.cmd # 0 /\ pipe = "off" => res.cmd \in {0, call.cmd}
      <4>1. call.cmd # 0 /\ pipe = "off" /\ t.k # "null" => t.cmd = call.cmd
        BY <1>1, <1>2
      <4> QED
        BY <1>1, <4>1
    <3> HIDE DEF res
    <3> QED
      BY <1>1, <2>5, <3>2, <3>3 DEF CallInv
  <2>9. TrxnInv'
    BY <1>1, <2>5 DEF TrxnInv
  <2> QED
    BY <2>7, <2>8, <2>9
<1> QED
  BY <1>4, <1>5, <1>6

\* Calls that send no command, and change the mode of the pipeline at most
LEMMA PqNoCommand ==
    ASSUME PqInv, call.for = "user", trxn # "leaked", UNCHANGED <<link, fd, skt, queue, sent, read, srv, trxn>>,
           pipe' = pipe \/ queue = <<>>,
           call' \in PqCalls, call'.pc # "connect", call'.cmd = 0, call'.for = "user"
    PROVE  PqInv'
<1> USE DEF PqInv
<1>1. QueueInv'
  BY DEF QueueInv
<1>2. CallInv'
  BY DEF CallInv
<1>3. TrxnInv' /\ LinkInv'
  BY DEF TrxnInv, LinkInv
<1> QED
  BY <1>1, <1>2, <1>3

\* A wait that is over, stopped or failed
LEMMA PqWaited == PqInv /\ (Pq!Flushed \/ Pq!Canceled \/ Pq!WaitFails) => PqInv'
<1> SUFFICES ASSUME PqInv, Pq!Flushed \/ Pq!Canceled \/ Pq!WaitFails PROVE PqInv'
  OBVIOUS
<1> USE DEF PqInv
<1>1. /\ UNCHANGED <<link, fd, skt, queue, pipe, sent, read, srv, trxn>> /\ call \in PqCalls
      /\ call.pc \in {"flush", "get", "notify", "copy"} /\ trxn # "leaked"
  BY DEF Pq!Flushed, Pq!Canceled, Pq!WaitFails, Pq!Waiting, Pq!session, CallInv, TrxnInv
<1>2. \/ call' = [call EXCEPT !.pc = "get"] /\ call.pc = "flush"
      \/ call' \in {Pq!Ended("value"), Pq!Ended("canceled"), Pq!Ended("failed")}
  BY DEF Pq!Flushed, Pq!Canceled, Pq!WaitFails
<1>3. /\ call' \in PqCalls /\ call'.for = call.for /\ call'.ran = call.ran
      /\ \/ call'.pc = "get" /\ call.pc = "flush" /\ call'.cmd = call.cmd /\ call'.last = call.last /\ call'.r = call.r
         \/ call'.pc = "idle" /\ call'.cmd = 0
  <2>1. CASE call' = [call EXCEPT !.pc = "get"] /\ call.pc = "flush"
    BY <1>1, <2>1 DEF PqCalls
  <2>2. CASE call' \in {Pq!Ended("value"), Pq!Ended("canceled"), Pq!Ended("failed")}
    <3>1. "value" \in PqOutcomes /\ "canceled" \in PqOutcomes /\ "failed" \in PqOutcomes
      BY DEF PqOutcomes
    <3> QED
      BY <1>1, <2>2, <3>1, EndedFields
  <2> QED
    BY <1>2, <2>1, <2>2
<1>4. QueueInv' /\ LinkInv'
  BY <1>1 DEF QueueInv, LinkInv
<1>5. CallInv'
  BY <1>1, <1>3 DEF CallInv
<1>6. TrxnInv'
  BY <1>1, <1>3 DEF TrxnInv
<1> QED
  BY <1>4, <1>5, <1>6

\* One result and the null after it
LEMMA AnswerGroup ==
    ASSUME NEW k \in Plain, NEW rd \in Nat
    PROVE  LET t == Pq!Tagged(<<k, "null">>, rd + 1) IN
           t \in Seq(ResultsSet) /\ t # <<>> /\ Groups(t, Len(t), rd, rd + 1) /\ NoCopies(t, Len(t))
<1> DEFINE t == Pq!Tagged(<<k, "null">>, rd + 1)
<1>1. Len(<<k, "null">>) = 2 /\ <<k, "null">>[1] = k /\ <<k, "null">>[2] = "null" /\ rd + 1 \in Nat
  OBVIOUS
<1>2. /\ t \in Seq(ResultsSet) /\ Len(t) = 2 /\ t[2].k = "null"
      /\ \A a \in 1 .. 2 : t[a].cmd = rd + 1 /\ (a < 2 => t[a].k \in Plain)
  <2> DEFINE g == [a \in 1 .. 2 |-> [cmd |-> rd + 1, k |-> <<k, "null">>[a]]]
  <2>1. t = g
    BY <1>1 DEF Pq!Tagged
  <2>2. \A a \in 1 .. 2 : [cmd |-> rd + 1, k |-> <<k, "null">>[a]] \in ResultsSet
    BY <1>1 DEF ResultsSet, Plain
  <2>3. g \in [1 .. 2 -> ResultsSet] /\ g[1] = [cmd |-> rd + 1, k |-> k] /\ g[2] = [cmd |-> rd + 1, k |-> "null"]
    BY <1>1, <2>2
  <2> HIDE DEF g, t
  <2>4. g \in Seq(ResultsSet) /\ Len(g) = 2
    <3>1. g \in Seq(ResultsSet)
      BY <2>3, SeqDef
    <3>2. DOMAIN g = 1 .. 2 /\ DOMAIN g = 1 .. Len(g) /\ Len(g) \in Nat
      BY <2>3, <3>1, LenProperties
    <3>3. 1 .. Len(g) = 1 .. 2
      BY <3>2
    <3> QED
      BY <3>1, <3>2, <3>3
  <2>5. /\ g[2].k = "null" /\ g[1].cmd = rd + 1 /\ g[2].cmd = rd + 1 /\ g[1].k = k
    BY <2>3
  <2> QED
    BY <2>1, <2>4, <2>5
<1> HIDE DEF t
<1>3. t[1].k \notin {"null"} \cup Pq!Copies /\ t[1].cmd = rd + 1 /\ t[2].cmd = rd + 1 /\ t[2].k \notin Pq!Copies
  BY <1>2 DEF Plain, Pq!Copies
<1>4. NoCopies(t, Len(t))
  BY <1>2, <1>3 DEF NoCopies
<1>5. Groups(t, Len(t), rd, rd + 1)
  BY <1>2, <1>3 DEF Groups
<1>6. t # <<>>
  <2>1. Len(t) # 0
    BY <1>2
  <2> QED
    BY <2>1
<1> QED
  BY <1>2, <1>4, <1>5, <1>6 DEF t

\* The connection is lost: the commands under way end with an error.
LEMMA PqLost == PqInv /\ Pq!ConnectionLost => PqInv'
<1> SUFFICES ASSUME PqInv, Pq!ConnectionLost PROVE PqInv'
  OBVIOUS
<1> USE DEF PqInv
<1>1. /\ UNCHANGED <<fd, skt, read, trxn>> /\ link' = "bad" /\ pipe' = "off" /\ srv' = "none"
      /\ call.pc \in {"flush", "get", "notify", "copy"} /\ call \in PqCalls /\ read \in Nat /\ sent \in Nat
      /\ trxn # "leaked"
  BY DEF Pq!ConnectionLost, Pq!Waiting, CallInv, QueueInv, TrxnInv
<1>2. call' \in PqCalls /\ call'.for = call.for /\ call'.cmd = 0 /\ call'.pc = "idle"
  <2>1. "lost" \in PqOutcomes /\ call' = Pq!Ended("lost")
    BY DEF PqOutcomes, Pq!ConnectionLost
  <2> QED
    BY <1>1, <2>1, EndedFields
<1>3. QueueInv'
  <2>1. CASE queue = <<>>
    BY <1>1, <2>1 DEF Pq!ConnectionLost, QueueInv, Groups
  <2>2. CASE queue # <<>>
    <3>1. queue[1].cmd = read + 1
      <4>1. Len(queue) > 0
        BY <2>2 DEF QueueInv
      <4> QED
        BY <4>1 DEF QueueInv, Groups
    <3>2. queue' = Pq!Tagged(<<"err", "null">>, read + 1) /\ sent' = read + 1
      BY <2>2, <3>1 DEF Pq!ConnectionLost
    <3>3. "err" \in Plain
      BY DEF Plain
    <3>4. queue' \in Seq(ResultsSet) /\ Groups(queue', Len(queue'), read, read + 1) /\ NoCopies(queue', Len(queue'))
      BY <1>1, <3>2, <3>3, AnswerGroup
    <3> QED
      BY <1>1, <3>2, <3>4 DEF QueueInv, NoCopies
  <2> QED
    BY <2>1, <2>2
<1>4. CallInv'
  BY <1>2 DEF CallInv
<1>5. TrxnInv' /\ LinkInv'
  BY <1>1, <1>2 DEF TrxnInv, LinkInv
<1> QED
  BY <1>3, <1>4, <1>5

\* The answer to a COPY takes its place in the queue.
LEMMA PqCopyAnswer ==
    ASSUME PqInv, Pq!Head0.k \in Pq!Copies, Pq!CopyAnswer, call.for = "user", trxn # "leaked",
           NEW step \in {"flush", "get"},
           call' = [Pq!NewCall EXCEPT !.pc = step, !.last = TRUE, !.cmd = queue[1].cmd],
           UNCHANGED <<link, fd, skt, pipe, sent, read, trxn>>
    PROVE  PqInv'
<1> USE DEF PqInv
<1>1. queue # <<>> /\ queue[1].k \in Pq!Copies
  BY DEF Pq!Head0, Pq!NullResult, Pq!Copies
<1>2. /\ read \in Nat /\ sent \in Nat /\ queue[1].cmd = read + 1 /\ sent = read + 1 /\ link = "ok" /\ pipe = "off"
  <2>1. 1 \in 1 .. Len(queue) /\ Len(queue) > 0
    BY <1>1 DEF QueueInv
  <2>2. Len(queue) = 1
    BY <1>1, <2>1 DEF QueueInv, Groups
  <2> QED
    BY <1>1, <2>1, <2>2 DEF QueueInv, Groups
<1>3. PICK k \in {"ok", "err"} : /\ queue' = Pq!Tagged(<<k, "null">>, queue[1].cmd)
                                 /\ srv' = IF k = "err" /\ srv = "open" THEN "failed" ELSE srv
  BY DEF Pq!CopyAnswer
<1>4. k \in Plain /\ queue' = Pq!Tagged(<<k, "null">>, read + 1)
  BY <1>2, <1>3 DEF Plain
<1>5. queue' \in Seq(ResultsSet) /\ Groups(queue', Len(queue'), read, read + 1) /\ NoCopies(queue', Len(queue'))
  BY <1>2, <1>4, AnswerGroup
<1>6. QueueInv' /\ LinkInv'
  BY <1>2, <1>5 DEF QueueInv, LinkInv, NoCopies
<1>7. /\ call' \in PqCalls /\ call'.pc = step /\ call'.for = "user" /\ call'.cmd = sent /\ call'.last /\ call'.r.cmd = 0
      /\ call'.want = "all"
  <2> DEFINE c0 == Pq!NewCall
             c1 == [c0 EXCEPT !.pc = step]
             c2 == [c1 EXCEPT !.last = TRUE]
             c3 == [c2 EXCEPT !.cmd = sent]
  <2>1. call' = c3
    BY <1>2
  <2>2. c0 \in PqCalls /\ c0.r.cmd = 0 /\ c0.for = "user" /\ c0.want = "all"
    BY NewCallFields
  <2> HIDE DEF c0
  <2>3. c1 \in PqCalls /\ c1.r.cmd = 0 /\ c1.for = "user" /\ c1.want = "all" /\ c1.pc = step
    BY <2>2 DEF PqCalls
  <2> HIDE DEF c1
  <2>4. c2 \in PqCalls /\ c2.r.cmd = 0 /\ c2.for = "user" /\ c2.want = "all" /\ c2.pc = step /\ c2.last = TRUE
    BY <2>3 DEF PqCalls
  <2> HIDE DEF c2
  <2>5. c3 \in PqCalls /\ c3.r.cmd = 0 /\ c3.for = "user" /\ c3.want = "all" /\ c3.pc = step /\ c3.last = TRUE /\ c3.cmd = sent
    BY <1>2, <2>4 DEF PqCalls
  <2> HIDE DEF c3
  <2> QED
    BY <2>1, <2>5
<1>8. CallInv'
  BY <1>2, <1>7 DEF CallInv
<1>9. TrxnInv'
  BY <1>3, <1>7 DEF TrxnInv
<1> QED
  BY <1>6, <1>8, <1>9

\* COPY, reading and notifications, when no transaction is leaked
LEMMA PqOther ==
    ASSUME PqInv, Pq!User,
           \/ \E w \in {"all", "row"}, last1 \in BOOLEAN : Pq!Fetch(w, last1)
           \/ Pq!SendCopy \/ Pq!SendCopyEnd \/ Pq!GetCopyRow \/ Pq!GetNotify
           \/ \E mode \in {"on", "off"} : Pq!SetPipeline(mode)
           \/ Pq!FlushRequest
    PROVE  PqInv'
<1> USE DEF Pq!User, Pq!session
<1>0. call \in PqCalls
  BY DEF PqInv, CallInv
<1>1. CASE \E w \in {"all", "row"}, last1 \in BOOLEAN : Pq!Fetch(w, last1)
  <2>1. PICK w \in {"all", "row"}, last1 \in BOOLEAN : Pq!Fetch(w, last1)
    BY <1>1
  <2>2. /\ UNCHANGED <<link, fd, skt, queue, pipe, sent, read, srv, trxn>>
        /\ call' = [Pq!NewCall EXCEPT !.pc = "get", !.want = w, !.last = last1]
    BY <2>1 DEF Pq!Fetch
  <2>3. call' \in PqCalls /\ call'.pc = "get" /\ call'.cmd = 0 /\ call'.for = "user"
    BY <2>2, NewCallFields DEF PqCalls, PqOutcomes
  <2> QED
    BY <2>2, <2>3, PqNoCommand
<1>2. CASE Pq!SendCopy
  <2>1. /\ UNCHANGED <<link, fd, skt, queue, pipe, sent, read, srv, trxn>>
        /\ \/ call' = [Pq!NewCall EXCEPT !.pc = "flush", !.want = "none"]
           \/ call' = [Pq!NewCall EXCEPT !.res = "refused"]
    BY <1>2 DEF Pq!SendCopy
  <2>2. call' \in PqCalls /\ call'.pc # "connect" /\ call'.cmd = 0 /\ call'.for = "user"
    BY <2>1, NewCallFields DEF PqCalls, PqOutcomes
  <2> QED
    BY <2>1, <2>2, PqNoCommand
<1>3. CASE Pq!SendCopyEnd
  <2>1. CASE Pq!Head0.k = "copy_in"
    <3>1. /\ UNCHANGED <<link, fd, skt, pipe, sent, read, trxn>> /\ Pq!CopyAnswer
          /\ call' = [Pq!NewCall EXCEPT !.pc = "flush", !.last = TRUE, !.cmd = queue[1].cmd]
      BY <1>3, <2>1 DEF Pq!SendCopyEnd
    <3>2. Pq!Head0.k \in Pq!Copies
      BY <2>1 DEF Pq!Copies
    <3> QED
      BY <3>1, <3>2, PqCopyAnswer
  <2>2. CASE Pq!Head0.k # "copy_in"
    <3>1. /\ UNCHANGED <<link, fd, skt, queue, pipe, sent, read, srv, trxn>>
          /\ call' = [Pq!NewCall EXCEPT !.res = "refused"]
      BY <1>3, <2>2 DEF Pq!SendCopyEnd
    <3>2. call' \in PqCalls /\ call'.pc # "connect" /\ call'.cmd = 0 /\ call'.for = "user"
      BY <3>1, NewCallFields DEF PqCalls, PqOutcomes
    <3> QED
      BY <3>1, <3>2, PqNoCommand
  <2> QED
    BY <2>1, <2>2
<1>4. CASE Pq!GetCopyRow
  <2>1. CASE /\ Pq!Head0.k = "copy_out" /\ Pq!CopyAnswer
             /\ call' = [Pq!NewCall EXCEPT !.pc = "get", !.last = TRUE, !.cmd = queue[1].cmd]
    <3>1. UNCHANGED <<link, fd, skt, pipe, sent, read, trxn>>
      BY <1>4 DEF Pq!GetCopyRow
    <3>2. Pq!Head0.k \in Pq!Copies
      BY <2>1 DEF Pq!Copies
    <3> QED
      BY <2>1, <3>1, <3>2, PqCopyAnswer
  <2>2. CASE /\ UNCHANGED <<queue, srv>>
             /\ \/ call' = [Pq!NewCall EXCEPT !.pc = "copy"]
                \/ call' = [Pq!NewCall EXCEPT !.res = "value"]
                \/ call' = [Pq!NewCall EXCEPT !.res = "refused"]
    <3>1. UNCHANGED <<link, fd, skt, queue, pipe, sent, read, srv, trxn>>
      BY <1>4, <2>2 DEF Pq!GetCopyRow
    <3>2. call' \in PqCalls /\ call'.pc # "connect" /\ call'.cmd = 0 /\ call'.for = "user"
      BY <2>2, NewCallFields DEF PqCalls, PqOutcomes
    <3> QED
      BY <3>1, <3>2, PqNoCommand
  <2> QED
    BY <1>4, <2>1, <2>2 DEF Pq!GetCopyRow
<1>5. CASE Pq!GetNotify
  <2>1. /\ UNCHANGED <<link, fd, skt, queue, pipe, sent, read, srv, trxn>>
        /\ \/ call' = [Pq!NewCall EXCEPT !.pc = "notify"]
           \/ call.pc = "notify" /\ call' = Pq!Ended("value")
    BY <1>5 DEF Pq!GetNotify
  <2>2. "value" \in PqOutcomes
    BY DEF PqOutcomes
  <2>3. call' \in PqCalls /\ call'.pc # "connect" /\ call'.cmd = 0 /\ call'.for = "user"
    <3>1. CASE call' = [Pq!NewCall EXCEPT !.pc = "notify"]
      BY <3>1, NewCallFields DEF PqCalls, PqOutcomes
    <3>2. CASE call' = Pq!Ended("value")
      BY <1>0, <2>2, <3>2, EndedFields
    <3> QED
      BY <2>1, <3>1, <3>2
  <2> QED
    BY <2>1, <2>3, PqNoCommand
<1>6. CASE \E mode \in {"on", "off"} : Pq!SetPipeline(mode)
  <2>1. /\ UNCHANGED <<link, fd, skt, queue, sent, read, srv, trxn>> /\ (pipe' = pipe \/ queue = <<>>)
        /\ \/ call' = [Pq!NewCall EXCEPT !.res = "value"]
           \/ call' = [Pq!NewCall EXCEPT !.res = "refused"]
    BY <1>6 DEF Pq!SetPipeline
  <2>2. call' \in PqCalls /\ call'.pc # "connect" /\ call'.cmd = 0 /\ call'.for = "user"
    BY <2>1, NewCallFields DEF PqCalls, PqOutcomes
  <2> QED
    BY <2>1, <2>2, PqNoCommand
<1>7. CASE Pq!FlushRequest
  <2>1. /\ UNCHANGED <<link, fd, skt, queue, pipe, sent, read, srv, trxn>>
        /\ call' = [Pq!NewCall EXCEPT !.pc = "flush", !.want = "none"]
    BY <1>7 DEF Pq!FlushRequest
  <2>2. call' \in PqCalls /\ call'.pc # "connect" /\ call'.cmd = 0 /\ call'.for = "user"
    BY <2>1, NewCallFields DEF PqCalls, PqOutcomes
  <2> QED
    BY <2>1, <2>2, PqNoCommand
<1> QED
  BY <1>1, <1>2, <1>3, <1>4, <1>5, <1>6, <1>7

\* The commands of a pipeline
LEMMA PqPipeline ==
    ASSUME PqInv, Pq!User, (\E cm \in {"query", "rows"} : Pq!AddExec(cm)) \/ Pq!PipelineSync
    PROVE  PqInv'
<1> USE DEF PqInv
<1>1. CASE pipe \notin {"on", "failed"}
  <2>1. /\ UNCHANGED <<link, fd, skt, queue, pipe, sent, read, srv, trxn>>
        /\ call' = [Pq!NewCall EXCEPT !.res = "refused"]
    BY <1>1 DEF Pq!AddExec, Pq!PipelineSync
  <2>2. call' \in PqCalls /\ call'.pc # "connect" /\ call'.cmd = 0 /\ call'.for = "user"
    BY <2>1, NewCallFields DEF PqCalls, PqOutcomes
  <2> QED
    BY <2>1, <2>2, PqNoCommand DEF Pq!User
<1>2. CASE pipe \in {"on", "failed"}
  <2>1. /\ UNCHANGED <<link, fd, skt, read, trxn>> /\ pipe' \in {"on", "failed"} /\ sent' = sent + 1 /\ call.pc = "idle"
        /\ call.for = "user" /\ trxn # "leaked" /\ call \in PqCalls /\ sent \in Nat /\ read \in Nat /\ link = "ok"
        /\ srv = "none" => srv' = "none"
    BY <1>2 DEF Pq!AddExec, Pq!PipelineSync, Pq!User, Pq!PipeAfter, Pq!SrvAfter, TrxnInv, CallInv, QueueInv
  <2>2. NoCopies(queue, Len(queue))
    BY <1>2 DEF QueueInv, NoCopies
  <2>3. PICK ks : queue' = Pq!Queued(ks) /\ ks \in Seq(Plain)
    <3>1. CASE \E cm \in {"query", "rows"} : Pq!AddExec(cm)
      <4>1. PICK cm \in {"query", "rows"} : Pq!AddExec(cm)
        BY <3>1
      <4>2. PICK ks \in Pq!Answers(cm) : queue' = Pq!Queued(ks)
        BY <4>1 DEF Pq!AddExec
      <4>3. cm \notin Pq!Copies
        BY DEF Pq!Copies
      <4> QED
        BY <4>2, <4>3, AnswersOfCommands
    <3>2. CASE Pq!PipelineSync
      <4>1. queue' = Pq!Queued(<<"sync">>)
        BY <1>2, <3>2 DEF Pq!PipelineSync
      <4>2. <<"sync">> \in Seq(Plain)
        <5>1. "sync" \in Plain
          BY DEF Plain
        <5> QED
          BY <5>1
      <4> QED
        BY <4>1, <4>2
    <3> QED
      BY <3>1, <3>2
  <2>4. ks \notin {<<"copy_in">>, <<"copy_out">>}
    <3>1. ASSUME ks = <<"copy_in">> \/ ks = <<"copy_out">> PROVE FALSE
      <4>1. ks[1] \in Plain
        BY <2>3, <3>1
      <4> QED
        BY <3>1, <4>1 DEF Plain
    <3> QED
      BY <3>1
  <2>5. queue' \in Seq(ResultsSet) /\ queue' # <<>> /\ Groups(queue', Len(queue'), read, sent + 1) /\ NoCopies(queue', Len(queue'))
    BY <2>2, <2>3, <2>4, QueuedGroups
  <2>6. QueueInv' /\ LinkInv'
    BY <2>1, <2>5 DEF QueueInv, LinkInv, NoCopies
  <2>7. \/ call' = call
        \/ call' \in PqCalls /\ call'.pc = "flush" /\ call'.for = "user" /\ call'.cmd = 0
    <3>1. call' = call \/ call' = [Pq!NewCall EXCEPT !.pc = "flush", !.want = "none"]
      BY <1>2 DEF Pq!AddExec, Pq!PipelineSync
    <3> QED
      BY <3>1, NewCallFields DEF PqCalls
  <2>8. CallInv'
    BY <2>1, <2>7 DEF CallInv
  <2>9. TrxnInv'
    BY <2>1, <2>7 DEF TrxnInv
  <2> QED
    BY <2>6, <2>8, <2>9
<1> QED
  BY <1>1, <1>2

\* After the call of a transaction has ended, and at the end of its scope
LEMMA PqTrxn == PqInv /\ (Pq!TrxnExeced \/ Pq!ScopeEnds) => PqInv'
<1> SUFFICES ASSUME PqInv, Pq!TrxnExeced \/ Pq!ScopeEnds PROVE PqInv'
  OBVIOUS
<1> USE DEF PqInv
<1>1. UNCHANGED <<link, fd, skt, queue, pipe, sent, read, srv>> /\ call.pc = "idle" /\ call \in PqCalls
  BY DEF Pq!TrxnExeced, Pq!ScopeEnds, Pq!session, CallInv
<1>2. QueueInv' /\ LinkInv'
  BY <1>1 DEF QueueInv, LinkInv
<1>3. /\ call' \in PqCalls /\ call'.pc = "idle" /\ call'.for = "user" /\ call'.cmd = call.cmd
      /\ call'.r = call.r /\ call'.ran = call.ran
  BY <1>1 DEF Pq!TrxnExeced, Pq!ScopeEnds, PqCalls
<1>4. CallInv'
  BY <1>1, <1>3 DEF CallInv
<1>5. ASSUME Pq!ScopeEnds PROVE TrxnInv'
  BY <1>1, <1>3, <1>5 DEF Pq!ScopeEnds, TrxnInv
<1>6. ASSUME Pq!TrxnExeced PROVE TrxnInv'
  <2>1. CASE call.for = "begin"
    <3>1. trxn' \in {"open", "none"}
      BY <1>6, <2>1 DEF Pq!TrxnExeced
    <3> QED
      BY <1>1, <1>3, <2>1, <3>1 DEF TrxnInv
  <2>2. CASE call.for = "end"
    <3>1. \/ trxn' = "done" /\ call.ran /\ call.res \in {"value", "null"}
          \/ trxn' \in {"void", "open"}
      BY <1>6, <2>2 DEF Pq!TrxnExeced, Pq!Succeeded, TrxnInv
    <3> QED
      BY <1>1, <1>3, <2>2, <3>1 DEF TrxnInv
  <2>3. CASE call.for = "cleanup"
    <3>1. \/ trxn' = "ended" /\ call.ran /\ call.res \in {"value", "null"}
          \/ trxn' \in {"void", "leaked"}
      BY <1>6, <2>3 DEF Pq!TrxnExeced, Pq!Succeeded
    <3> QED
      BY <1>1, <1>3, <2>3, <3>1 DEF TrxnInv, LinkInv
  <2> QED
    BY <1>1, <1>6, <2>1, <2>2, <2>3 DEF Pq!TrxnExeced, PqCalls
<1> QED
  BY <1>2, <1>4, <1>5, <1>6

\* The calls that send a command, one of transaction_t among them
LEMMA PqCommand ==
    ASSUME PqInv, Pq!User,
           \/ \E w \in {"none", "all"} : Pq!ExecMulti(w) \/ Pq!ExecAll(w)
           \/ \E w \in {"none", "row"} : Pq!ExecRows(w)
           \/ Pq!Prepare \/ Pq!Notify \/ \E cm \in Pq!Copies : Pq!StartCopy(cm)
           \/ Pq!TrxnExec("begin", "begin")
           \/ \E cm \in {"commit", "rollback"} : Pq!TrxnExec(cm, "end")
           \/ Pq!TrxnExec("rollback", "cleanup")
    PROVE  PqInv'
<1> USE DEF Pq!User
<1>1. CASE \/ \E w \in {"none", "all"} : Pq!ExecMulti(w) \/ Pq!ExecAll(w)
           \/ \E w \in {"none", "row"} : Pq!ExecRows(w)
           \/ Pq!Prepare \/ Pq!Notify \/ \E cm \in Pq!Copies : Pq!StartCopy(cm)
  <2>1. PICK cm \in {"query", "rows", "multi", "copy_in", "copy_out"}, w \in {"none", "all", "row"} :
            Pq!Send(cm, "user", w, TRUE) /\ (cm \in Pq!Copies => pipe = "off")
    BY <1>1, Zenon DEF Pq!ExecMulti, Pq!ExecAll, Pq!ExecRows, Pq!Prepare, Pq!Notify, Pq!StartCopy, Pq!Copies
  <2> QED
    BY <2>1, PqSend
<1>2. CASE Pq!TrxnExec("begin", "begin")
  <2>1. Pq!Send("begin", "begin", "all", TRUE) /\ trxn \in {"none", "ended", "void"} /\ "begin" \notin Pq!Copies
    BY <1>2 DEF Pq!TrxnExec, Pq!Copies
  <2> QED
    BY <2>1, PqSend
<1>3. CASE \E cm \in {"commit", "rollback"} : Pq!TrxnExec(cm, "end")
  <2>1. PICK cm \in {"commit", "rollback"} : Pq!TrxnExec(cm, "end")
    BY <1>3
  <2>2. Pq!Send(cm, "end", "all", TRUE) /\ trxn = "open" /\ cm \notin Pq!Copies
    BY <2>1 DEF Pq!TrxnExec, Pq!Copies
  <2> QED
    BY <2>2, PqSend
<1>4. CASE Pq!TrxnExec("rollback", "cleanup")
  <2>1. Pq!Send("rollback", "cleanup", "all", TRUE) /\ trxn = "open" /\ "rollback" \notin Pq!Copies
    BY <1>4 DEF Pq!TrxnExec, Pq!Copies
  <2> QED
    BY <2>1, PqSend
<1> QED
  BY <1>1, <1>2, <1>3, <1>4

\* The steps of a connection keep its invariant.
LEMMA PqStep == PqInv /\ [Pq!Next]_Pq!vars => PqInv'
<1> SUFFICES ASSUME PqInv, [Pq!Next]_Pq!vars PROVE PqInv'
  OBVIOUS
<1>1. CASE \/ Pq!User /\ \E again \in BOOLEAN : Pq!ConnectStart(again)
           \/ Pq!Poll \/ Pq!ConnectStopped
           \/ Pq!User /\ Pq!Close
  BY <1>1, PqConnect
<1>2. CASE Pq!User /\ \/ \E w \in {"none", "all"} : Pq!ExecMulti(w) \/ Pq!ExecAll(w)
                      \/ \E w \in {"none", "row"} : Pq!ExecRows(w)
                      \/ Pq!Prepare \/ Pq!Notify \/ \E cm \in Pq!Copies : Pq!StartCopy(cm)
                      \/ Pq!TrxnExec("begin", "begin")
                      \/ \E cm \in {"commit", "rollback"} : Pq!TrxnExec(cm, "end")
                      \/ Pq!TrxnExec("rollback", "cleanup")
  BY <1>2, PqCommand
<1>3. CASE Pq!User /\ \/ \E w \in {"all", "row"}, last1 \in BOOLEAN : Pq!Fetch(w, last1)
                      \/ Pq!SendCopy \/ Pq!SendCopyEnd \/ Pq!GetCopyRow \/ Pq!GetNotify
                      \/ \E mode \in {"on", "off"} : Pq!SetPipeline(mode)
                      \/ Pq!FlushRequest
  BY <1>3, PqOther
<1>4. CASE Pq!User /\ ((\E cm \in {"query", "rows"} : Pq!AddExec(cm)) \/ Pq!PipelineSync)
  BY <1>4, PqPipeline
<1>5. CASE Pq!Flushed \/ Pq!Canceled \/ Pq!WaitFails
  BY <1>5, PqWaited
<1>6. CASE Pq!GetResult
  BY <1>6, PqGetResult
<1>7. CASE Pq!ConnectionLost
  BY <1>7, PqLost
<1>8. CASE Pq!TrxnExeced \/ Pq!ScopeEnds
  BY <1>8, PqTrxn
<1>9. CASE UNCHANGED Pq!vars
  BY <1>9 DEF Pq!vars, PqInv, QueueInv, CallInv, TrxnInv, LinkInv
<1> QED
  BY <1>1, <1>2, <1>3, <1>4, <1>5, <1>6, <1>7, <1>8, <1>9 DEF Pq!Next

-----------------------------------------------------------------------------
(* Transactions and savepoints of SQLite. *)

FrameSet == [name : Nat, rows : SUBSET Nat]
GuardSet == [kind : {"txn", "sp", "rolled_back"}, done : BOOLEAN, alive : BOOLEAN]

LiteTypes ==
    /\ frames \in Seq(FrameSet) /\ disk \in SUBSET Nat /\ guards \in Seq(GuardSet)
    /\ scopes \in Seq(Seq(Nat)) /\ rows \in Seq(SUBSET Nat)
    /\ leaving \in BOOLEAN /\ asserted \in BOOLEAN

\* Guards whose scope is open and whose rows are not committed yet, and those whose rows are lost
AllGuards == 1 .. Len(guards)
Undone == {g \in AllGuards : guards[g].alive /\ ~guards[g].done}
Lost(g) == guards[g].kind = "rolled_back" \/ (~guards[g].alive /\ ~guards[g].done)

\* Each scope but the innermost has its guard; inner guards are younger.
GuardsInv ==
    /\ \A g \in AllGuards : guards[g].kind = "rolled_back" => guards[g].done
    /\ \A k \in 1 .. Len(scopes) :
          \/ k = Len(scopes) /\ scopes[k] = <<>>
          \/ Len(scopes[k]) = 1 /\ scopes[k][1] \in AllGuards /\ guards[scopes[k][1]].alive
    /\ \A g \in AllGuards : guards[g].alive => \E k \in 1 .. Len(scopes) : scopes[k] # <<>> /\ scopes[k][1] = g
    /\ \A k, m \in 1 .. Len(scopes) : k < m /\ scopes[m] # <<>> => scopes[k][1] < scopes[m][1]

\* The engine has the frame of the one transaction, and those of its savepoints, dead ones among them,
\* unless it rolled back by itself.
FramesInv ==
    /\ frames # <<>> => frames[1].name = 0
    /\ \A k, m \in 1 .. Len(frames) : k < m => frames[k].name < frames[m].name
    /\ \A k \in 1 .. Len(frames) : frames[k].name <= Len(guards)
    /\ frames # <<>> => \E t \in Undone : /\ guards[t].kind = "txn"
                                          /\ \A g \in Undone : \/ g = t
                                                               \/ /\ g > t /\ guards[g].kind = "sp"
                                                                  /\ \E k \in 2 .. Len(frames) : frames[k].name = g
    /\ frames = <<>> /\ Undone # {} => leaving

\* A row in the engine was written under the guards that are committed by now or still open, in the
\* frame of the youngest of them or above; a row that is nowhere was written under a guard whose rows are
\* lost.
RowsInv ==
    /\ \A k \in 1 .. Len(frames) : \A x \in frames[k].rows : /\ x \in 1 .. Len(rows)
          /\ \A g \in AllGuards : /\ g \in rows[x] => Lite!Committed(g) \/ g \in Undone
                                  /\ g \in Undone => (g \in rows[x] <=> \/ guards[g].kind = "txn"
                                                                        \/ \E j \in 2 .. k : frames[j].name = g)
    /\ \A x \in 1 .. Len(rows) : \/ x \in disk
                                 \/ \E k \in 1 .. Len(frames) : x \in frames[k].rows
                                 \/ \E g \in rows[x] : Lost(g)
                                 \/ frames = <<>> /\ Undone # {}
    /\ disk \subseteq 1 .. Len(rows)
    /\ \A x \in 1 .. Len(rows) : rows[x] \subseteq AllGuards

LiteInv == LiteTypes /\ Lite!UndoneRowsGone /\ (~asserted => GuardsInv /\ FramesInv /\ RowsInv)

\* At first there are neither guards nor rows.
LEMMA LiteInit == Lite!Init => LiteInv
<1> SUFFICES ASSUME Lite!Init PROVE LiteInv
  OBVIOUS
<1> USE DEF Lite!Init
<1>1. LiteTypes
  <2>1. \A T : <<>> \in Seq(T)
    OBVIOUS
  <2>2. /\ frames \in Seq(FrameSet) /\ guards \in Seq(GuardSet)
        /\ scopes \in Seq(Seq(Nat)) /\ rows \in Seq(SUBSET Nat)
    <3> HIDE DEF Lite!Init
    <3>1. frames = <<>> /\ guards = <<>> /\ scopes = <<>> /\ rows = <<>>
      BY DEF Lite!Init
    <3> QED
      BY <2>1, <3>1
  <2> QED
    BY <2>2 DEF LiteTypes
<1>2. Lite!UndoneRowsGone
  BY DEF Lite!UndoneRowsGone
<1>3. GuardsInv /\ FramesInv /\ RowsInv
  BY DEF GuardsInv, FramesInv, RowsInv, Undone, AllGuards
<1> QED
  BY <1>1, <1>2, <1>3 DEF LiteInv

\* Without open guards no frame is left, and rows are on disk when their guards committed.
LEMMA LiteSafe == LiteInv => Lite!DiskIsCommitted
<1> SUFFICES ASSUME LiteInv, ~asserted, Lite!Open = {}
             PROVE  /\ frames = <<>>
                    /\ \A x \in DOMAIN rows : (\A g \in rows[x] : Lite!Committed(g)) => x \in disk
  BY DEF Lite!DiskIsCommitted, LiteInv
<1> USE DEF LiteInv
<1>1. DOMAIN guards = AllGuards /\ DOMAIN rows = 1 .. Len(rows)
  BY DEF LiteTypes, AllGuards
<1>2. \A g \in AllGuards : ~guards[g].alive
  BY <1>1 DEF Lite!Open
<1>3. Undone = {}
  BY <1>2 DEF Undone
<1>4. frames = <<>>
  BY <1>3 DEF FramesInv
<1>5. ASSUME NEW x \in 1 .. Len(rows), \A g \in rows[x] : Lite!Committed(g) PROVE x \in disk
  <2>1. \A g \in rows[x] : ~Lost(g)
    BY <1>5 DEF Lost, Lite!Committed
  <2>2. Len(frames) = 0
    BY <1>4
  <2> QED
    BY <1>3, <2>1, <2>2 DEF RowsInv
<1> QED
  BY <1>1, <1>4, <1>5

\* The greatest of a bounded set of numbers
LEMMA GreatestOf ==
    ASSUME NEW S \in SUBSET Nat, S # {}, NEW b \in Nat, \A x \in S : x <= b
    PROVE  Lite!Max(S) \in S /\ \A x \in S : x <= Lite!Max(S)
<1> DEFINE D == {y \in 0 .. b : b - y \in S}
           LessThan == {ss \in Nat \X Nat : ss[1] < ss[2]}
<1>1. D \in SUBSET Nat /\ D # {}
  <2>1. PICK x \in S : TRUE
    OBVIOUS
  <2>2. b - x \in 0 .. b /\ b - (b - x) = x
    OBVIOUS
  <2>3. b - x \in D
    BY <2>2
  <2>4. D \in SUBSET Nat
    OBVIOUS
  <2> HIDE DEF D
  <2> QED
    BY <2>3, <2>4
<1>2. IsWellFoundedOn(LessThan, Nat)
  BY NatLessThanWellFounded DEF OpToRel
<1>3. PICK e \in D : \A y \in D : ~(<<y, e>> \in LessThan)
  <2> HIDE DEF LessThan, D
  <2> QED
    BY <1>1, <1>2, WFMin
<1>4. b - e \in S /\ \A x \in S : x <= b - e
  <2>1. e \in 0 .. b /\ b - e \in S
    OBVIOUS
  <2>2. ASSUME NEW x \in S PROVE x <= b - e
    <3>1. b - x \in D /\ b - x \in Nat
      <4>1. b - x \in 0 .. b /\ b - (b - x) = x
        OBVIOUS
      <4> QED
        BY <4>1
    <3>2. ~(b - x < e)
      <4>1. ~(<<b - x, e>> \in LessThan)
        <5> HIDE DEF D, LessThan
        <5> QED
          BY <1>3, <3>1
      <4>2. e \in Nat
        BY <2>1
      <4> QED
        BY <3>1, <4>1, <4>2
    <3> QED
      BY <2>1, <3>2
  <2> QED
    BY <2>1, <2>2
<1>5. Lite!Max(S) = b - e
  <2>1. \A x \in S : (\A y \in S : x >= y) => x = b - e
    BY <1>4
  <2>2. \A y \in S : b - e >= y
    BY <1>4
  <2> QED
    BY <1>4, <2>1, <2>2 DEF Lite!Max
<1> QED
  BY <1>4, <1>5

\* The frame of a savepoint is found by its name.
LEMMA MatchIs ==
    ASSUME LiteTypes, FramesInv, NEW g \in Nat
    PROVE  /\ \A k \in 1 .. Len(frames) : frames[k].name = g => Lite!Match(g) = k
           /\ (\A k \in 1 .. Len(frames) : frames[k].name # g) => Lite!Match(g) = 0
<1> DEFINE S == {k \in DOMAIN frames : frames[k].name = g} \cup {0}
<1>1. DOMAIN frames = 1 .. Len(frames) /\ Len(frames) \in Nat
  BY DEF LiteTypes
<1>2. S \in SUBSET Nat /\ S # {} /\ \A x \in S : x <= Len(frames)
  BY <1>1
<1>3. Lite!Max(S) \in S /\ \A x \in S : x <= Lite!Max(S)
  <2> HIDE DEF S
  <2> QED
    BY <1>1, <1>2, GreatestOf
<1>4. Lite!Match(g) = Lite!Max(S)
  BY DEF Lite!Match
<1> DEFINE mx == Lite!Max(S)
<1> HIDE DEF mx
<1>5. mx \in S /\ \A x \in S : x <= mx
  BY <1>3 DEF mx
<1>6. ASSUME NEW k \in 1 .. Len(frames), frames[k].name = g PROVE mx = k
  <2>1. k \in S /\ k <= mx
    BY <1>1, <1>5, <1>6
  <2>2. mx \in 1 .. Len(frames) /\ frames[mx].name = g
    BY <1>1, <1>5, <2>1
  <2>3. ~(k < mx)
    <3>1. frames[k].name \in Nat
      BY <1>6
    <3> QED
      BY <1>6, <2>2, <3>1 DEF FramesInv
  <2> QED
    BY <2>1, <2>2, <2>3
<1>7. ASSUME \A k \in 1 .. Len(frames) : frames[k].name # g PROVE mx = 0
  BY <1>1, <1>5, <1>7
<1> QED
  BY <1>4, <1>6, <1>7 DEF mx

\* Types, as the proofs below use them
LEMMA LiteFacts ==
    ASSUME LiteTypes
    PROVE  /\ Len(frames) \in Nat /\ Len(guards) \in Nat /\ Len(scopes) \in Nat /\ Len(rows) \in Nat
           /\ DOMAIN frames = 1 .. Len(frames) /\ DOMAIN guards = AllGuards
           /\ DOMAIN scopes = 1 .. Len(scopes) /\ DOMAIN rows = 1 .. Len(rows)
           /\ \A k \in 1 .. Len(frames) : frames[k] \in FrameSet
           /\ \A g \in AllGuards : guards[g] \in GuardSet
           /\ \A k \in 1 .. Len(scopes) : scopes[k] \in Seq(Nat)
           /\ \A x \in 1 .. Len(rows) : rows[x] \in SUBSET Nat
  BY DEF LiteTypes, AllGuards

\* One guard changes.
LEMMA GuardChanged ==
    ASSUME LiteTypes, NEW g \in AllGuards, NEW v \in GuardSet, guards' = [guards EXCEPT ![g] = v]
    PROVE  /\ guards' \in Seq(GuardSet) /\ Len(guards') = Len(guards) /\ guards'[g] = v
           /\ \A h \in AllGuards \ {g} : guards'[h] = guards[h]
           /\ AllGuards' = AllGuards
<1>1. guards \in Seq(GuardSet) /\ g \in 1 .. Len(guards) /\ Len(guards) \in Nat
  BY DEF LiteTypes, AllGuards
<1>2. guards' \in Seq(GuardSet) /\ Len(guards') = Len(guards)
  BY <1>1, ExceptSeq
<1> QED
  BY <1>1, <1>2 DEF AllGuards

\* Guards that go on as before keep their scopes.
LEMMA GuardsKept ==
    ASSUME GuardsInv, UNCHANGED scopes, AllGuards' = AllGuards,
           \A h \in AllGuards : /\ guards'[h].alive = guards[h].alive
                                /\ guards'[h].kind = "rolled_back" => guards'[h].done
    PROVE  GuardsInv'
  BY DEF GuardsInv

\* The last guard that is alive is the innermost.
LEMMA Innermost ==
    ASSUME LiteTypes, NEW g \in Lite!Open, g = Lite!Max(Lite!Open)
    PROVE  g \in AllGuards /\ guards[g].alive /\ \A h \in AllGuards : guards[h].alive => h <= g
<1>1. Lite!Open = {h \in AllGuards : guards[h].alive} /\ Len(guards) \in Nat
  BY LiteFacts DEF Lite!Open
<1>2. Lite!Open \in SUBSET Nat /\ Lite!Open # {} /\ \A x \in Lite!Open : x <= Len(guards)
  BY <1>1 DEF AllGuards
<1>3. \A x \in Lite!Open : x <= Lite!Max(Lite!Open)
  BY <1>1, <1>2, GreatestOf
<1> QED
  BY <1>1, <1>3

\* A transaction that is the innermost guard is the only one whose rows are not committed yet.
LEMMA OnlyUndone ==
    ASSUME LiteInv, ~asserted, frames # <<>>, NEW g \in Undone, guards[g].kind = "txn",
           \A h \in AllGuards : guards[h].alive => h <= g
    PROVE  /\ Undone = {g} /\ g \in AllGuards
           /\ \A k \in 1 .. Len(frames) : \A x \in frames[k].rows :
                 x \in 1 .. Len(rows) /\ g \in rows[x] /\ \A h \in rows[x] : h = g \/ Lite!Committed(h)
<1> USE DEF LiteInv
<1>1. PICK t \in Undone : /\ guards[t].kind = "txn"
                          /\ \A h \in Undone : h = t \/ (h > t /\ guards[h].kind = "sp")
  BY DEF FramesInv
<1>2. g = t
  BY <1>1
<1>3. \A h \in Undone : h <= g /\ h \in Nat /\ g \in Nat
  BY DEF Undone, AllGuards
<1>4. Undone = {g}
  BY <1>1, <1>2, <1>3
<1>5. ASSUME NEW k \in 1 .. Len(frames), NEW x \in frames[k].rows
      PROVE  x \in 1 .. Len(rows) /\ g \in rows[x] /\ \A h \in rows[x] : h = g \/ Lite!Committed(h)
  <2>1. g \in AllGuards
    BY DEF Undone
  <2>2. x \in 1 .. Len(rows) /\ g \in rows[x]
    BY <1>5, <2>1 DEF RowsInv
  <2>3. rows[x] \subseteq AllGuards
    BY <2>2 DEF RowsInv
  <2> QED
    BY <1>4, <1>5, <2>2, <2>3 DEF RowsInv
<1> QED
  BY <1>4, <1>5 DEF Undone

\* The transaction ends: its rows are on disk, or are lost with it.
LEMMA LiteEnds ==
    ASSUME LiteInv, ~asserted, frames # <<>>, NEW g \in Undone, guards[g].kind = "txn",
           \A h \in AllGuards : guards[h].alive => h <= g,
           frames' = <<>>, UNCHANGED rows, NEW v \in GuardSet, guards' = [guards EXCEPT ![g] = v],
           v.done \/ ~v.alive,
           \/ disk' = disk \cup Lite!AllRows(frames) /\ v.done /\ v.kind = "txn"
           \/ disk' = disk /\ (v.kind = "rolled_back" \/ (~v.alive /\ ~v.done))
    PROVE  /\ disk' \in SUBSET Nat /\ frames' \in Seq(FrameSet) /\ guards' \in Seq(GuardSet)
           /\ Lite!UndoneRowsGone' /\ FramesInv' /\ RowsInv'
<1> USE DEF LiteInv
<1>1. /\ Undone = {g} /\ g \in AllGuards /\ guards[g].alive /\ ~guards[g].done
      /\ \A k \in 1 .. Len(frames) : \A x \in frames[k].rows :
            x \in 1 .. Len(rows) /\ g \in rows[x] /\ \A h \in rows[x] : h = g \/ Lite!Committed(h)
  BY OnlyUndone DEF Undone
<1>2. /\ guards' \in Seq(GuardSet) /\ Len(guards') = Len(guards) /\ guards'[g] = v
      /\ \A h \in AllGuards \ {g} : guards'[h] = guards[h]
      /\ AllGuards' = AllGuards
  BY <1>1, GuardChanged
<1>3. Undone' = {}
  BY <1>1, <1>2 DEF Undone
<1>4. frames' \in Seq(FrameSet) /\ Len(frames') = 0
  <2>1. <<>> \in Seq(FrameSet) /\ Len(<<>>) = 0
    OBVIOUS
  <2> QED
    BY <2>1
<1>5. FramesInv'
  BY <1>3, <1>4 DEF FramesInv
<1>6. Lite!AllRows(frames) = UNION {frames[k].rows : k \in 1 .. Len(frames)}
  BY LiteFacts DEF Lite!AllRows
<1>7. \A x \in Lite!AllRows(frames) : x \in 1 .. Len(rows) /\ \A h \in rows[x] : h = g \/ Lite!Committed(h)
  BY <1>1, <1>6
<1>8. \A h \in AllGuards \ {g} : (Lite!Committed(h) => Lite!Committed(h)') /\ (Lost(h) => Lost(h)')
  BY <1>2 DEF Lite!Committed, Lost
<1>9. ~Lite!Committed(g) /\ ~Lost(g)
  BY <1>1 DEF Lite!Committed, Lost
<1>10. Lite!UndoneRowsGone'
  <2> SUFFICES ASSUME NEW x \in disk', NEW h \in rows[x] PROVE Lite!Committed(h)'
    BY DEF Lite!UndoneRowsGone
  <2>1. x \in 1 .. Len(rows)
    BY <1>7 DEF RowsInv
  <2>2. h \in AllGuards
    BY <2>1 DEF RowsInv
  <2>3. CASE x \in disk
    <3>1. Lite!Committed(h)
      BY <2>3 DEF Lite!UndoneRowsGone
    <3> QED
      BY <1>8, <1>9, <2>2, <3>1
  <2>4. CASE x \notin disk
    <3>1. v.done /\ v.kind = "txn" /\ x \in Lite!AllRows(frames)
      BY <2>4
    <3>2. Lite!Committed(g)'
      BY <1>2, <3>1 DEF Lite!Committed
    <3> QED
      BY <1>7, <1>8, <2>2, <3>1, <3>2
  <2> QED
    BY <2>3, <2>4
<1>11. RowsInv'
  <2>1. ASSUME NEW x \in 1 .. Len(rows) PROVE x \in disk' \/ \E h \in rows[x] : Lost(h)'
    <3>1. CASE x \in disk
      BY <3>1
    <3>2. CASE \E k \in 1 .. Len(frames) : x \in frames[k].rows
      <4>1. x \in Lite!AllRows(frames)
        BY <1>6, <3>2
      <4>2. CASE disk' = disk /\ (v.kind = "rolled_back" \/ (~v.alive /\ ~v.done))
        <5>1. g \in rows[x] /\ Lost(g)'
          BY <1>1, <1>2, <3>2, <4>2 DEF Lost
        <5> QED
          BY <5>1
      <4> QED
        BY <4>1, <4>2
    <3>3. CASE \E h \in rows[x] : Lost(h)
      <4>1. rows[x] \subseteq AllGuards
        BY DEF RowsInv
      <4> QED
        BY <1>8, <1>9, <3>3, <4>1
    <3> QED
      BY <3>1, <3>2, <3>3 DEF RowsInv
  <2>2. disk' \subseteq 1 .. Len(rows)
    BY <1>7 DEF RowsInv
  <2> QED
    BY <1>2, <1>4, <2>1, <2>2 DEF RowsInv
<1>12. disk' \in SUBSET Nat
  <2>1. disk' \subseteq 1 .. Len(rows)
    BY <1>11 DEF RowsInv
  <2> QED
    BY <2>1, LiteFacts
<1> QED
  BY <1>2, <1>4, <1>5, <1>10, <1>11, <1>12

\* Nothing that matters to rows changes.
LEMMA LiteSame ==
    ASSUME LiteInv, ~asserted, UNCHANGED <<frames, disk, rows>>, AllGuards' = AllGuards, Len(guards') = Len(guards),
           \A h \in AllGuards : /\ Lite!Committed(h)' = Lite!Committed(h) /\ Lost(h)' = Lost(h)
                                /\ (h \in Undone') = (h \in Undone) /\ guards'[h].kind = guards[h].kind,
           leaving' \/ leaving' = leaving \/ Undone = {}
    PROVE  Lite!UndoneRowsGone' /\ FramesInv' /\ RowsInv'
<1> USE DEF LiteInv
<1>1. Undone' = Undone
  BY DEF Undone
<1>2. \A x \in 1 .. Len(rows) : rows[x] \subseteq AllGuards
  BY DEF RowsInv
<1>3. Lite!UndoneRowsGone'
  BY <1>2 DEF Lite!UndoneRowsGone, RowsInv
<1>4. FramesInv'
  <2>1. \A h \in Undone : h \in AllGuards
    BY DEF Undone
  <2> QED
    BY <1>1, <2>1 DEF FramesInv
<1>5. RowsInv'
  <2>1. ASSUME NEW k \in 1 .. Len(frames), NEW x \in frames[k].rows
        PROVE  /\ x \in 1 .. Len(rows)
               /\ \A g \in AllGuards : /\ g \in rows[x] => Lite!Committed(g)' \/ g \in Undone
                                       /\ g \in Undone => (g \in rows[x] <=> \/ guards'[g].kind = "txn"
                                                                             \/ \E j \in 2 .. k : frames[j].name = g)
    BY <2>1 DEF RowsInv
  <2>2. ASSUME NEW x \in 1 .. Len(rows)
        PROVE  \/ x \in disk
               \/ \E k \in 1 .. Len(frames) : x \in frames[k].rows
               \/ \E g \in rows[x] : Lost(g)'
               \/ frames = <<>> /\ Undone # {}
    BY <1>2, <2>2 DEF RowsInv
  <2> QED
    BY <1>1, <1>2, <2>1, <2>2 DEF RowsInv
<1> QED
  BY <1>3, <1>4, <1>5

\* Frames u are fs with rows R in the frame at k.
RowsSet(u, fs, k, R) == u = [fs EXCEPT ![k].rows = R]
WithRows(u, fs, k, R) == fs \in Seq(FrameSet) /\ k \in 1 .. Len(fs) /\ R \in SUBSET Nat /\ RowsSet(u, fs, k, R)
HasRows(u, fs, k, R) ==
    /\ u \in Seq(FrameSet) /\ Len(u) = Len(fs) /\ u[k].rows = R
    /\ \A m \in 1 .. Len(fs) : u[m].name = fs[m].name /\ (m # k => u[m].rows = fs[m].rows)

\* They are frames of the same names, and the others have the rows they had.
LEMMA FrameChanged == \A u, fs, k, R : WithRows(u, fs, k, R) => HasRows(u, fs, k, R)
<1> SUFFICES ASSUME NEW u, NEW fs, NEW k, NEW R, WithRows(u, fs, k, R) PROVE HasRows(u, fs, k, R)
  OBVIOUS
<1>0. fs \in Seq(FrameSet) /\ k \in 1 .. Len(fs) /\ R \in SUBSET Nat /\ u = [fs EXCEPT ![k].rows = R]
  BY DEF WithRows, RowsSet
<1> DEFINE f == [fs[k] EXCEPT !.rows = R]
<1>1. fs[k] \in FrameSet /\ Len(fs) \in Nat
  BY <1>0
<1>2. f \in FrameSet /\ f.name = fs[k].name /\ f.rows = R
  BY <1>0, <1>1 DEF FrameSet
<1>3. u = [fs EXCEPT ![k] = f]
  BY <1>0
<1> HIDE DEF f
<1>4. u \in Seq(FrameSet) /\ Len(u) = Len(fs)
  BY <1>0, <1>2, <1>3, ExceptSeq
<1>5. u[k].rows = R /\ \A m \in 1 .. Len(fs) : u[m].name = fs[m].name /\ (m # k => u[m].rows = fs[m].rows)
  BY <1>0, <1>1, <1>2, <1>3
<1> QED
  BY <1>4, <1>5 DEF HasRows

\* The frames up to one of them
LEMMA CutAt ==
    ASSUME LiteTypes, NEW k \in 1 .. Len(frames)
    PROVE  /\ SubSeq(frames, 1, k) \in Seq(FrameSet) /\ Len(SubSeq(frames, 1, k)) = k
           /\ \A m \in 1 .. k : SubSeq(frames, 1, k)[m] = frames[m]
<1> DEFINE u == SubSeq(frames, 1, k)
<1>1. Len(frames) \in Nat /\ \A m \in 1 .. k : frames[m] \in FrameSet
  BY LiteFacts
<1>2. /\ u \in Seq(FrameSet) /\ Len(u) = IF 1 <= k THEN k - 1 + 1 ELSE 0
      /\ \A m \in 1 .. k - 1 + 1 : u[m] = frames[1 + m - 1]
  BY <1>1, SubSeqProperties DEF LiteTypes
<1> HIDE DEF u
<1>3. \A m \in 1 .. k : m \in 1 .. k - 1 + 1 /\ 1 + m - 1 = m
  OBVIOUS
<1>4. \A m \in 1 .. k : u[m] = frames[m]
  BY <1>2, <1>3
<1> QED
  BY <1>2, <1>4 DEF u

\* The frames of the guards that are still open are below that of the innermost, g.
LEMMA FramesBelow ==
    ASSUME LiteInv, ~asserted, NEW g \in Undone, guards[g].kind = "sp",
           NEW k \in 2 .. Len(frames), frames[k].name = g,
           \A h \in AllGuards : guards[h].alive => h <= g
    PROVE  /\ \A j \in 2 .. Len(frames) : frames[j].name = g => j = k
           /\ \A h \in Undone \ {g} : \A j \in 2 .. Len(frames) : frames[j].name = h => j < k
           /\ \E t \in Undone \ {g} :
                 /\ guards[t].kind = "txn"
                 /\ \A h \in Undone \ {g} : \/ h = t
                                            \/ /\ h > t /\ guards[h].kind = "sp"
                                               /\ \E j \in 2 .. k - 1 : frames[j].name = h
<1> USE DEF LiteInv
<1>1. \A m \in 1 .. Len(frames) : frames[m].name \in Nat
  BY LiteFacts DEF FrameSet
<1>2. Len(frames) \in Nat /\ frames # <<>> /\ \A h \in Undone : h \in AllGuards /\ h \in Nat /\ h <= g
  BY LiteFacts DEF Undone, AllGuards
<1>3. ASSUME NEW h \in Undone, NEW j \in 2 .. Len(frames), frames[j].name = h PROVE j <= k /\ (h # g => j < k)
  <2>1. ~(k < j)
    <3>1. k \in 1 .. Len(frames) /\ j \in 1 .. Len(frames)
      OBVIOUS
    <3>2. k < j => g < h
      BY <1>3, <3>1 DEF FramesInv
    <3> QED
      BY <1>2, <3>2
  <2>2. j = k => h = g
    BY <1>3
  <2> QED
    BY <1>2, <2>1, <2>2
<1>4. ASSUME NEW j \in 2 .. Len(frames), frames[j].name = g PROVE j = k
  <2>1. ~(j < k)
    <3>1. k \in 1 .. Len(frames) /\ j \in 1 .. Len(frames) /\ g \in Nat
      BY <1>2
    <3>2. j < k => g < g
      BY <1>4, <3>1 DEF FramesInv
    <3> QED
      BY <3>1, <3>2
  <2> QED
    BY <1>2, <1>3, <1>4, <2>1
<1>5. PICK t \in Undone : /\ guards[t].kind = "txn"
                          /\ \A h \in Undone : \/ h = t
                                               \/ /\ h > t /\ guards[h].kind = "sp"
                                                  /\ \E j \in 2 .. Len(frames) : frames[j].name = h
  BY <1>2 DEF FramesInv
<1>6. t # g
  BY <1>5
<1>7. ASSUME NEW h \in Undone \ {g}, h # t PROVE \E j \in 2 .. k - 1 : frames[j].name = h
  <2>1. PICK j \in 2 .. Len(frames) : frames[j].name = h
    BY <1>5, <1>7
  <2>2. j < k
    BY <1>3, <2>1
  <2> QED
    BY <2>1, <2>2
<1> QED
  BY <1>3, <1>4, <1>5, <1>6, <1>7

\* A savepoint ends: what was written since is part of the frame below, or is lost.
LEMMA SavepointEnds ==
    ASSUME LiteInv, ~asserted, NEW g \in Undone, guards[g].kind = "sp",
           NEW k \in 2 .. Len(frames), frames[k].name = g,
           \A h \in AllGuards : guards[h].alive => h <= g,
           UNCHANGED <<disk, rows>>, NEW v \in GuardSet, guards' = [guards EXCEPT ![g] = v], v.kind = "sp",
           frames' \in Seq(FrameSet),
           \/ /\ v.done /\ Len(frames') = k - 1
              /\ \A m \in 1 .. k - 1 : /\ frames'[m].name = frames[m].name
                                       /\ m < k - 1 => frames'[m].rows = frames[m].rows
              /\ frames'[k - 1].rows = frames[k - 1].rows \cup UNION {frames[m].rows : m \in k .. Len(frames)}
           \/ /\ ~v.done /\ ~v.alive /\ Len(frames') = k
              /\ \A m \in 1 .. k : frames'[m].name = frames[m].name /\ (m < k => frames'[m].rows = frames[m].rows)
              /\ frames'[k].rows = {}
    PROVE  Lite!UndoneRowsGone' /\ FramesInv' /\ RowsInv'
<1> USE DEF LiteInv
<1>1. g \in AllGuards /\ guards[g].alive /\ ~guards[g].done /\ k \in 1 .. Len(frames) /\ Len(frames) \in Nat
  BY LiteFacts DEF Undone
<1>2. /\ guards' \in Seq(GuardSet) /\ Len(guards') = Len(guards) /\ guards'[g] = v
      /\ \A h \in AllGuards \ {g} : guards'[h] = guards[h]
      /\ AllGuards' = AllGuards
  BY <1>1, GuardChanged
<1>3. Undone' = Undone \ {g}
  BY <1>1, <1>2 DEF Undone
<1>4. /\ \A j \in 2 .. Len(frames) : frames[j].name = g => j = k
      /\ \A h \in Undone \ {g} : \A j \in 2 .. Len(frames) : frames[j].name = h => j < k
      /\ \E t \in Undone \ {g} :
            /\ guards[t].kind = "txn"
            /\ \A h \in Undone \ {g} : \/ h = t
                                       \/ /\ h > t /\ guards[h].kind = "sp"
                                          /\ \E j \in 2 .. k - 1 : frames[j].name = h
  BY FramesBelow
<1>5. \A h \in AllGuards \ {g} : (Lite!Committed(h) => Lite!Committed(h)') /\ (Lost(h) => Lost(h)')
  BY <1>2 DEF Lite!Committed, Lost
<1>6. ~Lite!Committed(g) /\ ~Lost(g)
  BY <1>1 DEF Lite!Committed, Lost
<1>7. \A x \in 1 .. Len(rows) : rows[x] \subseteq AllGuards
  BY DEF RowsInv
<1>8. Lite!UndoneRowsGone'
  <2> SUFFICES ASSUME NEW x \in disk, NEW h \in rows[x] PROVE Lite!Committed(h)'
    BY DEF Lite!UndoneRowsGone
  <2>1. Lite!Committed(h) /\ h \in AllGuards
    BY <1>7 DEF Lite!UndoneRowsGone, RowsInv
  <2> QED
    BY <1>5, <1>6, <2>1
<1>9. /\ Len(frames') \in {k - 1, k} /\ \A m \in 1 .. Len(frames') : m \in 1 .. Len(frames) /\ frames'[m].name = frames[m].name
      /\ k - 1 \in 1 .. Len(frames')
  BY <1>1
<1>10. FramesInv'
  <2>1. frames # <<>> /\ frames' # <<>> /\ frames'[1].name = 0
    <3>1. 1 \in 1 .. Len(frames') /\ frames # <<>>
      BY <1>1, <1>9
    <3>2. frames' # <<>>
      BY <3>1
    <3> QED
      BY <1>9, <3>1, <3>2 DEF FramesInv
  <2>2. \A a, b \in 1 .. Len(frames') : a < b => frames'[a].name < frames'[b].name
    BY <1>9 DEF FramesInv
  <2>3. \A a \in 1 .. Len(frames') : frames'[a].name <= Len(guards)
    BY <1>9 DEF FramesInv
  <2>4. \E t \in Undone' : /\ guards'[t].kind = "txn"
                           /\ \A h \in Undone' : \/ h = t
                                                 \/ /\ h > t /\ guards'[h].kind = "sp"
                                                    /\ \E j \in 2 .. Len(frames') : frames'[j].name = h
    <3>1. PICK t \in Undone \ {g} :
            /\ guards[t].kind = "txn"
            /\ \A h \in Undone \ {g} : \/ h = t
                                       \/ /\ h > t /\ guards[h].kind = "sp"
                                          /\ \E j \in 2 .. k - 1 : frames[j].name = h
      BY <1>4
    <3>2. \A j \in 2 .. k - 1 : j \in 2 .. Len(frames') /\ frames'[j].name = frames[j].name
      BY <1>1, <1>9
    <3>3. \A h \in Undone \ {g} : h \in AllGuards \ {g}
      BY DEF Undone
    <3>4. t \in Undone' /\ guards'[t].kind = "txn"
      BY <1>2, <1>3, <3>1, <3>3
    <3>5. ASSUME NEW h \in Undone', h # t
          PROVE  h > t /\ guards'[h].kind = "sp" /\ \E j \in 2 .. Len(frames') : frames'[j].name = h
      <4>1. h \in Undone \ {g} /\ guards'[h] = guards[h]
        BY <1>2, <1>3, <3>3
      <4>2. h > t /\ guards[h].kind = "sp" /\ \E j \in 2 .. k - 1 : frames[j].name = h
        BY <3>1, <3>5, <4>1
      <4>3. \E j \in 2 .. Len(frames') : frames'[j].name = h
        BY <3>2, <4>2
      <4> QED
        BY <4>1, <4>2, <4>3
    <3> QED
      BY <3>4, <3>5
  <2> QED
    BY <1>2, <2>1, <2>2, <2>3, <2>4 DEF FramesInv
<1>11. ASSUME NEW m \in 1 .. Len(frames'), NEW x \in frames'[m].rows
       PROVE  \E q \in 1 .. Len(frames) : /\ x \in frames[q].rows /\ m <= q /\ (q # m => m = k - 1 /\ v.done)
                                          /\ v.done \/ q < k
  <2>1. CASE v.done /\ m = k - 1
    <3>1. x \in frames[k - 1].rows \/ \E q \in k .. Len(frames) : x \in frames[q].rows
      BY <1>11, <2>1
    <3> QED
      <4>1. k - 1 \in 1 .. Len(frames) /\ m <= k - 1 /\ k - 1 < k
        BY <1>1, <2>1
      <4>2. CASE x \in frames[k - 1].rows
        BY <2>1, <4>1, <4>2
      <4>3. ASSUME NEW q \in k .. Len(frames), x \in frames[q].rows
            PROVE  q \in 1 .. Len(frames) /\ x \in frames[q].rows /\ m <= q /\ m = k - 1 /\ v.done
        BY <1>1, <2>1, <4>3
      <4> QED
        BY <3>1, <4>2, <4>3
  <2>2. CASE v.done /\ m # k - 1
    <3>1. m < k - 1
      BY <1>1, <1>9, <2>2
    <3>2. x \in frames[m].rows
      BY <1>11, <2>2, <3>1
    <3> QED
      BY <1>9, <2>2, <3>2
  <2>3. CASE ~v.done
    <3>1. m < k /\ x \in frames[m].rows
      BY <1>1, <1>9, <1>11, <2>3
    <3> QED
      BY <1>9, <3>1
  <2> QED
    BY <2>1, <2>2, <2>3
<1>12. ASSUME NEW m \in 1 .. Len(frames'), NEW x \in frames'[m].rows
       PROVE  /\ x \in 1 .. Len(rows)
              /\ \A h \in AllGuards : /\ h \in rows[x] => Lite!Committed(h)' \/ h \in Undone'
                                      /\ h \in Undone' => (h \in rows[x] <=> \/ guards'[h].kind = "txn"
                                                                             \/ \E j \in 2 .. m : frames'[j].name = h)
  <2>1. PICK q \in 1 .. Len(frames) : /\ x \in frames[q].rows /\ m <= q /\ (q # m => m = k - 1 /\ v.done)
                                      /\ v.done \/ q < k
    BY <1>11, <1>12
  <2>2. /\ x \in 1 .. Len(rows)
        /\ \A h \in AllGuards : /\ h \in rows[x] => Lite!Committed(h) \/ h \in Undone
                                /\ h \in Undone => (h \in rows[x] <=> \/ guards[h].kind = "txn"
                                                                      \/ \E j \in 2 .. q : frames[j].name = h)
    BY <2>1 DEF RowsInv
  <2>3. ASSUME NEW h \in AllGuards, h \in rows[x] PROVE Lite!Committed(h)' \/ h \in Undone'
    <3>1. CASE h # g
      BY <1>3, <1>5, <2>2, <2>3, <3>1
    <3>2. CASE h = g /\ v.done
      BY <1>2, <3>2 DEF Lite!Committed
    <3>3. CASE h = g /\ ~v.done
      <4>1. q < k
        BY <2>1, <3>3
      <4>2. \E j \in 2 .. q : frames[j].name = g
        BY <1>1, <2>2, <2>3, <3>3
      <4> QED
        BY <1>4, <4>1, <4>2
    <3> QED
      BY <3>1, <3>2, <3>3
  <2>4. ASSUME NEW h \in Undone' PROVE h \in rows[x] <=> \/ guards'[h].kind = "txn"
                                                         \/ \E j \in 2 .. m : frames'[j].name = h
    <3>1. h \in Undone \ {g} /\ h \in AllGuards /\ guards'[h] = guards[h]
      BY <1>2, <1>3, <2>4 DEF Undone
    <3>2. (\E j \in 2 .. m : frames'[j].name = h) <=> \E j \in 2 .. m : frames[j].name = h
      <4>1. \A j \in 2 .. m : j \in 1 .. Len(frames')
        BY <1>9
      <4>2. \A j \in 2 .. m : frames'[j].name = frames[j].name
        BY <1>9, <4>1
      <4> QED
        BY <4>2
    <3>3. (\E j \in 2 .. m : frames[j].name = h) <=> \E j \in 2 .. q : frames[j].name = h
      <4>1. ASSUME NEW j \in 2 .. q, frames[j].name = h PROVE j \in 2 .. m
        <5>1. j < k
          BY <1>4, <3>1, <4>1
        <5> QED
          BY <1>1, <2>1, <5>1
      <4> QED
        BY <2>1, <4>1
    <3> QED
      BY <2>2, <3>1, <3>2, <3>3
  <2> QED
    BY <2>2, <2>3, <2>4
<1>13. ASSUME NEW x \in 1 .. Len(rows)
       PROVE  x \in disk \/ (\E m \in 1 .. Len(frames') : x \in frames'[m].rows) \/ \E h \in rows[x] : Lost(h)'
  <2>1. CASE \E q \in 1 .. Len(frames) : x \in frames[q].rows
    <3>1. PICK q \in 1 .. Len(frames) : x \in frames[q].rows
      BY <2>1
    <3>2. CASE v.done
      <4>1. CASE q < k - 1
        BY <1>9, <3>1, <3>2, <4>1
      <4>2. CASE q >= k - 1
        <5>1. q = k - 1 \/ q \in k .. Len(frames)
          BY <1>1, <4>2
        <5>2. x \in frames'[k - 1].rows
          BY <3>1, <3>2, <5>1
        <5> QED
          BY <1>9, <5>2
      <4> QED
        BY <1>1, <4>1, <4>2
    <3>3. CASE ~v.done
      <4>1. CASE q < k
        <5>1. q \in 1 .. Len(frames') /\ frames'[q].rows = frames[q].rows
          BY <3>3, <4>1
        <5> QED
          BY <3>1, <5>1
      <4>2. CASE q >= k
        <5>1. g \in rows[x]
          <6>1. k \in 2 .. q /\ frames[k].name = g
            BY <4>2
          <6> QED
            BY <1>1, <3>1, <6>1 DEF RowsInv
        <5>2. Lost(g)'
          BY <1>2, <3>3 DEF Lost
        <5> QED
          BY <5>1, <5>2
      <4> QED
        BY <1>1, <4>1, <4>2
    <3> QED
      BY <3>2, <3>3
  <2>2. CASE \E h \in rows[x] : Lost(h)
    BY <1>5, <1>6, <1>7, <2>2
  <2>3. frames # <<>>
    BY <1>1
  <2> QED
    BY <2>1, <2>2, <2>3 DEF RowsInv
<1>14. RowsInv'
  <2>1. disk \subseteq 1 .. Len(rows)
    BY DEF RowsInv
  <2>2. disk' \subseteq 1 .. Len(rows') /\ \A x \in 1 .. Len(rows') : rows'[x] \subseteq AllGuards'
    BY <1>2, <1>7, <2>1
  <2>3. ASSUME NEW m \in 1 .. Len(frames'), NEW x \in frames'[m].rows
        PROVE  /\ x \in 1 .. Len(rows')
               /\ \A h \in AllGuards' : /\ h \in rows'[x] => Lite!Committed(h)' \/ h \in Undone'
                                        /\ h \in Undone' => (h \in rows'[x] <=> \/ guards'[h].kind = "txn"
                                                                                \/ \E j \in 2 .. m : frames'[j].name = h)
    <3>1. /\ x \in 1 .. Len(rows)
          /\ \A h \in AllGuards : /\ h \in rows[x] => Lite!Committed(h)' \/ h \in Undone'
                                  /\ h \in Undone' => (h \in rows[x] <=> \/ guards'[h].kind = "txn"
                                                                         \/ \E j \in 2 .. m : frames'[j].name = h)
      BY <1>12, <2>3
    <3>2. AllGuards' = AllGuards /\ rows' = rows
      BY <1>2
    <3> QED
      BY <3>1, <3>2
  <2>4. \A x \in 1 .. Len(rows') : \/ x \in disk'
                                   \/ \E m \in 1 .. Len(frames') : x \in frames'[m].rows
                                   \/ \E h \in rows'[x] : Lost(h)'
    BY <1>13
  <2> QED
    BY <2>2, <2>3, <2>4 DEF RowsInv
<1> QED
  BY <1>8, <1>10, <1>14

\* The innermost scope changes.
LEMMA InnermostScope ==
    ASSUME LiteTypes, scopes # <<>>, NEW s \in Seq(Nat), scopes' = [scopes EXCEPT ![Len(scopes)] = s]
    PROVE  /\ scopes' \in Seq(Seq(Nat)) /\ Len(scopes') = Len(scopes) /\ scopes'[Len(scopes)] = s
           /\ \A k \in 1 .. Len(scopes) : k # Len(scopes) => scopes'[k] = scopes[k]
<1>1. scopes \in Seq(Seq(Nat)) /\ DOMAIN scopes = 1 .. Len(scopes) /\ Len(scopes) \in Nat
  BY LiteFacts DEF LiteTypes
<1>2. Len(scopes) \in 1 .. Len(scopes)
  BY <1>1
<1>3. scopes' \in Seq(Seq(Nat)) /\ Len(scopes') = Len(scopes)
  BY <1>1, <1>2, ExceptSeq
<1> QED
  BY <1>1, <1>2, <1>3

\* A guard is made in a scope that has none.
LEMMA GuardMade ==
    ASSUME LiteTypes, GuardsInv, scopes # <<>>, Len(Lite!Last(scopes)) < 1,
           NEW v \in GuardSet, v.alive, ~v.done, v.kind # "rolled_back", Lite!Guarded(v.kind)
    PROVE  /\ guards' \in Seq(GuardSet) /\ scopes' \in Seq(Seq(Nat)) /\ Len(guards') = Len(guards) + 1
           /\ guards'[Len(guards) + 1] = v /\ \A h \in AllGuards : guards'[h] = guards[h]
           /\ AllGuards' = AllGuards \cup {Len(guards) + 1} /\ GuardsInv'
<1> DEFINE l == Len(scopes)
           g == Len(guards) + 1
           s == Append(scopes[l], g)
<1>1. /\ Len(guards) \in Nat /\ l \in Nat /\ l > 0 /\ l \in 1 .. l /\ g \in Nat
      /\ \A h \in AllGuards : guards[h] \in GuardSet /\ h \in Nat /\ h < g
  BY LiteFacts DEF LiteTypes, AllGuards
<1>2. scopes[l] = <<>>
  <2>1. scopes[l] \in Seq(Nat) /\ Len(scopes[l]) < 1
    BY <1>1, LiteFacts DEF Lite!Last
  <2> QED
    BY <2>1
<1>3. v = [kind |-> v.kind, done |-> FALSE, alive |-> TRUE]
  BY DEF GuardSet
<1>4. /\ guards' \in Seq(GuardSet) /\ Len(guards') = Len(guards) + 1
      /\ guards'[Len(guards) + 1] = v /\ \A h \in 1 .. Len(guards) : guards'[h] = guards[h]
  <2>1. guards' = Append(guards, v)
    BY <1>3 DEF Lite!Guarded
  <2> QED
    BY <1>1, <2>1, AppendProperties DEF LiteTypes
<1>5. AllGuards' = AllGuards \cup {g}
  BY <1>1, <1>4 DEF AllGuards
<1>6. s \in Seq(Nat) /\ Len(s) = 1 /\ s[1] = g /\ s # <<>>
  <2>1. scopes[l] \in Seq(Nat) /\ Len(scopes[l]) = 0
    BY <1>1, <1>2, LiteFacts
  <2>2. s \in Seq(Nat) /\ Len(s) = Len(scopes[l]) + 1 /\ s[Len(scopes[l]) + 1] = g
    BY <1>1, <2>1, AppendProperties
  <2> HIDE DEF s
  <2>3. s \in Seq(Nat) /\ Len(s) = 1 /\ s[1] = g
    BY <2>1, <2>2
  <2>4. Len(<<>>) = 0 /\ 1 # 0
    OBVIOUS
  <2>5. s # <<>>
    BY <2>3, <2>4, Zenon
  <2> QED
    BY <2>3, <2>5
<1>7. scopes' \in Seq(Seq(Nat)) /\ Len(scopes') = l /\ scopes'[l] = s /\ \A k \in 1 .. l : k # l => scopes'[k] = scopes[k]
  <2>1. scopes' = [scopes EXCEPT ![l] = s]
    BY DEF Lite!Guarded
  <2> HIDE DEF s
  <2> QED
    BY <1>6, <2>1, InnermostScope
<1> HIDE DEF l, g, s
<1>8. ASSUME NEW k \in 1 .. l, k # l
      PROVE  /\ scopes'[k] = scopes[k] /\ Len(scopes[k]) = 1 /\ scopes[k][1] \in AllGuards /\ guards[scopes[k][1]].alive
             /\ scopes[k][1] < g
  BY <1>1, <1>7, <1>8 DEF GuardsInv, l
<1>9. \A h \in AllGuards' : guards'[h].kind = "rolled_back" => guards'[h].done
  BY <1>1, <1>4, <1>5 DEF GuardsInv, AllGuards, g
<1>10. \A k \in 1 .. l : Len(scopes'[k]) = 1 /\ scopes'[k][1] \in AllGuards' /\ guards'[scopes'[k][1]].alive
  <2> SUFFICES ASSUME NEW k \in 1 .. l PROVE Len(scopes'[k]) = 1 /\ scopes'[k][1] \in AllGuards' /\ guards'[scopes'[k][1]].alive
    OBVIOUS
  <2>1. CASE k = l
    BY <1>4, <1>5, <1>6, <1>7, <2>1 DEF g
  <2>2. CASE k # l
    BY <1>4, <1>5, <1>8, <2>2 DEF AllGuards
  <2> QED
    BY <2>1, <2>2
<1>11. \A h \in AllGuards' : guards'[h].alive => \E k \in 1 .. l : scopes'[k] # <<>> /\ scopes'[k][1] = h
  <2> SUFFICES ASSUME NEW h \in AllGuards', guards'[h].alive PROVE \E k \in 1 .. l : scopes'[k] # <<>> /\ scopes'[k][1] = h
    OBVIOUS
  <2>1. CASE h = g
    BY <1>1, <1>6, <1>7, <2>1
  <2>2. CASE h \in AllGuards
    <3>1. guards[h].alive
      BY <1>4, <2>2 DEF AllGuards
    <3>2. PICK k \in 1 .. l : scopes[k] # <<>> /\ scopes[k][1] = h
      BY <2>2, <3>1 DEF GuardsInv, l
    <3>3. k # l
      BY <1>2, <3>2
    <3> QED
      BY <1>8, <3>2, <3>3
  <2> QED
    BY <1>5, <2>1, <2>2
<1>12. \A k, m \in 1 .. l : k < m => scopes'[k][1] < scopes'[m][1]
  <2> SUFFICES ASSUME NEW k \in 1 .. l, NEW m \in 1 .. l, k < m PROVE scopes'[k][1] < scopes'[m][1]
    OBVIOUS
  <2>1. k # l /\ (m # l => scopes[m] # <<>>)
    <3>1. m # l => Len(scopes[m]) = 1
      BY <1>8
    <3>2. scopes[m] = <<>> => Len(scopes[m]) = 0
      OBVIOUS
    <3> QED
      <4>1. k # l
        BY <1>1
      <4>2. ASSUME m # l PROVE scopes[m] # <<>>
        <5>1. Len(scopes[m]) = 1 /\ 1 # 0
          BY <3>1, <4>2
        <5> QED
          BY <3>2, <5>1
      <4> QED
        BY <4>1, <4>2
  <2>2. CASE m = l
    BY <1>6, <1>7, <1>8, <2>1, <2>2
  <2>3. CASE m # l
    BY <1>8, <2>1, <2>3 DEF GuardsInv, l
  <2> QED
    BY <2>2, <2>3
<1>13. GuardsInv'
  BY <1>7, <1>9, <1>10, <1>11, <1>12 DEF GuardsInv
<1> QED
  BY <1>4, <1>5, <1>7, <1>13 DEF AllGuards, g

\* The guard of the innermost scope is destroyed.
LEMMA GuardLeft ==
    ASSUME LiteTypes, GuardsInv, scopes # <<>>, Lite!Last(scopes) # <<>>, NEW g, g = Lite!Last(scopes)[1],
           NEW v \in GuardSet, ~v.alive, v.kind = "rolled_back" => v.done,
           guards' = [guards EXCEPT ![g] = v],
           scopes' = [scopes EXCEPT ![Len(scopes)] = Tail(@)]
    PROVE  /\ g \in AllGuards /\ guards[g].alive /\ \A h \in AllGuards : guards[h].alive => h <= g
           /\ scopes' \in Seq(Seq(Nat)) /\ GuardsInv'
<1> DEFINE l == Len(scopes)
<1>1. l \in Nat /\ l > 0 /\ l \in 1 .. l /\ \A k \in 1 .. l : scopes[k] \in Seq(Nat)
  BY LiteFacts DEF LiteTypes
<1>2. scopes[l] # <<>> /\ g = scopes[l][1]
  BY DEF Lite!Last
<1>3. Len(scopes[l]) = 1 /\ g \in AllGuards /\ guards[g].alive
  BY <1>1, <1>2 DEF GuardsInv
<1>4. \A h \in AllGuards : h \in Nat
  BY DEF AllGuards
<1>5. ASSUME NEW k \in 1 .. l, k # l
      PROVE  Len(scopes[k]) = 1 /\ scopes[k] # <<>> /\ scopes[k][1] \in AllGuards /\ guards[scopes[k][1]].alive /\ scopes[k][1] < g
  <2>1. Len(scopes[k]) = 1 /\ scopes[k][1] \in AllGuards /\ guards[scopes[k][1]].alive
    BY <1>5 DEF GuardsInv
  <2>2. k < l
    BY <1>1, <1>5
  <2>3. scopes[k][1] < g
    BY <1>1, <1>2, <2>2 DEF GuardsInv
  <2>4. scopes[k] # <<>>
    BY <2>1
  <2> QED
    BY <2>1, <2>3, <2>4
<1>6. ASSUME NEW h \in AllGuards, guards[h].alive, h # g
      PROVE  h < g /\ \E k \in 1 .. l : k # l /\ scopes[k][1] = h
  <2>1. PICK k \in 1 .. l : scopes[k][1] = h
    BY <1>6 DEF GuardsInv
  <2> QED
    BY <1>2, <1>5, <1>6, <2>1
<1>7. /\ guards' \in Seq(GuardSet) /\ Len(guards') = Len(guards) /\ guards'[g] = v
      /\ \A h \in AllGuards \ {g} : guards'[h] = guards[h]
      /\ AllGuards' = AllGuards
  BY <1>3, GuardChanged
<1>8. scopes' \in Seq(Seq(Nat)) /\ Len(scopes') = l /\ scopes'[l] = <<>> /\ \A k \in 1 .. l : k # l => scopes'[k] = scopes[k]
  <2> DEFINE s == Tail(scopes[l])
  <2>1. s \in Seq(Nat) /\ Len(s) = 0
    BY <1>1, <1>2, <1>3
  <2>2. s = <<>>
    BY <2>1
  <2>3. scopes' = [scopes EXCEPT ![l] = s]
    OBVIOUS
  <2> HIDE DEF s
  <2> QED
    BY <2>1, <2>2, <2>3, InnermostScope
<1> HIDE DEF l
<1>9. \A h \in AllGuards : guards'[h].kind = "rolled_back" => guards'[h].done
  BY <1>7 DEF GuardsInv
<1>10. \A k \in 1 .. l : \/ k = l /\ scopes'[k] = <<>>
                         \/ Len(scopes'[k]) = 1 /\ scopes'[k][1] \in AllGuards /\ guards'[scopes'[k][1]].alive
  <2> SUFFICES ASSUME NEW k \in 1 .. l, k # l
               PROVE  Len(scopes'[k]) = 1 /\ scopes'[k][1] \in AllGuards /\ guards'[scopes'[k][1]].alive
    BY <1>8
  <2>1. scopes[k][1] \in AllGuards \ {g}
    BY <1>3, <1>4, <1>5
  <2> QED
    BY <1>5, <1>7, <1>8, <2>1
<1>11. \A h \in AllGuards : guards'[h].alive => \E k \in 1 .. l : scopes'[k] # <<>> /\ scopes'[k][1] = h
  <2> SUFFICES ASSUME NEW h \in AllGuards, guards'[h].alive PROVE \E k \in 1 .. l : scopes'[k] # <<>> /\ scopes'[k][1] = h
    OBVIOUS
  <2>1. h # g /\ guards[h].alive
    BY <1>7
  <2>2. PICK k \in 1 .. l : k # l /\ scopes[k][1] = h
    BY <1>6, <2>1
  <2> QED
    BY <1>5, <1>8, <2>2
<1>12. \A k, m \in 1 .. l : k < m /\ scopes'[m] # <<>> => scopes'[k][1] < scopes'[m][1]
  <2> SUFFICES ASSUME NEW k \in 1 .. l, NEW m \in 1 .. l, k < m, m # l PROVE scopes'[k][1] < scopes'[m][1]
    BY <1>8
  <2>1. k # l
    BY <1>1
  <2> QED
    BY <1>5, <1>8, <2>1 DEF GuardsInv, l
<1>13. GuardsInv'
  <2>1. Len(scopes') = l /\ AllGuards' = AllGuards
    BY <1>7, <1>8
  <2> QED
    BY <1>9, <1>10, <1>11, <1>12, <2>1 DEF GuardsInv
<1> QED
  BY <1>3, <1>4, <1>6, <1>8, <1>13

\* Scopes are opened within those that have a guard, and closed without one.
LEMMA ScopeMoves ==
    ASSUME LiteTypes, GuardsInv, UNCHANGED guards,
           \/ scopes' = Append(scopes, <<>>) /\ (scopes # <<>> => Lite!Last(scopes) # <<>>)
           \/ scopes' = Lite!Front(scopes) /\ scopes # <<>> /\ Lite!Last(scopes) = <<>>
    PROVE  scopes' \in Seq(Seq(Nat)) /\ GuardsInv'
<1> DEFINE l == Len(scopes)
<1>1. l \in Nat /\ (scopes # <<>> => l > 0) /\ \A k \in 1 .. l : scopes[k] \in Seq(Nat)
  BY LiteFacts DEF LiteTypes
<1>2. AllGuards' = AllGuards /\ <<>> \in Seq(Nat) /\ Len(<<>>) = 0
  BY DEF AllGuards
<1>3. CASE scopes' = Append(scopes, <<>>) /\ (scopes # <<>> => Lite!Last(scopes) # <<>>)
  <2>1. /\ scopes' \in Seq(Seq(Nat)) /\ Len(scopes') = l + 1 /\ scopes'[l + 1] = <<>>
        /\ \A k \in 1 .. l : scopes'[k] = scopes[k]
    BY <1>1, <1>2, <1>3, AppendProperties DEF LiteTypes
  <2>2. l > 0 => scopes[l] # <<>>
    BY <1>3 DEF Lite!Last
  <2> HIDE DEF l
  <2>3. GuardsInv'
    <3>1. /\ \A k \in 1 .. l + 1 : \/ k = l + 1 /\ scopes'[k] = <<>>
                                   \/ Len(scopes'[k]) = 1 /\ scopes'[k][1] \in AllGuards /\ guards[scopes'[k][1]].alive
          /\ \A k, m \in 1 .. l + 1 : k < m /\ scopes'[m] # <<>> => scopes'[k][1] < scopes'[m][1]
      <4>1. \A k \in 1 .. l : Len(scopes[k]) = 1 /\ scopes[k][1] \in AllGuards /\ guards[scopes[k][1]].alive
        BY <1>1, <2>2 DEF GuardsInv, l
      <4>2. \A k \in 1 .. l + 1 : k = l + 1 \/ k \in 1 .. l
        BY <1>1
      <4>3. ASSUME NEW k \in 1 .. l + 1, NEW m \in 1 .. l + 1, k < m, scopes'[m] # <<>>
            PROVE  k \in 1 .. l /\ m \in 1 .. l
        <5>1. m # l + 1
          BY <2>1, <4>3
        <5> QED
          BY <1>1, <4>3, <5>1
      <4>4. \A k, m \in 1 .. l : k < m /\ scopes[m] # <<>> => scopes[k][1] < scopes[m][1]
        BY DEF GuardsInv, l
      <4>5. \A k, m \in 1 .. l + 1 : k < m /\ scopes'[m] # <<>> => scopes'[k][1] < scopes'[m][1]
        BY <2>1, <4>3, <4>4
      <4>6. ASSUME NEW k \in 1 .. l + 1
            PROVE  \/ k = l + 1 /\ scopes'[k] = <<>>
                   \/ Len(scopes'[k]) = 1 /\ scopes'[k][1] \in AllGuards /\ guards[scopes'[k][1]].alive
        <5>1. CASE k = l + 1
          BY <2>1, <5>1
        <5>2. CASE k \in 1 .. l
          BY <2>1, <4>1, <5>2
        <5> QED
          BY <4>2, <5>1, <5>2
      <4> QED
        BY <4>5, <4>6
    <3>2. \A h \in AllGuards : guards[h].alive => \E k \in 1 .. l + 1 : scopes'[k] # <<>> /\ scopes'[k][1] = h
      <4>1. \A h \in AllGuards : guards[h].alive => \E k \in 1 .. l : scopes[k] # <<>> /\ scopes[k][1] = h
        BY DEF GuardsInv, l
      <4>2. \A k \in 1 .. l : k \in 1 .. l + 1
        BY <1>1
      <4> QED
        BY <2>1, <4>1, <4>2
    <3>3. \A h \in AllGuards : guards[h].kind = "rolled_back" => guards[h].done
      BY DEF GuardsInv
    <3> QED
      BY <1>2, <2>1, <3>1, <3>2, <3>3 DEF GuardsInv
  <2> QED
    BY <2>1, <2>3
<1>4. CASE scopes' = Lite!Front(scopes) /\ scopes # <<>> /\ Lite!Last(scopes) = <<>>
  <2>1. l > 0 /\ scopes[l] = <<>>
    BY <1>1, <1>4 DEF Lite!Last
  <2>2. scopes' \in Seq(Seq(Nat)) /\ Len(scopes') = l - 1 /\ \A k \in 1 .. l - 1 : scopes'[k] = scopes[k]
    <3>1. \A k \in 1 .. l - 1 : scopes[k] \in Seq(Nat)
      BY <1>1
    <3> DEFINE u == SubSeq(scopes, 1, l - 1)
    <3>2. /\ u \in Seq(Seq(Nat)) /\ Len(u) = IF 1 <= l - 1 THEN (l - 1) - 1 + 1 ELSE 0
          /\ \A k \in 1 .. (l - 1) - 1 + 1 : u[k] = scopes[1 + k - 1]
      BY <1>1, <2>1, <3>1, SubSeqProperties DEF LiteTypes
    <3> HIDE DEF u
    <3>3. \A k \in 1 .. l - 1 : k \in 1 .. (l - 1) - 1 + 1 /\ 1 + k - 1 = k
      BY <1>1, <2>1
    <3>4. \A k \in 1 .. l - 1 : u[k] = scopes[k]
      BY <3>2, <3>3
    <3>5. scopes' = u
      BY <1>4 DEF u, Lite!Front
    <3> QED
      BY <1>1, <2>1, <3>2, <3>4, <3>5
  <2> HIDE DEF l
  <2>3. \A h \in AllGuards : guards[h].alive => \E k \in 1 .. l - 1 : scopes[k] # <<>> /\ scopes[k][1] = h
    <3> SUFFICES ASSUME NEW h \in AllGuards, guards[h].alive PROVE \E k \in 1 .. l - 1 : scopes[k] # <<>> /\ scopes[k][1] = h
      OBVIOUS
    <3>1. PICK k \in 1 .. l : scopes[k] # <<>> /\ scopes[k][1] = h
      BY DEF GuardsInv, l
    <3>2. k # l
      BY <2>1, <3>1
    <3> QED
      BY <1>1, <3>1, <3>2
  <2>4. GuardsInv'
    <3>1. \A k \in 1 .. l - 1 : k \in 1 .. l /\ k # l
      BY <1>1
    <3>2. \A k \in 1 .. l - 1 : Len(scopes'[k]) = 1 /\ scopes'[k][1] \in AllGuards /\ guards[scopes'[k][1]].alive
      BY <2>2, <3>1 DEF GuardsInv, l
    <3>3. \A k, m \in 1 .. l - 1 : k < m /\ scopes'[m] # <<>> => scopes'[k][1] < scopes'[m][1]
      BY <2>2, <3>1 DEF GuardsInv, l
    <3>4. \A h \in AllGuards : guards[h].alive => \E k \in 1 .. l - 1 : scopes'[k] # <<>> /\ scopes'[k][1] = h
      BY <2>2, <2>3
    <3>5. \A h \in AllGuards : guards[h].kind = "rolled_back" => guards[h].done
      BY DEF GuardsInv
    <3> QED
      BY <1>2, <2>2, <3>2, <3>3, <3>4, <3>5 DEF GuardsInv
  <2> QED
    BY <2>2, <2>4
<1> QED
  BY <1>3, <1>4

\* While the task is running, the engine is idle exactly when all guards are done.
LEMMA IdleEngine ==
    ASSUME LiteInv, Lite!Running, frames = <<>>
    PROVE  Undone = {}
  BY DEF LiteInv, Lite!Running, FramesInv

\* A new guard gets its frame.
LEMMA FrameMade ==
    ASSUME LiteInv, ~asserted, NEW g, g = Len(guards) + 1, NEW v \in GuardSet, v.alive, ~v.done,
           Len(guards') = g, guards'[g] = v, \A h \in AllGuards : guards'[h] = guards[h],
           AllGuards' = AllGuards \cup {g}, UNCHANGED <<disk, rows>>, frames' \in Seq(FrameSet),
           \/ /\ frames = <<>> /\ Undone = {} /\ v.kind = "txn"
              /\ Len(frames') = 1 /\ frames'[1].name = 0 /\ frames'[1].rows = {}
           \/ /\ frames # <<>> /\ v.kind = "sp" /\ Len(frames') = Len(frames) + 1
              /\ \A k \in 1 .. Len(frames) : frames'[k] = frames[k]
              /\ frames'[Len(frames) + 1].name = g /\ frames'[Len(frames) + 1].rows = {}
    PROVE  Lite!UndoneRowsGone' /\ FramesInv' /\ RowsInv'
<1> USE DEF LiteInv
<1>1. /\ Len(frames) \in Nat /\ Len(guards) \in Nat /\ g \in Nat /\ g \notin AllGuards
      /\ \A h \in AllGuards : h \in Nat /\ h < g
      /\ \A k \in 1 .. Len(frames) : frames[k].name \in Nat
  BY LiteFacts DEF AllGuards, FrameSet
<1>2. Undone' = Undone \cup {g}
  BY <1>1 DEF Undone
<1>3. \A h \in AllGuards : Lite!Committed(h)' = Lite!Committed(h) /\ Lost(h)' = Lost(h)
  BY <1>1 DEF Lite!Committed, Lost
<1>4. \A x \in 1 .. Len(rows) : rows[x] \subseteq AllGuards
  BY DEF RowsInv
<1>5. Lite!UndoneRowsGone'
  BY <1>3, <1>4 DEF Lite!UndoneRowsGone, RowsInv
<1>6. /\ Len(frames') = Len(frames) + 1 /\ frames'[Len(frames) + 1].rows = {}
      /\ \A k \in 1 .. Len(frames) : frames'[k] = frames[k]
      /\ frames'[Len(frames) + 1].name \in {0, g} /\ (frames # <<>> => frames'[Len(frames) + 1].name = g)
  <2>1. CASE frames = <<>>
    <3>1. Len(frames) = 0
      BY <2>1
    <3> QED
      BY <2>1, <3>1
  <2>2. CASE frames # <<>>
    BY <2>2
  <2> QED
    BY <2>1, <2>2
<1>7. FramesInv'
  <2>1. frames' # <<>> /\ frames'[1].name = 0
    <3>1. CASE frames = <<>>
      <4>1. frames' # <<>>
        BY <3>1
      <4> QED
        BY <3>1, <4>1
    <3>2. CASE frames # <<>>
      <4>1. Len(frames) > 0 /\ 1 \in 1 .. Len(frames) /\ Len(frames') > 0
        BY <1>1, <1>6, <3>2 DEF LiteTypes
      <4>2. frames' # <<>>
        BY <4>1
      <4> QED
        BY <1>6, <3>2, <4>1, <4>2 DEF FramesInv
    <3> QED
      BY <3>1, <3>2
  <2>2. ASSUME NEW k \in 1 .. Len(frames) + 1, NEW m \in 1 .. Len(frames) + 1, k < m
        PROVE  frames'[k].name < frames'[m].name
    <3>0. k \in 1 .. Len(frames) /\ (m = Len(frames) + 1 \/ m \in 1 .. Len(frames)) /\ Len(frames) # 0
      BY <1>1, <2>2
    <3>1. k \in 1 .. Len(frames) /\ frames'[k] = frames[k] /\ (m = Len(frames) + 1 \/ m \in 1 .. Len(frames)) /\ Len(frames) # 0
      BY <1>6, <3>0
    <3>2. CASE m = Len(frames) + 1
      <4>1. frames # <<>>
        BY <3>1
      <4>2. frames[k].name <= Len(guards) /\ frames[k].name \in Nat
        BY <1>1, <3>1 DEF FramesInv
      <4> QED
        BY <1>1, <1>6, <3>1, <3>2, <4>1, <4>2
    <3>3. CASE m \in 1 .. Len(frames)
      BY <1>6, <2>2, <3>1, <3>3 DEF FramesInv
    <3> QED
      BY <3>1, <3>2, <3>3
  <2>3. ASSUME NEW k \in 1 .. Len(frames) + 1 PROVE frames'[k].name <= g
    <3>1. CASE k \in 1 .. Len(frames)
      <4>1. frames[k].name <= Len(guards) /\ frames[k].name \in Nat
        BY <1>1, <3>1 DEF FramesInv
      <4> QED
        BY <1>1, <1>6, <3>1, <4>1
    <3>2. CASE k = Len(frames) + 1
      BY <1>1, <1>6, <3>2
    <3> QED
      BY <1>1, <3>1, <3>2
  <2>4. \E t \in Undone' : /\ guards'[t].kind = "txn"
                           /\ \A h \in Undone' : \/ h = t
                                                 \/ /\ h > t /\ guards'[h].kind = "sp"
                                                    /\ \E k \in 2 .. Len(frames) + 1 : frames'[k].name = h
    <3>1. CASE frames = <<>>
      BY <1>2, <3>1
    <3>2. CASE frames # <<>>
      <4>1. PICK t \in Undone : /\ guards[t].kind = "txn"
                                /\ \A h \in Undone : \/ h = t
                                                     \/ /\ h > t /\ guards[h].kind = "sp"
                                                        /\ \E k \in 2 .. Len(frames) : frames[k].name = h
        BY <3>2 DEF FramesInv
      <4>2. \A h \in Undone : h \in AllGuards
        BY DEF Undone
      <4>3. g > t /\ guards'[g].kind = "sp" /\ Len(frames) + 1 \in 2 .. Len(frames) + 1 /\ frames'[Len(frames) + 1].name = g
        <5>1. Len(frames) # 0
          BY <3>2 DEF LiteTypes
        <5> QED
          BY <1>1, <1>6, <3>2, <4>1, <4>2, <5>1
      <4>4. \A k \in 2 .. Len(frames) : k \in 2 .. Len(frames) + 1 /\ frames'[k] = frames[k]
        BY <1>1, <1>6
      <4>5. ASSUME NEW h \in Undone, h # t
            PROVE  h > t /\ guards'[h].kind = "sp" /\ \E k \in 2 .. Len(frames) + 1 : frames'[k].name = h
        <5>1. h \in AllGuards /\ h > t /\ guards[h].kind = "sp" /\ \E k \in 2 .. Len(frames) : frames[k].name = h
          BY <4>1, <4>2, <4>5
        <5>2. guards'[h].kind = "sp"
          BY <5>1
        <5>3. \E k \in 2 .. Len(frames) + 1 : frames'[k].name = h
          BY <4>4, <5>1
        <5> QED
          BY <5>1, <5>2, <5>3
      <4> QED
        BY <1>2, <4>1, <4>2, <4>3, <4>5
    <3> QED
      BY <3>1, <3>2
  <2> QED
    BY <1>6, <2>1, <2>2, <2>3, <2>4 DEF FramesInv
<1>8. ASSUME NEW k \in 1 .. Len(frames'), NEW x \in frames'[k].rows
      PROVE  /\ x \in 1 .. Len(rows')
             /\ \A h \in AllGuards' : /\ h \in rows'[x] => Lite!Committed(h)' \/ h \in Undone'
                                      /\ h \in Undone' => (h \in rows'[x] <=> \/ guards'[h].kind = "txn"
                                                                              \/ \E j \in 2 .. k : frames'[j].name = h)
  <2>1. k \in 1 .. Len(frames) /\ x \in frames[k].rows
    <3>1. k # Len(frames) + 1
      BY <1>6, <1>8
    <3> QED
      BY <1>1, <1>6, <1>8, <3>1
  <2>2. /\ x \in 1 .. Len(rows)
        /\ \A h \in AllGuards : /\ h \in rows[x] => Lite!Committed(h) \/ h \in Undone
                                /\ h \in Undone => (h \in rows[x] <=> \/ guards[h].kind = "txn"
                                                                      \/ \E j \in 2 .. k : frames[j].name = h)
    BY <2>1 DEF RowsInv
  <2>3. \A j \in 2 .. k : frames'[j].name = frames[j].name /\ frames[j].name # g
    <3>1. \A j \in 2 .. k : j \in 1 .. Len(frames)
      BY <1>1, <2>1
    <3>2. \A j \in 1 .. Len(frames) : frames[j].name # g
      <4>1. \A j \in 1 .. Len(frames) : frames[j].name <= Len(guards) /\ frames[j].name \in Nat
        BY <1>1 DEF FramesInv
      <4> QED
        BY <1>1, <4>1
    <3> QED
      BY <1>6, <3>1, <3>2
  <2>4. g \notin rows[x]
    BY <1>1, <1>4, <2>2
  <2>5. v.kind = "sp"
    BY <1>1, <2>1
  <2>6. ASSUME NEW h \in AllGuards'
        PROVE  /\ h \in rows[x] => Lite!Committed(h)' \/ h \in Undone'
               /\ h \in Undone' => (h \in rows[x] <=> \/ guards'[h].kind = "txn"
                                                      \/ \E j \in 2 .. k : frames'[j].name = h)
    <3>1. CASE h = g
      BY <2>3, <2>4, <2>5, <3>1
    <3>2. CASE h \in AllGuards /\ h # g
      <4>1. (\E j \in 2 .. k : frames'[j].name = h) <=> \E j \in 2 .. k : frames[j].name = h
        BY <2>3
      <4>2. (h \in Undone' <=> h \in Undone) /\ guards'[h] = guards[h]
        BY <1>2, <3>2
      <4>3. Lite!Committed(h)' <=> Lite!Committed(h)
        BY <4>2 DEF Lite!Committed
      <4> QED
        BY <2>2, <3>2, <4>1, <4>2, <4>3
    <3> QED
      BY <1>1, <3>1, <3>2
  <2> QED
    BY <2>2, <2>6
<1>9. \A x \in 1 .. Len(rows') : \/ x \in disk'
                                 \/ \E k \in 1 .. Len(frames') : x \in frames'[k].rows
                                 \/ \E h \in rows'[x] : Lost(h)'
  <2> SUFFICES ASSUME NEW x \in 1 .. Len(rows), x \notin disk, ~\E h \in rows[x] : Lost(h)'
               PROVE  \E k \in 1 .. Len(frames') : x \in frames'[k].rows
    OBVIOUS
  <2>1. ~\E h \in rows[x] : Lost(h)
    BY <1>3, <1>4
  <2>2. PICK k \in 1 .. Len(frames) : x \in frames[k].rows
    BY <2>1 DEF RowsInv
  <2>3. k \in 1 .. Len(frames')
    BY <1>1, <1>6
  <2> QED
    BY <1>6, <2>2, <2>3
<1>10. disk' \subseteq 1 .. Len(rows') /\ \A x \in 1 .. Len(rows') : rows'[x] \subseteq AllGuards'
  BY <1>4 DEF RowsInv
<1>11. RowsInv'
  BY <1>8, <1>9, <1>10 DEF RowsInv
<1> QED
  BY <1>5, <1>7, <1>11

\* A row is written under the guards that are open.
LEMMA RowWritten ==
    ASSUME LiteInv, Lite!Running, UNCHANGED <<guards, leaving>>, NEW x0, x0 = Len(rows) + 1, rows' = Append(rows, Undone),
           \/ frames = <<>> /\ disk' = disk \cup {x0} /\ frames' = frames
           \/ frames # <<>> /\ disk' = disk /\ frames' = [frames EXCEPT ![Len(frames)].rows = @ \cup {x0}]
    PROVE  /\ frames' \in Seq(FrameSet) /\ rows' \in Seq(SUBSET Nat) /\ disk' \in SUBSET Nat
           /\ Lite!UndoneRowsGone' /\ FramesInv' /\ RowsInv'
<1> USE DEF LiteInv, Lite!Running
<1> DEFINE l == Len(frames)
<1>1. /\ l \in Nat /\ Len(rows) \in Nat /\ x0 \in Nat /\ (frames = <<>> => l = 0) /\ (frames # <<>> => l \in 1 .. l)
      /\ \A k \in 1 .. l : frames[k] \in FrameSet
  BY LiteFacts DEF LiteTypes
<1>2. Undone \in SUBSET Nat /\ Undone \subseteq AllGuards /\ AllGuards' = AllGuards /\ Undone' = Undone
  BY DEF Undone, AllGuards
<1>3. /\ rows' \in Seq(SUBSET Nat) /\ Len(rows') = x0 /\ rows'[x0] = Undone
      /\ \A x \in 1 .. Len(rows) : rows'[x] = rows[x]
  BY <1>2, AppendProperties DEF LiteTypes
<1>4. \A x \in 1 .. x0 : x \in 1 .. Len(rows) \/ x = x0
  BY <1>1
<1>5. \A h \in AllGuards : (Lite!Committed(h)' <=> Lite!Committed(h)) /\ (Lost(h)' <=> Lost(h))
  BY DEF Lite!Committed, Lost
<1>6. disk \subseteq 1 .. Len(rows) /\ \A x \in 1 .. Len(rows) : rows[x] \subseteq AllGuards
  BY DEF RowsInv
<1>7. /\ frames' \in Seq(FrameSet) /\ Len(frames') = l /\ \A k \in 1 .. l : frames'[k].name = frames[k].name
      /\ \A k \in 1 .. l : \A x \in frames'[k].rows : x \in frames[k].rows \/ (x = x0 /\ k = l)
      /\ \A k \in 1 .. l : frames[k].rows \subseteq frames'[k].rows
      /\ frames # <<>> => x0 \in frames'[l].rows
      /\ frames' = <<>> <=> frames = <<>>
  <2>1. CASE frames = <<>>
    BY <1>1, <2>1 DEF LiteTypes
  <2>2. CASE frames # <<>>
    <3> DEFINE R == frames[l].rows \cup {x0}
    <3>1. R \in SUBSET Nat
      BY <1>1, <2>2 DEF FrameSet
    <3>2. frames' = [frames EXCEPT ![l].rows = R]
      BY <2>2
    <3> HIDE DEF R
    <3>5. frames \in Seq(FrameSet) /\ l \in 1 .. Len(frames)
      BY <1>1, <2>2 DEF LiteTypes
    <3>3. /\ frames' \in Seq(FrameSet) /\ Len(frames') = l /\ frames'[l].rows = R
          /\ \A m \in 1 .. l : frames'[m].name = frames[m].name /\ (m # l => frames'[m].rows = frames[m].rows)
      <4>1. WithRows(frames', frames, l, R)
        BY <3>1, <3>2, <3>5 DEF WithRows, RowsSet
      <4> HIDE DEF l
      <4>2. HasRows(frames', frames, l, R)
        BY <4>1, FrameChanged
      <4>3. /\ frames' \in Seq(FrameSet) /\ Len(frames') = Len(frames) /\ frames'[l].rows = R
            /\ \A m \in 1 .. Len(frames) : frames'[m].name = frames[m].name /\ (m # l => frames'[m].rows = frames[m].rows)
        BY <4>2 DEF HasRows
      <4> QED
        BY <4>3 DEF l
    <3>4. frames' # <<>>
      <4>1. Len(frames') # 0
        BY <1>1, <2>2, <3>3
      <4> QED
        BY <4>1
    <3> QED
      BY <2>2, <3>3, <3>4 DEF R
  <2> QED
    BY <2>1, <2>2
<1> HIDE DEF l
<1>8. Lite!UndoneRowsGone'
  <2> SUFFICES ASSUME NEW x \in disk', NEW h \in rows'[x] PROVE Lite!Committed(h)'
    BY DEF Lite!UndoneRowsGone
  <2>1. CASE x \in disk
    <3>1. x \in 1 .. Len(rows) /\ h \in rows[x] /\ h \in AllGuards
      BY <1>3, <1>6, <2>1
    <3> QED
      BY <1>5, <2>1, <3>1 DEF Lite!UndoneRowsGone
  <2>2. CASE x \notin disk
    <3>1. frames = <<>> /\ x = x0
      BY <2>2
    <3>2. Undone = {}
      BY <3>1, IdleEngine
    <3> QED
      BY <1>3, <3>1, <3>2
  <2> QED
    BY <2>1, <2>2
<1>9. FramesInv'
  <2>1. frames # <<>> => frames'[1].name = 0
    <3>1. frames # <<>> => 1 \in 1 .. l
      BY <1>1
    <3> QED
      BY <1>7, <3>1 DEF FramesInv
  <2>2. \A k, m \in 1 .. l : k < m => frames'[k].name < frames'[m].name
    BY <1>7 DEF FramesInv, l
  <2>3. \A k \in 1 .. l : frames'[k].name <= Len(guards)
    BY <1>7 DEF FramesInv, l
  <2>4. frames # <<>> => \E t \in Undone : /\ guards[t].kind = "txn"
                                           /\ \A h \in Undone : \/ h = t
                                                                \/ /\ h > t /\ guards[h].kind = "sp"
                                                                   /\ \E k \in 2 .. l : frames'[k].name = h
    <3>1. \A k \in 2 .. l : k \in 1 .. l /\ frames'[k].name = frames[k].name
      BY <1>1, <1>7
    <3>2. frames # <<>> => \E t \in Undone : /\ guards[t].kind = "txn"
                                             /\ \A h \in Undone : \/ h = t
                                                                  \/ /\ h > t /\ guards[h].kind = "sp"
                                                                     /\ \E k \in 2 .. l : frames[k].name = h
      BY DEF FramesInv, l
    <3> QED
      BY <3>1, <3>2
  <2>5. frames = <<>> /\ Undone # {} => leaving
    BY IdleEngine
  <2> QED
    BY <1>2, <1>7, <2>1, <2>2, <2>3, <2>4, <2>5 DEF FramesInv
<1>10. ASSUME NEW k \in 1 .. Len(frames'), NEW x \in frames'[k].rows
       PROVE  /\ x \in 1 .. Len(rows')
              /\ \A h \in AllGuards' : /\ h \in rows'[x] => Lite!Committed(h)' \/ h \in Undone'
                                       /\ h \in Undone' => (h \in rows'[x] <=> \/ guards'[h].kind = "txn"
                                                                               \/ \E j \in 2 .. k : frames'[j].name = h)
  <2>1. k \in 1 .. l /\ \A j \in 2 .. k : j \in 1 .. l /\ frames'[j].name = frames[j].name
    BY <1>1, <1>7, <1>10
  <2>2. \A h \in AllGuards : (\E j \in 2 .. k : frames'[j].name = h) <=> \E j \in 2 .. k : frames[j].name = h
    BY <2>1
  <2>3. CASE x \in frames[k].rows
    <3>1. /\ x \in 1 .. Len(rows)
          /\ \A h \in AllGuards : /\ h \in rows[x] => Lite!Committed(h) \/ h \in Undone
                                  /\ h \in Undone => (h \in rows[x] <=> \/ guards[h].kind = "txn"
                                                                        \/ \E j \in 2 .. k : frames[j].name = h)
      BY <2>1, <2>3 DEF RowsInv, l
    <3>2. x \in 1 .. Len(rows') /\ rows'[x] = rows[x]
      BY <1>1, <1>3, <3>1
    <3> QED
      BY <1>2, <1>5, <2>2, <3>1, <3>2
  <2>4. CASE x = x0 /\ k = l
    <3>1. x \in 1 .. Len(rows') /\ rows'[x] = Undone
      BY <1>1, <1>3, <2>4
    <3>2. frames # <<>>
      BY <1>1, <2>1
    <3>3. \A h \in Undone : guards[h].kind = "txn" \/ \E j \in 2 .. k : frames[j].name = h
      BY <2>4, <3>2 DEF FramesInv, l
    <3> QED
      BY <1>2, <2>2, <3>1, <3>3
  <2> QED
    BY <1>7, <1>10, <2>1, <2>3, <2>4
<1>11. ASSUME NEW x \in 1 .. Len(rows')
       PROVE  \/ x \in disk' \/ \E k \in 1 .. Len(frames') : x \in frames'[k].rows
              \/ \E h \in rows'[x] : Lost(h)'
  <2>1. CASE x \in 1 .. Len(rows)
    <3>1. rows'[x] = rows[x] /\ disk \subseteq disk'
      BY <1>3, <2>1
    <3>2. CASE x \in disk
      BY <3>1, <3>2
    <3>3. CASE \E k \in 1 .. l : x \in frames[k].rows
      BY <1>7, <3>3
    <3>4. CASE \E h \in rows[x] : Lost(h)
      BY <1>5, <1>6, <2>1, <3>1, <3>4
    <3>5. ~(frames = <<>> /\ Undone # {})
      BY IdleEngine
    <3> QED
      BY <2>1, <3>2, <3>3, <3>4, <3>5 DEF RowsInv, l
  <2>2. CASE x = x0
    <3>1. frames # <<>> => l \in 1 .. l
      BY <1>1 DEF l
    <3> QED
      BY <1>7, <2>2, <3>1
  <2> QED
    BY <1>3, <1>4, <2>1, <2>2
<1>12. disk' \subseteq 1 .. Len(rows') /\ \A x \in 1 .. Len(rows') : rows'[x] \subseteq AllGuards'
  <2>1. \A x \in 1 .. Len(rows) : x \in 1 .. x0
    BY <1>1
  <2>2. x0 \in 1 .. x0
    BY <1>1
  <2> QED
    BY <1>2, <1>3, <1>4, <1>6, <2>1, <2>2
<1>13. RowsInv'
  BY <1>10, <1>11, <1>12 DEF RowsInv
<1>14. disk' \in SUBSET Nat
  BY <1>1 DEF LiteTypes
<1> QED
  BY <1>3, <1>7, <1>8, <1>9, <1>13, <1>14

\* The rows are committed, and those that follow are in a transaction of their own, or BEGIN has failed.
LEMMA CommittedAndBegun ==
    ASSUME LiteInv, ~asserted, frames # <<>>, NEW g \in Undone, guards[g].kind = "txn",
           \A h \in AllGuards : guards[h].alive => h <= g, UNCHANGED guards,
           disk' = disk \cup Lite!AllRows(frames), rows' = [x \in DOMAIN rows |-> rows[x] \ {g}],
           frames' = <<[name |-> 0, rows |-> {}]>> \/ (frames' = <<>> /\ leaving')
    PROVE  /\ disk' \in SUBSET Nat /\ frames' \in Seq(FrameSet) /\ rows' \in Seq(SUBSET Nat)
           /\ Lite!UndoneRowsGone' /\ FramesInv' /\ RowsInv'
<1> USE DEF LiteInv
<1>1. /\ Undone = {g} /\ g \in AllGuards /\ guards[g].alive /\ ~guards[g].done
      /\ \A k \in 1 .. Len(frames) : \A x \in frames[k].rows :
            x \in 1 .. Len(rows) /\ g \in rows[x] /\ \A h \in rows[x] : h = g \/ Lite!Committed(h)
  BY OnlyUndone DEF Undone
<1>2. /\ Len(rows) \in Nat /\ DOMAIN rows = 1 .. Len(rows) /\ AllGuards' = AllGuards /\ Undone' = Undone
      /\ \A x \in 1 .. Len(rows) : rows[x] \in SUBSET Nat
  BY LiteFacts DEF Undone, AllGuards
<1>3. rows' \in Seq(SUBSET Nat) /\ Len(rows') = Len(rows) /\ \A x \in 1 .. Len(rows) : rows'[x] = rows[x] \ {g}
  <2>1. rows' = [x \in 1 .. Len(rows) |-> rows[x] \ {g}]
    BY <1>2
  <2>2. rows' \in [1 .. Len(rows) -> SUBSET Nat]
    BY <1>2, <2>1
  <2>3. rows' \in Seq(SUBSET Nat) /\ Len(rows') = Len(rows)
    BY <1>2, <2>2
  <2> QED
    BY <2>1, <2>3
<1>4. Lite!AllRows(frames) = UNION {frames[k].rows : k \in 1 .. Len(frames)}
  BY LiteFacts DEF Lite!AllRows
<1>5. \A x \in Lite!AllRows(frames) : x \in 1 .. Len(rows) /\ \A h \in rows[x] : h = g \/ Lite!Committed(h)
  BY <1>1, <1>4
<1>6. \A h \in AllGuards : (Lite!Committed(h)' <=> Lite!Committed(h)) /\ (Lost(h)' <=> Lost(h))
  BY DEF Lite!Committed, Lost
<1>7. ~Lost(g) /\ disk \subseteq 1 .. Len(rows) /\ \A x \in 1 .. Len(rows) : rows[x] \subseteq AllGuards
  BY <1>1 DEF Lost, GuardsInv, RowsInv
<1>8. Lite!UndoneRowsGone'
  <2> SUFFICES ASSUME NEW x \in disk', NEW h \in rows'[x] PROVE Lite!Committed(h)'
    BY DEF Lite!UndoneRowsGone
  <2>1. x \in 1 .. Len(rows)
    BY <1>5, <1>7
  <2>2. h \in rows[x] /\ h # g /\ h \in AllGuards
    BY <1>3, <1>7, <2>1
  <2>3. Lite!Committed(h)
    BY <1>5, <2>2 DEF Lite!UndoneRowsGone
  <2> QED
    BY <1>6, <2>2, <2>3
<1>9. /\ frames' \in Seq(FrameSet)
      /\ \/ Len(frames') = 1 /\ frames'[1].name = 0 /\ frames'[1].rows = {} /\ frames' # <<>>
         \/ Len(frames') = 0 /\ leaving'
  <2>1. CASE frames' = <<[name |-> 0, rows |-> {}]>>
    <3>1. [name |-> 0, rows |-> {}] \in FrameSet
      BY DEF FrameSet
    <3>2. frames' \in Seq(FrameSet) /\ Len(frames') = 1
      BY <2>1, <3>1
    <3>3. frames' # <<>>
      BY <2>1
    <3> QED
      BY <2>1, <3>2, <3>3
  <2>2. CASE frames' = <<>> /\ leaving'
    <3>1. <<>> \in Seq(FrameSet) /\ Len(<<>>) = 0
      OBVIOUS
    <3> QED
      BY <2>2, <3>1
  <2> QED
    BY <2>1, <2>2
<1>10. FramesInv'
  <2>1. frames' # <<>> <=> Len(frames') # 0
    BY <1>9
  <2> QED
    BY <1>1, <1>2, <1>9, <2>1, LiteFacts DEF FramesInv
<1>11. RowsInv'
  <2>1. \A k \in 1 .. Len(frames') : frames'[k].rows = {}
    BY <1>9
  <2>2. ASSUME NEW x \in 1 .. Len(rows) PROVE x \in disk' \/ \E h \in rows'[x] : Lost(h)'
    <3>1. CASE x \in disk \/ \E k \in 1 .. Len(frames) : x \in frames[k].rows
      BY <1>4, <3>1
    <3>2. CASE \E h \in rows[x] : Lost(h)
      BY <1>3, <1>6, <1>7, <3>2
    <3> QED
      BY <3>1, <3>2 DEF RowsInv
  <2>3. disk' \subseteq 1 .. Len(rows)
    BY <1>5, <1>7
  <2>4. \A x \in 1 .. Len(rows') : rows'[x] \subseteq AllGuards'
    BY <1>2, <1>3, <1>7
  <2> QED
    BY <1>3, <2>1, <2>2, <2>3, <2>4 DEF RowsInv
<1>12. disk' \in SUBSET Nat
  <2>1. disk' \subseteq 1 .. Len(rows)
    BY <1>5, <1>7
  <2> QED
    BY <2>1, LiteFacts
<1> QED
  BY <1>3, <1>8, <1>9, <1>10, <1>11, <1>12

\* A command has failed, or nothing is said to the engine.
LEMMA LiteKept ==
    ASSUME LiteInv, ~asserted, UNCHANGED <<frames, disk, guards, scopes, rows>>,
           leaving' \in BOOLEAN, asserted' \in BOOLEAN, leaving' \/ leaving' = leaving
    PROVE  LiteInv'
<1>1. AllGuards' = AllGuards /\ Undone' = Undone
  BY DEF AllGuards, Undone
<1>2. \A h \in AllGuards : /\ Lite!Committed(h)' = Lite!Committed(h) /\ Lost(h)' = Lost(h)
                           /\ (h \in Undone') = (h \in Undone) /\ guards'[h].kind = guards[h].kind
  BY <1>1 DEF Lite!Committed, Lost
<1>3. Lite!UndoneRowsGone' /\ FramesInv' /\ RowsInv'
  BY <1>1, <1>2, LiteSame
<1>4. GuardsInv'
  BY <1>1 DEF LiteInv, GuardsInv
<1>5. LiteTypes'
  BY DEF LiteInv, LiteTypes
<1> QED
  BY <1>3, <1>4, <1>5 DEF LiteInv

\* Scopes are opened and closed: the last one is closed after all guards are gone.
LEMMA LiteScopes == ASSUME LiteInv, Lite!OpenScope \/ Lite!CloseScope PROVE LiteInv'
<1>1. LiteTypes /\ GuardsInv /\ ~asserted /\ ~asserted'
  BY DEF LiteInv, Lite!OpenScope, Lite!CloseScope, Lite!Running
<1>2. scopes' \in Seq(Seq(Nat)) /\ GuardsInv'
  BY <1>1, ScopeMoves DEF Lite!OpenScope, Lite!CloseScope
<1>3. UNCHANGED <<frames, disk, guards, rows, asserted>> /\ leaving' \in BOOLEAN
  BY DEF Lite!OpenScope, Lite!CloseScope, LiteInv, LiteTypes
<1>4. leaving' = leaving \/ Undone = {}
  <2>1. CASE Lite!OpenScope
    BY <2>1 DEF Lite!OpenScope
  <2>2. CASE Lite!CloseScope
    <3>1. CASE Len(scopes) > 1
      BY <2>2, <3>1 DEF Lite!CloseScope, LiteInv, LiteTypes
    <3>2. CASE ~(Len(scopes) > 1)
      <4>1. \A k \in 1 .. Len(scopes) : k = Len(scopes)
        <5>1. Len(scopes) \in Nat
          BY <1>1, LiteFacts
        <5> QED
          BY <3>2, <5>1
      <4>2. \A k \in 1 .. Len(scopes) : scopes[k] = <<>>
        BY <2>2, <4>1 DEF Lite!CloseScope, Lite!Last
      <4>3. \A h \in AllGuards : ~guards[h].alive
        BY <1>1, <4>2 DEF GuardsInv
      <4> QED
        BY <4>3 DEF Undone
    <3> QED
      BY <3>1, <3>2
  <2> QED
    BY <2>1, <2>2
<1>5. AllGuards' = AllGuards /\ Undone' = Undone
  BY <1>3 DEF AllGuards, Undone
<1>6. \A h \in AllGuards : /\ Lite!Committed(h)' = Lite!Committed(h) /\ Lost(h)' = Lost(h)
                           /\ (h \in Undone') = (h \in Undone) /\ guards'[h].kind = guards[h].kind
  BY <1>3, <1>5 DEF Lite!Committed, Lost
<1>7. Lite!UndoneRowsGone' /\ FramesInv' /\ RowsInv'
  BY <1>1, <1>3, <1>4, <1>5, <1>6, LiteSame
<1>8. LiteTypes'
  BY <1>1, <1>2, <1>3 DEF LiteTypes
<1> QED
  BY <1>2, <1>7, <1>8 DEF LiteInv

\* A command that is done and one that failed
LEMMA Executed ==
    ASSUME NEW S, NEW ok \in BOOLEAN, Lite!Exec(S, ok)
    PROVE  IF ok THEN \E s \in S : frames' = s.frames /\ disk' = s.disk ELSE UNCHANGED <<frames, disk>>
  BY DEF Lite!Exec

\* make_transaction()
LEMMA TransactionMade ==
    ASSUME PerScope = 1, LiteInv, NEW ok \in BOOLEAN, Lite!MakeTransaction(ok)
    PROVE  LiteInv'
<1>1. LiteTypes /\ GuardsInv /\ ~asserted /\ ~asserted' /\ UNCHANGED rows /\ Lite!Running /\ leaving' = ~ok
  BY DEF LiteInv, Lite!MakeTransaction, Lite!CanGuard, Lite!Running
<1>2. CASE ~ok
  <2>1. leaving' = TRUE /\ asserted' \in BOOLEAN
    BY <1>1, <1>2 DEF Lite!MakeTransaction, LiteTypes
  <2>2. UNCHANGED <<frames, disk, guards, scopes, rows>>
    BY <1>1, <1>2 DEF Lite!MakeTransaction, Lite!Exec
  <2> QED
    BY <1>1, <2>1, <2>2, LiteKept
<1>3. CASE ok
  <2> DEFINE v == [kind |-> "txn", done |-> FALSE, alive |-> TRUE]
  <2>1. v \in GuardSet /\ v.alive /\ ~v.done /\ v.kind = "txn"
    BY DEF GuardSet
  <2>2. scopes # <<>> /\ Len(Lite!Last(scopes)) < 1 /\ Lite!Guarded("txn")
    BY <1>3 DEF Lite!MakeTransaction, Lite!CanGuard
  <2> HIDE DEF v
  <2>3. /\ guards' \in Seq(GuardSet) /\ scopes' \in Seq(Seq(Nat)) /\ Len(guards') = Len(guards) + 1
        /\ guards'[Len(guards) + 1] = v /\ \A h \in AllGuards : guards'[h] = guards[h]
        /\ AllGuards' = AllGuards \cup {Len(guards) + 1} /\ GuardsInv'
    BY <1>1, <2>1, <2>2, GuardMade
  <2>4. frames = <<>> /\ frames' = <<[name |-> 0, rows |-> {}]>> /\ disk' = disk
    <3>1. PICK s \in Lite!Begin : frames' = s.frames /\ disk' = s.disk
      BY <1>3 DEF Lite!MakeTransaction, Lite!Exec
    <3> QED
      BY <3>1 DEF Lite!Begin, Lite!Db
  <2>5. frames' \in Seq(FrameSet) /\ Len(frames') = 1 /\ frames'[1].name = 0 /\ frames'[1].rows = {}
    <3>1. [name |-> 0, rows |-> {}] \in FrameSet
      BY DEF FrameSet
    <3> QED
      BY <2>4, <3>1
  <2>6. Undone = {}
    BY <1>1, <2>4, IdleEngine
  <2>7. Lite!UndoneRowsGone' /\ FramesInv' /\ RowsInv'
    BY <1>1, <2>1, <2>3, <2>4, <2>5, <2>6, FrameMade
  <2>8. LiteTypes'
    <3>1. leaving' \in BOOLEAN /\ asserted' \in BOOLEAN
      BY <1>1, <1>3 DEF Lite!MakeTransaction, LiteTypes
    <3> QED
      BY <1>1, <2>3, <2>4, <2>5, <3>1 DEF LiteTypes
  <2> QED
    BY <2>3, <2>7, <2>8 DEF LiteInv
<1> QED
  BY <1>2, <1>3

\* make_savepoint()
LEMMA SavepointMade ==
    ASSUME Named = TRUE, PerScope = 1, LiteInv, NEW owned \in BOOLEAN, NEW ok \in BOOLEAN,
           Lite!MakeSavepoint(owned, ok)
    PROVE  LiteInv'
<1>1. /\ LiteTypes /\ GuardsInv /\ ~asserted /\ UNCHANGED rows /\ Lite!Running /\ leaving' = ~ok
      /\ asserted' \in {FALSE, ~ok} /\ frames # <<>>
  BY DEF LiteInv, Lite!MakeSavepoint, Lite!CanGuard, Lite!Running
<1>2. CASE ~ok
  <2>1. leaving' = TRUE /\ asserted' \in BOOLEAN
    BY <1>1, <1>2
  <2>2. UNCHANGED <<frames, disk, guards, scopes, rows>>
    BY <1>1, <1>2 DEF Lite!MakeSavepoint, Lite!Exec
  <2> QED
    BY <1>1, <2>1, <2>2, LiteKept
<1>3. CASE ok
  <2> DEFINE v == [kind |-> "sp", done |-> FALSE, alive |-> TRUE]
             g == Len(guards) + 1
  <2>1. v \in GuardSet /\ v.alive /\ ~v.done /\ v.kind = "sp"
    BY DEF GuardSet
  <2>2. scopes # <<>> /\ Len(Lite!Last(scopes)) < 1 /\ Lite!Guarded("sp")
    BY <1>3 DEF Lite!MakeSavepoint, Lite!CanGuard
  <2> HIDE DEF v
  <2>3. /\ guards' \in Seq(GuardSet) /\ scopes' \in Seq(Seq(Nat)) /\ Len(guards') = Len(guards) + 1
        /\ guards'[Len(guards) + 1] = v /\ \A h \in AllGuards : guards'[h] = guards[h]
        /\ AllGuards' = AllGuards \cup {Len(guards) + 1} /\ GuardsInv'
    BY <1>1, <2>1, <2>2, GuardMade
  <2> DEFINE f == [name |-> g, rows |-> {}]
  <2>4. frames' = Append(frames, f) /\ disk' = disk
    <3>1. \E s \in IF owned THEN {} ELSE Lite!Savepoint(g) : frames' = s.frames /\ disk' = s.disk
      BY <1>3 DEF Lite!MakeSavepoint, Lite!Exec, Lite!NameOf
    <3>2. PICK s \in Lite!Savepoint(g) : frames' = s.frames /\ disk' = s.disk
      BY <3>1
    <3> QED
      BY <3>2 DEF Lite!Savepoint, Lite!Db
  <2>5. f \in FrameSet /\ f.name = g /\ f.rows = {}
    BY <1>1, LiteFacts DEF FrameSet
  <2> HIDE DEF f, g
  <2>6. /\ frames' \in Seq(FrameSet) /\ Len(frames') = Len(frames) + 1 /\ frames'[Len(frames) + 1] = f
        /\ \A k \in 1 .. Len(frames) : frames'[k] = frames[k]
    BY <1>1, <2>4, <2>5, AppendProperties DEF LiteTypes
  <2>7. Lite!UndoneRowsGone' /\ FramesInv' /\ RowsInv'
    <3>1. /\ frames # <<>> /\ v.kind = "sp" /\ Len(frames') = Len(frames) + 1
          /\ \A k \in 1 .. Len(frames) : frames'[k] = frames[k]
          /\ frames'[Len(frames) + 1].name = g /\ frames'[Len(frames) + 1].rows = {}
      BY <1>1, <2>1, <2>5, <2>6
    <3>2. g = Len(guards) + 1
      BY DEF g
    <3>3. /\ Len(guards') = g /\ guards'[g] = v /\ \A h \in AllGuards : guards'[h] = guards[h]
          /\ AllGuards' = AllGuards \cup {g}
      BY <2>3, <3>2
    <3> QED
      BY <1>1, <2>1, <2>4, <2>6, <3>1, <3>2, <3>3, FrameMade
  <2>8. LiteTypes'
    BY <1>1, <1>3, <2>3, <2>4, <2>6 DEF LiteTypes
  <2> QED
    BY <2>3, <2>7, <2>8 DEF LiteInv
<1> QED
  BY <1>2, <1>3

\* A statement writes a row, or fails, and may take the whole transaction with it.
LEMMA RowTried == ASSUME LiteInv, NEW outcome, Lite!Write(outcome) PROVE LiteInv'
<1>1. /\ LiteTypes /\ GuardsInv /\ ~asserted /\ ~asserted' /\ UNCHANGED <<guards, scopes, asserted>> /\ Lite!Running
  BY DEF LiteInv, Lite!Write, Lite!Running
<1>2. AllGuards' = AllGuards /\ Undone' = Undone /\ GuardsInv'
  BY <1>1 DEF AllGuards, Undone, GuardsInv
<1>3. CASE leaving' = TRUE /\ UNCHANGED <<frames, disk, rows>>
  <2>1. leaving' = TRUE /\ asserted' \in BOOLEAN
    BY <1>1, <1>3 DEF LiteTypes
  <2> QED
    BY <1>1, <1>3, <2>1, LiteKept
<1>4. CASE /\ rows' = Append(rows, {g \in Lite!Open : ~guards[g].done}) /\ UNCHANGED leaving
           /\ IF frames = <<>> THEN disk' = disk \cup {Len(rows) + 1} /\ UNCHANGED frames
              ELSE /\ frames' = [frames EXCEPT ![Len(frames)].rows = @ \cup {Len(rows) + 1}]
                   /\ UNCHANGED disk
  <2>1. {g \in Lite!Open : ~guards[g].done} = Undone
    BY <1>1, LiteFacts DEF Lite!Open, Undone
  <2>2. /\ frames' \in Seq(FrameSet) /\ rows' \in Seq(SUBSET Nat) /\ disk' \in SUBSET Nat
        /\ Lite!UndoneRowsGone' /\ FramesInv' /\ RowsInv'
    BY <1>1, <1>4, <2>1, RowWritten
  <2>3. LiteTypes'
    BY <1>1, <1>4, <2>2 DEF LiteTypes
  <2> QED
    BY <1>2, <2>2, <2>3 DEF LiteInv
<1>5. CASE frames' = <<>> /\ leaving' = TRUE /\ UNCHANGED <<disk, rows>>
  <2>1. \A h : Lite!Committed(h)' = Lite!Committed(h) /\ Lost(h)' = Lost(h)
    BY <1>1 DEF Lite!Committed, Lost
  <2>2. Lite!UndoneRowsGone'
    BY <1>5, <2>1 DEF LiteInv, Lite!UndoneRowsGone
  <2>3. <<>> \in Seq(FrameSet) /\ Len(<<>>) = 0
    OBVIOUS
  <2>4. FramesInv'
    BY <1>5, <2>3 DEF FramesInv
  <2>5. Undone = {} => frames = <<>>
    BY <1>1 DEF LiteInv, FramesInv
  <2>6. RowsInv'
    <3>1. \A x \in 1 .. Len(rows) : \/ x \in disk
                                    \/ \E g \in rows[x] : Lost(g)
                                    \/ Undone # {}
      <4>1. Undone = {} => Len(frames) = 0
        BY <2>3, <2>5
      <4>2. RowsInv
        BY <1>1 DEF LiteInv
      <4>3. ASSUME Undone = {}, NEW x \in 1 .. Len(rows) PROVE x \in disk \/ \E g \in rows[x] : Lost(g)
        <5>1. ~\E k \in 1 .. Len(frames) : x \in frames[k].rows
          BY <4>1, <4>3
        <5> QED
          BY <4>2, <4>3, <5>1 DEF RowsInv
      <4> QED
        BY <4>3
    <3>2. \A x \in 1 .. Len(rows) : rows[x] \subseteq AllGuards
      BY <1>1 DEF LiteInv, RowsInv
    <3>3. disk \subseteq 1 .. Len(rows)
      BY <1>1 DEF LiteInv, RowsInv
    <3>4. Len(frames') = 0
      BY <1>5, <2>3
    <3>5. \A x \in 1 .. Len(rows) : \/ x \in disk
                                    \/ \E g \in rows[x] : Lost(g)'
                                    \/ Undone # {}
      BY <2>1, <3>1
    <3> QED
      BY <1>2, <1>5, <3>2, <3>3, <3>4, <3>5 DEF RowsInv
  <2>7. LiteTypes'
    BY <1>1, <1>5, <2>3 DEF LiteTypes
  <2> QED
    BY <1>2, <2>2, <2>4, <2>6, <2>7 DEF LiteInv
<1> QED
  BY <1>3, <1>4, <1>5 DEF Lite!Write

\* A savepoint that is not done has its frame, unless the engine rolled back.
LEMMA FrameOf ==
    ASSUME LiteInv, ~asserted, frames # <<>>, NEW g \in Undone, guards[g].kind = "sp"
    PROVE  \E k \in 2 .. Len(frames) : frames[k].name = g
<1>1. PICK t \in Undone : /\ guards[t].kind = "txn"
                          /\ \A h \in Undone : \/ h = t
                                               \/ h > t /\ \E k \in 2 .. Len(frames) : frames[k].name = h
  BY DEF LiteInv, FramesInv
<1>2. g # t
  BY <1>1
<1> QED
  BY <1>1, <1>2

\* A guard that is not done stands for a transaction or a savepoint.
LEMMA UndoneKind ==
    ASSUME LiteInv, ~asserted, NEW g \in Undone
    PROVE  g \in AllGuards /\ guards[g] \in GuardSet /\ ~guards[g].done /\ guards[g].alive /\ guards[g].kind \in {"txn", "sp"}
<1>1. g \in AllGuards /\ ~guards[g].done /\ guards[g].alive
  BY DEF Undone
<1>2. guards[g] \in GuardSet
  BY <1>1, LiteFacts DEF LiteInv
<1>3. guards[g].kind # "rolled_back"
  BY <1>1 DEF LiteInv, GuardsInv
<1> QED
  BY <1>1, <1>2, <1>3 DEF GuardSet

\* COMMIT and ROLLBACK
LEMMA EndDone ==
    ASSUME NEW s, frames' = s.frames, disk' = s.disk, s \in Lite!Commit \/ s \in Lite!Rollback
    PROVE  /\ frames # <<>> /\ frames' = <<>>
           /\ s \in Lite!Commit => disk' = disk \cup Lite!AllRows(frames)
           /\ s \in Lite!Rollback => disk' = disk
  BY DEF Lite!Commit, Lite!Rollback, Lite!Db

\* RELEASE
LEMMA ReleaseDone ==
    ASSUME LiteInv, ~asserted, NEW k \in 2 .. Len(frames), NEW g \in Nat, frames[k].name = g,
           NEW s \in Lite!Release(g), frames' = s.frames, disk' = s.disk
    PROVE  /\ disk' = disk /\ frames' \in Seq(FrameSet) /\ Len(frames') = k - 1
           /\ \A m \in 1 .. k - 1 : /\ frames'[m].name = frames[m].name
                                    /\ m < k - 1 => frames'[m].rows = frames[m].rows
           /\ frames'[k - 1].rows = frames[k - 1].rows \cup UNION {frames[m].rows : m \in k .. Len(frames)}
<1>1. LiteTypes /\ FramesInv /\ Len(frames) \in Nat /\ k - 1 \in 1 .. Len(frames) /\ k \in 1 .. Len(frames) /\ k > 1
  BY LiteFacts DEF LiteInv
<1>2. Lite!Match(g) = k
  BY <1>1, MatchIs
<1> DEFINE cut == SubSeq(frames, 1, k - 1)
           up == SubSeq(frames, k, Len(frames))
           rws == frames[k - 1].rows \cup Lite!AllRows(up)
<1>3. disk' = disk /\ RowsSet(frames', cut, k - 1, rws)
  <2> DEFINE Y == [cut EXCEPT ![k - 1].rows = rws]
             i0 == Lite!Match(g)
             Arm(b) == {[Lite!Db EXCEPT !.frames = [SubSeq(@, 1, b - 1) EXCEPT
                            ![b - 1].rows = frames[b - 1].rows \cup Lite!AllRows(SubSeq(frames, b, Len(frames)))]]}
  <2>1. Lite!Release(g) = CASE i0 = 0 -> {} [] i0 = 1 -> Lite!Commit [] i0 > 1 -> Arm(i0)
    BY DEF Lite!Release
  <2>2. Arm(k) = {[Lite!Db EXCEPT !.frames = Y]}
    BY DEF Lite!Db
  <2> HIDE DEF Y, i0, Arm
  <2>3. i0 = k
    BY <1>2 DEF i0
  <2>4. Lite!Release(g) = Arm(k)
    BY <1>1, <2>1, <2>3
  <2>5. s = [Lite!Db EXCEPT !.frames = Y]
    BY <2>2, <2>4
  <2>6. s.disk = disk /\ s.frames = Y
    BY <2>5 DEF Lite!Db
  <2> QED
    BY <2>6 DEF RowsSet, Y
<1>4. cut \in Seq(FrameSet) /\ Len(cut) = k - 1 /\ \A m \in 1 .. k - 1 : cut[m] = frames[m]
  BY <1>1, CutAt
<1>5. Lite!AllRows(up) = UNION {frames[m].rows : m \in k .. Len(frames)}
  <2> DEFINE l == Len(frames)
  <2>1. frames \in Seq(FrameSet) /\ l \in Nat
    BY <1>1 DEF LiteTypes
  <2>2. \A m \in k .. l : frames[m] \in FrameSet
    BY <1>1, LiteFacts
  <2>3. /\ up \in Seq(FrameSet) /\ Len(up) = IF k <= l THEN l - k + 1 ELSE 0
        /\ \A m \in 1 .. l - k + 1 : up[m] = frames[k + m - 1]
    BY <1>1, <2>1, <2>2, SubSeqProperties
  <2> HIDE DEF up, l
  <2>4. DOMAIN up = 1 .. l - k + 1
    BY <1>1, <2>3 DEF l
  <2>5. \A m \in 1 .. l - k + 1 : k + m - 1 \in k .. l
    BY <1>1, <2>1
  <2>6. \A m \in k .. l : m - k + 1 \in 1 .. l - k + 1 /\ k + (m - k + 1) - 1 = m
    BY <1>1, <2>1
  <2>7. ASSUME NEW x \in Lite!AllRows(up) PROVE x \in UNION {frames[m].rows : m \in k .. l}
    <3>1. PICK m \in 1 .. l - k + 1 : x \in up[m].rows
      BY <2>4, <2>7 DEF Lite!AllRows
    <3> QED
      BY <2>3, <2>5, <3>1
  <2>8. ASSUME NEW x \in UNION {frames[m].rows : m \in k .. l} PROVE x \in Lite!AllRows(up)
    <3>1. PICK m \in k .. l : x \in frames[m].rows
      BY <2>8
    <3>2. x \in up[m - k + 1].rows /\ m - k + 1 \in DOMAIN up
      BY <2>3, <2>4, <2>6, <3>1
    <3> QED
      BY <3>2 DEF Lite!AllRows
  <2> QED
    BY <2>7, <2>8 DEF l
<1>6. rws \in SUBSET Nat
  <2>1. \A m \in 1 .. Len(frames) : frames[m].rows \in SUBSET Nat
    BY <1>1, LiteFacts DEF FrameSet
  <2>2. UNION {frames[m].rows : m \in k .. Len(frames)} \in SUBSET Nat
    BY <1>1, <2>1
  <2>3. cut[k - 1].rows \in SUBSET Nat
    BY <1>1, <1>4, <2>1
  <2> QED
    BY <1>5, <2>2, <2>3
<1>7. rws = frames[k - 1].rows \cup UNION {frames[m].rows : m \in k .. Len(frames)}
  BY <1>1, <1>4, <1>5
<1> HIDE DEF cut, up, rws
<1>8. /\ frames' \in Seq(FrameSet) /\ Len(frames') = k - 1 /\ frames'[k - 1].rows = rws
      /\ \A m \in 1 .. k - 1 : frames'[m].name = cut[m].name /\ (m # k - 1 => frames'[m].rows = cut[m].rows)
  <2> DEFINE j == k - 1
  <2>1. j \in 1 .. Len(cut) /\ RowsSet(frames', cut, j, rws) /\ Len(cut) = j
    BY <1>1, <1>3, <1>4
  <2> HIDE DEF j
  <2>2. /\ frames' \in Seq(FrameSet) /\ Len(frames') = Len(cut) /\ frames'[j].rows = rws
        /\ \A m \in 1 .. Len(cut) : frames'[m].name = cut[m].name /\ (m # j => frames'[m].rows = cut[m].rows)
    <3>1. WithRows(frames', cut, j, rws)
      BY <1>4, <1>6, <2>1 DEF WithRows
    <3>2. HasRows(frames', cut, j, rws)
      BY <3>1, FrameChanged
    <3> QED
      BY <3>2 DEF HasRows
  <2> QED
    BY <2>1, <2>2 DEF j
<1>9. \A m \in 1 .. k - 1 : /\ frames'[m].name = frames[m].name
                            /\ m < k - 1 => frames'[m].rows = frames[m].rows
  <2> SUFFICES ASSUME NEW m \in 1 .. k - 1
               PROVE  frames'[m].name = frames[m].name /\ (m < k - 1 => frames'[m].rows = frames[m].rows)
    OBVIOUS
  <2>1. cut[m] = frames[m]
    BY <1>4
  <2>2. frames'[m].name = cut[m].name /\ (m # k - 1 => frames'[m].rows = cut[m].rows)
    BY <1>8
  <2>3. m < k - 1 => m # k - 1
    BY <1>1
  <2> QED
    BY <2>1, <2>2, <2>3
<1>10. frames'[k - 1].rows = frames[k - 1].rows \cup UNION {frames[m].rows : m \in k .. Len(frames)}
  <2>1. frames'[k - 1].rows = rws
    BY <1>8
  <2> QED
    BY <2>1, <1>7
<1>11. frames' \in Seq(FrameSet) /\ Len(frames') = k - 1
  BY <1>8
<1>12. disk' = disk
  BY <1>3
<1> QED
  BY <1>9, <1>10, <1>11, <1>12

\* ROLLBACK TO
LEMMA RollbackToDone ==
    ASSUME LiteInv, ~asserted, NEW g \in Undone, guards[g].kind = "sp",
           NEW s \in Lite!RollbackTo(g), frames' = s.frames, disk' = s.disk
    PROVE  \E k \in 2 .. Len(frames) :
              /\ frames[k].name = g
              /\ disk' = disk /\ frames' \in Seq(FrameSet) /\ Len(frames') = k
              /\ \A m \in 1 .. k : frames'[m].name = frames[m].name /\ (m < k => frames'[m].rows = frames[m].rows)
              /\ frames'[k].rows = {}
<1>1. LiteTypes /\ FramesInv /\ Len(frames) \in Nat /\ g \in Nat
  BY LiteFacts DEF LiteInv, Undone, AllGuards
<1>2. Lite!Match(g) # 0
  BY DEF Lite!RollbackTo
<1>3. frames # <<>>
  <2>1. Len(<<>>) = 0
    OBVIOUS
  <2> QED
    BY <1>1, <1>2, <2>1, MatchIs
<1>4. PICK k \in 2 .. Len(frames) : frames[k].name = g
  BY <1>3, FrameOf
<1>5. k \in 1 .. Len(frames) /\ k \in 1 .. k /\ Lite!Match(g) = k
  BY <1>1, <1>4, MatchIs
<1> DEFINE cut == SubSeq(frames, 1, k)
<1>6. disk' = disk /\ RowsSet(frames', cut, k, {})
  <2>1. s = [Lite!Db EXCEPT !.frames = [SubSeq(@, 1, k) EXCEPT ![k].rows = {}]]
    BY <1>2, <1>5 DEF Lite!RollbackTo
  <2>2. s.disk = disk /\ s.frames = [cut EXCEPT ![k].rows = {}]
    BY <2>1 DEF Lite!Db
  <2> QED
    BY <2>2 DEF RowsSet
<1>7. cut \in Seq(FrameSet) /\ Len(cut) = k /\ \A m \in 1 .. k : cut[m] = frames[m]
  BY <1>1, <1>5, CutAt
<1> HIDE DEF cut
<1>8. /\ frames' \in Seq(FrameSet) /\ Len(frames') = k /\ frames'[k].rows = {}
      /\ \A m \in 1 .. k : frames'[m].name = cut[m].name /\ (m # k => frames'[m].rows = cut[m].rows)
  <2>1. k \in 1 .. Len(cut) /\ {} \in SUBSET Nat
    BY <1>5, <1>7
  <2>2. /\ frames' \in Seq(FrameSet) /\ Len(frames') = Len(cut) /\ frames'[k].rows = {}
        /\ \A m \in 1 .. Len(cut) : frames'[m].name = cut[m].name /\ (m # k => frames'[m].rows = cut[m].rows)
    <3>1. WithRows(frames', cut, k, {})
      BY <1>6, <1>7, <2>1 DEF WithRows
    <3>2. HasRows(frames', cut, k, {})
      BY <3>1, FrameChanged
    <3> QED
      BY <3>2 DEF HasRows
  <2> QED
    BY <1>7, <2>2
<1>9. \A m \in 1 .. k : m < k => m # k
  BY <1>5
<1> QED
  BY <1>4, <1>6, <1>7, <1>8, <1>9

\* The innermost guard that is not done, while the task is running
LEMMA Innermost2 ==
    ASSUME LiteInv, Lite!Running, NEW g \in Lite!Open, ~guards[g].done, g = Lite!Max(Lite!Open)
    PROVE  /\ g \in Undone /\ frames # <<>> /\ g \in AllGuards
           /\ \A h \in AllGuards : guards[h].alive => h <= g
<1>1. g \in AllGuards /\ guards[g].alive /\ \A h \in AllGuards : guards[h].alive => h <= g
  BY Innermost DEF LiteInv
<1>2. g \in Undone
  BY <1>1 DEF Undone
<1> QED
  BY <1>1, <1>2, IdleEngine

\* A savepoint is released: what it wrote belongs to the frame below.
LEMMA SavepointReleased ==
    ASSUME LiteInv, ~asserted, frames # <<>>, NEW g \in Undone, guards[g].kind = "sp",
           \A h \in AllGuards : guards[h].alive => h <= g, UNCHANGED rows,
           NEW v \in GuardSet, guards' = [guards EXCEPT ![g] = v], v.kind = "sp", v.done,
           NEW s \in Lite!Release(g), frames' = s.frames, disk' = s.disk
    PROVE  disk' = disk /\ frames' \in Seq(FrameSet) /\ Lite!UndoneRowsGone' /\ FramesInv' /\ RowsInv'
<1>1. g \in Nat
  BY DEF Undone, AllGuards
<1>2. PICK k \in 2 .. Len(frames) : frames[k].name = g
  BY FrameOf
<1>3. /\ disk' = disk /\ frames' \in Seq(FrameSet) /\ Len(frames') = k - 1
      /\ \A m \in 1 .. k - 1 : /\ frames'[m].name = frames[m].name
                               /\ m < k - 1 => frames'[m].rows = frames[m].rows
      /\ frames'[k - 1].rows = frames[k - 1].rows \cup UNION {frames[m].rows : m \in k .. Len(frames)}
  BY <1>1, <1>2, ReleaseDone
<1> QED
  BY <1>2, <1>3, SavepointEnds

\* A savepoint is rolled back and its guard destroyed.
LEMMA SavepointUndone ==
    ASSUME LiteInv, ~asserted, NEW g \in Undone, guards[g].kind = "sp",
           \A h \in AllGuards : guards[h].alive => h <= g, UNCHANGED rows,
           NEW v \in GuardSet, guards' = [guards EXCEPT ![g] = v], v.kind = "sp", ~v.done, ~v.alive,
           NEW s \in Lite!RollbackTo(g), frames' = s.frames, disk' = s.disk
    PROVE  disk' = disk /\ frames' \in Seq(FrameSet) /\ Lite!UndoneRowsGone' /\ FramesInv' /\ RowsInv'
<1>1. PICK k \in 2 .. Len(frames) :
              /\ frames[k].name = g
              /\ disk' = disk /\ frames' \in Seq(FrameSet) /\ Len(frames') = k
              /\ \A m \in 1 .. k : frames'[m].name = frames[m].name /\ (m < k => frames'[m].rows = frames[m].rows)
              /\ frames'[k].rows = {}
  BY RollbackToDone
<1> QED
  BY <1>1, SavepointEnds

\* commit() and release()
LEMMA GuardFinished ==
    ASSUME Named = TRUE, LiteInv, NEW g, NEW ok \in BOOLEAN, Lite!Finish(g, ok)
    PROVE  LiteInv'
<1>1. /\ LiteTypes /\ GuardsInv /\ ~asserted /\ ~asserted' /\ UNCHANGED <<scopes, rows, asserted>> /\ Lite!Running
      /\ g \in Lite!Open /\ ~guards[g].done /\ g = Lite!Max(Lite!Open) /\ leaving' = ~ok
  BY DEF LiteInv, Lite!Finish, Lite!Running
<1>2. g \in Undone /\ frames # <<>> /\ g \in AllGuards /\ \A h \in AllGuards : guards[h].alive => h <= g
  BY <1>1, Innermost2
<1>3. guards[g] \in GuardSet /\ guards[g].alive /\ guards[g].kind \in {"txn", "sp"}
  BY <1>1, <1>2, UndoneKind
<1> DEFINE v == [guards[g] EXCEPT !.done = ok]
<1>4. v \in GuardSet /\ v.done = ok /\ v.kind = guards[g].kind /\ v.alive
  BY <1>3 DEF GuardSet
<1>5. guards' = [guards EXCEPT ![g] = v]
  BY DEF Lite!Finish
<1> HIDE DEF v
<1>6. CASE ~ok
  <2>1. v = guards[g]
    BY <1>1, <1>3, <1>6 DEF GuardSet, v
  <2>2. guards' = guards
    BY <1>1, <1>2, <1>5, <2>1 DEF LiteTypes
  <2>3. UNCHANGED <<frames, disk>> /\ leaving' = TRUE /\ asserted' \in BOOLEAN
    BY <1>1, <1>6 DEF Lite!Finish, Lite!Exec, LiteTypes
  <2> QED
    BY <1>1, <2>2, <2>3, LiteKept
<1>7. CASE ok
  <2>1. /\ guards' \in Seq(GuardSet) /\ Len(guards') = Len(guards) /\ guards'[g] = v
        /\ \A h \in AllGuards \ {g} : guards'[h] = guards[h]
        /\ AllGuards' = AllGuards
    BY <1>1, <1>2, <1>4, <1>5, GuardChanged
  <2>2. GuardsInv'
    <3>1. \A h \in AllGuards : guards[h].kind = "rolled_back" => guards[h].done
      BY <1>1 DEF GuardsInv
    <3>2. \A h \in AllGuards : /\ guards'[h].alive = guards[h].alive
                               /\ guards'[h].kind = "rolled_back" => guards'[h].done
      BY <1>2, <1>3, <1>4, <2>1, <3>1, <1>7
    <3> QED
      BY <1>1, <2>1, <3>2, GuardsKept
  <2>3. /\ disk' \in SUBSET Nat /\ frames' \in Seq(FrameSet)
        /\ Lite!UndoneRowsGone' /\ FramesInv' /\ RowsInv'
    <3>1. PICK s \in IF guards[g].kind = "txn" THEN Lite!Commit ELSE Lite!Release(g) :
             frames' = s.frames /\ disk' = s.disk
      BY <1>7 DEF Lite!Finish, Lite!Exec, Lite!NameOf
    <3>2. CASE guards[g].kind = "txn"
      <4>1. s \in Lite!Commit
        BY <3>1, <3>2
      <4>2. frames' = <<>> /\ disk' = disk \cup Lite!AllRows(frames)
        BY <3>1, <4>1, EndDone
      <4> QED
        BY <1>1, <1>2, <1>4, <1>5, <1>7, <3>2, <4>2, LiteEnds
    <3>3. CASE guards[g].kind = "sp"
      <4>1. s \in Lite!Release(g)
        BY <3>1, <3>3
      <4>2. disk' = disk /\ frames' \in Seq(FrameSet) /\ Lite!UndoneRowsGone' /\ FramesInv' /\ RowsInv'
        BY <1>1, <1>2, <1>4, <1>5, <1>7, <3>1, <3>3, <4>1, SavepointReleased
      <4> QED
        BY <1>1, <4>2 DEF LiteTypes
    <3> QED
      BY <1>3, <3>2, <3>3
  <2>4. LiteTypes'
    BY <1>1, <1>7, <2>1, <2>3 DEF LiteTypes
  <2> QED
    BY <2>2, <2>3, <2>4 DEF LiteInv
<1> QED
  BY <1>6, <1>7

\* transaction_t::rollback()
LEMMA TransactionRolledBack ==
    ASSUME LiteInv, NEW g, NEW ok \in BOOLEAN, Lite!RollbackTransaction(g, ok)
    PROVE  LiteInv'
<1>1. /\ LiteTypes /\ GuardsInv /\ ~asserted /\ ~asserted' /\ UNCHANGED <<scopes, rows, asserted>> /\ Lite!Running
      /\ g \in Lite!Open /\ ~guards[g].done /\ g = Lite!Max(Lite!Open) /\ guards[g].kind = "txn" /\ leaving' = ~ok
  BY DEF LiteInv, Lite!RollbackTransaction, Lite!Running
<1>2. g \in Undone /\ frames # <<>> /\ g \in AllGuards /\ \A h \in AllGuards : guards[h].alive => h <= g
  BY <1>1, Innermost2
<1>3. guards[g] \in GuardSet /\ guards[g].alive
  BY <1>1, <1>2, UndoneKind
<1>4. CASE ~ok
  <2>1. UNCHANGED <<frames, disk, guards>> /\ leaving' = TRUE /\ asserted' \in BOOLEAN
    BY <1>1, <1>4 DEF Lite!RollbackTransaction, Lite!Exec, LiteTypes
  <2> QED
    BY <1>1, <2>1, LiteKept
<1>5. CASE ok
  <2> DEFINE v == [guards[g] EXCEPT !.kind = "rolled_back", !.done = TRUE]
  <2>1. v \in GuardSet /\ v.done /\ v.kind = "rolled_back" /\ v.alive
    BY <1>3 DEF GuardSet
  <2>2. guards' = [guards EXCEPT ![g] = v]
    <3>1. guards' = [guards EXCEPT ![g].kind = "rolled_back", ![g].done = TRUE]
      BY <1>5 DEF Lite!RollbackTransaction
    <3>2. [guards EXCEPT ![g].kind = "rolled_back", ![g].done = TRUE] = [guards EXCEPT ![g] = v]
      BY <1>1, <1>2, <1>3, LiteFacts DEF GuardSet
    <3> QED
      BY <3>1, <3>2
  <2> HIDE DEF v
  <2>3. /\ guards' \in Seq(GuardSet) /\ Len(guards') = Len(guards) /\ guards'[g] = v
        /\ \A h \in AllGuards \ {g} : guards'[h] = guards[h]
        /\ AllGuards' = AllGuards
    BY <1>1, <1>2, <2>1, <2>2, GuardChanged
  <2>4. GuardsInv'
    <3>1. \A h \in AllGuards : guards[h].kind = "rolled_back" => guards[h].done
      BY <1>1 DEF GuardsInv
    <3>2. \A h \in AllGuards : /\ guards'[h].alive = guards[h].alive
                               /\ guards'[h].kind = "rolled_back" => guards'[h].done
      <4>1. guards'[g].alive = guards[g].alive /\ guards'[g].done
        BY <1>3, <2>1, <2>3
      <4>2. \A h \in AllGuards \ {g} : guards'[h] = guards[h]
        BY <2>3
      <4> QED
        BY <3>1, <4>1, <4>2
    <3> QED
      BY <1>1, <2>3, <3>2, GuardsKept
  <2>5. /\ disk' \in SUBSET Nat /\ frames' \in Seq(FrameSet)
        /\ Lite!UndoneRowsGone' /\ FramesInv' /\ RowsInv'
    <3>1. PICK s \in Lite!Rollback : frames' = s.frames /\ disk' = s.disk
      BY <1>5 DEF Lite!RollbackTransaction, Lite!Exec
    <3>2. frames' = <<>> /\ disk' = disk
      BY <3>1, EndDone
    <3> QED
      BY <1>1, <1>2, <2>1, <2>2, <3>2, LiteEnds
  <2>6. LiteTypes'
    BY <1>1, <1>5, <2>3, <2>5 DEF LiteTypes
  <2> QED
    BY <2>4, <2>5, <2>6 DEF LiteInv
<1> QED
  BY <1>4, <1>5

\* commit_and_begin()
LEMMA CommittedBegan ==
    ASSUME LiteInv, NEW g, NEW okC \in BOOLEAN, NEW okB \in BOOLEAN, Lite!CommitAndBegin(g, okC, okB)
    PROVE  LiteInv'
<1>1. /\ LiteTypes /\ GuardsInv /\ ~asserted /\ ~asserted' /\ UNCHANGED <<guards, scopes, asserted>> /\ Lite!Running
      /\ g \in Lite!Open /\ ~guards[g].done /\ g = Lite!Max(Lite!Open) /\ guards[g].kind = "txn" /\ leaving' = ~okB
  BY DEF LiteInv, Lite!CommitAndBegin, Lite!Running
<1>2. g \in Undone /\ frames # <<>> /\ g \in AllGuards /\ \A h \in AllGuards : guards[h].alive => h <= g
  BY <1>1, Innermost2
<1>3. CASE ~okC
  <2>1. UNCHANGED <<frames, disk, rows>> /\ leaving' = TRUE /\ asserted' \in BOOLEAN
    BY <1>1, <1>3 DEF Lite!CommitAndBegin, Lite!Exec, LiteTypes
  <2> QED
    BY <1>1, <2>1, LiteKept
<1>4. CASE okC
  <2>1. /\ disk' = disk \cup Lite!AllRows(frames) /\ rows' = [x \in DOMAIN rows |-> rows[x] \ {g}]
        /\ frames' = <<[name |-> 0, rows |-> {}]>> \/ (frames' = <<>> /\ leaving')
    BY <1>1, <1>4 DEF Lite!CommitAndBegin
  <2>2. /\ disk' \in SUBSET Nat /\ frames' \in Seq(FrameSet) /\ rows' \in Seq(SUBSET Nat)
        /\ Lite!UndoneRowsGone' /\ FramesInv' /\ RowsInv'
    BY <1>1, <1>2, <2>1, CommittedAndBegun
  <2>3. GuardsInv'
    BY <1>1 DEF GuardsInv, AllGuards
  <2>4. LiteTypes'
    BY <1>1, <2>2 DEF LiteTypes
  <2> QED
    BY <2>2, <2>3, <2>4 DEF LiteInv
<1> QED
  BY <1>3, <1>4

\* The cleanup op of the guard of the innermost scope, and its destructor
LEMMA GuardCleaned ==
    ASSUME Named = TRUE, LiteInv, NEW g, NEW ok \in BOOLEAN, Lite!Cleanup(g, ok)
    PROVE  LiteInv'
<1>1. /\ LiteTypes /\ GuardsInv /\ ~asserted /\ UNCHANGED <<rows, leaving>> /\ asserted' = ~ok
      /\ scopes # <<>> /\ Lite!Last(scopes) # <<>> /\ g = Lite!Last(scopes)[1]
      /\ scopes' = [scopes EXCEPT ![Len(scopes)] = Tail(@)]
  BY DEF LiteInv, Lite!Cleanup
<1>2. g \in AllGuards
  <2>1. Len(scopes) \in 1 .. Len(scopes) /\ scopes[Len(scopes)] # <<>>
    BY <1>1, LiteFacts DEF Lite!Last, LiteTypes
  <2> QED
    BY <1>1, <2>1 DEF GuardsInv, Lite!Last
<1>3. guards[g] \in GuardSet /\ (guards[g].kind = "rolled_back" => guards[g].done)
  BY <1>1, <1>2, LiteFacts DEF GuardsInv
<1> DEFINE v == [guards[g] EXCEPT !.alive = FALSE]
<1>4. v \in GuardSet /\ ~v.alive /\ v.kind = guards[g].kind /\ v.done = guards[g].done
  BY <1>3 DEF GuardSet
<1>5. guards' = [guards EXCEPT ![g] = v]
  BY DEF Lite!Cleanup
<1> HIDE DEF v
<1>6. /\ guards[g].alive /\ \A h \in AllGuards : guards[h].alive => h <= g
      /\ scopes' \in Seq(Seq(Nat)) /\ GuardsInv'
  BY <1>1, <1>3, <1>4, <1>5, GuardLeft
<1>7. /\ guards' \in Seq(GuardSet) /\ Len(guards') = Len(guards) /\ guards'[g] = v
      /\ \A h \in AllGuards \ {g} : guards'[h] = guards[h]
      /\ AllGuards' = AllGuards
  BY <1>1, <1>2, <1>4, <1>5, GuardChanged
<1>8. leaving' \in BOOLEAN /\ asserted' \in BOOLEAN
  BY <1>1 DEF LiteTypes
<1>9. CASE guards[g].done
  <2>1. UNCHANGED <<frames, disk>>
    BY <1>9 DEF Lite!Cleanup
  <2>2. \A h \in AllGuards : /\ Lite!Committed(h)' = Lite!Committed(h) /\ Lost(h)' = Lost(h)
                             /\ (h \in Undone') = (h \in Undone) /\ guards'[h].kind = guards[h].kind
    <3>1. CASE TRUE
      <4>1. Lite!Committed(g)' = Lite!Committed(g) /\ Lost(g)' = Lost(g)
        BY <1>4, <1>7, <1>9 DEF Lite!Committed, Lost
      <4>2. (g \in Undone') = (g \in Undone) /\ guards'[g].kind = guards[g].kind
        BY <1>4, <1>7, <1>9 DEF Undone
      <4> QED
        BY <1>7, <4>1, <4>2 DEF Lite!Committed, Lost, Undone
    <3> QED
      BY <3>1
  <2>3. Lite!UndoneRowsGone' /\ FramesInv' /\ RowsInv'
    BY <1>1, <1>7, <2>1, <2>2, LiteSame
  <2>4. LiteTypes'
    BY <1>1, <1>6, <1>7, <1>8, <2>1 DEF LiteTypes
  <2> QED
    BY <1>6, <2>3, <2>4 DEF LiteInv
<1>10. CASE ~guards[g].done /\ ok
  <2>1. g \in Undone
    BY <1>2, <1>6, <1>10 DEF Undone
  <2>2. PICK s \in Lite!Undo(g) : frames' = s.frames /\ disk' = s.disk
    BY <1>10 DEF Lite!Cleanup, Lite!Exec
  <2>3. /\ disk' = disk /\ frames' \in Seq(FrameSet) /\ Lite!UndoneRowsGone' /\ FramesInv' /\ RowsInv'
    <3>1. CASE guards[g].kind = "txn"
      <4>1. s \in Lite!Rollback
        BY <2>2, <3>1 DEF Lite!Undo
      <4>2. frames # <<>> /\ frames' = <<>> /\ disk' = disk
        BY <2>2, <4>1, EndDone
      <4> QED
        BY <1>1, <1>4, <1>5, <1>6, <1>10, <2>1, <3>1, <4>2, LiteEnds
    <3>2. CASE guards[g].kind = "sp"
      <4>1. s \in Lite!RollbackTo(g)
        BY <2>2, <3>2 DEF Lite!Undo, Lite!NameOf
      <4> QED
        BY <1>1, <1>4, <1>5, <1>6, <1>10, <2>1, <2>2, <3>2, <4>1, SavepointUndone
    <3> QED
      BY <1>1, <2>1, <3>1, <3>2, UndoneKind
  <2>4. LiteTypes'
    BY <1>1, <1>6, <1>7, <1>8, <2>3 DEF LiteTypes
  <2> QED
    BY <1>6, <2>3, <2>4 DEF LiteInv
<1>11. CASE ~guards[g].done /\ ~ok
  <2>1. UNCHANGED <<frames, disk>>
    BY <1>11 DEF Lite!Cleanup, Lite!Exec
  <2>2. \A h \in AllGuards : Lite!Committed(h)' = Lite!Committed(h)
    BY <1>4, <1>7 DEF Lite!Committed
  <2>3. \A x \in disk : rows[x] \subseteq AllGuards
    BY <1>1 DEF LiteInv, RowsInv
  <2>4. Lite!UndoneRowsGone'
    BY <1>1, <2>1, <2>2, <2>3 DEF LiteInv, Lite!UndoneRowsGone
  <2>5. LiteTypes'
    BY <1>1, <1>6, <1>7, <1>8, <2>1 DEF LiteTypes
  <2> QED
    BY <1>1, <1>11, <2>4, <2>5 DEF LiteInv
<1> QED
  BY <1>9, <1>10, <1>11

\* Every step of the connection keeps its invariant.
LEMMA LiteStep == Named = TRUE /\ PerScope = 1 /\ LiteInv /\ [Lite!Next]_Lite!vars => LiteInv'
<1> SUFFICES ASSUME Named = TRUE, PerScope = 1, LiteInv, [Lite!Next]_Lite!vars PROVE LiteInv'
  OBVIOUS
<1>1. CASE Lite!OpenScope \/ Lite!CloseScope
  BY <1>1, LiteScopes
<1>2. CASE Lite!Fail
  <2>1. ~asserted /\ UNCHANGED <<frames, disk, guards, scopes, rows>> /\ leaving' = TRUE /\ asserted' \in BOOLEAN
    BY <1>2 DEF Lite!Fail, Lite!Running, LiteInv, LiteTypes
  <2> QED
    BY <2>1, LiteKept
<1>3. ASSUME NEW ok \in BOOLEAN, Lite!MakeTransaction(ok) \/ \E owned \in BOOLEAN : Lite!MakeSavepoint(owned, ok)
      PROVE  LiteInv'
  BY <1>3, TransactionMade, SavepointMade
<1>4. ASSUME NEW g, NEW ok \in BOOLEAN,
             Lite!Finish(g, ok) \/ Lite!RollbackTransaction(g, ok) \/ Lite!Cleanup(g, ok)
      PROVE  LiteInv'
  BY <1>4, GuardFinished, TransactionRolledBack, GuardCleaned
<1>5. ASSUME NEW g, NEW okC \in BOOLEAN, NEW okB \in BOOLEAN, Lite!CommitAndBegin(g, okC, okB) PROVE LiteInv'
  BY <1>5, CommittedBegan
<1>6. ASSUME NEW o, Lite!Write(o) PROVE LiteInv'
  BY <1>6, RowTried
<1>7. CASE UNCHANGED Lite!vars
  <2>1. UNCHANGED <<frames, disk, guards, scopes, rows, leaving, asserted>>
    BY <1>7 DEF Lite!vars
  <2>2. Undone' = Undone /\ AllGuards' = AllGuards
    BY <2>1 DEF Undone, AllGuards
  <2>3. LiteTypes' /\ Lite!UndoneRowsGone'
    BY <2>1 DEF LiteInv, LiteTypes, Lite!UndoneRowsGone, Lite!Committed
  <2>4. CASE ~asserted
    <3>1. leaving' \in BOOLEAN /\ asserted' \in BOOLEAN /\ leaving' = leaving
      BY <2>1 DEF LiteInv, LiteTypes
    <3> QED
      BY <2>1, <2>4, <3>1, LiteKept
  <2>5. CASE asserted
    BY <2>1, <2>3, <2>5 DEF LiteInv
  <2> QED
    BY <2>4, <2>5
<1> QED
  BY <1>1, <1>2, <1>3, <1>4, <1>5, <1>6, <1>7 DEF Lite!Next

-----------------------------------------------------------------------------
(* The behaviours of MCClients. *)

\* The invariants of the connections that have transactions
TrxnsInv ==
    /\ part = "pq" => PqInv
    /\ part = "mysql" => MysqlInv
    /\ part = "sqlite" => LiteInv

\* Guards of a scope end in the order opposite to that of their creation, and savepoints have names:
\* what else callers may do is observation 12.
SavepointUse == Named = TRUE /\ PerScope = 1

\* Transactions end with their guard, of whatever number of commands, guards, rows, nested scopes and
\* failures: none is left open by a scope that was left, but for what TrxnClosed and MysqlTrxnClosed say of
\* assertions, canceled calls and failed pipelines, and what SQLite has on disk is what guards committed.
THEOREM TransactionsEnd == SavepointUse => (Spec => []TrxnsClosed)
<1> SUFFICES ASSUME SavepointUse PROVE Spec => []TrxnsClosed
  OBVIOUS
<1>1. Init => TrxnsInv
  BY PqInit, MysqlInit, LiteInit DEF Init, TrxnsInv
<1>2. TrxnsInv /\ [Next]_vars => TrxnsInv'
  BY StepOfPart, PqStep, MysqlStep, LiteStep DEF TrxnsInv, SavepointUse
<1>3. TrxnsInv => TrxnsClosed
  BY PqSafe, MysqlSafe, LiteSafe DEF TrxnsInv, TrxnsClosed
<1> QED
  BY <1>1, <1>2, <1>3, PTL DEF Spec

\* The invariants of the connections that give results
AnswersInv ==
    /\ part = "pq" => PqInv
    /\ part = "redis" => RedisInv
    /\ part = "stmt" => StmtInv
    /\ part = "settings" => SettingInv

\* What a call gives back belongs to that call, however many commands are sent before their results are
\* read, in pipelines too, however replies are nested in arrays (one level), and whatever a statement with
\* parameters did before it is used again.
THEOREM AnswersBelong == ~Nested => (Spec => []AnswersInStep)
<1> SUFFICES ASSUME ~Nested PROVE Spec => []AnswersInStep
  OBVIOUS
<1>1. Init => AnswersInv
  BY ClientAssumption, PqInit, RedisInit, StmtInit, SettingInit DEF Init, AnswersInv
<1>2. AnswersInv /\ [Next]_vars => AnswersInv'
  BY ClientAssumption, StepOfPart, PqStep, RedisStep, StmtStep, SettingStep DEF AnswersInv
<1>3. AnswersInv => AnswersInStep
  <2>1. RedisInv => Redis!NodesWhereTheyBelong
    BY DEF RedisInv, Redis!NodesWhereTheyBelong
  <2>2. StmtInv => Stmt!StatementReady
    BY DEF StmtInv
  <2> QED
    BY <2>1, <2>2, ClientAssumption, PqSafe, CacheAnswers DEF AnswersInv, AnswersInStep
<1> QED
  BY <1>1, <1>2, <1>3, PTL DEF Spec
=============================================================================
