---------------------------- MODULE SqliteSettings ----------------------------
(***************************************************************************)
(* The settings of sqlite3_conn (include/dsk/sqlite3/conn.hpp): pragmas    *)
(* set and read back, per schema or for all of them, with the conversions  *)
(* between what callers say and what the engine stores, and the chunk      *)
(* sizes set by file control, schema by schema.                            *)
(*                                                                         *)
(* The engine is external: it stores a number per schema and setting, or   *)
(* silently keeps the old one, and takes a new page size at the next       *)
(* VACUUM.  Sizes are in KiB.                                              *)
(***************************************************************************)
EXTENDS Integers, FiniteSets

CONSTANTS
    Schemas,  \* database names, "main" among them
    Sizes     \* page sizes

VARIABLES
    raw,      \* the engine's values, per schema
    newPage,  \* page sizes that wait for VACUUM, per schema
    asked,    \* per schema: the last cache setting that succeeded, <<unit, n>>
    resetting, \* is SQLITE_DBCONFIG_RESET_DATABASE on, so that VACUUM empties the database?
    last,     \* the last call and its outcome
    topic     \* what the caller configures, chosen once to keep the instance small

vars == <<raw, newPage, asked, resetting, last, topic>>

Main  == "main"

SettingAssumption == Main \in Schemas /\ Sizes \subseteq Nat \ {0}

Modes == {1, 2}   \* NORMAL and EXCLUSIVE, DELETE and WAL, ...
NoCall == [call |-> "none", on |-> {}, arg |-> 0, res |-> "ok"]

Init ==
    /\ raw = [s \in Schemas |-> [num |-> 0, mode |-> 1, cache |-> -2, page |-> 1, chunk |-> 0]]
    /\ newPage = [s \in Schemas |-> 1]
    /\ asked = [s \in Schemas |-> <<"KiB", 2>>]
    /\ resetting = FALSE
    /\ last = NoCall
    /\ topic \in {"cache", "others"}

\* PRAGMA x = v and PRAGMA s.x = v: the engine does it, or keeps what it has.
Pragma(on, x, v, kept) ==
    raw' = IF kept THEN raw ELSE [s \in Schemas |-> IF s \in on THEN [raw[s] EXCEPT ![x] = v] ELSE raw[s]]

\* Without a schema a pragma answers for main.
Answers(on) == IF Cardinality(on) = 1 THEN CHOOSE s \in on : TRUE ELSE Main

\* pragma_set(): set, read back and compared
PragmaSet(on, x, v, kept) ==
    /\ Pragma(on, x, v, kept)
    /\ last' = [call |-> x, on |-> on, arg |-> v,
                res |-> IF raw'[Answers(on)][x] = v THEN "ok" ELSE "pragma_set_value_diff"]
    /\ UNCHANGED newPage

\* set_application_id(), set_user_version(), set_schema_version(), optimize()
SetVersion(s, v, kept)   == PragmaSet({s}, "num", v, kept) /\ UNCHANGED asked
\* set_auto_vacuum(), incremental_vacuum()
SetAutoVacuum(s, v, kept) == PragmaSet({s}, "num", v, kept) /\ UNCHANGED asked
\* enable_automatic_index() to ignore_check_constraints(), of the connection
Enable(v, kept)          == PragmaSet(Schemas, "num", v, kept) /\ UNCHANGED asked
\* set_mmap_size(), set_max_page_count()
SetMmapSize(s, v, kept)  == PragmaSet({s}, "num", v, kept) /\ UNCHANGED asked
\* set_journal_size_limit(), set_wal_autocheckpoint(), set_synchronous_mode(), set_temp_store()
SetJournalSizeLimit(s, v, kept) == PragmaSet({s}, "num", v, kept) /\ UNCHANGED asked
\* set_locking_mode(), set_all_locking_mode(): by name, compared ignoring case
SetLockingMode(on, m, kept) == PragmaSet(on, "mode", m, kept) /\ UNCHANGED asked
\* set_journal_mode(), set_all_journal_mode()
SetJournalMode(on, m, kept) == PragmaSet(on, "mode", m, kept) /\ UNCHANGED asked

Asked(s, unit, n) == asked' = IF last'.res = "ok" THEN [asked EXCEPT ![s] = <<unit, n>>] ELSE asked

SetCachePages(s, n, kept) == PragmaSet({s}, "cache", n, kept) /\ Asked(s, "pages", n)

\* Mutant: the sign that makes it KiB is forgotten.
SetCacheSizePlain(s, kb, kept) == PragmaSet({s}, "cache", kb, kept) /\ Asked(s, "KiB", kb)
\* set_cache_size(): a negative number is in KiB
SetCacheSize(s, kb, kept) == PragmaSet({s}, "cache", -kb, kept) /\ Asked(s, "KiB", kb)

\* set_page_size(), which is not read back
SetPageSize(s, size) ==
    /\ newPage' = [newPage EXCEPT ![s] = size]
    /\ last' = [call |-> "page", on |-> {s}, arg |-> size, res |-> "ok"]
    /\ UNCHANGED <<raw, asked>>

\* clear(): RESET_DATABASE on, VACUUM of main, RESET_DATABASE off, up to the step that fails: the
\* option stays on if that is one of the last two.
Clear(steps) ==
    /\ raw' = IF steps >= 2 THEN [raw EXCEPT ![Main].page = newPage[Main]] ELSE raw
    /\ resetting' = (steps \in {1, 2} \/ (steps = 0 /\ resetting))
    /\ last' = [NoCall EXCEPT !.call = "clear", !.on = {Main}, !.res = IF steps = 3 THEN "ok" ELSE "error"]
    /\ UNCHANGED <<newPage, asked>>

\* set_chunk_size(), set_journal_chunk_size() of one database
SetChunkSize(s, v, ok) ==
    /\ raw' = IF ok THEN [raw EXCEPT ![s].chunk = v] ELSE raw
    /\ last' = [call |-> "chunk", on |-> {s}, arg |-> v, res |-> IF ok THEN "ok" ELSE "error"]
    /\ UNCHANGED <<newPage, asked>>

\* set_all_chunk_size(), set_all_journal_chunk_size(): the databases of db_names() one after the other,
\* up to the first that fails
SetAllChunkSize(v, done) ==
    /\ raw' = [s \in Schemas |-> IF s \in done THEN [raw[s] EXCEPT !.chunk = v] ELSE raw[s]]
    /\ last' = [call |-> "chunk", on |-> Schemas, arg |-> v, res |-> IF done = Schemas THEN "ok" ELSE "error"]
    /\ UNCHANGED <<newPage, asked>>

-----------------------------------------------------------------------------
(* Getters *)

\* page_size(): of main, whatever the schema the cache is of
PageSize == raw[Main].page

\* cache_pages()
CachePages(s) == IF raw[s].cache >= 0 THEN raw[s].cache
                 ELSE (- raw[s].cache + PageSize - 1) \div PageSize

\* cache_size()
CacheSize(s) == IF raw[s].cache <= 0 THEN - raw[s].cache ELSE PageSize * raw[s].cache

\* locking_mode() and journal_mode() compare the engine's answer, which is in lower case, with names in
\* upper case: 0 stands for unknown_locking_mode and unknown_journal_mode.
LockingMode(s) == 0
JournalMode(s) == 0

Caches ==
    \/ (\E s \in Schemas, n \in 0 .. 3, kept \in BOOLEAN : SetCachePages(s, n, kept) \/ SetCacheSize(s, n, kept))
       /\ UNCHANGED resetting
    \/ (\E s \in Schemas, size \in Sizes : SetPageSize(s, size)) /\ UNCHANGED resetting
    \/ \E steps \in 0 .. 3 : Clear(steps)

Others ==
    \/ \E s \in Schemas, v \in {0, 1}, kept \in BOOLEAN :
          SetVersion(s, v, kept) \/ SetAutoVacuum(s, v, kept) \/ SetMmapSize(s, v, kept) \/ SetJournalSizeLimit(s, v, kept)
    \/ \E v \in {0, 1}, kept \in BOOLEAN : Enable(v, kept)
    \/ \E on \in {{s} : s \in Schemas} \cup {Schemas}, m \in Modes, kept \in BOOLEAN :
          SetLockingMode(on, m, kept) \/ SetJournalMode(on, m, kept)
    \/ \E s \in Schemas, v \in {0, 1}, ok \in BOOLEAN : SetChunkSize(s, v, ok)
    \/ \E v \in {0, 1}, done \in SUBSET Schemas : SetAllChunkSize(v, done)

Next ==
    /\ \/ topic = "cache" /\ Caches
       \/ topic = "others" /\ Others /\ UNCHANGED resetting
    /\ UNCHANGED topic

Spec == Init /\ [][Next]_vars

-----------------------------------------------------------------------------
(* Properties *)

\* The cache setting that last succeeded is what its getter answers, whatever was set since, other page
\* sizes included, and on main the two getters agree up to a page (cache_pages(), cache_size()); and a
\* setting that is checked was changed wherever it was set if the call says so.
CacheAsAsked ==
    /\ \A s \in Schemas : asked[s][2] = IF asked[s][1] = "pages" THEN CachePages(s) ELSE CacheSize(s)
    /\ CachePages(Main) * PageSize - CacheSize(Main) \in 0 .. PageSize - 1
    /\ last.res = "ok" /\ last.call \in {"num", "mode", "cache", "chunk"} =>
          raw[Answers(last.on)][last.call] = last.arg
=============================================================================
