------------------------------ MODULE Pipelines ------------------------------
(***************************************************************************)
(* The two example programs that compose the library: four tasks on a      *)
(* scheduler, a res_queue between each two of them, under one              *)
(* until_first_failed().                                                   *)
(*   example/compr_conv: read_file, decompress, compress, write_file       *)
(*   example/wiki_hist:  read_file, decompress, parse_json, populate_db    *)
(*                                                                         *)
(* The source is a number of lines of two halves, read in chunks of        *)
(* halves; the newline of a line comes with the first half of the next     *)
(* one.  A res_queue is the bounded queue FifoQueue promises: an op on it  *)
(* waits, or ends canceled once stop was requested.  Compression is that   *)
(* of module Compr: some output comes late, all of it by the end.          *)
(***************************************************************************)
EXTENDS Integers, Sequences, SequencesExt, FiniteSets

CONSTANTS
    Apps,    \* a subset of {"compr_conv", "wiki_hist"}
    Files,   \* wiki_hist: the item on each line: sequences of wiki_items
    Cap,     \* of the queues
    Batch,   \* rows per transaction while post processing
    Faults   \* may reads, decompression, writes and commits fail?

FilesAssumption == \A f \in Files : Len(f) \in Nat

VARIABLES
    app, items,
    pc,      \* of the tasks: "run", "put" (in enqueue()), "last" (in the
             \* enqueue() before mark_end()), "post" (populate_db after the
             \* queue), "done", "failed"
    src,     \* halves of lines that were not read yet
    q,       \* q[t]: the queue from task t to t + 1
    ended,   \* mark_end() was called
    hand,    \* what a task enqueues
    buf,     \* decompress: halves in its buffer; compress: what it holds
    out,     \* compr_conv: the halves in the file
    refused, \* populate_db: items whose INSERT fails in the database
    locs,    \* per place, is its coord known and who waits
    rows,    \* rows the open transaction inserted
    db,      \* rows committed
    stats,   \* classStats: rows per class
    stop     \* until_first_failed() requested stop
vars == <<app, items, pc, src, q, ended, hand, buf, out, refused, locs, rows, db, stats, stop>>

Tasks  == 1 .. 4
NHalf  == 2 * Len(items)

(***************************************************************************)
(* wiki_item: id, classes, partOf and organizer (classes, "none" if        *)
(* absent), props (which of the other claims exist; "contest" stands for   *)
(* the ones do_insert() rejects alone, subClassOf and hasPart with some    *)
(* values among them), coord (are there coordinates?), at (ids by kind of  *)
(* place), start, end and date.                                            *)
(***************************************************************************)
NoDate == <<0, 0, 0>>   \* year 0 is invalid

HasTime(it)      == it.start # NoDate \/ it.end # NoDate \/ it.date # NoDate
HasCoordTime(it) == it.coord /\ HasTime(it)
Valid(it) ==
    it.coord \/ (HasTime(it) /\ DOMAIN it.at \cap {"location", "street", "admin", "country"} # {})

\* the place whose coordinates stand for the item's
Place(it) ==
    LET order == <<"location", "street", "admin", "juri", "country">>
        first == CHOOSE n \in DOMAIN order : /\ order[n] \in DOMAIN it.at
                                             /\ \A k \in 1 .. n - 1 : order[k] \notin DOMAIN it.at
    IN it.at[order[first]]

\* wiki_date::to_int32(): within a year BCE, too, later is larger
ToInt32(d) ==
    IF d[1] >= 0 THEN d[1] * 10000 + d[2] * 100 + d[3]
    ELSE d[1] * 10000 - (12 - d[2]) * 100 - (31 - d[3])

\* int32_time_range(): <<minT, maxT>>
TimeRange(it) ==
    LET int(d) == IF d = NoDate THEN 0 ELSE ToInt32(d)
        minT   == IF it.start # NoDate THEN int(it.start) ELSE int(it.end)
        maxT   == IF it.end # NoDate THEN int(it.end) ELSE minT
    IN IF (minT = 0 \/ minT > maxT) /\ it.date # NoDate
       THEN <<int(it.date), int(it.date)>> ELSE <<minT, maxT>>

(***************************************************************************)
(* classify.hpp: the classes that get no row, and the ones that are merged *)
(* into another; one of each kind stands for the tables.                   *)
(***************************************************************************)
IgnoredClasses == {"sports season"}
ClassRemap     == [c \in {"series of wars"} |-> "war"]

HasIgnoredClass(S) == S \cap IgnoredClasses # {}
RemapClass(c)      == IF c \in DOMAIN ClassRemap THEN ClassRemap[c] ELSE c

Given(c) == c # "none"
PlaceOr0(it, kind) == IF kind \in DOMAIN it.at THEN it.at[kind] ELSE 0

\* do_insert(): the class an item is first taken for, and what is rejected
FirstClass(it) == IF "office" \in it.props THEN "election" ELSE it.classes[1]

\* the latest minT of classes with few early items
Latest == [c \in {"concert", "square", "monument"} |->
             IF c = "concert" THEN 19260101 ELSE IF c = "square" THEN 16260101 ELSE 19160101]

Rejected(it) ==
    LET c == FirstClass(it) IN
    \/ "contest" \in it.props
    \/ HasIgnoredClass(ToSet(it.classes))
    \/ "facet" \in it.props /\ it.classes[1] = "convention"
    \/ /\ Given(it.partOf)
       /\ \/ "office" \in it.props \/ "juri" \in DOMAIN it.at
          \/ it.classes[1] = "group of elections"
          \/ it.classes[1] = "event" /\ HasIgnoredClass({it.partOf})
    \/ "office" \in it.props /\ PlaceOr0(it, "country") # PlaceOr0(it, "juri")
    \/ c \in {"convention", "event"} /\ (Given(it.partOf) \/ "website" \in it.props
                                          \/ HasIgnoredClass({it.organizer}))
    \/ c \in DOMAIN Latest /\ TimeRange(it)[1] > Latest[c]
    \/ c = "legal case" /\ Len(it.classes) = 1

\* a general class gives way to the second one
FinalClass(it) ==
    RemapClass(IF /\ FirstClass(it) \in {"occurrence", "legal case", "event"}
                  /\ Len(it.classes) > 1
               THEN it.classes[2] ELSE FirstClass(it))

Places  == {items[i].id : i \in DOMAIN items} \cup
           UNION {{items[i].at[k] : k \in DOMAIN items[i].at} : i \in DOMAIN items}
Classes == {"election", "war"} \cup UNION {ToSet(items[i].classes) : i \in DOMAIN items}

Init ==
    /\ app \in Apps /\ items \in Files
    /\ pc = [t \in Tasks |-> "run"] /\ src = NHalf
    /\ q = [t \in 1 .. 3 |-> <<>>] /\ ended = [t \in 1 .. 3 |-> FALSE]
    /\ hand = [t \in Tasks |-> <<>>] /\ buf = [t \in Tasks |-> <<>>]
    /\ out = <<>>
    /\ refused \in (IF Faults /\ app = "wiki_hist" THEN SUBSET DOMAIN items ELSE {{}})
    /\ locs = [p \in Places |-> [coord |-> FALSE, items |-> <<>>]]
    /\ rows = <<>> /\ db = <<>> /\ stats = [c \in Classes |-> 0] /\ stop = FALSE

Data == <<app, items, src, buf, out, refused, locs, rows, db, stats>>

\* A task ends with an error: the first one stops all others.
Fail(t) == pc' = [pc EXCEPT ![t] = "failed"] /\ stop' = TRUE

\* Queue and file ops fail once stop was requested.
Canceled(t) ==
    /\ stop /\ pc[t] \in {"run", "put", "last"}
    /\ pc' = [pc EXCEPT ![t] = "failed"]
    /\ UNCHANGED <<q, ended, hand, stop, Data>>

\* DSK_TRY queue.enqueue(hand); mark_end() after the last one
Put(t) ==
    /\ ~stop /\ pc[t] \in {"put", "last"} /\ Len(q[t]) < Cap
    /\ q' = [q EXCEPT ![t] = Append(@, hand[t])]
    /\ hand' = [hand EXCEPT ![t] = <<>>]
    /\ ended' = [ended EXCEPT ![t] = @ \/ pc[t] = "last"]
    /\ pc' = [pc EXCEPT ![t] = IF pc[t] = "last" THEN "done" ELSE "run"]
    /\ UNCHANGED <<stop, Data>>

\* dequeue() has a value, or reached the end
Has(t)     == pc[t] = "run" /\ ~stop /\ q[t - 1] # <<>>
EndSeen(t) == pc[t] = "run" /\ ~stop /\ q[t - 1] = <<>> /\ ended[t - 1]
Taken(t)   == [q EXCEPT ![t - 1] = Tail(@)]
Next1(t)   == Head(q[t - 1])

\* Mutant: mark_end() is only called after a last enqueue().
HandNoEnd(t, h, last) ==
    /\ hand' = [hand EXCEPT ![t] = h]
    /\ pc' = [pc EXCEPT ![t] = IF h # <<>> THEN (IF last THEN "last" ELSE "put")
                               ELSE IF last THEN "done" ELSE "run"]
    /\ ended' = ended

\* enqueue h if there is something, before the end or not
Hand(t, h, last) ==
    /\ hand' = [hand EXCEPT ![t] = h]
    /\ pc' = [pc EXCEPT ![t] = IF h # <<>> THEN (IF last THEN "last" ELSE "put")
                               ELSE IF last THEN "done" ELSE "run"]
    /\ ended' = [ended EXCEPT ![t] = @ \/ (last /\ h = <<>>)]

(***************************************************************************)
(* read_file(): read_some(); a chunk is the numbers of the halves in it.   *)
(***************************************************************************)
ReadFile ==
    /\ pc[1] = "run" /\ ~stop
    /\ \/ /\ Faults /\ Fail(1) /\ UNCHANGED <<src, hand, ended>>
       \/ /\ src = 0 /\ Hand(1, <<>>, TRUE) /\ UNCHANGED <<src, stop>>
       \/ /\ \E k \in 1 .. IF src < 3 THEN src ELSE 3 :
               /\ Hand(1, [i \in 1 .. k |-> NHalf - src + i], FALSE)
               /\ src' = src - k
          /\ UNCHANGED stop
    /\ UNCHANGED <<app, items, refused, q, buf, out, locs, rows, db, stats>>

(***************************************************************************)
(* decompress().  wiki_lines::take_lines(): the lines whose newline was    *)
(* seen are taken; the rest stays in the buffer.                           *)
(***************************************************************************)
\* line i has halves 2i-1 and 2i; half 2i+1 comes with its newline
Complete(b) == {i \in DOMAIN items : /\ \E k \in DOMAIN b : b[k] = 2 * i
                                     /\ \E k \in DOMAIN b : b[k] = 2 * i + 1}
LinesOf(S)  == SetToSortSeq(S, <)
Rest(b, S)  == SelectSeq(b, LAMBDA h : \A i \in S : h > 2 * i)

TakeLines(b) == <<LinesOf(Complete(b)), Rest(b, Complete(b))>>

Decompress ==
    /\ \/ /\ Has(2) /\ Faults /\ Fail(2)
          /\ q' = Taken(2) /\ UNCHANGED <<hand, ended, buf>>
       \/ /\ Has(2) /\ q' = Taken(2)
          /\ LET b == buf[2] \o Next1(2) IN
             IF app = "compr_conv"
             THEN Hand(2, b, FALSE) /\ buf' = [buf EXCEPT ![2] = <<>>]
             ELSE Hand(2, TakeLines(b)[1], FALSE) /\ buf' = [buf EXCEPT ![2] = TakeLines(b)[2]]
          /\ UNCHANGED stop
       \/ /\ EndSeen(2)
          \* '\n' is appended to what is left
          /\ Hand(2, IF app = "compr_conv" THEN buf[2]
                     ELSE TakeLines(Append(buf[2], NHalf + 1))[1], TRUE)
          /\ buf' = [buf EXCEPT ![2] = <<>>]
          /\ UNCHANGED <<q, stop>>
    /\ UNCHANGED <<app, items, refused, src, out, locs, rows, db, stats>>

(***************************************************************************)
(* compr_conv: compress() and write_file().                                *)
(***************************************************************************)
\* compr.append() gives any part of what it holds, finish() the rest and
\* the end of the frame; both may fail.
Compress ==
    /\ app = "compr_conv"
    /\ \/ /\ Has(3) /\ q' = Taken(3)
          /\ \E k \in 0 .. Len(buf[3] \o Next1(3)) :
               LET b == buf[3] \o Next1(3) IN
               Hand(3, SubSeq(b, 1, k), FALSE)
               /\ buf' = [buf EXCEPT ![3] = SubSeq(b, k + 1, Len(b))]
          /\ UNCHANGED stop
       \/ /\ EndSeen(3) /\ Hand(3, Append(buf[3], 0), TRUE)
          /\ buf' = [buf EXCEPT ![3] = <<>>] /\ UNCHANGED <<q, stop>>
       \/ /\ Faults /\ Fail(3)
          /\ \/ Has(3) /\ q' = Taken(3)
             \/ EndSeen(3) /\ UNCHANGED q
          /\ UNCHANGED <<hand, ended, buf>>
    /\ UNCHANGED <<app, items, refused, src, out, locs, rows, db, stats>>

WriteFile ==
    /\ app = "compr_conv"
    /\ \/ /\ Has(4) /\ q' = Taken(4)
          /\ \/ out' = out \o Next1(4) /\ UNCHANGED <<pc, stop>>
             \/ Faults /\ Fail(4) /\ UNCHANGED out
       \/ /\ EndSeen(4) /\ pc' = [pc EXCEPT ![4] = "done"] /\ UNCHANGED <<q, out, stop>>
    /\ UNCHANGED <<app, items, refused, src, ended, hand, buf, locs, rows, db, stats>>

(***************************************************************************)
(* wiki_hist: parse_json() drops the lines that do not match the           *)
(* definition of an item and force-enqueues the others, past the capacity; *)
(* the task around it marks the end.                                       *)
(***************************************************************************)
ParseJson ==
    /\ app = "wiki_hist"
    /\ \/ /\ Has(3)
          /\ q' = [Taken(3) EXCEPT ![3] = @ \o
                     SelectSeq(Next1(3), LAMBDA i : Valid(items[i]))]
          /\ UNCHANGED <<pc, ended>>
       \/ /\ EndSeen(3)
          /\ pc' = [pc EXCEPT ![3] = "done"] /\ ended' = [ended EXCEPT ![3] = TRUE]
          /\ UNCHANGED q
    /\ UNCHANGED <<app, items, refused, src, hand, buf, out, locs, rows, db, stats, stop>>

\* do_insert(): a row in items, or in broken_items, and its class counted;
\* an INSERT that fails is only reported
Insert(st, i) ==
    IF Rejected(items[i]) \/ i \in refused THEN st
    ELSE [st EXCEPT !.rows = Append(@, [item |-> i, class |-> FinalClass(items[i]),
                              broken |-> TimeRange(items[i])[1] > TimeRange(items[i])[2]]),
                    !.stats[FinalClass(items[i])] = @ + 1]

\* Mutant: an item that waits for its place forgets the ones before it.
PopulateForgets(st, i) ==
    CASE HasCoordTime(items[i]) -> Insert(st, i)
      [] items[i].coord /\ ~HasTime(items[i]) -> [st EXCEPT !.locs[items[i].id].coord = TRUE]
      [] ~items[i].coord -> [st EXCEPT !.locs[Place(items[i])].items = <<i>>]

\* The loop of populate_db() over the items: a place is noted, an item that
\* has none of its own waits for that of its place unless it is known.
Populate(st, i) ==
    CASE HasCoordTime(items[i]) -> Insert(st, i)
      [] items[i].coord /\ ~HasTime(items[i]) -> [st EXCEPT !.locs[items[i].id].coord = TRUE]
      [] ~items[i].coord -> IF st.locs[Place(items[i])].coord THEN Insert(st, i)
                            ELSE [st EXCEPT !.locs[Place(items[i])].items = Append(@, i)]

\* dequeue(), force_dequeue_all(), and a transaction around the loop; a
\* commit that fails rolls it back and ends the task
PopulateDb ==
    /\ app = "wiki_hist"
    /\ \/ /\ Has(4) /\ q' = [q EXCEPT ![3] = <<>>]
          /\ LET st == FoldLeft(Populate, [locs |-> locs, rows |-> <<>>, stats |-> stats], q[3]) IN
             /\ locs' = st.locs
             /\ stats' = st.stats
             /\ \/ db' = db \o st.rows /\ UNCHANGED <<pc, stop>>
                \/ Faults /\ Fail(4) /\ UNCHANGED db
       \/ /\ EndSeen(4) /\ pc' = [pc EXCEPT ![4] = "post"]
          /\ UNCHANGED <<q, locs, stats, db, stop>>
    /\ UNCHANGED <<app, items, refused, src, ended, hand, buf, out, rows>>

\* Post processing: items whose place was found later are inserted, Batch
\* rows per transaction (commit_and_begin()).
PostItem ==
    /\ pc[4] = "post"
    /\ \E p \in Places :
        /\ locs[p].coord /\ locs[p].items # <<>>
        /\ LET st == Insert([rows |-> rows, stats |-> stats], Head(locs[p].items)) IN
           /\ locs' = [locs EXCEPT ![p].items = Tail(@)]
           /\ stats' = st.stats
           /\ IF Len(st.rows) >= Batch
              THEN \/ rows' = <<>> /\ db' = db \o st.rows /\ UNCHANGED <<pc, stop>>
                   \/ Faults /\ rows' = <<>> /\ Fail(4) /\ UNCHANGED db
              ELSE rows' = st.rows /\ UNCHANGED <<db, pc, stop>>
    /\ UNCHANGED <<app, items, refused, src, q, ended, hand, buf, out>>

\* The last commit, and the transaction for the classes, which may fail, too.
PostEnd ==
    /\ pc[4] = "post"
    /\ \A p \in Places : locs[p].coord => locs[p].items = <<>>
    /\ \/ db' = db \o rows /\ pc' = [pc EXCEPT ![4] = "done"] /\ UNCHANGED stop
       \/ Faults /\ Fail(4) /\ db' \in {db, db \o rows}
    /\ rows' = <<>>
    /\ UNCHANGED <<app, items, refused, src, q, ended, hand, buf, out, locs, stats>>

\* the steps of task t
StepOf(t) ==
    \/ Canceled(t)
    \/ t <= 3 /\ Put(t)
    \/ t = 1 /\ ReadFile
    \/ t = 2 /\ Decompress
    \/ t = 3 /\ (Compress \/ ParseJson)
    \/ t = 4 /\ (WriteFile \/ PopulateDb \/ PostItem \/ PostEnd)

Next == \E t \in Tasks : StepOf(t)

\* Every task runs on a scheduler that runs what is posted to it.
Fairness == \A t \in Tasks : WF_vars(StepOf(t))

Spec == Init /\ [][Next]_vars /\ Fairness

(***************************************************************************)
(* Properties.                                                             *)
(***************************************************************************)
AllDone  == \A t \in Tasks : pc[t] = "done"

\* The items that have a row in the end: not rejected, with a time, and at a
\* known place if they have no coordinates of their own
Storable(i) ==
    /\ HasTime(items[i]) /\ ~Rejected(items[i])
    /\ items[i].coord \/ \E k \in DOMAIN items : /\ items[k].coord /\ ~HasTime(items[k])
                                                 /\ Valid(items[i])
                                                 /\ items[k].id = Place(items[i])

\* the order of dates
Before(d, e) == \E n \in 1 .. 3 : d[n] < e[n] /\ \A k \in 1 .. n - 1 : d[k] = e[k]

\* it ends before it starts, and there is no other date
EndsFirst(it) == it.start # NoDate /\ it.end # NoDate /\ it.date = NoDate
                 /\ Before(it.end, it.start)

\* When no task failed, all of the source arrived: compr_conv wrote it
\* whole, in order, with the end of the frame; wiki_hist committed one row
\* for each item that can be placed, wherever in the source its place was
\* and however the chunks cut the lines, but for those whose INSERT failed,
\* which no task fails for; an item is in broken_items exactly
\* if it ends before it starts, BCE or AD; the classes counted are those of
\* the rows.
NothingLost ==
    AllDone =>
        IF app = "compr_conv" THEN out = Append([i \in 1 .. NHalf |-> i], 0)
        ELSE LET stored == {db[k].item : k \in DOMAIN db} IN
             /\ Len(db) = Cardinality(stored)
             /\ stored = {i \in DOMAIN items : Storable(i)} \ refused
             /\ \A k \in DOMAIN db : db[k].broken <=> EndsFirst(items[db[k].item])
             /\ \A c \in Classes :
                  stats[c] = Cardinality({k \in DOMAIN db : db[k].class = c})

\* Every task ends, also the ones that wait at a full or an empty queue
\* when another fails.
PipelineEnds == <>(\A t \in Tasks : pc[t] \in {"done", "failed"})
=============================================================================
