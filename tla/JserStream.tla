------------------------------ MODULE JserStream ------------------------------
(***************************************************************************)
(* Reading one document after another from a buffer: jread_foreach(),      *)
(* jread_range(), jread_range_at_most() and jread_whole() of               *)
(* include/dsk/jser/cpo.hpp, over read() and read_foreach() of             *)
(* simdjson_reader and read() of msgpack_reader.                           *)
(*                                                                         *)
(* A buffer is a sequence of "d" (a document), "b" (one its definition     *)
(* does not match), " " (the delimiter of JSON) and, at the end, "t" (the  *)
(* start of a document).  A value read is the position of its document.    *)
(***************************************************************************)
EXTENDS Naturals, Sequences, SequencesExt, FiniteSets

CONSTANTS
    Readers,   \* a subset of {"json", "json_general", "msgpack"}
    MaxDocs,   \* documents in the buffer
    MaxCalls

VARIABLES
    reader, b,
    offset,    \* what the last call returned
    vs,        \* the values read so far
    calls,
    outcome    \* of the last call: "none", "ok", "failed", "not_consumed"
vars == <<reader, b, offset, vs, calls, outcome>>

Seqs(S, n) == UNION {[1 .. k -> S] : k \in 0 .. n}

\* jwrite_range(): the JSON writer has a delimiter, that of msgpack none
JwriteRange(r, ds) ==
    IF r = "msgpack" THEN ds
    ELSE FoldLeft(LAMBDA s, d : s \o <<d, " ">>, <<>>, ds)

Init ==
    /\ reader \in Readers
    /\ \E ds \in Seqs({"d", "b"}, MaxDocs), rest \in {<<>>, <<"t">>, <<" ">>} :
         /\ rest = <<" ">> => reader # "msgpack"
         /\ b = JwriteRange(reader, ds) \o rest
    /\ offset = 0 /\ vs = <<>> /\ calls = 0 /\ outcome = "none"

\* input_manager: what the reader sees is the buffer from the offset on;
\* the padding after it is gone when the read is over
Start(o) == IF \E i \in o + 1 .. Len(b) : b[i] # " "
            THEN (CHOOSE i \in o + 1 .. Len(b) : /\ b[i] # " "
                                                 /\ \A k \in o + 1 .. i - 1 : b[k] = " ") - 1
            ELSE Len(b)

\* read(): the document at or, in JSON, after offset o; the offset after it,
\* in JSON after the white space, too
ReadOne(o) ==
    LET s == IF reader = "msgpack" THEN o ELSE Start(o) IN
    IF s < Len(b) /\ b[s + 1] = "d"
    THEN [err |-> FALSE, val |-> s, next |-> IF reader = "msgpack" THEN s + 1 ELSE Start(s + 1)]
    ELSE [err |-> TRUE, val |-> 0, next |-> o]

\* Mutant: after an early return, the offset of the document read last.
ReadForeachStays(o, n) ==
    FoldLeft(LAMBDA st, i :
        IF st.done THEN st
        ELSE LET s == Start(st.off) IN
             IF s = Len(b) \/ b[s + 1] = "t" THEN [st EXCEPT !.off = s, !.done = TRUE]
             ELSE IF b[s + 1] = "b" THEN [st EXCEPT !.err = TRUE, !.done = TRUE]
             ELSE [st EXCEPT !.off = IF Len(st.vals) + 1 = n THEN s ELSE Start(s + 1),
                             !.vals = Append(@, s),
                             !.done = Len(st.vals) + 1 = n],
        [off |-> o, vals |-> <<>>, err |-> FALSE, done |-> FALSE], [i \in 1 .. Len(b) + 1 |-> i])

\* simdjson_reader::read_foreach(): up to n values; a document that is not
\* matched is an error, one that is cut off is left
ReadForeach(o, n) ==
    FoldLeft(LAMBDA st, i :
        IF st.done THEN st
        ELSE LET s == Start(st.off) IN
             IF s = Len(b) \/ b[s + 1] = "t" THEN [st EXCEPT !.off = s, !.done = TRUE]
             ELSE IF b[s + 1] = "b" THEN [st EXCEPT !.err = TRUE, !.done = TRUE]
             ELSE [st EXCEPT !.off = Start(s + 1), !.vals = Append(@, s),
                             !.done = Len(st.vals) + 1 = n],
        [off |-> o, vals |-> <<>>, err |-> FALSE, done |-> FALSE], [i \in 1 .. Len(b) + 1 |-> i])

\* The general loop over jread(): it ends at the first error, which it does
\* not return
GeneralForeach(o, n) ==
    FoldLeft(LAMBDA st, i :
        IF st.done THEN st
        ELSE LET r == ReadOne(st.off) IN
             IF r.err THEN [st EXCEPT !.done = TRUE]
             ELSE [st EXCEPT !.off = r.next, !.vals = Append(@, r.val),
                             !.done = Len(st.vals) + 1 = n \/ r.next >= Len(b)],
        [off |-> o, vals |-> <<>>, err |-> FALSE, done |-> FALSE], [i \in 1 .. Len(b) + 1 |-> i])

Foreach(o, n) == IF reader = "json" THEN ReadForeach(o, n) ELSE GeneralForeach(o, n)

\* A caller reads on from the offset it got: values are appended to vs, also
\* the ones before an error
CallEnds(r, out) ==
    /\ outcome # "failed" /\ calls < MaxCalls /\ calls' = calls + 1
    /\ vs' = vs \o r.vals
    /\ offset' = IF r.err THEN offset ELSE r.off
    /\ outcome' = IF r.err THEN "failed" ELSE out
    /\ UNCHANGED <<reader, b>>

JreadRange == CallEnds(Foreach(offset, 0), "ok")

\* n >= 1 values
JreadRangeAtMost(n) == CallEnds(Foreach(offset, n), "ok")

JreadRangeWhole ==
    LET r == Foreach(offset, 0) IN
    CallEnds(r, IF r.off # Len(b) THEN "not_consumed" ELSE "ok")

Jread ==
    LET r == ReadOne(offset) IN
    CallEnds([off |-> r.next, vals |-> IF r.err THEN <<>> ELSE <<r.val>>, err |-> r.err], "ok")

JreadWhole ==
    LET r == ReadOne(offset) IN
    CallEnds([off |-> r.next, vals |-> IF r.err THEN <<>> ELSE <<r.val>>, err |-> r.err],
             IF r.next # Len(b) THEN "not_consumed" ELSE "ok")

Next == \/ JreadRange \/ JreadRangeWhole \/ Jread \/ JreadWhole
        \/ \E n \in 1 .. 2 : JreadRangeAtMost(n)

Spec == Init /\ [][Next]_vars

\* However the calls are mixed, each reading on from the offset of the one
\* before: the values are the documents in front of the offset, all of them,
\* in order and none twice; after an error, the documents in front of the
\* one that is not matched.  not_consumed is said only when a document is
\* left, or there was none at all.
ReadsOn ==
    LET upTo == IF outcome = "failed" THEN {i \in 1 .. Len(b) : \A k \in 1 .. i : b[k] \in {"d", " "}}
                ELSE 1 .. offset
    IN /\ vs = SetToSortSeq({i - 1 : i \in {k \in upTo : b[k] # " "}}, <)
       /\ outcome = "not_consumed" => vs = <<>> \/ \E i \in offset + 1 .. Len(b) : b[i] # " "
================================================================================
