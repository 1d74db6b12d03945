------------------------------- MODULE JserObj -------------------------------
(***************************************************************************)
(* Reading an object by a jobj definition (jser/dsl.hpp, read_jobj() of    *)
(* jser/read.hpp): its keys are looked up in one loop over the fields of   *)
(* the object, those of every nested jobj in a further loop that starts    *)
(* where the last one has stopped.  The loops are msgpack_value::          *)
(* loop_iterator (jser/msgpack/reader.hpp) and simdjson_loop_iter          *)
(* (jser/json/simdjson.hpp).                                               *)
(*                                                                         *)
(* A document is the fields of the object, its values in the order they    *)
(* are encoded; what follows the object (the next element of an array, for *)
(* instance) is After values.  The position of a msgpack reader is the      *)
(* number of values it has consumed, that of simdjson a field.             *)
(***************************************************************************)
EXTENDS Naturals, Sequences, SequencesExt, FiniteSets

CONSTANTS
    Cases,   \* what is read: [fmt, def]; fmt: "json" or "msgpack"; def: a definition [groups, opt], groups[1]
             \* the keys of the jobj, the others those of its nested ones
    Unknown, \* keys of documents no definition has
    After    \* values that follow the object

VARIABLES
    fmt, def,
    doc,     \* the keys of the fields, in the order of the document
    it,      \* the loop iterator
    grp,     \* the group that is looked up
    matched, \* its keys found so far
    out,     \* what was read: key -> the position of the field it was taken from
    pc       \* "start", "loop", "ended", "skip", "outer", "done", "error"

vars == <<fmt, def, doc, it, grp, matched, out, pc>>

KeysOf(d) == UNION {ToSet(d.groups[g]) : g \in DOMAIN d.groups}

\* The keys of a document, in any order, with other fields.
Documents(d) ==
    UNION {SetToSeqs(ks) : ks \in {s \in SUBSET (KeysOf(d) \cup Unknown) : KeysOf(d) \ d.opt \subseteq s}}

N == Len(doc)
Json == fmt = "json"

\* get_jval_finder(): map_loop_iter() reads the number of fields; simdjson counts them as it goes.
\* "lost" records that a msgpack reader has lost count of what it has read.
Finder(f, n) == [p |-> 0, i |-> 0, j |-> 0, n |-> IF f = "json" THEN 0 ELSE n, counting |-> TRUE, lost |-> FALSE]

Init ==
    /\ \E c \in Cases : fmt = c.fmt /\ def = c.def /\ doc \in Documents(c.def)
    /\ it = Finder(fmt, Len(doc))
    /\ grp = 1 /\ matched = {} /\ out = [k \in KeysOf(def) |-> 0] /\ pc = "start"

\* ++it of simdjson, which stays at the end; p = N is the end
Inc(p) == IF p < N THEN p + 1 ELSE p

\* start()
Start ==
    /\ pc = "start"
    /\ it' = IF Json THEN [it EXCEPT !.p = IF it.j > 0 THEN Inc(@) ELSE @, !.j = 0] ELSE [it EXCEPT !.j = 0]
    /\ matched' = {}
    /\ pc' = IF def.groups[grp] = <<>> THEN "ended" ELSE "loop"
    /\ UNCHANGED <<fmt, def, doc, grp, out>>

\* loop_iterator::next(): when it begins again, _i is one behind the fields it has returned.
MsgpackNext ==
    IF it.j < it.n
    THEN LET wrap == it.i = it.n IN
         [more |-> TRUE, it |-> [it EXCEPT !.j = @ + 1, !.i = IF wrap THEN 0 ELSE @ + 1, !.p = IF wrap THEN 0 ELSE @,
                                           !.lost = @ \/ wrap]]
    ELSE [more |-> FALSE, it |-> [it EXCEPT !.j = @ + 1]]

\* simdjson_loop_iter::next()
JsonNext ==
    LET p == IF it.j > 0 THEN Inc(it.p) ELSE it.p IN
    IF it.counting /\ p < N
    THEN [more |-> TRUE, it |-> [it EXCEPT !.p = p, !.n = @ + 1, !.j = @ + 1]]
    ELSE [more |-> it.j < it.n,
          it |-> [it EXCEPT !.j = @ + 1, !.counting = FALSE, !.p = IF it.j < it.n /\ p = N THEN 0 ELSE p]]

\* The field next() has returned; 0 when a msgpack reader is not at a key of the object.
FieldAt(i) ==
    IF Json THEN i.p + 1
    ELSE IF i.p % 2 = 0 /\ i.p < 2 * N THEN i.p \div 2 + 1 ELSE 0

\* One pass of dsk_foreach_found_jval(): a field whose key is sought is read, any other one is skipped; what
\* is no key ends the read with an error.
Field ==
    LET r == IF Json THEN JsonNext ELSE MsgpackNext
        f == FieldAt(r.it)
        found == f > 0 /\ doc[f] \in ToSet(def.groups[grp]) \ matched IN
    /\ pc = "loop" /\ r.more
    /\ it' = IF Json THEN r.it ELSE [r.it EXCEPT !.p = @ + 2]
    /\ matched' = IF found THEN matched \cup {doc[f]} ELSE matched
    /\ out' = IF found THEN [out EXCEPT ![doc[f]] = f] ELSE out
    /\ pc' = IF f = 0 THEN "error" ELSE IF matched' = ToSet(def.groups[grp]) THEN "ended" ELSE "loop"
    /\ UNCHANGED <<fmt, def, doc, grp>>

NoMoreFields ==
    LET r == IF Json THEN JsonNext ELSE MsgpackNext IN
    /\ pc = "loop" /\ ~r.more
    /\ it' = r.it /\ pc' = "ended"
    /\ UNCHANGED <<fmt, def, doc, grp, matched, out>>

\* The keys with no field must be optional.  A nested jobj skips what remains, as the jobj itself does
\* after its nested ones.
Ended ==
    /\ pc = "ended"
    /\ IF ~(ToSet(def.groups[grp]) \ matched \subseteq def.opt) THEN pc' = "error" /\ UNCHANGED grp
       ELSE IF grp > 1 \/ grp = Len(def.groups) THEN pc' = "skip" /\ UNCHANGED grp
       ELSE grp' = grp + 1 /\ pc' = "start"
    /\ UNCHANGED <<fmt, def, doc, it, matched, out>>

\* Mutant: only the field the loop is at is skipped.
SkippedOne == IF Json THEN [it EXCEPT !.p = Inc(@)] ELSE it

\* skip_remains(): msgpack_value::skip() of n - i values, a key or a value each; simdjson goes to the end.
Skipped ==
    IF Json THEN [it EXCEPT !.p = N] ELSE [it EXCEPT !.p = @ + (it.n - it.i), !.lost = @ \/ it.i < it.n]

\* of the group, and after the last group of the jobj.
SkipRemains ==
    /\ pc = "skip"
    /\ it' = Skipped
    /\ IF ~Json /\ Skipped.p > 2 * N + After THEN pc' = "error" /\ UNCHANGED grp
       ELSE IF grp < Len(def.groups) THEN grp' = grp + 1 /\ pc' = "start"
       ELSE pc' = (IF grp > 1 THEN "outer" ELSE "done") /\ UNCHANGED grp
    /\ UNCHANGED <<fmt, def, doc, matched, out>>

OuterSkip ==
    /\ pc = "outer"
    /\ it' = Skipped
    /\ pc' = IF ~Json /\ Skipped.p > 2 * N + After THEN "error" ELSE "done"
    /\ UNCHANGED <<fmt, def, doc, grp, matched, out>>

Next == Start \/ Field \/ NoMoreFields \/ Ended \/ SkipRemains \/ OuterSkip

Spec == Init /\ [][Next]_vars

-----------------------------------------------------------------------------
(* Properties *)

\* msgpack loses count if fields are left when all keys are found, or if a loop begins again at the first
\* field; documents of its own writer do neither if they have all the fields of the definition.
LosesCount == it.lost
InOrder == doc = FlattenSeq(def.groups)

\* A document that has every key that is not optional is read without an error, and each key gets the value
\* of its own field, in whatever order the fields come, unless LosesCount.
FieldsRead ==
    /\ LosesCount => ~Json /\ ~InOrder
    /\ pc = "error" => LosesCount
    /\ pc = "done" /\ ~LosesCount =>
          \A k \in KeysOf(def) : IF k \in ToSet(doc) THEN out[k] > 0 /\ doc[out[k]] = k ELSE out[k] = 0

\* When the object is read the reader is behind it, wherever the loops have stopped, unless LosesCount:
\* what follows is read next.
EndsAfterObject == pc = "done" /\ ~LosesCount => it.p = IF Json THEN N ELSE 2 * N
=============================================================================
