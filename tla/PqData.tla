------------------------------- MODULE PqData -------------------------------
(***************************************************************************)
(* The values of a pq_conn: how a parameter becomes an oid and the bytes   *)
(* of the binary format (include/dsk/pq/data_types.hpp), and how a column  *)
(* of a result becomes a value again (include/dsk/pq/result.hpp, with      *)
(* cvt_num() of include/dsk/util/num_cast.hpp).  The server returns what   *)
(* it was given: "select $1", in the binary or in the text format.         *)
(*                                                                         *)
(* A byte has Bits bits (8 in the code), so that every width is small: an  *)
(* int16_t is two such bytes, an int32_t four, an int64_t eight.           *)
(***************************************************************************)
EXTENDS Integers, Sequences, FiniteSetsExt, SequencesExt

CONSTANTS
    Bits,        \* bits of a byte
    MaxText,     \* bound: bytes of a string
    MaxElms      \* bound: elements of an array

VARIABLES
    param,       \* what is sent: <<>> or <<<<shape, element type, null>>, value>>
    cell,        \* what the result holds: <<>> or <<[oid, fmt, null, d]>>
    got          \* what get_val() gave: <<>> or <<<<shape, element type>>, [err, val]>>

vars == <<param, cell, got>>

Byte == 0..(2 ^ Bits - 1)
Size == [char |-> 1, int8 |-> 1, uint8 |-> 1, int16 |-> 2, uint16 |-> 2,
         int32 |-> 4, uint32 |-> 4, int64 |-> 8]
Signed == {"char", "int8", "int16", "int32", "int64"}
Ints == {"int8", "uint8", "int16", "uint16", "int32", "uint32", "int64"}

Lower(t) == IF t \in Signed THEN -(2 ^ (Bits * Size[t] - 1)) ELSE 0
Upper(t) == IF t \in Signed THEN 2 ^ (Bits * Size[t] - 1) - 1 ELSE 2 ^ (Bits * Size[t]) - 1

\* store_be(), load_be(): two's complement, most significant byte first.
StoreBe(t, v) ==
    LET u == v % (2 ^ (Bits * Size[t]))
    IN  [i \in 1..Size[t] |-> (u \div 2 ^ (Bits * (Size[t] - i))) % 2 ^ Bits]
LoadBe(t, d) ==
    LET u == FoldLeft(LAMBDA a, b : a * 2 ^ Bits + b, 0, SubSeq(d, 1, Size[t]))
    IN  IF u > Upper(t) THEN u - 2 ^ (Bits * Size[t]) ELSE u

\* Mutant: the type of the same size, whatever its sign.
StoredAsSameSize ==
    [bool |-> "char", char |-> "char", int8 |-> "int16", uint8 |-> "int16", int16 |-> "int16",
     uint16 |-> "int16", int32 |-> "int32", uint32 |-> "int32", int64 |-> "int64"]

\* arithmetic_pq_param_info: the type a number is stored as, and its oid.
StoredAs ==
    [bool |-> "char", char |-> "char", int8 |-> "int16", uint8 |-> "int16", int16 |-> "int16",
     uint16 |-> "int32", int32 |-> "int32", uint32 |-> "int64", int64 |-> "int64"]
Oid(t) == IF t = "bool" THEN "bool" ELSE StoredAs[t]

IsTextual(oid) == oid \in {"char", "text"}
IsArray(oid) == oid[1] = "arr"

\* cvt_num(): the same number, or bad_num_cast; to bool whether it is not 0.
CvtNum(v, t) ==
    CASE t = "bool" -> [err |-> "", val |-> IF v = 0 THEN 0 ELSE 1]
      [] t # "bool" /\ v \in Lower(t)..Upper(t) -> [err |-> "", val |-> v]
      [] OTHER -> [err |-> "bad_num_cast", val |-> << >>]

\* The writers of get_pq_param_writer(): [oid, d].
WriteElm(t, v) == IF t = "text" THEN v ELSE StoreBe(StoredAs[t], v)
ElmOid(t) == IF t = "text" THEN "text" ELSE Oid(t)
Header(t, n) == [dim |-> 1, oid |-> ElmOid(t), cnt |-> n]
Written(p) ==
    IF p.type[1] = "one" THEN [oid |-> <<"one", ElmOid(p.type[2])>>, d |-> <<WriteElm(p.type[2], p.val)>>]
    ELSE [oid |-> <<"arr", ElmOid(p.type[2])>>,
          d |-> <<Header(p.type[2], Len(p.val))>> \o [i \in 1..Len(p.val) |-> WriteElm(p.type[2], p.val[i])]]

\* from_pq_binary() of one element: d its bytes, oid its type.
FromBinary(oid, d, t) ==
    IF t = "text"
    THEN IF IsTextual(oid) THEN [err |-> "", val |-> d] ELSE [err |-> "type_mismatch", val |-> << >>]
    ELSE IF oid \notin {"bool", "char", "int16", "int32", "int64"} THEN [err |-> "type_mismatch", val |-> << >>]
    ELSE LET s == IF oid = "bool" THEN "char" ELSE oid
         IN  IF Len(d) # Size[s] THEN [err |-> "size_mismatch", val |-> << >>] ELSE CvtNum(LoadBe(s, d), t)

\* from_pq_textual(): what the text says (letters are no number); a bool must be "true" or "false" and the server says "t".
FromTextual(oid, d, t) ==
    CASE t = "text" -> [err |-> "", val |-> d]
      [] t = "bool" -> [err |-> "invalid_input", val |-> << >>]
      [] t = "char" -> IF Len(d) = 1 THEN [err |-> "", val |-> LoadBe("char", d)] ELSE [err |-> "size_mismatch", val |-> << >>]
      [] OTHER -> IF oid \in {"text", "char", "bool"} THEN [err |-> "invalid_input", val |-> << >>] ELSE CvtNum(LoadBe(StoredAs[oid], d), t)

\* An element of an array: read_int32() needs a byte after the length it reads.
ElmErr(h, elms, i, t) ==
    IF i = Len(elms) /\ elms[i] = << >> THEN "size_mismatch" ELSE FromBinary(h.oid, elms[i], t).err

\* from_pq_binary() of a range that grows (fixed = 0), or of one of fixed elements.
ReadArray(d, t, fixed) ==
    LET h    == d[1]
        elms == Tail(d)
        bad  == {i \in 1..Len(elms) : ElmErr(h, elms, i, t) # ""}
    IN  CASE h.dim = 0 -> [err |-> "size_mismatch", val |-> << >>]
          [] h.dim # 0 /\ fixed > 0 /\ h.cnt # fixed -> [err |-> "size_mismatch", val |-> << >>]
          [] h.dim # 0 /\ (fixed > 0 => h.cnt = fixed) /\ bad # {} ->
                [err |-> ElmErr(h, elms, Min(bad), t), val |-> << >>]
          [] OTHER -> [err |-> "", val |-> [i \in 1..Len(elms) |-> FromBinary(h.oid, elms[i], t).val]]

\* pq_result::get_val(): type = <<"one", t>>, <<"opt", t>>, <<"arr", t>>, <<"fix", t>> (two elements).
GetVal(c, type) ==
    IF c.null
    THEN IF type[1] = "opt" THEN [err |-> "", val |-> << >>] ELSE [err |-> "null_for_non_optional_type", val |-> << >>]
    ELSE LET textual == c.fmt = "text" \/ (~IsArray(c.oid) /\ IsTextual(c.oid[2]))
         IN  IF type[1] \in {"one", "opt"}
             THEN CASE textual /\ IsArray(c.oid) -> [err |-> IF type[2] = "text" THEN "" ELSE "invalid_input", val |-> << >>]
                    [] textual /\ ~IsArray(c.oid) -> FromTextual(c.oid[2], c.d[1], type[2])
                    [] ~textual /\ IsArray(c.oid) -> [err |-> "type_mismatch", val |-> << >>]
                    [] OTHER -> FromBinary(c.oid[2], c.d[1], type[2])
             ELSE CASE textual -> [err |-> "unsupported_textual_conv", val |-> << >>]
                    [] ~textual /\ ~IsArray(c.oid) -> [err |-> "type_mismatch", val |-> << >>]
                    [] OTHER -> ReadArray(c.d, type[2], IF type[1] = "fix" THEN 2 ELSE 0)

-----------------------------------------------------------------------------
\* The values of an element type that matter: the ends of every range.
Values(t) ==
    IF t = "text" THEN UNION {[1..n -> {1}] : n \in 0..MaxText}
    ELSE IF t = "bool" THEN {0, 1}
    ELSE {v \in UNION {{Lower(u) - 1, Lower(u), -1, 0, 1, Upper(u), Upper(u) + 1} : u \in {"char"} \cup Ints} :
            v \in Lower(t)..Upper(t)}
ElmTypes == {"bool", "char", "text"} \cup Ints

Sent == [type |-> param[1], null |-> param[1][3], val |-> param[2]]

Init == param = << >> /\ cell = << >> /\ got = << >>

\* pq_params_builder: a null parameter has no bytes.
Build ==
    /\ param = << >>
    /\ \E t \in ElmTypes :
         \/ \E v \in Values(t) : param' = <<<<"one", t, FALSE>>, v>>
         \/ param' = <<<<"one", t, TRUE>>, << >>>>
         \/ /\ t \in {"uint16", "text"}
            /\ \E v \in UNION {[1..n -> Values(t)] : n \in 0..MaxElms} :
                  param' = <<<<"arr", t, FALSE>>, v>>
    /\ UNCHANGED <<cell, got>>

\* The server: an empty array has no dimension.
Echo ==
    /\ param # << >> /\ cell = << >>
    /\ \E fmt \in {"binary", "text"} :
         LET p == Sent
             w == Written(p)
         IN  cell' = <<[oid |-> IF p.null THEN <<"one", ElmOid(p.type[2])>> ELSE w.oid, fmt |-> fmt, null |-> p.null,
                        d |-> IF p.null THEN << >>
                              ELSE IF p.type[1] = "arr" /\ p.val = << >> THEN <<[w.d[1] EXCEPT !.dim = 0]>> ELSE w.d]>>
    /\ UNCHANGED <<param, got>>

Get ==
    /\ cell # << >> /\ got = << >>
    /\ \E shape \in {"one", "opt", "arr", "fix"}, t \in ElmTypes :
         got' = <<<<shape, t>>, GetVal(cell[1], <<shape, t>>)>>
    /\ UNCHANGED <<param, cell>>

Next == Build \/ Echo \/ Get

Spec == Init /\ [][Next]_vars

-----------------------------------------------------------------------------
\* What get_val() stores is what was sent, whatever types were used at the two ends: a
\* number is never truncated nor reinterpreted.  (A bool only takes whether it is 0.)
PqValueKept ==
    (got # << >> /\ got[2].err = "" /\ ~Sent.null
       /\ got[1][2] # "bool" /\ (Sent.type[1] = "arr" <=> got[1][1] \in {"arr", "fix"})
       /\ (got[1][2] = "text" <=> Sent.type[2] = "text"))
       => got[2].val = Sent.val

\* A value comes back to the type it was sent as: all numbers, and all arrays but the
\* empty one and one that ends with an empty string, for which read_int32() finds no room.
PqReadsOwn ==
    LET p    == Sent
        same == got[1][2] = p.type[2] /\ (got[1][1] = p.type[1] \/ (p.type[1] = "one" /\ got[1][1] = "opt"))
    IN  (got # << >> /\ same /\ ~p.null /\ cell[1].fmt = "binary" /\ got[2].err # "")
          => /\ p.type[1] = "arr"
             /\ p.val # << >> => p.type[2] = "text" /\ p.val[Len(p.val)] = << >>
=============================================================================
