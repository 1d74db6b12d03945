------------------------------- MODULE JserDsl --------------------------------
(***************************************************************************)
(* The definitions of jser (jser/dsl.hpp), by which data is written and    *)
(* read again: selected members, joptional, variants, jconv, jcheck,       *)
(* jexam, arrays, tuples, jmap_obj, jobj with nested jobjs and checks; the *)
(* functions they call (jser/read.hpp, jser/write.hpp) and the text the    *)
(* JSON writer makes of it (jser/json/writer.hpp).                         *)
(*                                                                         *)
(* A definition is a record with its kind k.  What is written is a tree;   *)
(* an object in it knows how many fields the writer has counted, which is  *)
(* all a reader of msgpack has to go by.  No value of an optional, and the *)
(* monostate of a variant, are <<>>; a value x of one is <<x>>, alternative *)
(* i of the other <<i, x>>.  Reading gives <<data>>, or <<>> for an error.  *)
(***************************************************************************)
EXTENDS Integers, Sequences, SequencesExt, FiniteSetsExt

CONSTANTS Defs  \* definitions

VARIABLES
    def, x,  \* the definition and the data that is written
    old,     \* the data the target of the read holds before
    absent,  \* fields another writer leaves out
    tree,    \* <<what is written>>
    got      \* what is read of it, by format
vars == <<def, x, old, absent, tree, got>>

Nums == {1, 2}
To(n)      == n + 10                               \* the conversion of a jconv
From(n)    == IF n > 10 THEN <<n - 10>> ELSE <<>>
Default    == 5                                    \* the default of a jexam
Checked(n) == n # 0                                \* the check of a jcheck
Maps(S)    == UNION {[ks -> S] : ks \in SUBSET Nums}
SeqsTo2(S) == UNION {[1 .. n -> S] : n \in 0 .. 2}

RECURSIVE Values(_)
Values(d) ==
    CASE d.k \in {"num", "conv", "check"} -> Nums
      [] d.k \in {"opt", "popt"} -> {<<>>} \cup {<<v>> : v \in Values(d.v)}
      [] d.k \in {"var", "pvar"} -> (IF d.nullable THEN {<<>>} ELSE {})
                                    \cup UNION {{<<i, v>> : v \in Values(d.alts[i])} : i \in DOMAIN d.alts}
      [] d.k = "exam" -> {0}
      [] d.k = "whole" -> {0}
      [] d.k \in {"arr_of", "parr"} -> SeqsTo2(Values(d.v))
      [] d.k = "map" -> Maps(Nums)
      [] d.k = "tuple" -> {<<a, b>> : a \in Values(d.vs[1]), b \in Values(d.vs[2])}
      [] d.k = "obj" -> FoldLeft(LAMBDA ss, kv : {Append(s, v) : s \in ss, v \in Values(kv.v)}, {<<>>}, d.kvs)

Num(n)      == [t |-> "num", v |-> n]
Null        == [t |-> "null"]
Arr(es)     == [t |-> "arr", es |-> es]
\* obj_scope() makes room for the header of an object of at most max fields and puts their number n
\* there.  A number above 15 turns the one byte for up to 15 fields into another tag (no header).
NoHeader == 99
Obj(max, n, fs) == [t |-> "obj", cnt |-> IF max < 16 /\ n > 15 THEN NoHeader ELSE n, fs |-> fs]

\* Definitions that take a key and write the field themselves
Keyed == {"opt", "var"}

-----------------------------------------------------------------------------
(* Writing *)

RECURSIVE Write(_, _)

\* One field of write_jflds(): an optional or variant without a value is left out; those that take the key
\* are counted all the same.
WriteFld(kv, v) ==
    CASE kv.v.k \in Keyed -> [cnt |-> 1, fs |-> IF v = <<>> THEN <<>> ELSE <<<<kv.key, Write(kv.v, v)>>>>]
      [] kv.v.k \in {"popt", "pvar"} /\ v = <<>> -> [cnt |-> 0, fs |-> <<>>]
      [] OTHER -> [cnt |-> 1, fs |-> <<<<kv.key, Write(kv.v, v)>>>>]

\* write_jflds(): the fields of nested jobjs are merged in, a nested check has none
RECURSIVE WriteFlds(_, _)
WriteFlds(kvs, vs) ==
    IF kvs = <<>> THEN [cnt |-> 0, fs |-> <<>>]
    ELSE LET h == Head(kvs)
             a == IF h.key # "nested" THEN WriteFld(h, Head(vs))
                  ELSE IF h.v.k = "whole" THEN [cnt |-> 0, fs |-> <<>>]
                  ELSE WriteFlds(h.v.kvs, Head(vs))
             b == WriteFlds(Tail(kvs), Tail(vs))
         IN  [cnt |-> a.cnt + b.cnt, fs |-> a.fs \o b.fs]

\* A nested jobj counts as one of the fields there are at most: if it has more, debug builds fail the
\* assertion of obj_scope(), and others go on.
WriteObj(d, v) == LET w == WriteFlds(d.kvs, v) IN Obj(Len(d.kvs), w.cnt, w.fs)

WriteMap(v) == LET ks == SetToSortSeq(DOMAIN v, <) IN
               Obj(Len(ks), Len(ks), [i \in DOMAIN ks |-> <<ks[i], Num(v[ks[i]])>>])

WriteOptional(d, v) == IF v = <<>> THEN Null ELSE Write(d.v, v[1])
WriteVariant(d, v)  == IF v = <<>> THEN Null ELSE Write(d.alts[v[1]], v[2])
WriteArrOf(d, v)    == Arr([i \in DOMAIN v |-> Write(d.v, v[i])])
WriteTuple(d, v)    == Arr([i \in DOMAIN d.vs |-> Write(d.vs[i], v[i])])

Write(d, v) ==
    CASE d.k \in {"num", "check"}   -> Num(v)
      [] d.k = "conv"               -> Num(To(v))
      [] d.k = "exam"               -> Num(Default)
      [] d.k \in {"opt", "popt"}    -> WriteOptional(d, v)
      [] d.k \in {"var", "pvar"}    -> WriteVariant(d, v)
      [] d.k \in {"arr_of", "parr"} -> WriteArrOf(d, v)
      [] d.k = "tuple"              -> WriteTuple(d, v)
      [] d.k = "map"                -> WriteMap(v)
      [] d.k = "obj"                -> WriteObj(d, v)

-----------------------------------------------------------------------------
(* Reading t into o *)

RECURSIVE Read(_, _, _, _)

\* get_jval_matched_type(): the alternative for the type of the value, 0 for null, -1 for none
MatchedType(d, t) ==
    LET is == {i \in DOMAIN d.alts : t.t = CASE d.alts[i].k = "num" -> "num"
                                             [] d.alts[i].k = "arr_of" -> "arr"
                                             [] d.alts[i].k = "obj" -> "obj"}
    IN  IF t.t = "null" THEN 0 ELSE IF is = {} THEN -1 ELSE Min(is)

ReadVariant(d, t, o, fmt) ==
    LET i == MatchedType(d, t)
        r == Read(d.alts[i], t, IF o # <<>> /\ o[1] = i THEN o[2] ELSE CHOOSE v \in Values(d.alts[i]) : TRUE, fmt)
    IN  CASE i = -1 -> <<>>
          [] i = 0  -> IF d.nullable THEN <<<<>>>> ELSE <<>>
          [] i > 0  -> IF r = <<>> THEN <<>> ELSE <<<<i, r[1]>>>>

ReadOptional(d, t, o, fmt) ==
    LET r == Read(d.v, t, IF o # <<>> THEN o[1] ELSE CHOOSE v \in Values(d.v) : TRUE, fmt)
    IN  IF t.t = "null" THEN <<<<>>>> ELSE IF r = <<>> THEN <<>> ELSE <<r>>

\* read_jarr_of() of a container that grows: it is cleared first
RECURSIVE ReadElms(_, _, _, _)
ReadElms(d, es, acc, fmt) ==
    IF es = <<>> THEN <<acc>>
    ELSE LET r == Read(d.v, Head(es), CHOOSE v \in Values(d.v) : TRUE, fmt)
         IN  IF r = <<>> THEN <<>> ELSE ReadElms(d, Tail(es), Append(acc, r[1]), fmt)

\* read_jtuple()
ReadTuple(d, t, o, fmt) ==
    LET r == [i \in DOMAIN d.vs |-> Read(d.vs[i], t.es[i], o[i], fmt)]
    IN  IF t.t # "arr" \/ Len(t.es) < Len(d.vs) \/ (d.exact /\ Len(t.es) > Len(d.vs)) THEN <<>>
        ELSE IF \E i \in DOMAIN r : r[i] = <<>> THEN <<>> ELSE <<[i \in DOMAIN r |-> r[i][1]]>>

\* jmap_obj: what the map holds already stays, and must not be in the document
ReadMap(t, o) ==
    LET ks == {t.fs[i][1] : i \in DOMAIN t.fs}
        val(k) == (CHOOSE i \in DOMAIN t.fs : t.fs[i][1] = k) IN
    IF t.t # "obj" \/ ks \cap DOMAIN o # {} THEN <<>>
    ELSE <<[k \in ks \cup DOMAIN o |-> IF k \in ks THEN t.fs[val(k)][2].v ELSE o[k]]>>

\* Mutant: a field that is missing leaves what the target holds.
NoFldKeeps(d, o) == IF d.k \in {"opt", "popt", "pvar", "parr"} \/ (d.k = "var" /\ d.nullable) THEN <<o>> ELSE <<>>

\* What read_jobj() makes of a field that is missing
NoFld(d, o) == IF d.k \in {"opt", "popt", "pvar", "parr"} \/ (d.k = "var" /\ d.nullable) THEN <<<<>>>> ELSE <<>>

\* read_jobj(): its own keys first, then the nested ones
ReadObj(d, t, o, fmt) ==
    LET at(key) == {i \in DOMAIN t.fs : t.fs[i][1] = key}
        r == [i \in DOMAIN d.kvs |->
                LET kv == d.kvs[i] IN
                CASE kv.key = "nested" /\ kv.v.k = "whole" -> <<0>>
                  [] kv.key = "nested" -> Read(kv.v, t, o[i], fmt)
                  [] kv.key # "nested" /\ at(kv.key) = {} -> NoFld(kv.v, o[i])
                  [] OTHER -> Read(kv.v, t.fs[Min(at(kv.key))][2], o[i], fmt)]
        res == [i \in DOMAIN r |-> r[i][1]]
        whole == {i \in DOMAIN d.kvs : d.kvs[i].v.k = "whole"}
    IN  IF t.t # "obj" \/ (fmt = "msgpack" /\ t.cnt # Len(t.fs)) THEN <<>>
        ELSE IF \E i \in DOMAIN r : r[i] = <<>> THEN <<>>
        ELSE IF \E i \in whole : ~Checked(Len(res)) THEN <<>> ELSE <<res>>

ReadNum(t)  == IF t.t = "num" THEN <<t.v>> ELSE <<>>
ReadConv(t) == IF t.t = "num" THEN From(t.v) ELSE <<>>
ReadCheck(t) == IF t.t = "num" /\ Checked(t.v) THEN <<t.v>> ELSE <<>>
ReadExam(t, o) == IF t.t = "num" /\ t.v = Default THEN <<o>> ELSE <<>>

Read(d, t, o, fmt) ==
    CASE d.k = "num"                -> ReadNum(t)
      [] d.k = "conv"               -> ReadConv(t)
      [] d.k = "check"              -> ReadCheck(t)
      [] d.k = "exam"               -> ReadExam(t, o)
      [] d.k \in {"opt", "popt"}    -> ReadOptional(d, t, o, fmt)
      [] d.k \in {"var", "pvar"}    -> ReadVariant(d, t, o, fmt)
      [] d.k \in {"arr_of", "parr"} -> IF t.t = "arr" THEN ReadElms(d, t.es, <<>>, fmt) ELSE <<>>
      [] d.k = "tuple"              -> ReadTuple(d, t, o, fmt)
      [] d.k = "map"                -> ReadMap(t, o)
      [] d.k = "obj"                -> ReadObj(d, t, o, fmt)

-----------------------------------------------------------------------------
(* The text of json_writer, in tokens: every element and field is followed by a comma, the last of which *)
(* the closing bracket replaces.                                                                          *)

\* amend_last_if_eq_to()
Amend(b, t, a) == IF b[Len(b)] = t THEN [b EXCEPT ![Len(b)] = a] ELSE Append(b, a)

RECURSIVE Emit(_, _)
EmitElms(b, es) == FoldLeft(LAMBDA acc, e : Append(Emit(acc, e), ","), b, es)
EmitFlds(b, fs) == FoldLeft(LAMBDA acc, f : Append(Emit(acc \o <<ToString(f[1]), ":">>, f[2]), ","), b, fs)
Emit(b, t) ==
    CASE t.t = "num"  -> Append(b, ToString(t.v))
      [] t.t = "null" -> Append(b, "null")
      [] t.t = "arr"  -> Amend(EmitElms(Append(b, "["), t.es), ",", "]")
      [] t.t = "obj"  -> Amend(EmitFlds(Append(b, "{"), t.fs), ",", "}")

\* The text by the grammar of JSON: commas between elements
RECURSIVE Text(_)
Joined(ss) == IF ss = <<>> THEN <<>> ELSE FoldLeft(LAMBDA acc, s : acc \o <<",">> \o s, Head(ss), Tail(ss))
Text(t) ==
    CASE t.t = "num"  -> <<ToString(t.v)>>
      [] t.t = "null" -> <<"null">>
      [] t.t = "arr"  -> <<"[">> \o Joined([i \in DOMAIN t.es |-> Text(t.es[i])]) \o <<"]">>
      [] t.t = "obj"  -> <<"{">> \o Joined([i \in DOMAIN t.fs |-> <<ToString(t.fs[i][1]), ":">> \o Text(t.fs[i][2])]) \o <<"}">>

-----------------------------------------------------------------------------
Init ==
    /\ def \in Defs /\ x \in Values(def) /\ old \in Values(def)
    /\ absent \in SUBSET {def.kvs[i].key : i \in {j \in DOMAIN def.kvs : def.kvs[j].key # "nested"}}
    /\ tree = <<>> /\ got = <<>>

\* jwrite(); another writer may leave fields out.
JWrite ==
    /\ tree = <<>>
    /\ LET w == Write(def, x)
           fs == SelectSeq(w.fs, LAMBDA f : f[1] \notin absent)
       IN  tree' = <<IF absent = {} THEN w ELSE Obj(Len(fs), Len(fs), fs)>>
    /\ UNCHANGED <<def, x, old, absent, got>>

\* jread()
JRead ==
    /\ tree # <<>> /\ got = <<>>
    /\ got' = [fmt \in {"json", "msgpack"} |-> Read(def, tree[1], old, fmt)]
    /\ UNCHANGED <<def, x, old, absent, tree>>

Next == JWrite \/ JRead
Spec == Init /\ [][Next]_vars

-----------------------------------------------------------------------------
(* Properties *)

Fields   == DOMAIN def.kvs
Optional(i) == NoFld(def.kvs[i].v, <<>>) # <<>>
Missing  == {i \in Fields : def.kvs[i].key \in absent}
HasMap   == \E i \in Fields : def.kvs[i].v.k = "map"
\* A definition that takes its key has no value: the writer has counted a field it has not written.
Miscounted == absent = {} /\ \E i \in Fields : def.kvs[i].v.k \in Keyed /\ x[i] = <<>>

\* The fields of nested jobjs do not fit into the header that was reserved.
Unheaded == tree # <<>> /\ tree[1].cnt = NoHeader

\* What is written is read back, by json and msgpack, whatever the target held before: no value of an
\* earlier read is left in it, neither in fields that are missing nor in optionals, variants and arrays that
\* are read again.  Missing fields are an error exactly if one of them is not optional.  (jmap_obj is not
\* cleared; the count of msgpack is wrong in the cases Miscounted and Unheaded.)
ReadsWhatWasWritten ==
    got # <<>> /\ ~HasMap => \A fmt \in {"json", "msgpack"} :
        (fmt = "msgpack" /\ (Miscounted \/ Unheaded)) \/
        IF \E i \in Missing : ~Optional(i) THEN got[fmt] = <<>>
        ELSE /\ got[fmt] # <<>>
             /\ \A i \in Fields : IF i \in Missing THEN got[fmt][1][i] = <<>> ELSE got[fmt][1][i] = x[i]

\* The same in the case Miscounted: a field of a joptional or a nullable variant without a value is left out
\* (jser/dsl.hpp), and the object can be read.
CountIsRight == tree # <<>> /\ tree[1].t = "obj" => tree[1].cnt = Len(tree[1].fs)

\* The commas that the JSON writer puts and takes back are those of the grammar.
TextIsJson == tree # <<>> => Emit(<<>>, tree[1]) = Text(tree[1])
=============================================================================
