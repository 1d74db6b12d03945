------------------------------- MODULE MCCodecs -------------------------------
(*****************************************************************************)
(* What turns data into other data, one component at a time: the readers and *)
(* writers of JSON and msgpack, compression, the values of PostgreSQL,       *)
(* searches in HTML, and the LRU cache.  "part" says which one a behaviour   *)
(* is of; variables that it does not have stay empty.                        *)
(*****************************************************************************)
EXTENDS Integers, Sequences

CONSTANTS
    Cases, Unknown, After, Defs, Readers, MaxDocs, MaxCalls, Libs, Texts, Incrs, Bits, MaxText,
    MaxElms, NNodes, MaxSearches, CKeys, Costs, LruCaps

VARIABLES
    part,   \* the component this behaviour is of
    fmt, def, doc, it, grp, matched, out, pc, task, in, x, old, absent, tree, got, reader, b,
    offset, vs, calls, outcome, lib, incr, texts, phase, act, multi, auto, src, s, coded, isEnd,
    err, param, cell, parent, label, coll, how, lru, iterMap, cost, lcap, undef, recent

vars == <<part, fmt, def, doc, it, grp, matched, out, pc, task, in, x, old, absent, tree, got,
        reader, b, offset, vs, calls, outcome, lib, incr, texts, phase, act, multi, auto, src, s,
        coded, isEnd, err, param, cell, parent, label, coll, how, lru, iterMap, cost, lcap, undef, recent>>

Objs == INSTANCE JserObj
Vals == INSTANCE JserVal
Dsl == INSTANCE JserDsl
Streams == INSTANCE JserStream
Zip == INSTANCE Compr
Pq == INSTANCE PqData
Html == INSTANCE Gumbo
Lru == INSTANCE LruCache

\* jobjs with and without nested ones
Flat    == [groups |-> <<<<"a", "b">>>>, opt |-> {"b"}]
Nest    == [groups |-> <<<<"a">>, <<"b", "c">>>>, opt |-> {}]
NestOpt == [groups |-> <<<<"a">>, <<"b", "c">>>>, opt |-> {"a", "c"}]
Only    == [groups |-> <<<<>>, <<"b", "c">>>>, opt |-> {"c"}]
ObjCases == [fmt: {"json", "msgpack"}, def: {Flat, Nest, NestOpt, Only}]

\* Definitions of jser, each kind at least once.
Num          == [k |-> "num"]
Of(k, v)     == [k |-> k, v |-> v]
Fld(key, v)  == [key |-> key, v |-> v]
Jobj(kvs)    == [k |-> "obj", kvs |-> kvs]
AnyOf(k, nl) == [k |-> k, alts |-> <<Num, Of("arr_of", Num)>>, nullable |-> nl]
DslDefs ==
    {Jobj(<<Fld("a", Num), Fld("b", Of("opt", Num)), Fld("c", Of("popt", Num))>>),
     Jobj(<<Fld("a", AnyOf("var", TRUE))>>),
     Jobj(<<Fld("a", AnyOf("pvar", TRUE)), Fld("b", [k |-> "conv"])>>),
     Jobj(<<Fld("a", [k |-> "check"]), Fld("b", [k |-> "exam"]), Fld("c", Of("parr", Num))>>),
     Jobj(<<Fld("nested", Jobj(<<Fld("b", Num), Fld("c", Of("popt", Num))>>)),
            Fld("nested", [k |-> "whole"])>>),
     Jobj(<<Fld("a", Num), Fld("nested", Jobj(<<Fld("b", Num), Fld("c", Num)>>))>>),
     Jobj(<<Fld("nested", Jobj([i \in 1 .. 16 |-> Fld(<<"f", i>>, [k |-> "exam"])]))>>),
     Jobj(<<Fld("a", Of("arr_of", Of("opt", Num)))>>),
     Jobj(<<Fld("a", [k |-> "tuple", vs |-> <<Num, Of("opt", Num)>>, exact |-> TRUE]),
            Fld("b", AnyOf("var", FALSE))>>),
     Jobj(<<Fld("b", Of("arr_of", Jobj(<<Fld("b", Num)>>)))>>),
     Jobj(<<Fld("a", [k |-> "map"])>>)}

\* No text, less and more than the blocks of the compressors, several texts.
ComprTexts == {<<<<>>>>, <<<<1, 2, 3>>>>, <<<<1, 2, 3>>, <<>>, <<4, 5>>>>}

\* the variables of the other components
Unused ==
    /\ IF part = "obj" THEN TRUE
       ELSE fmt = <<>> /\ doc = <<>> /\ it = <<>> /\ grp = <<>> /\ matched = <<>>
    /\ IF part \in {"obj", "dsl"} THEN TRUE
       ELSE def = <<>>
    /\ IF part \in {"obj", "value"} THEN TRUE
       ELSE out = <<>>
    /\ IF part \in {"obj", "compr"} THEN TRUE
       ELSE pc = <<>>
    /\ IF part = "value" THEN TRUE
       ELSE task = <<>> /\ in = <<>>
    /\ IF part = "dsl" THEN TRUE
       ELSE x = <<>> /\ old = <<>> /\ absent = <<>> /\ tree = <<>>
    /\ IF part \in {"dsl", "pq"} THEN TRUE
       ELSE got = <<>>
    /\ IF part = "stream" THEN TRUE
       ELSE reader = <<>> /\ b = <<>> /\ offset = <<>> /\ vs = <<>> /\ calls = <<>>
           /\ outcome = <<>>
    /\ IF part = "compr" THEN TRUE
       ELSE lib = <<>> /\ incr = <<>> /\ texts = <<>> /\ phase = <<>> /\ act = <<>> /\ multi = <<>>
           /\ auto = <<>> /\ src = <<>> /\ s = <<>> /\ coded = <<>> /\ isEnd = <<>> /\ err = <<>>
    /\ IF part = "pq" THEN TRUE
       ELSE param = <<>> /\ cell = <<>>
    /\ IF part = "gumbo" THEN TRUE
       ELSE parent = <<>> /\ label = <<>> /\ coll = <<>> /\ how = <<>>
    /\ IF part = "lru" THEN TRUE
       ELSE lru = <<>> /\ iterMap = <<>> /\ cost = <<>> /\ lcap = <<>> /\ undef = <<>>
           /\ recent = <<>>
OthersStay ==
    /\ UNCHANGED part
    /\ IF part = "obj" THEN TRUE
       ELSE UNCHANGED <<fmt, doc, it, grp, matched>>
    /\ IF part \in {"obj", "dsl"} THEN TRUE
       ELSE UNCHANGED <<def>>
    /\ IF part \in {"obj", "value"} THEN TRUE
       ELSE UNCHANGED <<out>>
    /\ IF part \in {"obj", "compr"} THEN TRUE
       ELSE UNCHANGED <<pc>>
    /\ IF part = "value" THEN TRUE
       ELSE UNCHANGED <<task, in>>
    /\ IF part = "dsl" THEN TRUE
       ELSE UNCHANGED <<x, old, absent, tree>>
    /\ IF part \in {"dsl", "pq"} THEN TRUE
       ELSE UNCHANGED <<got>>
    /\ IF part = "stream" THEN TRUE
       ELSE UNCHANGED <<reader, b, offset, vs, calls, outcome>>
    /\ IF part = "compr" THEN TRUE
       ELSE UNCHANGED <<lib, incr, texts, phase, act, multi, auto, src, s, coded, isEnd, err>>
    /\ IF part = "pq" THEN TRUE
       ELSE UNCHANGED <<param, cell>>
    /\ IF part = "gumbo" THEN TRUE
       ELSE UNCHANGED <<parent, label, coll, how>>
    /\ IF part = "lru" THEN TRUE
       ELSE UNCHANGED <<lru, iterMap, cost, lcap, undef, recent>>

Init ==
    \/ part = "obj" /\ Objs!Init /\ Unused
    \/ part = "value" /\ Vals!Init /\ Unused
    \/ part = "dsl" /\ Dsl!Init /\ Unused
    \/ part = "stream" /\ Streams!Init /\ Unused
    \/ part = "compr" /\ Zip!Init /\ Unused
    \/ part = "pq" /\ Pq!Init /\ Unused
    \/ part = "gumbo" /\ Html!Init /\ Unused
    \/ part = "lru" /\ Lru!Init /\ Unused

\* a step of one component
InObjs(A) == part = "obj" /\ A /\ OthersStay
InVals(A) == part = "value" /\ A /\ OthersStay
InDsl(A) == part = "dsl" /\ A /\ OthersStay
InStreams(A) == part = "stream" /\ A /\ OthersStay
InZip(A) == part = "compr" /\ A /\ OthersStay
InPq(A) == part = "pq" /\ A /\ OthersStay
InHtml(A) == part = "gumbo" /\ A /\ OthersStay
InLru(A) == part = "lru" /\ A /\ OthersStay

Next ==
    \/ InObjs(Objs!Next)
    \/ InVals(Vals!Next)
    \/ InDsl(Dsl!Next)
    \/ InStreams(Streams!Next)
    \/ InZip(Zip!Next)
    \/ InPq(Pq!Next)
    \/ InHtml(Html!Next)
    \/ InLru(Lru!Next)

Spec == Init /\ [][Next]_vars

-----------------------------------------------------------------------------
\* What was written is read back, whatever the target of the read held before: integers at every
\* boundary of their msgpack formats, all definitions of jser in JSON and, unless the count of a nested
\* jobj left its object without a header, in msgpack, compressed texts in whatever pieces, and the
\* parameters of PostgreSQL, also into smaller types.  The commas of JSON are those of the grammar.
ReadsWhatWasWritten ==
    /\ part = "value" => Vals!IntegerRoundTrip
    /\ part = "dsl"   => Dsl!ReadsWhatWasWritten /\ Dsl!TextIsJson
    /\ part = "compr" => Zip!RoundTrip
    /\ part = "pq"    => Pq!PqValueKept /\ Pq!PqReadsOwn

\* Reading and searching come to the right place: each field of a definition gets the value of its
\* key, in whatever order the keys come; the reader ends after the object, the array or the
\* document, also after values it skipped, unless a msgpack reader has lost count of its object
\* (fields left behind the last one wanted, or a second round); a search in HTML finds the nodes that
\* the selector names as it is read, in the order of the document; the LRU cache holds what was used
\* last, the most recent first, within its capacity.
FindsThePlace ==
    /\ part = "obj"    => Objs!FieldsRead /\ Objs!EndsAfterObject
    /\ part = "value"  => Vals!ArrayConsumed
    /\ part = "stream" => Streams!ReadsOn
    /\ part = "gumbo"  => Html!GumboFinds
    /\ part = "lru"    => Lru!HeldWithinCap /\ Lru!HoldsTheRecent
=============================================================================
