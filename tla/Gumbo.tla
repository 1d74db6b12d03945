------------------------------- MODULE Gumbo -------------------------------
(***************************************************************************)
(* Searching a parsed HTML document: include/dsk/gumbo.hpp.  A selector is *)
(* parsed from "tag.class#id", a search visits the nodes below a node or   *)
(* below every element of a collection, and searches are chained:          *)
(* root / "head" % "meta".  Nodes are numbered in document order.          *)
(***************************************************************************)
EXTENDS Naturals, Sequences, FiniteSets, SequencesExt, TLC

CONSTANTS
    NNodes,      \* nodes of the document
    MaxSearches  \* bound: chained searches

VARIABLES
    parent,      \* the tree: parent[k] for k > 1
    label,       \* per node: an element's tag and class, or "text"
    coll,        \* gumbo_elm_coll, or the text nodes found
    how          \* history: the searches that made it: type, selector, and how the selector was parsed

vars == <<parent, label, coll, how>>

Labels == {[tag |-> "a", class |-> "x"], [tag |-> "b", class |-> "y"], [tag |-> "text", class |-> ""]}

Children(k) == {c \in 2..NNodes : parent[c] = k}
Ancestors(k) == {a \in 1..NNodes : \E path \in UNION {[1..m -> 1..NNodes] : m \in 2..NNodes} :
                    path[1] = k /\ path[Len(path)] = a /\ \A j \in 1..(Len(path) - 1) : path[j] > 1 /\ parent[path[j]] = path[j + 1]}

\* Document order: the next node is a child of the last one or of one above it.
RECURSIVE Spine(_, _)
Spine(p, k) == IF k = 1 THEN {1} ELSE {k} \cup Spine(p, p[k])
Trees == {p \in [2..NNodes -> 1..(NNodes - 1)] : \A k \in 2..NNodes : p[k] < k /\ p[k] \in Spine(p, k - 1)}

Init ==
    /\ parent \in Trees
    /\ label \in [1..NNodes -> Labels]
    /\ label[1] = [tag |-> "a", class |-> "x"]
    /\ \A k \in 2..NNodes : label[parent[k]].tag # "text"
    /\ coll = <<1>>
    /\ how = << >>

-----------------------------------------------------------------------------
(* Selectors, as the tokens of their text, and what it means by gumbo.hpp: the attributes an element *)
(* has, with these values, "" standing for any.                                                      *)

Text(t) == [text |-> t, means |-> {}]
Class(t, v) == [text |-> t, means |-> {<<"class", v>>}]
Sels ==
    {Text(<<"a">>), Text(<<"text">>),
     Class(<<"*", ".", "y">>, "y"), Class(<<"b", ".", "'", "x", "'">>, "x"),
     Class(<<"a", " ", "class", ".", "x">>, "x"),
     Class(<<"a", " ", "class", "=", "x">>, "x"),
     Class(<<"a", " ", ".", "x">>, "x"),
     Class(<<"b", " ", "class">>, "")}

FirstOf(s, ch, from) ==
    LET at == {k \in from..Len(s) : s[k] \in ch} IN IF at = {} THEN Len(s) + 1 ELSE CHOOSE k \in at : \A m \in at : k <= m
Separators == {".", "#", " "}

\* gumbo_simple_sel::parse(): the tag, then attributes up to the next separator.  A space comes before a key,
\* which another separator must not follow at once; the value begins where the key ends, and there is an
\* out_of_range in a noexcept function if that is the end of the text.  Ends with "ok", "throws" (what the
\* constructor does) or "terminates".
RECURSIVE ParseAttrs(_, _)
ParseAttrs(s, k) ==
    IF k > Len(s) THEN [res |-> "ok", attrs |-> <<>>]
    ELSE LET keyed == s[k] = " "
             j     == FirstOf(s, Separators \cup {"="}, k + 1)
             key   == IF keyed THEN SubSeq(s, k + 1, j - 1) ELSE IF s[k] = "." THEN <<"class">> ELSE <<"id">>
             i     == IF keyed THEN j ELSE k + 1
             quote == IF s[i] \in {"'", "\""} THEN {s[i]} ELSE {}
             e     == IF quote # {} THEN FirstOf(s, quote, i + 1) ELSE FirstOf(s, Separators, i)
             v     == SubSeq(s, i + Cardinality(quote), e - 1)
             rest  == ParseAttrs(s, FirstOf(s, Separators, e))
         IN  CASE keyed /\ j = k + 1  -> [res |-> "throws", attrs |-> <<>>]
               [] keyed /\ j > Len(s) -> [res |-> "terminates", attrs |-> <<>>]
               [] OTHER -> [rest EXCEPT !.attrs = <<<<key, v>>>> \o @]
Parse(sel) == [tag |-> sel.text[1]] @@ ParseAttrs(sel.text, 2)

\* gumbo_simple_sel::match(): the tag, and every attribute with its value if one is given.
Match(sel, k) ==
    LET p == Parse(sel)
    IN  /\ label[k].tag # "text"
        /\ p.tag \in {"*", label[k].tag}
        /\ \A m \in 1..Len(p.attrs) : p.attrs[m][1] = <<"class">> /\ p.attrs[m][2] \in {<<>>, <<label[k].class>>}

\* The callable of elms(), or of text_nodes().
OfText(sel) == sel.text = <<"text">>
Found(sel, k) == IF OfText(sel) THEN label[k].tag = "text" ELSE Match(sel, k)

-----------------------------------------------------------------------------
\* Mutant: the descendants of a match are searched too.
VisitedBelow(st, k, sel) == IF st = "direct_child" THEN FALSE ELSE TRUE

\* Whether the nodes below a child are visited after it.
Visited(st, k, sel) ==
    /\ st # "direct_child"
    /\ st \in {"until_found", "until_found_first"} => ~Found(sel, k)

\* gumbo_node::foreach_if(): what it gives to the callable and is found, in order.  A
\* match ends the loop of gs_until_found_first among its siblings, not above them.
RECURSIVE ForeachIf(_, _, _), ForeachKid(_, _, _)
ForeachKid(st, kids, sel) ==
    IF kids = << >> THEN << >>
    ELSE LET k    == Head(kids)
             self == IF Found(sel, k) THEN <<k>> ELSE << >>
             sub  == IF Visited(st, k, sel) THEN ForeachIf(st, k, sel) ELSE << >>
         IN  IF st = "until_found_first" /\ self # << >> THEN self
             ELSE self \o sub \o ForeachKid(st, Tail(kids), sel)
ForeachIf(st, k, sel) ==
    IF st = "self" THEN (IF Found(sel, k) THEN <<k>> ELSE << >>)
    ELSE ForeachKid(st, SetToSortSeq(Children(k), <), sel)

SearchTypes == {"self", "direct_child", "until_found", "until_found_first", "all"}

\* elms(), %, / and text_nodes() of a collection: the search below each of its elements.  The selector is
\* parsed first.
Search(st, sel) ==
    /\ Len(how) < MaxSearches
    /\ \A m \in 1..Len(how) : ~OfText(how[m].sel) /\ how[m].res = "ok"
    /\ LET res == Parse(sel).res IN
        /\ coll' = IF res # "ok" THEN <<>>
                   ELSE FoldLeft(\o, << >>, [m \in 1..Len(coll) |-> ForeachIf(st, coll[m], sel)])
        /\ how' = Append(how, [st |-> st, sel |-> sel, res |-> res])
    /\ UNCHANGED <<parent, label>>

Next == \E st \in SearchTypes, sel \in Sels : Search(st, sel)

Spec == Init /\ [][Next]_vars

-----------------------------------------------------------------------------
\* What the search types find below the root (gumbo_search_type), by the meaning of the selector.  The loop
\* of gs_until_found_first ends at a match, but not those around it: a node is found unless it, or a node
\* it is below, comes after a match among its siblings.
Meant(sel, k) ==
    IF OfText(sel) THEN label[k].tag = "text"
    ELSE /\ label[k].tag # "text" /\ sel.text[1] \in {"*", label[k].tag}
         /\ \A a \in sel.means : a[2] \in {"", label[k].class}
Hits(sel) == {k \in 2..NNodes : Meant(sel, k)}
Topmost(sel) == {k \in Hits(sel) : Ancestors(k) \cap Hits(sel) = {}}
Behind(k, sel) == \E a \in ({k} \cup Ancestors(k)) \ {1} : \E b \in Hits(sel) : b < a /\ parent[b] = parent[a]
Expected(st, sel) ==
    CASE st = "self"              -> {k \in {1} : Meant(sel, k)}
      [] st = "direct_child"      -> Hits(sel) \cap Children(1)
      [] st = "until_found"       -> Topmost(sel)
      [] st = "until_found_first" -> {k \in Topmost(sel) : ~Behind(k, sel)}
      [] st = "all"               -> Hits(sel)

\* Selectors that are not parsed as they are documented: a value after "=", a space before another
\* separator, and an attribute without a value at the end of the text.
Misread(sel) == \E k \in 2..Len(sel.text) :
    sel.text[k] = " " /\ LET j == FirstOf(sel.text, Separators, k + 1) IN
                         j = k + 1 \/ j > Len(sel.text) \/ "=" \in ToSet(SubSeq(sel.text, k, j))

\* A search finds exactly the nodes its type promises, in document order; chained
\* searches that do not go below a match never find a node twice.
GumboFinds ==
    /\ Len(how) = 1 /\ ~Misread(how[1].sel) => ToSet(coll) = Expected(how[1].st, how[1].sel)
    /\ (\A m \in 1..Len(how) : how[m].st # "all") => \A m \in 2..Len(coll) : coll[m - 1] < coll[m]

\* "tag must present first [...] Other parts are all attrs, and can be in any order", "attr without value will
\* match any value" (gumbo.hpp): a search finds the elements its selector is documented to mean.
SelectorsAsDocumented ==
    Len(how) = 1 => how[1].res = "ok" /\ ToSet(coll) = Expected(how[1].st, how[1].sel)
=============================================================================
