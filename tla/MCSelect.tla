----------------------------- MODULE MCSelect -----------------------------
(* A collection with two roots, three deep, whose containers are shops and   *)
(* products, selected from with one or two strings of one or two phases.  A  *)
(* root f may take the place of b.                                           *)
EXTENDS Select

MCNodes == {"a", "b", "c", "d", "e", "f", "h"}
MCLine == [a |-> <<"a">>, b |-> <<"b">>, c |-> <<"a", "c">>,
           d |-> <<"a", "c", "d">>, e |-> <<"a", "e">>,
           h |-> <<"b", "h">>, f |-> <<"f">>]
MCPosition == [a |-> 1, b |-> 2, c |-> 1, d |-> 1, e |-> 2, h |-> 1, f |-> 2]
Shops == {"a", "c"}
Products == {"b", "d", "e", "h", "f"}

Sel(splitter, want) ==
    [splitter |-> splitter, want |-> want, byid |-> FALSE, tree |-> FALSE]
WithTree(sel) == [sel EXCEPT !.tree = TRUE]
ById(n) == [Sel("", {n}) EXCEPT !.byid = TRUE]

All == Sel("", MCNodes)
Child == Sel(">", MCNodes)
AShop == Sel("", Shops)
AProduct == Sel("", Products)

Steps == {AShop, Child, Sel("<", Shops)}
Lasts == {AProduct, Child, WithTree(All), ById("c"),
          [ById("e") EXCEPT !.splitter = ">"], Sel("<<", MCNodes)}
Phases == {<<l>> : l \in Lasts} \cup {<<s, l>> : s \in Steps, l \in Lasts}
Short == {<<AShop>>, <<AProduct>>, <<WithTree(Child)>>}

Single == {<< <<p>> >> : p \in Phases}
SideBySide == {<< <<p, q>> >> : p \in Phases, q \in Short}
InTurn == {<< <<p>>, <<q>> >> : p \in Short, q \in Phases}
Both == {<< <<p, q>>, <<r>> >> : p, q \in Short, r \in Short}

MCQueries ==
    [from : {Top}, bare : {FALSE}, strings : Single \cup SideBySide \cup InTurn \cup Both]
    \cup [from : {"a"}, bare : {FALSE}, strings : Single]
    \cup [from : {"a", "c"}, bare : {TRUE},
          strings : Single \cup {<< <<p, q>> >> : p, q \in Short}]

MCCollections == {MCNodes \ {"f"}, MCNodes \ {"d", "f"}}
===========================================================================
