------------------------- MODULE MCContractResolver -------------------------
(* The contracts a client can ship, up to two contracts and four requests:   *)
(* one inside the other or alone, the inner one empty, with one part or two, *)
(* in front of the plain requests or after them.                             *)
EXTENDS ContractResolver

CONSTANTS outer, inner, l1, l2, l3, l4

MCContracts == {outer, inner}
MCLeaves == {l1, l2, l3, l4}

OuterParts == {<<l1>>, <<l1, l2>>, <<inner>>, <<inner, l1>>, <<l1, inner>>,
               <<inner, l1, l2>>, <<l1, l2, inner>>}
InnerParts == {<<>>, <<l3>>, <<l3, l4>>}

Shape(b, to, po, ti, pi) ==
    [bay |-> b,
     type |-> [c \in MCContracts |-> IF c = outer THEN to ELSE ti],
     parts |-> [c \in MCContracts |-> IF c = outer THEN po ELSE pi]]

ContractsFirst(parts) ==
    \A k \in 2..Len(parts) : parts[k] \in MCLeaves

MCShapes ==
    {Shape(b, to, po, ti, pi) : b \in BOOLEAN, to \in {"merge"},
                                po \in OuterParts, ti \in Types,
                                pi \in InnerParts}
    \cup
    {Shape(b, to, po, ti, pi) : b \in BOOLEAN, to \in {"pipe"},
                                po \in {q \in OuterParts : ContractsFirst(q)},
                                ti \in Types, pi \in InnerParts}
=============================================================================
