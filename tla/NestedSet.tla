----------------------------- MODULE NestedSet -----------------------------
(***************************************************************************)
(* Where a container is in its tree, as two numbers: the portal (the       *)
(* positions on the way down to it) is read as a continued fraction        *)
(* (supplier/tools/rationalnestedset.js), and so is its next sibling's;    *)
(* both are cut to strings of a fixed number of digits (append.js), which  *)
(* the delete and select handlers compare.                                 *)
(*                                                                         *)
(* The strings have 32 digits behind the point and 36 in all.  TLC counts  *)
(* to 2^31: Digits stands for 32, and the 4 digits before the point stay.  *)
(***************************************************************************)
EXTENDS Integers, Sequences, SequencesExt

CONSTANTS Tops,    \* root positions
          Width,   \* how many children a container gets
          Depth,   \* how deep a tree is
          Digits

ASSUME NestedSetAssumption ==
    /\ Tops \subseteq Nat \ {0}
    /\ Width \in Nat /\ Depth \in Nat \ {0} /\ Digits \in Nat

VARIABLE portal

Planted == \E t \in Tops : portal = <<t>>

\* A first child, and the next one: the positions cascadeInsert gives.
Down ==
    /\ Len(portal) < Depth
    /\ Width > 0
    /\ portal' = Append(portal, 1)

Along ==
    /\ Len(portal) > 1
    /\ Last(portal) < Width
    /\ portal' = Append(Front(portal), Last(portal) + 1)

Trees == Planted /\ [][Down \/ Along]_portal

-----------------------------------------------------------------------------
(* The fraction.                                                             *)

\* The positions with unity between them.
UnityParts(p) == [i \in 1..(2 * Len(p) - 1) |-> IF i % 2 = 1 THEN p[(i + 1) \div 2] ELSE 1]

Fraction(n, d) == [numerator |-> n, denominator |-> d]

\* Variant: without taking the inverse first.
AddInteger(a, f) == Fraction(a * f.denominator + f.numerator, f.denominator)

\* reduce_continued_fraction_step: a + 1 / f.
Reduce(a, f) == Fraction(a * f.numerator + f.denominator, f.numerator)

\* calculate_encoding_from_tree_position: from the last part to the first.
Encoding(p) ==
    LET parts == UnityParts(p)
        last == 2 * Len(p) - 1
        reduced[k \in 0..(last - 1)] ==
            IF k = 0 THEN Fraction(parts[last], 1)
            ELSE Reduce(parts[last - k], reduced[k - 1])
    IN  reduced[last - 1]

\* The positions of the next sibling.
NextSibling(p) == Append(Front(p), Last(p) + 1)

LeftOf(p) == Encoding(p)
RightOf(p) == Encoding(NextSibling(p))

Below(f, g) == f.numerator * g.denominator < g.numerator * f.denominator
AtMost(f, g) == f.numerator * g.denominator <= g.numerator * f.denominator

-----------------------------------------------------------------------------
(* The string.                                                               *)

\* b to the n.
Power(b, n) ==
    LET p[k \in 0..n] == IF k = 0 THEN 1 ELSE b * p[k - 1]
    IN  p[n]

\* Behind the point the digits are cut off, not rounded.
Value(f) == (f.numerator * Power(10, Digits)) \div f.denominator

FixedLength == Digits + 4

\* Variant: no zeros in front.
Unpadded(n) == CHOOSE k \in 1..n : n \div Power(10, k - 1) \in 1..9

\* How long the string of n is: zeros are put in front of a short one, and a
\* long one stays as it is.
StringLength(n) ==
    IF n < Power(10, FixedLength) THEN FixedLength
    ELSE CHOOSE k \in (FixedLength + 1)..n : n \div Power(10, k - 1) \in 1..9

\* How mongo compares strings: by the first character that differs, and if
\* none does, by length.
StringBelow(m, n) ==
    LET lm == StringLength(m)
        ln == StringLength(n)
        common == IF lm < ln THEN lm ELSE ln
        headm == m \div Power(10, lm - common)
        headn == n \div Power(10, ln - common)
    IN  headm < headn \/ (headm = headn /\ lm < ln)

StringAtMost(m, n) == ~ StringBelow(n, m)

\* The conditions of tools.del (L64-71), of the descendant and of the ancestor
\* mode of getTreeQuery (select.js L132-159): does q meet them for p?
DeletedWith(q, p) ==
    /\ StringAtMost(Value(LeftOf(p)), Value(LeftOf(q)))
    /\ StringAtMost(Value(RightOf(q)), Value(RightOf(p)))

DescendantOf(q, p) ==
    /\ StringBelow(Value(LeftOf(p)), Value(LeftOf(q)))
    /\ StringBelow(Value(RightOf(q)), Value(RightOf(p)))

AncestorOf(q, p) ==
    /\ StringBelow(Value(LeftOf(q)), Value(LeftOf(p)))
    /\ StringBelow(Value(RightOf(p)), Value(RightOf(q)))

-----------------------------------------------------------------------------
Portals == {p \in UNION {[1..n -> Tops \cup 1..Width] : n \in 1..Depth} :
                p[1] \in Tops /\ \A i \in 2..Len(p) : p[i] \in 1..Width}

\* The fractions are a nested set: those of q lie within those of p exactly
\* when q is p or below it.
FractionsNest ==
    \A q \in Portals :
        AtMost(LeftOf(portal), LeftOf(q)) /\ AtMost(RightOf(q), RightOf(portal))
            <=> IsPrefix(portal, q)

\* What the digits are enough for: roots that have no more of them in front of
\* the point than there are, and fractions that differ by more than the last of
\* those behind it.
Precise ==
    LET most == Power(Width + 2, Depth - 1)
    IN  /\ \A t \in Tops : t + 1 < Power(10, 4)
        /\ most * most <= Power(10, Digits)

\* And so are the strings, cut as they are, in a tree that the digits are enough
\* for: for any two containers a delete takes the one and all that is below it,
\* the descendant mode of a select finds all that is below, its ancestor mode all
\* that is above, and nothing else.
QueriesExact ==
    Precise =>
        \A q \in Portals :
            /\ DeletedWith(q, portal) <=> IsPrefix(portal, q)
            /\ DescendantOf(q, portal) <=> IsStrictPrefix(portal, q)
            /\ AncestorOf(q, portal) <=> IsStrictPrefix(q, portal)
=============================================================================
