--------------------------- MODULE SelectProofs ---------------------------
(***************************************************************************)
(* Proofs about Select, for any containers, places, requests and number of *)
(* changes, and about NestedSet, for any trees: what Select says of the    *)
(* places is what the queries find by the strings (TreeQueriesExact).      *)
(*                                                                         *)
(* What a request means is a recursion over its strings and their          *)
(* selectors: Before is its value at one selector, and BeforeIs says how   *)
(* the next one comes of it.  More is meant among more (BeforeGrows).      *)
(*                                                                         *)
(* The inductive invariant says of every phase of the string that runs     *)
(* where it is: the skeleton it is about to select within has all that the *)
(* selectors before mean among what was there throughout (HasAll), and no  *)
(* more than they mean among all that was ever there (HasOnly), and the    *)
(* branches of what was passed are announced (Told).  A find keeps it      *)
(* (FindsBetween), whatever happens to the collection, which only widens   *)
(* the gap between the two (FitsStays), and so does the merge of what the  *)
(* phases of a string have found (NextWell).  That what is above a         *)
(* container is always there (UpClosed) makes the trees whole.  A find     *)
(* goes by places: what is below has its place below (BelowCovered), and   *)
(* the converse is true while no place is used twice (CoveredBelow).       *)
(*                                                                         *)
(* A fraction is its first position and, behind it, that of the rest       *)
(* (EncodingByTail): it lies between that position and the next            *)
(* (LiftBetween), and the order behind one position is the order of the    *)
(* rests (LiftOrder).  So places nest by induction on how deep they are    *)
(* (PlacesNest).  How large the denominators get (DenominatorBounded) says *)
(* how far apart two fractions are at least, and so how many digits tell   *)
(* them apart (ValueOrder).                                                *)
(***************************************************************************)
EXTENDS Select, NestedSet, SequenceTheorems, WellFoundedInduction, TLAPS

-----------------------------------------------------------------------------
(* Sequences and numbers.                                                    *)

\* A set of numbers has a least one.
LEMMA LeastOf ==
    ASSUME NEW S \in SUBSET Nat, S # {}
    PROVE  \E k \in S : \A j \in S : k <= j
<1> DEFINE R == {p \in Nat \X Nat : p[1] < p[2]}
<1>1. R = OpToRel(<, Nat)
  BY Zenon DEF OpToRel
<1>2. IsWellFoundedOn(R, Nat)
  BY <1>1, NatLessThanWellFounded
<1>3. PICK k \in S : \A j \in S : <<j, k>> \notin R
  <2> HIDE DEF R
  <2> QED
    BY <1>2, WFMin, Zenon
<1>4. ASSUME NEW j \in S
      PROVE  ~ (j < k)
  <2>1. <<j, k>> \in Nat \X Nat /\ <<j, k>>[1] = j /\ <<j, k>>[2] = k
    OBVIOUS
  <2> QED
    BY <1>3, <2>1
<1> QED
  BY <1>3, <1>4

\* What holds at 0, and at each number below n only if at the next, holds up to n.
LEMMA UpTo ==
    ASSUME NEW n \in Nat, NEW G, 0 \in G, \A k \in 0..(n - 1) : k \in G => k + 1 \in G
    PROVE  \A k \in 0..n : k \in G
<1> DEFINE B == {k \in 0..n : k \notin G}
<1>1. SUFFICES ASSUME B # {} PROVE FALSE
  OBVIOUS
<1>2. PICK k \in B : \A j \in B : k <= j
  <2>1. B \in SUBSET Nat
    OBVIOUS
  <2> HIDE DEF B
  <2> QED
    BY <1>1, <2>1, LeastOf
<1>3. k \in 0..n /\ k # 0 /\ k \notin G
  BY <1>2
<1>4. k - 1 \in 0..(n - 1) /\ (k - 1) + 1 = k /\ k - 1 \in 0..n
  BY <1>3
<1>5. k - 1 \notin B
  BY <1>2, <1>3
<1> QED
  BY <1>3, <1>4, <1>5

\* What is left of a sequence from one place on.
LEMMA RestIs ==
    ASSUME NEW S, NEW s \in Seq(S), NEW k \in 1..Len(s)
    PROVE  /\ SubSeq(s, k, Len(s)) # <<>>
           /\ Len(SubSeq(s, k, Len(s))) = Len(s) - k + 1
           /\ Head(SubSeq(s, k, Len(s))) = s[k]
           /\ Tail(SubSeq(s, k, Len(s))) = SubSeq(s, k + 1, Len(s))
<1>1. PICK n \in Nat : n = Len(s)
  OBVIOUS
<1> DEFINE r == SubSeq(s, k, n)  t == SubSeq(s, k + 1, n)
<1>2. r \in Seq(S) /\ Len(r) = n - k + 1 /\ \A i \in 1..(n - k + 1) : r[i] = s[k + i - 1]
  BY <1>1
<1>3. t \in Seq(S) /\ Len(t) = n - k /\ \A i \in 1..(n - k) : t[i] = s[k + i]
  <2>1. CASE k < n
    BY <1>1, <2>1
  <2>2. CASE k = n
    BY <1>1, <2>2
  <2> QED
    BY <1>1, <2>1, <2>2
<1> HIDE DEF r, t
<1>4. r # <<>> /\ Head(r) = s[k]
  BY <1>1, <1>2, EmptySeq
<1>5. Tail(r) \in Seq(S) /\ Len(Tail(r)) = n - k /\ \A i \in 1..(n - k) : Tail(r)[i] = r[i + 1]
  <2>1. Tail(r) \in Seq(S) /\ Len(Tail(r)) = Len(r) - 1 /\ \A i \in 1..(Len(r) - 1) : Tail(r)[i] = r[i + 1]
    BY <1>2, <1>4, HeadTailProperties
  <2>2. Len(r) - 1 = n - k
    BY <1>1, <1>2
  <2> QED
    BY <2>1, <2>2
<1>6. Tail(r) = t
  <2>1. \A i \in 1..(n - k) : Tail(r)[i] = t[i]
    BY <1>1, <1>2, <1>3, <1>5
  <2> QED
    BY <1>3, <1>5, <2>1, SeqEqual
<1> QED
  BY <1>1, <1>2, <1>4, <1>6 DEF r, t

\* To reverse twice is to do nothing.
LEMMA ReverseTwice ==
    ASSUME NEW S, NEW s \in Seq(S)
    PROVE  Reverse(Reverse(s)) = s
<1>1. PICK n \in Nat : n = Len(s)
  OBVIOUS
<1>2. ASSUME NEW t \in Seq(S), Len(t) = n
      PROVE  /\ Reverse(t) \in Seq(S) /\ Len(Reverse(t)) = n
             /\ \A i \in 1..n : Reverse(t)[i] = t[n - i + 1]
  <2>1. Reverse(t) = [i \in 1..n |-> t[n - i + 1]]
    BY <1>2 DEF Reverse
  <2>2. \A i \in 1..n : t[n - i + 1] \in S
    BY <1>2
  <2> QED
    BY <2>1, <2>2
<1>3. /\ Reverse(s) \in Seq(S) /\ Len(Reverse(s)) = n
      /\ \A i \in 1..n : Reverse(s)[i] = s[n - i + 1]
      /\ Reverse(Reverse(s)) \in Seq(S) /\ Len(Reverse(Reverse(s))) = n
      /\ \A i \in 1..n : Reverse(Reverse(s))[i] = Reverse(s)[n - i + 1]
  BY <1>1, <1>2
<1>4. ASSUME NEW i \in 1..n
      PROVE  Reverse(Reverse(s))[i] = s[i]
  <2>1. n - i + 1 \in 1..n /\ n - (n - i + 1) + 1 = i
    OBVIOUS
  <2> QED
    BY <1>3, <2>1
<1> QED
  BY <1>1, <1>3, <1>4, SeqEqual
-----------------------------------------------------------------------------
(* What a request means.                                                     *)

\* T says what follows on a value, of those in V.
StepsOf(n, V, T) == T \in [(1..n) \X V -> V]

\* The functions on 0..n that begin at X and go on as T says.
Walks(n, V, T, X) ==
    {f \in [0..n -> V] : f[0] = X /\ \A k \in 1..n : f[k] = T[<<k, f[k - 1]>>]}

\* A function can be defined by its value at 0 and by what follows on a value.
LEMMA Recursion ==
    ASSUME NEW n \in Nat, NEW V, NEW X \in V, NEW T, StepsOf(n, V, T)
    PROVE  Walks(n, V, T, X) # {}
<1> DEFINE Upto(f, j) == f[0] = X /\ \A k \in 1..j : f[k] = T[<<k, f[k - 1]>>]
           G == {j \in 0..n : \E f \in [0..n -> V] : Upto(f, j)}
<1>1. 0 \in G
  <2>1. [k \in 0..n |-> X] \in [0..n -> V] /\ Upto([k \in 0..n |-> X], 0)
    OBVIOUS
  <2> HIDE DEF Upto
  <2> QED
    BY <2>1
<1>2. ASSUME NEW j \in 0..(n - 1), j \in G
      PROVE  j + 1 \in G
  <2>1. PICK f \in [0..n -> V] : Upto(f, j)
    BY <1>2
  <2> DEFINE g == [k \in 0..n |-> IF k = j + 1 THEN T[<<j + 1, f[j]>>] ELSE f[k]]
  <2>2. g \in [0..n -> V]
    <3>1. <<j + 1, f[j]>> \in (1..n) \X V
      BY <2>1
    <3> QED
      BY <2>1, <3>1 DEF StepsOf
  <2>3. /\ g[j + 1] = T[<<j + 1, f[j]>>]
        /\ \A k \in 0..n : k # j + 1 => g[k] = f[k]
    OBVIOUS
  <2> HIDE DEF g
  <2>4. g[0] = X
    BY <2>1, <2>3
  <2>5. ASSUME NEW k \in 1..(j + 1)
        PROVE  g[k] = T[<<k, g[k - 1]>>]
    <3>1. k - 1 \in 0..n /\ k - 1 # j + 1 /\ k \in 0..n /\ (k = j + 1 => k - 1 = j)
      OBVIOUS
    <3>2. g[k - 1] = f[k - 1]
      BY <2>3, <3>1
    <3>3. CASE k = j + 1
      BY <2>3, <3>1, <3>2, <3>3
    <3>4. CASE k # j + 1
      BY <2>1, <2>3, <3>1, <3>2, <3>4
    <3> QED
      BY <3>3, <3>4
  <2>6. Upto(g, j + 1)
    BY <2>4, <2>5
  <2>7. j + 1 \in 0..n
    OBVIOUS
  <2> HIDE DEF Upto
  <2> QED
    BY <2>2, <2>6, <2>7
<1>3. \A j \in 0..n : j \in G
  <2> HIDE DEF G
  <2> QED
    BY <1>1, <1>2, UpTo
<1>4. n \in G
  <2> HIDE DEF G
  <2> QED
    BY <1>3
<1> QED
  BY <1>4 DEF Walks

\* What a selector selects of U within Y.
Chosen(sel, Y, U) == {x \in U : \E m \in Y : Follows(sel, m, x)}

\* The function that PhaseWithin is defined by exists.
LEMMA PhaseIs ==
    ASSUME NEW X, NEW phase, Len(phase) \in Nat, NEW U
    PROVE  /\ PhaseWithin(X, phase, U)[0] = X
           /\ \A k \in 1..Len(phase) :
                 PhaseWithin(X, phase, U)[k] =
                    Chosen(phase[k], PhaseWithin(X, phase, U)[k - 1], U)
<1> DEFINE n == Len(phase)
           Step(Y, k) == {x \in U : \E m \in Y : Follows(phase[k], m, x)}
           Is(f) == f = [k \in 0..n |-> IF k = 0 THEN X ELSE Step(f[k - 1], k)]
           V == SUBSET (X \cup U)
           T == [a \in (1..n) \X V |-> Step(a[2], a[1])]
<1> HIDE DEF n
<1>1. n \in Nat
  BY DEF n
<1>2. \E f : Is(f)
  <2>1. \A Y, k : Step(Y, k) \in V
    OBVIOUS
  <2>2. \A k \in 1..n, Y \in V : T[<<k, Y>>] = Step(Y, k)
    OBVIOUS
  <2>3. T \in [(1..n) \X V -> V] /\ X \in V
    OBVIOUS
  <2> HIDE DEF T
  <2>4. PICK f \in [0..n -> V] : f[0] = X /\ \A k \in 1..n : f[k] = T[<<k, f[k - 1]>>]
    <3>1. PICK m, W, t : m = n /\ W = V /\ t = T
      OBVIOUS
    <3> HIDE DEF V
    <3>2. m \in Nat /\ X \in W /\ StepsOf(m, W, t)
      BY <1>1, <2>3, <3>1 DEF StepsOf
    <3>3. Walks(m, W, t, X) # {}
      BY <3>2, Recursion
    <3> QED
      BY <3>1, <3>3 DEF Walks
  <2>5. \A k \in 1..n : k - 1 \in 0..n /\ f[k - 1] \in V
    BY <1>1, <2>4
  <2>6. \A k \in 1..n : f[k] = Step(f[k - 1], k)
    BY <2>2, <2>4, <2>5
  <2>7. Is(f)
    <3> HIDE DEF Step, V
    <3> QED
      BY <1>1, <2>4, <2>6
  <2> HIDE DEF Is
  <2> QED
    BY <2>7
<1>3. PhaseWithin(X, phase, U) = CHOOSE f : Is(f)
  BY DEF PhaseWithin, n
<1>4. Is(PhaseWithin(X, phase, U))
  <2> HIDE DEF Is
  <2> QED
    BY <1>2, <1>3
<1>5. PICK h : h = PhaseWithin(X, phase, U)
  OBVIOUS
<1>6. h = [k \in 0..n |-> IF k = 0 THEN X ELSE Step(h[k - 1], k)]
  BY <1>4, <1>5
<1>7. h[0] = X /\ \A k \in 1..n : h[k] = Step(h[k - 1], k)
  <2>1. PICK g : g = [k \in 0..n |-> IF k = 0 THEN X ELSE Step(h[k - 1], k)]
    OBVIOUS
  <2>2. g[0] = X /\ \A k \in 1..n : g[k] = Step(h[k - 1], k)
    <3> HIDE DEF Step
    <3> QED
      BY <1>1, <2>1
  <2> HIDE DEF Step
  <2> QED
    BY <1>6, <2>1, <2>2
<1> QED
  BY <1>5, <1>7 DEF n, Chosen
\* What a request is made of.
LEMMA RequestIs ==
    ASSUME NEW q \in Queries
    PROVE  /\ q.from \in Nodes \cup {Top} /\ q.bare \in BOOLEAN
           /\ q.bare => q.from \in Nodes /\ Len(q.strings) = 1
           /\ q.strings \in Seq(Seq(Seq(Selector)))
           /\ Len(q.strings) \in Nat /\ Len(q.strings) >= 1
           /\ DOMAIN q.strings = 1..Len(q.strings)
           /\ \A i \in DOMAIN q.strings :
                 /\ q.strings[i] \in Seq(Seq(Selector))
                 /\ Len(q.strings[i]) \in Nat /\ Len(q.strings[i]) >= 1
                 /\ DOMAIN q.strings[i] = 1..Len(q.strings[i])
                 /\ \A p \in DOMAIN q.strings[i] :
                       /\ q.strings[i][p] \in Seq(Selector)
                       /\ Len(q.strings[i][p]) \in Nat /\ Len(q.strings[i][p]) >= 1
                       /\ DOMAIN q.strings[i][p] = 1..Len(q.strings[i][p])
                       /\ \A k \in DOMAIN q.strings[i][p] : q.strings[i][p][k] \in Selector
<1>1. \A S : \A s \in NonEmptySeq(S) :
         /\ s \in Seq(S) /\ Len(s) \in Nat /\ Len(s) >= 1
         /\ DOMAIN s = 1..Len(s) /\ \A i \in DOMAIN s : s[i] \in S
  BY EmptySeq DEF NonEmptySeq
<1> DEFINE A == NonEmptySeq(Selector)  B == NonEmptySeq(A)
<1>2. q.strings \in NonEmptySeq(B)
  BY SelectAssumption
<1>3. B \in SUBSET Seq(Seq(Selector)) /\ A \in SUBSET Seq(Selector)
  <2>1. \A S, R : S \in SUBSET R => Seq(S) \in SUBSET Seq(R)
    OBVIOUS
  <2>2. A \in SUBSET Seq(Selector) /\ B \in SUBSET Seq(A)
    BY DEF NonEmptySeq
  <2> HIDE DEF A, B
  <2>3. Seq(A) \in SUBSET Seq(Seq(Selector))
    BY <2>1, <2>2
  <2> QED
    BY <2>2, <2>3
<1>4. q.strings \in Seq(B) /\ Seq(B) \in SUBSET Seq(Seq(Seq(Selector)))
  <2>1. \A S, R : S \in SUBSET R => Seq(S) \in SUBSET Seq(R)
    OBVIOUS
  <2> HIDE DEF A, B
  <2> QED
    BY <1>1, <1>2, <1>3, <2>1
<1>5. /\ Len(q.strings) \in Nat /\ Len(q.strings) >= 1
      /\ DOMAIN q.strings = 1..Len(q.strings)
      /\ \A i \in DOMAIN q.strings : q.strings[i] \in B
  <2> HIDE DEF B
  <2> QED
    BY <1>1, <1>2
<1>6. ASSUME NEW i \in DOMAIN q.strings
      PROVE  /\ Len(q.strings[i]) \in Nat /\ Len(q.strings[i]) >= 1
             /\ DOMAIN q.strings[i] = 1..Len(q.strings[i])
             /\ \A p \in DOMAIN q.strings[i] : q.strings[i][p] \in A
  <2>1. q.strings[i] \in NonEmptySeq(A)
    BY <1>5
  <2> HIDE DEF A
  <2> QED
    BY <1>1, <2>1
<1>7. ASSUME NEW i \in DOMAIN q.strings, NEW p \in DOMAIN q.strings[i]
      PROVE  /\ Len(q.strings[i][p]) \in Nat /\ Len(q.strings[i][p]) >= 1
             /\ DOMAIN q.strings[i][p] = 1..Len(q.strings[i][p])
             /\ \A k \in DOMAIN q.strings[i][p] : q.strings[i][p][k] \in Selector
  <2>1. q.strings[i][p] \in NonEmptySeq(Selector)
    BY <1>6
  <2> QED
    BY <1>1, <2>1
<1>8. q.from \in Nodes \cup {Top} /\ q.bare \in BOOLEAN
      /\ (q.bare => q.from \in Nodes /\ Len(q.strings) = 1)
  BY SelectAssumption
<1> HIDE DEF A, B
<1>9. q.strings \in Seq(Seq(Seq(Selector)))
  BY <1>4
<1>10. \A i \in DOMAIN q.strings :
          /\ q.strings[i] \in Seq(Seq(Selector))
          /\ \A p \in DOMAIN q.strings[i] : q.strings[i][p] \in Seq(Selector)
  BY <1>3, <1>5, <1>6
<1> QED
  BY <1>5, <1>6, <1>7, <1>8, <1>9, <1>10

\* The function that StagesWithin is defined by exists.
LEMMA StagesIs ==
    ASSUME NEW q \in Queries, NEW U
    PROVE  /\ StagesWithin(q, U)[0] = Start(q, U)
           /\ \A i \in DOMAIN q.strings :
                 StagesWithin(q, U)[i] =
                    UNION {PhaseWithin(StagesWithin(q, U)[i - 1], q.strings[i][p], U)
                              [Len(q.strings[i][p])] : p \in DOMAIN q.strings[i]}
<1> DEFINE n == Len(q.strings)
           Step(Y, i) == UNION {PhaseWithin(Y, q.strings[i][p], U)[Len(q.strings[i][p])] :
                                   p \in DOMAIN q.strings[i]}
           Is(f) == f = [i \in 0..n |-> IF i = 0 THEN Start(q, U) ELSE Step(f[i - 1], i)]
           V == SUBSET (Start(q, U) \cup U)
           T == [a \in (1..n) \X V |-> Step(a[2], a[1])]
<1> HIDE DEF n
<1>1. n \in Nat /\ DOMAIN q.strings = 1..n
  BY RequestIs DEF n
<1>2. \E f : Is(f)
  <2>1. ASSUME NEW Y, NEW i \in 1..n
        PROVE  Step(Y, i) \in V
    <3>1. ASSUME NEW p \in DOMAIN q.strings[i]
          PROVE  PhaseWithin(Y, q.strings[i][p], U)[Len(q.strings[i][p])] \subseteq U
      <4>1. PICK phase : phase = q.strings[i][p]
        OBVIOUS
      <4>2. Len(phase) \in Nat /\ Len(phase) \in 1..Len(phase)
        BY <1>1, <4>1, RequestIs
      <4>3. PhaseWithin(Y, phase, U)[Len(phase)] =
               Chosen(phase[Len(phase)], PhaseWithin(Y, phase, U)[Len(phase) - 1], U)
        <5>1. \A k \in 1..Len(phase) :
                 PhaseWithin(Y, phase, U)[k] =
                    Chosen(phase[k], PhaseWithin(Y, phase, U)[k - 1], U)
          <6>1. Len(phase) \in Nat
            BY <4>2
          <6> QED
            BY <6>1, PhaseIs
        <5> QED
          BY <4>2, <5>1, Zenon
      <4>4. PhaseWithin(Y, phase, U)[Len(phase)] \subseteq U
        BY <4>3 DEF Chosen
      <4> QED
        BY <4>1, <4>4
    <3> QED
      BY <3>1
  <2>2. \A i \in 1..n, Y \in V : T[<<i, Y>>] = Step(Y, i)
    <3> HIDE DEF Step, V
    <3> QED
      OBVIOUS
  <2>3. Start(q, U) \in V /\ StepsOf(n, V, T)
    <3>1. Start(q, U) \in V
      OBVIOUS
    <3>2. \A a \in (1..n) \X V : Step(a[2], a[1]) \in V
      <4> HIDE DEF Step, V
      <4> QED
        BY <2>1
    <3> HIDE DEF Step, V
    <3> QED
      BY <3>1, <3>2 DEF StepsOf
  <2> HIDE DEF T
  <2>4. PICK f \in [0..n -> V] : f[0] = Start(q, U) /\ \A k \in 1..n : f[k] = T[<<k, f[k - 1]>>]
    <3>1. PICK m, W, t, X : m = n /\ W = V /\ t = T /\ X = Start(q, U)
      OBVIOUS
    <3> HIDE DEF V
    <3>2. m \in Nat /\ X \in W /\ StepsOf(m, W, t)
      BY <1>1, <2>3, <3>1
    <3>3. Walks(m, W, t, X) # {}
      BY <3>2, Recursion
    <3> QED
      BY <3>1, <3>3 DEF Walks
  <2> HIDE DEF Step, V
  <2>5. \A k \in 1..n : k - 1 \in 0..n /\ f[k - 1] \in V
    BY <1>1, <2>4
  <2>6. \A k \in 1..n : f[k] = Step(f[k - 1], k)
    BY <2>2, <2>4, <2>5
  <2>7. Is(f)
    BY <1>1, <2>4, <2>6
  <2> HIDE DEF Is
  <2> QED
    BY <2>7
<1>3. StagesWithin(q, U) = CHOOSE f : Is(f)
  BY Zenon DEF StagesWithin, n
<1>4. Is(StagesWithin(q, U))
  <2> HIDE DEF Is
  <2> QED
    BY <1>2, <1>3
<1>5. PICK h : h = StagesWithin(q, U)
  OBVIOUS
<1>6. h[0] = Start(q, U) /\ \A i \in 1..n : h[i] = Step(h[i - 1], i)
  <2>1. PICK g : g = [i \in 0..n |-> IF i = 0 THEN Start(q, U) ELSE Step(h[i - 1], i)]
    OBVIOUS
  <2> HIDE DEF Step
  <2>2. g[0] = Start(q, U) /\ \A i \in 1..n : g[i] = Step(h[i - 1], i)
    BY <1>1, <2>1
  <2>3. g = h
    BY <1>4, <1>5, <2>1
  <2> QED
    BY <2>2, <2>3
<1>7. \A i \in DOMAIN q.strings : h[i] = Step(h[i - 1], i)
  <2> HIDE DEF Step
  <2> QED
    BY <1>1, <1>6
<1> QED
  BY <1>5, <1>6, <1>7
\* More can be selected of more within more.
LEMMA PhaseGrows ==
    ASSUME NEW X, NEW Y, X \subseteq Y, NEW U, NEW V, U \subseteq V,
           NEW phase, Len(phase) \in Nat, NEW k \in 0..Len(phase)
    PROVE  PhaseWithin(X, phase, U)[k] \subseteq PhaseWithin(Y, phase, V)[k]
<1> DEFINE f == PhaseWithin(X, phase, U)  g == PhaseWithin(Y, phase, V)
           n == Len(phase)
           G == {j \in 0..n : f[j] \subseteq g[j]}
<1>1. f[0] = X /\ \A j \in 1..n : f[j] = Chosen(phase[j], f[j - 1], U)
  BY PhaseIs
<1>2. g[0] = Y /\ \A j \in 1..n : g[j] = Chosen(phase[j], g[j - 1], V)
  BY PhaseIs
<1> HIDE DEF f, g
<1>3. 0 \in G
  BY <1>1, <1>2
<1>4. ASSUME NEW j \in 0..(n - 1), j \in G
      PROVE  j + 1 \in G
  <2>1. j + 1 \in 1..n /\ (j + 1) - 1 = j /\ f[j] \subseteq g[j]
    BY <1>4
  <2>2. f[j + 1] = Chosen(phase[j + 1], f[j], U) /\ g[j + 1] = Chosen(phase[j + 1], g[j], V)
    BY <1>1, <1>2, <2>1
  <2>3. f[j + 1] \subseteq g[j + 1]
    BY <2>1, <2>2 DEF Chosen
  <2> QED
    BY <2>1, <2>3
<1>5. \A j \in 0..n : j \in G
  <2> HIDE DEF G, n
  <2>1. n \in Nat
    BY DEF n
  <2> QED
    BY <1>3, <1>4, <2>1, UpTo
<1> QED
  BY <1>5 DEF f, g

\* The same for whole strings.
LEMMA StagesGrow ==
    ASSUME NEW q \in Queries, NEW U, NEW V, U \subseteq V, NEW i \in 0..Len(q.strings)
    PROVE  StagesWithin(q, U)[i] \subseteq StagesWithin(q, V)[i]
<1> DEFINE f == StagesWithin(q, U)  g == StagesWithin(q, V)
           n == Len(q.strings)
           G == {j \in 0..n : f[j] \subseteq g[j]}
<1>1. f[0] = Start(q, U) /\ g[0] = Start(q, V) /\ Start(q, U) \subseteq Start(q, V)
  BY StagesIs DEF Start
<1>2. ASSUME NEW j \in 0..(n - 1), j \in G
      PROVE  j + 1 \in G
  <2>1. j + 1 \in DOMAIN q.strings /\ (j + 1) - 1 = j /\ f[j] \subseteq g[j] /\ j + 1 \in 0..n
    BY <1>2, RequestIs
  <2>2. PICK stage : stage = q.strings[j + 1]
    OBVIOUS
  <2>3. /\ f[j + 1] = UNION {PhaseWithin(f[j], stage[p], U)[Len(stage[p])] : p \in DOMAIN stage}
        /\ g[j + 1] = UNION {PhaseWithin(g[j], stage[p], V)[Len(stage[p])] : p \in DOMAIN stage}
    BY <2>1, <2>2, StagesIs
  <2>4. ASSUME NEW p \in DOMAIN stage
        PROVE  PhaseWithin(f[j], stage[p], U)[Len(stage[p])]
                  \subseteq PhaseWithin(g[j], stage[p], V)[Len(stage[p])]
    <3>1. PICK phase : phase = stage[p]
      OBVIOUS
    <3>2. Len(phase) \in Nat /\ Len(phase) \in 0..Len(phase)
      BY <2>1, <2>2, <3>1, RequestIs
    <3>3. PICK X, Y : X = f[j] /\ Y = g[j]
      OBVIOUS
    <3>4. X \subseteq Y
      BY <2>1, <3>3
    <3>5. PhaseWithin(X, phase, U)[Len(phase)] \subseteq PhaseWithin(Y, phase, V)[Len(phase)]
      BY <3>2, <3>4, PhaseGrows
    <3> QED
      BY <3>1, <3>3, <3>5
  <2>5. f[j + 1] \subseteq g[j + 1]
    <3> HIDE DEF f, g
    <3>1. ASSUME NEW x \in f[j + 1]
          PROVE  x \in g[j + 1]
      <4>1. PICK p \in DOMAIN stage : x \in PhaseWithin(f[j], stage[p], U)[Len(stage[p])]
        BY <2>3
      <4>2. x \in PhaseWithin(g[j], stage[p], V)[Len(stage[p])]
        BY <2>4, <4>1
      <4> QED
        BY <2>3, <4>2
    <3> QED
      BY <3>1
  <2> QED
    BY <2>1, <2>5
<1>3. \A j \in 0..n : j \in G
  <2>1. n \in Nat /\ 0 \in G
    BY <1>1, RequestIs
  <2> HIDE DEF G, n
  <2> QED
    BY <1>2, <2>1, UpTo
<1> QED
  BY <1>3

\* Where phases start, what they select next, and what is left when they select nothing.
LEMMA BeforeIs ==
    ASSUME NEW q \in Queries, NEW U, NEW i \in DOMAIN q.strings,
           NEW p \in DOMAIN q.strings[i]
    PROVE  /\ i = 1 => Before(q, i, p, 1, U) = Start(q, U)
           /\ i > 1 => Before(q, i, p, 1, U) =
                          UNION {Before(q, i - 1, r, Len(q.strings[i - 1][r]) + 1, U) :
                                    r \in DOMAIN q.strings[i - 1]}
           /\ \A k \in DOMAIN q.strings[i][p] :
                 Before(q, i, p, k + 1, U) =
                    Chosen(q.strings[i][p][k], Before(q, i, p, k, U), U)
<1>1. PICK phase : phase = q.strings[i][p]
  OBVIOUS
<1>2. Len(phase) \in Nat /\ DOMAIN phase = 1..Len(phase) /\ i \in 1..Len(q.strings)
      /\ Len(q.strings) \in Nat /\ DOMAIN q.strings = 1..Len(q.strings)
  BY <1>1, RequestIs
<1>3. PICK X : X = StagesWithin(q, U)[i - 1]
  OBVIOUS
<1>4. /\ PhaseWithin(X, phase, U)[0] = X
      /\ \A k \in 1..Len(phase) :
            PhaseWithin(X, phase, U)[k] = Chosen(phase[k], PhaseWithin(X, phase, U)[k - 1], U)
  <2>1. Len(phase) \in Nat
    BY <1>2
  <2> QED
    BY <2>1, PhaseIs
<1>5. Before(q, i, p, 1, U) = X
  BY <1>1, <1>3, <1>4 DEF Before
<1>6. i = 1 => X = Start(q, U)
  BY <1>3, StagesIs
<1>7. ASSUME i > 1
      PROVE  X = UNION {Before(q, i - 1, r, Len(q.strings[i - 1][r]) + 1, U) :
                           r \in DOMAIN q.strings[i - 1]}
  <2>1. i - 1 \in DOMAIN q.strings
    BY <1>2, <1>7
  <2>2. X = UNION {PhaseWithin(StagesWithin(q, U)[(i - 1) - 1], q.strings[i - 1][r], U)
                      [Len(q.strings[i - 1][r])] : r \in DOMAIN q.strings[i - 1]}
    BY <1>3, <2>1, StagesIs
  <2>3. ASSUME NEW r \in DOMAIN q.strings[i - 1]
        PROVE  PhaseWithin(StagesWithin(q, U)[(i - 1) - 1], q.strings[i - 1][r], U)
                      [Len(q.strings[i - 1][r])]
               = Before(q, i - 1, r, Len(q.strings[i - 1][r]) + 1, U)
    <3>1. PICK m \in Nat : m = Len(q.strings[i - 1][r])
      BY <2>1, RequestIs
    <3>2. (m + 1) - 1 = m
      OBVIOUS
    <3> QED
      BY <3>1, <3>2 DEF Before
  <2> QED
    BY <2>2, <2>3
<1>8. ASSUME NEW k \in DOMAIN q.strings[i][p]
      PROVE  Before(q, i, p, k + 1, U) =
                Chosen(q.strings[i][p][k], Before(q, i, p, k, U), U)
  <2>1. k \in 1..Len(phase) /\ (k + 1) - 1 = k
    BY <1>1, <1>2
  <2>2. PhaseWithin(X, phase, U)[k] = Chosen(phase[k], PhaseWithin(X, phase, U)[k - 1], U)
    BY <1>4, <2>1
  <2> QED
    BY <1>1, <1>3, <2>1, <2>2 DEF Before
<1> QED
  BY <1>5, <1>6, <1>7, <1>8

\* The same for one selector.
LEMMA BeforeNext ==
    ASSUME NEW q \in Queries, NEW U, NEW i \in DOMAIN q.strings,
           NEW p \in DOMAIN q.strings[i], NEW k \in DOMAIN q.strings[i][p]
    PROVE  Before(q, i, p, k + 1, U) =
              Chosen(q.strings[i][p][k], Before(q, i, p, k, U), U)
<1>1. \A c \in DOMAIN q.strings[i][p] :
         Before(q, i, p, c + 1, U) = Chosen(q.strings[i][p][c], Before(q, i, p, c, U), U)
  BY BeforeIs
<1> QED
  BY <1>1

\* What the phases of a string select.
Selects(q, i, U) ==
    UNION {Before(q, i, r, Len(q.strings[i][r]) + 1, U) : r \in DOMAIN q.strings[i]}

\* What is meant is there, unless it is the top.
LEMMA BeforeThere ==
    ASSUME NEW q \in Queries, NEW U, q.from \in Nodes => q.from \in U,
           NEW i \in DOMAIN q.strings, NEW p \in DOMAIN q.strings[i],
           NEW k \in DOMAIN q.strings[i][p]
    PROVE  Before(q, i, p, k, U) \subseteq U \cup {Top}
<1>1. ASSUME NEW j \in DOMAIN q.strings, NEW r \in DOMAIN q.strings[j],
             NEW c \in DOMAIN q.strings[j][r]
      PROVE  Before(q, j, r, c + 1, U) \subseteq U
  <2>1. Before(q, j, r, c + 1, U) = Chosen(q.strings[j][r][c], Before(q, j, r, c, U), U)
    BY BeforeNext
  <2> QED
    BY <2>1 DEF Chosen
<1>2. PICK n \in Nat, m \in Nat : i \in 1..n /\ DOMAIN q.strings = 1..n
                            /\ k \in 1..m /\ DOMAIN q.strings[i][p] = 1..m
  <2>1. PICK n \in Nat : n = Len(q.strings) /\ DOMAIN q.strings = 1..n
    BY RequestIs
  <2>2. PICK m \in Nat : m = Len(q.strings[i][p]) /\ DOMAIN q.strings[i][p] = 1..m
    BY RequestIs
  <2> QED
    BY <2>1, <2>2
<1>3. CASE k > 1
  <2>1. k - 1 \in DOMAIN q.strings[i][p] /\ (k - 1) + 1 = k
    BY <1>2, <1>3
  <2> QED
    BY <1>1, <2>1
<1>4. CASE k = 1 /\ i = 1
  <2>1. Before(q, i, p, k, U) = Start(q, U)
    BY <1>4, BeforeIs
  <2>2. q.from \in U \cup {Top}
    BY RequestIs
  <2> QED
    BY <2>1, <2>2 DEF Start
<1>5. CASE k = 1 /\ i > 1
  <2>1. PICK j \in DOMAIN q.strings : j = i - 1
    BY <1>2, <1>5
  <2>2. Before(q, i, p, k, U) =
           UNION {Before(q, j, r, Len(q.strings[j][r]) + 1, U) : r \in DOMAIN q.strings[j]}
    <3>1. Before(q, i, p, 1, U) =
             UNION {Before(q, i - 1, r, Len(q.strings[i - 1][r]) + 1, U) :
                       r \in DOMAIN q.strings[i - 1]}
      BY <1>5, BeforeIs
    <3> QED
      BY <1>5, <2>1, <3>1
  <2>3. ASSUME NEW r \in DOMAIN q.strings[j]
        PROVE  Before(q, j, r, Len(q.strings[j][r]) + 1, U) \subseteq U
    <3>1. PICK c : c = Len(q.strings[j][r])
      OBVIOUS
    <3>2. c \in Nat /\ c >= 1 /\ DOMAIN q.strings[j][r] = 1..c
      BY <3>1, RequestIs
    <3>3. c \in DOMAIN q.strings[j][r]
      BY <3>2
    <3> QED
      BY <1>1, <3>1, <3>3
  <2> QED
    BY <2>2, <2>3
<1> QED
  BY <1>2, <1>3, <1>4, <1>5

\* The same for the first selector of a string.
LEMMA BeforeFirst ==
    ASSUME NEW q \in Queries, NEW U, NEW e \in DOMAIN q.strings, e > 1,
           NEW p \in DOMAIN q.strings[e]
    PROVE  Before(q, e, p, 1, U) = Selects(q, e - 1, U)
BY BeforeIs DEF Selects

\* The same for a string.
LEMMA BeforeString ==
    ASSUME NEW q \in Queries, NEW U, NEW i \in DOMAIN q.strings,
           NEW e \in DOMAIN q.strings, e = i + 1, NEW p \in DOMAIN q.strings[e]
    PROVE  Before(q, e, p, 1, U) = Selects(q, i, U)
<1>1. PICK n \in Nat : i \in 1..n /\ e \in 1..n
  BY RequestIs
<1>2. e > 1 /\ e - 1 = i
  BY <1>1
<1> QED
  BY <1>2, BeforeFirst

\* More can be selected of more.
LEMMA BeforeGrows ==
    ASSUME NEW q \in Queries, NEW U, NEW V, U \subseteq V, NEW i \in DOMAIN q.strings,
           NEW p \in DOMAIN q.strings[i], NEW k \in 1..(Len(q.strings[i][p]) + 1)
    PROVE  Before(q, i, p, k, U) \subseteq Before(q, i, p, k, V)
<1>1. PICK phase : phase = q.strings[i][p]
  OBVIOUS
<1>2. Len(phase) \in Nat /\ k - 1 \in 0..Len(phase) /\ i - 1 \in 0..Len(q.strings)
  BY <1>1, RequestIs
<1>3. PICK X, Y : X = StagesWithin(q, U)[i - 1] /\ Y = StagesWithin(q, V)[i - 1]
  OBVIOUS
<1>4. X \subseteq Y
  <2>1. i - 1 \in 0..Len(q.strings)
    BY <1>2
  <2> QED
    BY <1>3, <2>1, StagesGrow
<1>5. PhaseWithin(X, phase, U)[k - 1] \subseteq PhaseWithin(Y, phase, V)[k - 1]
  <2>1. PICK j \in 0..Len(phase) : j = k - 1
    BY <1>2
  <2>2. Len(phase) \in Nat
    BY <1>2
  <2>3. PhaseWithin(X, phase, U)[j] \subseteq PhaseWithin(Y, phase, V)[j]
    BY <1>4, <2>2, PhaseGrows
  <2> QED
    BY <2>1, <2>3
<1> QED
  BY <1>1, <1>3, <1>5 DEF Before

\* Within nothing nothing is selected.
LEMMA NothingWithin ==
    ASSUME NEW q \in Queries, NEW U, NEW i \in DOMAIN q.strings,
           NEW p \in DOMAIN q.strings[i], NEW k \in 1..(Len(q.strings[i][p]) + 1),
           Before(q, i, p, k, U) = {}, NEW j \in k..(Len(q.strings[i][p]) + 1)
    PROVE  Before(q, i, p, j, U) = {}
<1>1. PICK n \in Nat : n = Len(q.strings[i][p]) /\ DOMAIN q.strings[i][p] = 1..n
  BY RequestIs
<1> DEFINE m == n + 1 - k
           G == {d \in 0..m : Before(q, i, p, k + d, U) = {}}
<1>2. m \in Nat /\ 0 \in G
  <2>1. k + 0 = k /\ m \in Nat
    BY <1>1
  <2> QED
    BY <2>1
<1>3. ASSUME NEW d \in 0..(m - 1), d \in G
      PROVE  d + 1 \in G
  <2>1. k + d \in 1..n /\ d + 1 \in 0..m /\ k + (d + 1) = (k + d) + 1
    BY <1>1
  <2>2. Before(q, i, p, (k + d) + 1, U) =
           Chosen(q.strings[i][p][k + d], Before(q, i, p, k + d, U), U)
    <3>1. PICK c \in DOMAIN q.strings[i][p] : c = k + d
      BY <1>1, <2>1
    <3>2. Before(q, i, p, c + 1, U) = Chosen(q.strings[i][p][c], Before(q, i, p, c, U), U)
      BY BeforeNext
    <3> QED
      BY <3>1, <3>2
  <2>3. Before(q, i, p, (k + d) + 1, U) = {}
    BY <1>3, <2>2 DEF Chosen
  <2> QED
    BY <2>1, <2>3
<1>4. \A d \in 0..m : d \in G
  <2> HIDE DEF G, m
  <2> QED
    BY <1>2, <1>3, UpTo
<1>5. j - k \in 0..m /\ k + (j - k) = j
  BY <1>1
<1> QED
  BY <1>4, <1>5
-----------------------------------------------------------------------------
(* Places and the collection.                                                *)

\* What a prefix is.
LEMMA PrefixIs ==
    ASSUME NEW S, NEW s \in Seq(S), NEW t \in Seq(S)
    PROVE  IsPrefix(s, t) <=> Len(s) <= Len(t) /\ \A i \in 1..Len(s) : s[i] = t[i]
<1>1. PICK n \in Nat, m \in Nat : n = Len(s) /\ m = Len(t)
  OBVIOUS
<1>2. n <= m => SubSeq(s, 1, n) = s /\ SubSeq(t, 1, n) \in Seq(S) /\ Len(SubSeq(t, 1, n)) = n
                /\ \A i \in 1..n : SubSeq(t, 1, n)[i] = t[i]
  BY <1>1
<1>3. n <= m => (SubSeq(s, 1, n) = SubSeq(t, 1, n) <=> \A i \in 1..n : s[i] = t[i])
  <2>1. n <= m => (s = SubSeq(t, 1, n) <=> \A i \in 1..n : s[i] = SubSeq(t, 1, n)[i])
    BY <1>1, <1>2, SeqEqual
  <2> QED
    BY <1>2, <2>1
<1> QED
  BY <1>1, <1>3 DEF IsPrefix

\* What a strict prefix is.
LEMMA StrictPrefixIs ==
    ASSUME NEW S, NEW s \in Seq(S), NEW t \in Seq(S)
    PROVE  IsStrictPrefix(s, t) <=> Len(s) < Len(t) /\ \A i \in 1..Len(s) : s[i] = t[i]
<1>1. PICK n \in Nat, m \in Nat : n = Len(s) /\ m = Len(t)
  OBVIOUS
<1>2. IsPrefix(s, t) <=> n <= m /\ \A i \in 1..n : s[i] = t[i]
  BY <1>1, PrefixIs
<1>3. s = t <=> n = m /\ \A i \in 1..n : s[i] = t[i]
  BY <1>1, SeqEqual
<1> QED
  BY <1>1, <1>2, <1>3 DEF IsStrictPrefix

\* A line, and the one it is below.
LEMMA LineIs ==
    ASSUME NEW m \in Nodes, NEW n \in Nodes
    PROVE  /\ Line[n] \in Seq(Nodes) /\ Len(Line[n]) \in Nat /\ Len(Line[n]) >= 1
           /\ n \in StrictlyBelow(m) <=>
                 /\ Len(Line[m]) < Len(Line[n])
                 /\ \A i \in 1..Len(Line[m]) : Line[m][i] = Line[n][i]
           /\ n \in Children(m) <=>
                 /\ Len(Line[m]) = Len(Line[n]) - 1
                 /\ \A i \in 1..Len(Line[m]) : Line[m][i] = Line[n][i]
           /\ n \in Roots <=> Len(Line[n]) = 1
<1>1. /\ Line[m] \in Seq(Nodes) /\ Line[m] # <<>>
      /\ Line[n] \in Seq(Nodes) /\ Line[n] # <<>>
  BY SelectAssumption DEF NonEmptySeq
<1>2. PICK s \in Seq(Nodes), t \in Seq(Nodes) : s = Line[m] /\ t = Line[n]
  BY <1>1
<1>3. Len(s) \in Nat /\ Len(t) \in Nat /\ Len(s) >= 1 /\ Len(t) >= 1
  BY <1>1, <1>2, EmptySeq
<1>4. n \in StrictlyBelow(m) <=> IsStrictPrefix(s, t)
  BY <1>2 DEF StrictlyBelow
<1>5. IsStrictPrefix(s, t) <=> Len(s) < Len(t) /\ \A i \in 1..Len(s) : s[i] = t[i]
  BY StrictPrefixIs
<1>6. PICK k \in Nat : k = Len(t) - 1
  BY <1>3
<1>7. Front(t) \in Seq(Nodes) /\ Len(Front(t)) = k /\ \A i \in 1..k : Front(t)[i] = t[i]
  <2>1. /\ SubSeq(t, 1, k) \in Seq(Nodes) /\ Len(SubSeq(t, 1, k)) = k
        /\ \A i \in 1..k : SubSeq(t, 1, k)[i] = t[i]
    BY <1>3, <1>6
  <2> QED
    BY <1>6, <2>1 DEF Front
<1>8. Front(t) = s <=> Len(s) = k /\ \A i \in 1..k : Front(t)[i] = s[i]
  BY <1>7, SeqEqual
<1>9. n \in Children(m) <=> Len(s) = Len(t) - 1 /\ \A i \in 1..Len(s) : s[i] = t[i]
  BY <1>2, <1>6, <1>7, <1>8 DEF Children
<1>10. n \in Roots <=> Len(t) = 1
  BY <1>2 DEF Roots
<1>11. n \in StrictlyBelow(m) <=>
          Len(Line[m]) < Len(Line[n]) /\ \A i \in 1..Len(Line[m]) : Line[m][i] = Line[n][i]
  BY <1>2, <1>4, <1>5
<1>12. n \in Children(m) <=>
          Len(Line[m]) = Len(Line[n]) - 1 /\ \A i \in 1..Len(Line[m]) : Line[m][i] = Line[n][i]
  BY <1>2, <1>9
<1> QED
  BY ONLY <1>2, <1>3, <1>10, <1>11, <1>12

\* Above a container are its parent and what is above that; above a root is nothing.
LEMMA AboveIs ==
    ASSUME NEW m \in Nodes, NEW n \in Nodes
    PROVE  /\ n \in Roots => n \notin StrictlyBelow(m)
           /\ \A l \in Nodes : n \in StrictlyBelow(m) /\ m \in StrictlyBelow(l) =>
                 n \in StrictlyBelow(l)
           /\ \A l \in Nodes : n \in StrictlyBelow(m) /\ n \in Children(l) =>
                 m = l \/ l \in StrictlyBelow(m)
           /\ n \in Children(m) => n \in StrictlyBelow(m)
           /\ n \notin StrictlyBelow(n)
<1>1. n \in Roots => n \notin StrictlyBelow(m)
  <2>1. PICK a \in Nat : a = Len(Line[m]) /\ a >= 1
    BY LineIs
  <2>2. PICK b : b = Len(Line[n])
    OBVIOUS
  <2>3. n \in Roots => b = 1
    BY <2>2, LineIs
  <2>4. n \in StrictlyBelow(m) => a < b
    <3>1. n \in StrictlyBelow(m) <=>
             /\ Len(Line[m]) < Len(Line[n])
             /\ \A i \in 1..Len(Line[m]) : Line[m][i] = Line[n][i]
      BY LineIs
    <3> QED
      BY <2>1, <2>2, <3>1
  <2> QED
    BY <2>1, <2>3, <2>4
<1>2. ASSUME NEW l \in Nodes, n \in StrictlyBelow(m), m \in StrictlyBelow(l)
      PROVE  n \in StrictlyBelow(l)
  <2>1. /\ Len(Line[m]) < Len(Line[n])
        /\ \A i \in 1..Len(Line[m]) : Line[m][i] = Line[n][i]
    BY <1>2, LineIs
  <2>2. /\ Len(Line[l]) < Len(Line[m])
        /\ \A i \in 1..Len(Line[l]) : Line[l][i] = Line[m][i]
    BY <1>2, LineIs
  <2>3. Len(Line[l]) \in Nat /\ Len(Line[m]) \in Nat /\ Len(Line[n]) \in Nat
    BY LineIs
  <2>4. Len(Line[l]) < Len(Line[n]) /\ \A i \in 1..Len(Line[l]) : Line[l][i] = Line[n][i]
    BY <2>1, <2>2, <2>3
  <2> QED
    BY <2>4, LineIs
<1>3. ASSUME NEW l \in Nodes, n \in StrictlyBelow(m), n \in Children(l)
      PROVE  m = l \/ l \in StrictlyBelow(m)
  <2>1. /\ Len(Line[m]) < Len(Line[n])
        /\ \A i \in 1..Len(Line[m]) : Line[m][i] = Line[n][i]
    BY <1>3, LineIs
  <2>2. /\ Len(Line[l]) = Len(Line[n]) - 1
        /\ \A i \in 1..Len(Line[l]) : Line[l][i] = Line[n][i]
    BY <1>3, LineIs
  <2>3. Len(Line[l]) \in Nat /\ Len(Line[m]) \in Nat /\ Len(Line[n]) \in Nat
    BY LineIs
  <2>4. CASE Len(Line[m]) < Len(Line[l])
    <3>1. \A i \in 1..Len(Line[m]) : Line[m][i] = Line[l][i]
      BY <2>1, <2>2, <2>3, <2>4
    <3> QED
      BY <2>4, <3>1, LineIs
  <2>5. CASE Len(Line[m]) = Len(Line[l])
    <3>1. \A i \in 1..Len(Line[m]) : Line[m][i] = Line[l][i]
      BY <2>1, <2>2, <2>3, <2>5
    <3>2. Line[m] \in Seq(Nodes) /\ Line[l] \in Seq(Nodes)
      BY LineIs
    <3>3. Line[m] = Line[l]
      BY <2>5, <3>1, <3>2, SeqEqual
    <3>4. Last(Line[m]) = m /\ Last(Line[l]) = l
      BY SelectAssumption
    <3> QED
      BY <3>3, <3>4
  <2> QED
    BY <2>1, <2>2, <2>3, <2>4, <2>5
<1>4. n \in Children(m) => n \in StrictlyBelow(m)
  <2>1. Len(Line[m]) \in Nat /\ Len(Line[n]) \in Nat
    BY LineIs
  <2> QED
    BY <2>1, LineIs
<1>5. n \notin StrictlyBelow(n)
  BY LineIs
<1> QED
  BY <1>1, <1>2, <1>3, <1>4, <1>5

\* What is above a container of a collection is in it.
UpClosed(S) == \A n \in S, m \in Nodes : n \in StrictlyBelow(m) => m \in S

\* A tree is closed upwards, since a container has its parent and hence, step by
\* step, all that is above it.
LEMMA TreesClosed ==
    ASSUME NEW S \in SUBSET Nodes, IsTree(S)
    PROVE  UpClosed(S)
<1> DEFINE Bad(n) == n \in S /\ \E m \in Nodes : n \in StrictlyBelow(m) /\ m \notin S
           B == {k \in Nat : \E n \in Nodes : Bad(n) /\ k = Len(Line[n])}
<1>1. SUFFICES ASSUME NEW n \in S, Bad(n) PROVE FALSE
  BY DEF UpClosed
<1>2. Len(Line[n]) \in B
  <2>1. n \in Nodes /\ Len(Line[n]) \in Nat
    BY LineIs
  <2> QED
    BY <1>1, <2>1
<1>3. PICK k \in B : \A j \in B : k <= j
  <2>1. B \in SUBSET Nat /\ B # {}
    BY <1>2
  <2> HIDE DEF B
  <2> QED
    BY <2>1, LeastOf
<1>4. PICK l \in Nodes : Bad(l) /\ k = Len(Line[l])
  BY <1>3
<1>5. PICK m \in Nodes : l \in StrictlyBelow(m) /\ m \notin S
  BY <1>4
<1>6. PICK r \in S : l \in Children(r)
  <2>1. l \notin Roots
    BY <1>5, AboveIs
  <2> QED
    BY <1>4, <2>1 DEF IsTree
<1>7. r \in Nodes /\ r \in StrictlyBelow(m)
  <2>1. m = r \/ r \in StrictlyBelow(m)
    BY <1>5, <1>6, AboveIs
  <2> QED
    BY <1>5, <2>1
<1>8. Bad(r)
  BY <1>5, <1>7
<1>9. Len(Line[r]) \in Nat /\ Len(Line[r]) < Len(Line[l])
  BY <1>6, LineIs
<1>10. Len(Line[r]) \in B
  BY <1>7, <1>8, <1>9
<1>11. k <= Len(Line[r]) /\ k \in Nat
  BY <1>3, <1>10
<1> QED
  BY <1>4, <1>9, <1>11

\* A place is as long as the line.
LEMMA PlaceIs ==
    ASSUME NEW n \in Nodes
    PROVE  /\ Place[n] \in Seq(Nat) /\ Len(Place[n]) = Len(Line[n])
           /\ \A k \in 1..Len(Line[n]) :
                 Line[n][k] \in Nodes /\ Place[n][k] = Position[Line[n][k]]
<1>1. PICK s \in Seq(Nodes) : s = Line[n]
  BY LineIs
<1>2. Position \in [Nodes -> Nat]
  BY SelectAssumption
<1>3. Place[n] = [k \in 1..Len(s) |-> Position[s[k]]]
  BY <1>1 DEF Place
<1>4. Len(s) \in Nat /\ \A k \in 1..Len(s) : s[k] \in Nodes /\ Position[s[k]] \in Nat
  BY <1>2
<1> QED
  BY <1>1, <1>3, <1>4

\* What the places of two containers say.
LEMMA CoveredIs ==
    ASSUME NEW m \in Nodes, NEW n \in Nodes
    PROVE  n \in Covered(m) <=>
              /\ Len(Line[m]) < Len(Line[n])
              /\ \A i \in 1..Len(Line[m]) : Place[m][i] = Place[n][i]
<1>1. PICK s \in Seq(Nat), t \in Seq(Nat) : s = Place[m] /\ t = Place[n]
  BY PlaceIs
<1>2. Len(s) = Len(Line[m]) /\ Len(t) = Len(Line[n])
  BY <1>1, PlaceIs
<1>3. n \in Covered(m) <=> IsStrictPrefix(s, t)
  BY <1>1 DEF Covered
<1>4. IsStrictPrefix(s, t) <=> Len(s) < Len(t) /\ \A i \in 1..Len(s) : s[i] = t[i]
  BY StrictPrefixIs
<1> QED
  BY <1>1, <1>2, <1>3, <1>4

\* What is below a container has its place below it.
LEMMA BelowCovered ==
    ASSUME NEW m \in Nodes, NEW n \in StrictlyBelow(m)
    PROVE  n \in Covered(m)
<1>1. n \in Nodes
  BY DEF StrictlyBelow
<1>2. /\ Len(Line[m]) < Len(Line[n]) /\ Len(Line[m]) \in Nat /\ Len(Line[n]) \in Nat
      /\ \A i \in 1..Len(Line[m]) : Line[m][i] = Line[n][i]
  BY <1>1, LineIs
<1>3. \A i \in 1..Len(Line[m]) : i \in 1..Len(Line[n])
  BY <1>2
<1>4. \A i \in 1..Len(Line[m]) : Place[m][i] = Position[Line[m][i]] /\ Place[n][i] = Position[Line[n][i]]
  BY <1>1, <1>3, PlaceIs
<1> QED
  BY <1>1, <1>2, <1>4, CoveredIs

\* And below what that is below.
LEMMA CoveredOn ==
    ASSUME NEW l \in Nodes, NEW m \in Nodes, NEW n \in Nodes,
           m \in Covered(l), n \in Covered(m)
    PROVE  n \in Covered(l)
<1>1. /\ Len(Line[l]) < Len(Line[m])
      /\ \A i \in 1..Len(Line[l]) : Place[l][i] = Place[m][i]
  BY CoveredIs
<1>2. /\ Len(Line[m]) < Len(Line[n])
      /\ \A i \in 1..Len(Line[m]) : Place[m][i] = Place[n][i]
  BY CoveredIs
<1>3. Len(Line[l]) \in Nat /\ Len(Line[m]) \in Nat /\ Len(Line[n]) \in Nat
  BY LineIs
<1>4. Len(Line[l]) < Len(Line[n]) /\ \A i \in 1..Len(Line[l]) : Place[l][i] = Place[n][i]
  BY <1>1, <1>2, <1>3
<1> QED
  BY <1>4, CoveredIs

\* On the way down to a container there is one of each length of line.
LEMMA OnTheWay ==
    ASSUME NEW n \in Nodes, NEW k \in 1..Len(Line[n])
    PROVE  \E l \in Nodes :
              /\ Line[n][k] = l /\ Len(Line[l]) = k
              /\ \A i \in 1..k : Line[l][i] = Line[n][i]
              /\ \A i \in 1..k : Place[l][i] = Place[n][i]
              /\ l = n \/ n \in StrictlyBelow(l)
<1>1. PICK s \in Seq(Nodes), m \in Nat : s = Line[n] /\ m = Len(s) /\ k \in 1..m
  BY LineIs
<1>2. PICK l \in Nodes : l = s[k]
  BY <1>1
<1>3. Line[l] = SubSeq(s, 1, k)
  BY <1>1, <1>2, SelectAssumption
<1>4. /\ Len(SubSeq(s, 1, k)) = k
      /\ \A i \in 1..k : SubSeq(s, 1, k)[i] = s[i]
  BY <1>1
<1>5. Len(Line[l]) = k /\ \A i \in 1..k : Line[l][i] = Line[n][i]
  BY <1>1, <1>3, <1>4
<1>6. \A i \in 1..k : Place[l][i] = Position[Line[l][i]] /\ Place[n][i] = Position[Line[n][i]]
  <2>1. \A i \in 1..k : i \in 1..Len(Line[l]) /\ i \in 1..Len(Line[n])
    BY <1>1, <1>5
  <2> QED
    BY <2>1, PlaceIs
<1>7. l = n \/ n \in StrictlyBelow(l)
  <2>1. CASE k = m
    <3>1. Last(Line[n]) = n
      BY SelectAssumption
    <3> QED
      BY <1>1, <1>2, <2>1, <3>1 DEF Last
  <2>2. CASE k # m
    <3>1. Len(Line[l]) < Len(Line[n])
      BY <1>1, <1>5, <2>2
    <3> QED
      BY <1>5, <3>1, LineIs
  <2> QED
    BY <2>1, <2>2
<1> QED
  BY <1>1, <1>2, <1>5, <1>6, <1>7

\* While no place is used twice, what has its place below a container is below it.
LEMMA CoveredBelow ==
    ASSUME NEW S \in SUBSET Nodes, UpClosed(S), Apart(S), NEW m \in S, NEW n \in S,
           n \in Covered(m)
    PROVE  n \in StrictlyBelow(m)
<1>1. PICK k : k = Len(Line[m])
  OBVIOUS
<1>2. k \in Nat /\ k >= 1 /\ k < Len(Line[n]) /\ Len(Line[n]) \in Nat
      /\ \A i \in 1..k : Place[m][i] = Place[n][i]
  BY <1>1, LineIs, CoveredIs
<1>3. k \in 1..Len(Line[n])
  BY <1>2
<1>4. PICK l \in Nodes :
         /\ Len(Line[l]) = k
         /\ \A i \in 1..k : Place[l][i] = Place[n][i]
         /\ l = n \/ n \in StrictlyBelow(l)
  BY <1>3, OnTheWay
<1>5. l # n
  BY <1>2, <1>4
<1>6. l \in S
  BY <1>4, <1>5 DEF UpClosed
<1>7. Place[l] = Place[m]
  <2>1. PICK s \in Seq(Nat), t \in Seq(Nat) : s = Place[l] /\ t = Place[m]
    BY PlaceIs
  <2>2. Len(s) = k /\ Len(t) = k
    BY <1>1, <1>4, <2>1, PlaceIs
  <2>3. \A i \in 1..k : s[i] = t[i]
    BY <1>2, <1>4, <2>1
  <2>4. s = t
    BY <2>2, <2>3, SeqEqual
  <2> QED
    BY <2>1, <2>4
<1>8. l = m
  BY <1>6, <1>7 DEF Apart
<1> QED
  BY <1>4, <1>5, <1>8
-----------------------------------------------------------------------------
(* What is known of a phase while it runs.                                   *)

\* An empty skeleton was taken for the top, or a place was used twice.
Astray == blank \/ ~Apart(ever)

\* The collection, its history, and what went wrong and out so far.
Now ==
    [db |-> db, always |-> always, ever |-> ever, failed |-> failed,
     astray |-> Astray, announced |-> announced]

\* One moment after another one.
Later(q, w, v) ==
    /\ v.always \subseteq w.always /\ w.ever \subseteq v.ever
    /\ w.announced \subseteq v.announced
    /\ w.failed => v.failed
    /\ w.astray => v.astray

\* The states of a phase.
Run ==
    [todo : Seq(Selector), skeleton : SUBSET Nodes, op : {"load", "find", "tree", "over"}]

\* What a phase may have found.
Result == [top : SUBSET Nodes, below : SUBSET Nodes]

\* The branches of what a selector starts within are announced.
Told(q, i, p, k, w) ==
    \A n \in Branching \cap Before(q, i, p, k, w.always) :
        \/ q.bare /\ i = 1 /\ k = 1
        \/ [of |-> n, strings |-> Rest(q, i, p, k)] \in w.announced

\* S has all that a selector is to start within: nothing, for the top.
HasAll(q, i, p, k, S, w) ==
    /\ Before(q, i, p, k, w.always) \subseteq S \cup {Top}
    /\ Top \in Before(q, i, p, k, w.always) => S = {}

\* S has no more than that, and if it is empty the selector starts at the top.
HasOnly(q, i, p, k, S, w) ==
    /\ S \subseteq Before(q, i, p, k, w.ever)
    /\ S = {} => Top \in Before(q, i, p, k, w.ever)

\* What is found has all that the phase means, and no more.
Finds(q, i, p, res, w) ==
    LET n == Len(q.strings[i][p]) IN
    /\ ~w.failed =>
          /\ Before(q, i, p, n + 1, w.always) \subseteq res.top
          /\ \A k \in 1..n : Told(q, i, p, k, w)
    /\ ~w.astray => res.top \subseteq Before(q, i, p, n + 1, w.ever)

\* The trees of what is found have all that was there throughout.
Whole(res, w) ==
    \A r \in res.top : \A n \in w.always \cap StrictlyBelow(r) :
        /\ n \in res.below
        /\ \A m \in StrictlyBelow(r) : n \in StrictlyBelow(m) => m \in res.below

\* The container of a bare request is to be loaded.
Loading(q, i, p, run, res) ==
    /\ q.bare /\ i = 1
    /\ run = [todo |-> q.strings[i][p], skeleton |-> {q.from}, op |-> "load"]
    /\ res = Nothing

\* Selector k is about to run, within what the selectors before have found.
Finding(q, i, p, run, res, w) ==
    /\ run.op = "find" /\ res = Nothing
    /\ \E k \in 1..Len(q.strings[i][p]) :
          /\ run.todo = SubSeq(q.strings[i][p], k, Len(q.strings[i][p]))
          /\ ~w.failed => HasAll(q, i, p, k, run.skeleton, w)
          /\ ~w.astray => HasOnly(q, i, p, k, run.skeleton, w)
          /\ ~w.failed => \A j \in 1..k : Told(q, i, p, j, w)

\* The results are found, and what is below them is to be.
Descending(q, i, p, run, res, w) ==
    /\ run.op = "tree" /\ i = Len(q.strings)
    /\ res.below = {}
    /\ Finds(q, i, p, res, w)

\* The phase is over.
Ended(q, i, p, run, res, w) ==
    /\ run.op = "over"
    /\ Finds(q, i, p, res, w)
    /\ res.below \subseteq w.ever
    /\ i = Len(q.strings) /\ Last(q.strings[i][p]).tree /\ ~w.failed => Whole(res, w)

\* One of these is the case.
Fits(q, i, p, run, res, w) ==
    /\ run \in Run /\ res \in Result
    /\ \/ Loading(q, i, p, run, res)
       \/ Finding(q, i, p, run, res, w)
       \/ Descending(q, i, p, run, res, w)
       \/ Ended(q, i, p, run, res, w)

\* A branch is announced for what some selector starts within.
ToldRight(q, w) ==
    ~w.astray =>
        \A a \in w.announced :
            \E i \in DOMAIN q.strings : \E p \in DOMAIN q.strings[i] :
                \E k \in DOMAIN q.strings[i][p] :
                    /\ a.of \in Before(q, i, p, k, w.ever)
                    /\ a.strings = Rest(q, i, p, k)

\* The collection and its history.
Stands(q, w) ==
    /\ w.always \subseteq w.db /\ w.db \subseteq w.ever /\ w.ever \subseteq Nodes
    /\ UpClosed(w.db) /\ UpClosed(w.ever)
    /\ Apart(w.db) /\ (~w.astray => Apart(w.ever))
    /\ q.from \in Nodes => q.from \in w.ever

\* What was told is told.
LEMMA ToldStays ==
    ASSUME NEW q \in Queries, NEW i \in DOMAIN q.strings, NEW p \in DOMAIN q.strings[i],
           NEW k \in 1..(Len(q.strings[i][p]) + 1), NEW w, NEW v, Later(q, w, v),
           Told(q, i, p, k, w)
    PROVE  Told(q, i, p, k, v)
<1>1. v.always \subseteq w.always /\ w.announced \subseteq v.announced
  BY DEF Later
<1>2. Before(q, i, p, k, v.always) \subseteq Before(q, i, p, k, w.always)
  BY <1>1, BeforeGrows
<1> QED
  BY <1>1, <1>2 DEF Told

\* What a phase finds is still what it means.
LEMMA FindsStays ==
    ASSUME NEW q \in Queries, NEW i \in DOMAIN q.strings, NEW p \in DOMAIN q.strings[i],
           NEW res, NEW w, NEW v, Later(q, w, v), Finds(q, i, p, res, w)
    PROVE  Finds(q, i, p, res, v)
<1>1. PICK n \in Nat : n = Len(q.strings[i][p])
  BY RequestIs
<1>2. n + 1 \in 1..(n + 1) /\ \A k \in 1..n : k \in 1..(n + 1)
  OBVIOUS
<1>3. /\ Before(q, i, p, n + 1, v.always) \subseteq Before(q, i, p, n + 1, w.always)
      /\ Before(q, i, p, n + 1, w.ever) \subseteq Before(q, i, p, n + 1, v.ever)
  <2>1. v.always \subseteq w.always /\ w.ever \subseteq v.ever
    BY DEF Later
  <2> QED
    BY <1>1, <1>2, <2>1, BeforeGrows
<1>4. (w.failed => v.failed) /\ (w.astray => v.astray)
  BY DEF Later
<1>5. ASSUME ~w.failed, NEW k \in 1..n
      PROVE  Told(q, i, p, k, v)
  <2>1. Told(q, i, p, k, w)
    BY <1>1, <1>5 DEF Finds
  <2> QED
    BY <1>1, <1>2, <2>1, ToldStays
<1>6. ASSUME ~v.failed
      PROVE  /\ Before(q, i, p, n + 1, v.always) \subseteq res.top
             /\ \A k \in 1..n : Told(q, i, p, k, v)
  BY <1>1, <1>3, <1>4, <1>5, <1>6 DEF Finds
<1>7. ~v.astray => res.top \subseteq Before(q, i, p, n + 1, v.ever)
  BY <1>1, <1>3, <1>4 DEF Finds
<1> QED
  BY <1>1, <1>6, <1>7 DEF Finds

\* So is all that is known of it.
LEMMA FitsStays ==
    ASSUME NEW q \in Queries, NEW i \in DOMAIN q.strings, NEW p \in DOMAIN q.strings[i],
           NEW run, NEW res, NEW w, NEW v, Later(q, w, v), Fits(q, i, p, run, res, w)
    PROVE  Fits(q, i, p, run, res, v)
<1>1. (w.failed => v.failed) /\ (w.astray => v.astray)
      /\ v.always \subseteq w.always /\ w.ever \subseteq v.ever
  BY DEF Later
<1>2. CASE Loading(q, i, p, run, res)
  BY <1>2 DEF Fits
<1>3. CASE Finding(q, i, p, run, res, w)
  <2>1. PICK n \in Nat : n = Len(q.strings[i][p])
    BY RequestIs
  <2>2. PICK k \in 1..n :
           /\ run.todo = SubSeq(q.strings[i][p], k, Len(q.strings[i][p]))
           /\ ~w.failed => HasAll(q, i, p, k, run.skeleton, w)
           /\ ~w.astray => HasOnly(q, i, p, k, run.skeleton, w)
           /\ ~w.failed => \A j \in 1..k : Told(q, i, p, j, w)
    BY <1>3, <2>1 DEF Finding
  <2>3. /\ Before(q, i, p, k, v.always) \subseteq Before(q, i, p, k, w.always)
        /\ Before(q, i, p, k, w.ever) \subseteq Before(q, i, p, k, v.ever)
    <3>1. k \in 1..(Len(q.strings[i][p]) + 1)
      BY <2>1
    <3> QED
      BY <1>1, <3>1, BeforeGrows
  <2>4. ~v.failed => HasAll(q, i, p, k, run.skeleton, v)
    BY <1>1, <2>2, <2>3 DEF HasAll
  <2>5. ~v.astray => HasOnly(q, i, p, k, run.skeleton, v)
    BY <1>1, <2>2, <2>3 DEF HasOnly
  <2>6. ASSUME ~v.failed, NEW j \in 1..k
        PROVE  Told(q, i, p, j, v)
    <3>1. j \in 1..(Len(q.strings[i][p]) + 1)
      BY <2>1
    <3>2. Told(q, i, p, j, w)
      BY <1>1, <2>2, <2>6
    <3> QED
      BY <3>1, <3>2, ToldStays
  <2>7. ~v.failed => \A j \in 1..k : Told(q, i, p, j, v)
    BY <2>6
  <2>8. Finding(q, i, p, run, res, v)
    BY <1>3, <2>1, <2>2, <2>4, <2>5, <2>7 DEF Finding
  <2> QED
    BY <2>8 DEF Fits
<1>4. CASE Descending(q, i, p, run, res, w)
  <2>1. Descending(q, i, p, run, res, v)
    BY <1>4, FindsStays DEF Descending
  <2> QED
    BY <2>1 DEF Fits
<1>5. CASE Ended(q, i, p, run, res, w)
  <2>1. Finds(q, i, p, res, v)
    BY <1>5, FindsStays DEF Ended
  <2>2. Whole(res, w) => Whole(res, v)
    BY <1>1 DEF Whole
  <2>3. Ended(q, i, p, run, res, v)
    BY <1>1, <1>5, <2>1, <2>2 DEF Ended
  <2> QED
    BY <2>3 DEF Fits
<1> QED
  BY <1>2, <1>3, <1>4, <1>5 DEF Fits

\* What was announced for something still is.
LEMMA ToldOf ==
    ASSUME NEW q \in Queries, NEW w, NEW v, Later(q, w, v), ToldRight(q, w), ~v.astray,
           NEW a \in w.announced
    PROVE  \E i \in DOMAIN q.strings : \E p \in DOMAIN q.strings[i] :
              \E k \in DOMAIN q.strings[i][p] :
                 /\ a.of \in Before(q, i, p, k, v.ever)
                 /\ a.strings = Rest(q, i, p, k)
<1>1. w.ever \subseteq v.ever /\ (w.astray => v.astray)
  BY DEF Later
<1>3. PICK i \in DOMAIN q.strings : \E p \in DOMAIN q.strings[i] :
         \E k \in DOMAIN q.strings[i][p] :
            a.of \in Before(q, i, p, k, w.ever) /\ a.strings = Rest(q, i, p, k)
  BY <1>1 DEF ToldRight
<1>4. PICK p \in DOMAIN q.strings[i] : \E k \in DOMAIN q.strings[i][p] :
         a.of \in Before(q, i, p, k, w.ever) /\ a.strings = Rest(q, i, p, k)
  BY <1>3
<1>5. PICK k \in DOMAIN q.strings[i][p] :
         a.of \in Before(q, i, p, k, w.ever) /\ a.strings = Rest(q, i, p, k)
  BY <1>4
<1>6. k \in 1..(Len(q.strings[i][p]) + 1)
  BY RequestIs
<1>7. Before(q, i, p, k, w.ever) \subseteq Before(q, i, p, k, v.ever)
  BY <1>1, <1>6, BeforeGrows
<1> QED
  BY <1>5, <1>7
-----------------------------------------------------------------------------
(* What a find finds, and what begins within it.                             *)

\* The selectors of a phase, as they are found in a request.
LEMMA SelectorIs ==
    ASSUME NEW q \in Queries, NEW i \in DOMAIN q.strings, NEW p \in DOMAIN q.strings[i],
           NEW k \in DOMAIN q.strings[i][p]
    PROVE  q.strings[i][p][k] \in Selector
BY RequestIs

\* A selector of a phase is not behind its end.
LEMMA PointIs ==
    ASSUME NEW q \in Queries, NEW i \in DOMAIN q.strings, NEW p \in DOMAIN q.strings[i],
           NEW k \in DOMAIN q.strings[i][p]
    PROVE  k \in 1..(Len(q.strings[i][p]) + 1)
<1>1. PICK n \in Nat : n = Len(q.strings[i][p]) /\ DOMAIN q.strings[i][p] = 1..n
  BY RequestIs
<1> QED
  BY <1>1

\* What is meant is found.
LEMMA RelatedFound ==
    ASSUME NEW splitter, NEW m \in Nodes, NEW n \in Nodes, Related(splitter, m, n)
    PROVE  FoundFrom(splitter, m, n)
<1>1. CASE splitter = ">"
  BY <1>1 DEF Related, FoundFrom
<1>2. CASE splitter = "<"
  BY <1>2 DEF Related, FoundFrom
<1>3. CASE splitter = "<<"
  <2>1. m \in StrictlyBelow(n)
    BY <1>3 DEF Related
  <2>2. m \in Covered(n)
    BY <2>1, BelowCovered
  <2> QED
    BY <1>3, <2>2 DEF FoundFrom
<1>4. CASE splitter \notin {">", "<", "<<"}
  <2>1. n \in StrictlyBelow(m)
    BY <1>4 DEF Related
  <2>2. n \in Covered(m)
    BY <2>1, BelowCovered
  <2> QED
    BY <1>4, <2>2 DEF FoundFrom
<1> QED
  BY <1>1, <1>2, <1>3, <1>4

\* And nothing else is, while no place is used twice.
LEMMA FoundRelated ==
    ASSUME NEW splitter, NEW S \in SUBSET Nodes, UpClosed(S), Apart(S),
           NEW m \in S, NEW n \in S, FoundFrom(splitter, m, n)
    PROVE  Related(splitter, m, n)
<1>1. CASE splitter = ">"
  BY <1>1 DEF Related, FoundFrom
<1>2. CASE splitter = "<"
  BY <1>2 DEF Related, FoundFrom
<1>3. CASE splitter = "<<"
  <2>1. m \in Covered(n)
    BY <1>3 DEF FoundFrom
  <2>2. m \in StrictlyBelow(n)
    BY <2>1, CoveredBelow
  <2> QED
    BY <1>3, <2>2 DEF Related
<1>4. CASE splitter \notin {">", "<", "<<"}
  <2>1. n \in Covered(m)
    BY <1>4 DEF FoundFrom
  <2>2. n \in StrictlyBelow(m)
    BY <2>1, CoveredBelow
  <2> QED
    BY <1>4, <2>2 DEF Related
<1> QED
  BY <1>1, <1>2, <1>3, <1>4

\* All that is meant is asked for, and there.
LEMMA SelectsAll ==
    ASSUME NEW q \in Queries, NEW i \in DOMAIN q.strings, NEW p \in DOMAIN q.strings[i],
           NEW k \in DOMAIN q.strings[i][p], NEW w, Stands(q, w), NEW S \in SUBSET Nodes,
           HasAll(q, i, p, k, S, w)
    PROVE  Before(q, i, p, k + 1, w.always) \subseteq w.db \cap Selected(q.strings[i][p][k], S)
<1>1. PICK sel \in Selector : sel = q.strings[i][p][k]
  BY SelectorIs
<1>2. PICK X : X = Before(q, i, p, k, w.always)
  OBVIOUS
<1>3. Before(q, i, p, k + 1, w.always) = Chosen(sel, X, w.always)
  BY <1>1, <1>2, BeforeNext
<1>4. X \subseteq S \cup {Top} /\ (Top \in X => S = {})
  BY <1>2 DEF HasAll
<1>5. SUFFICES ASSUME NEW n \in w.always, NEW m \in X, Follows(sel, m, n)
               PROVE  n \in w.db /\ n \in Selected(sel, S)
  BY <1>1, <1>3 DEF Chosen
<1>6. n \in w.db /\ n \in Nodes
  BY DEF Stands
<1>7. CASE m = Top
  <2>1. S = {}
    BY <1>4, <1>7
  <2>2. CASE sel.splitter = ">"
    BY <1>5, <1>6, <1>7, <2>1, <2>2 DEF Follows, Selected
  <2>3. CASE sel.splitter # ">"
    BY <1>5, <1>6, <1>7, <2>1, <2>3 DEF Follows, Selected
  <2> QED
    BY <1>6, <2>2, <2>3
<1>8. CASE m # Top
  <2>1. m \in S /\ S # {}
    BY <1>4, <1>8
  <2>2. n \in sel.want /\ (sel.byid \/ FoundFrom(sel.splitter, m, n))
    <3>1. n \in sel.want /\ (sel.byid \/ Related(sel.splitter, m, n))
      BY <1>5, <1>8 DEF Follows
    <3>2. m \in Nodes
      BY <2>1
    <3>3. Related(sel.splitter, m, n) => FoundFrom(sel.splitter, m, n)
      BY <1>6, <3>2, RelatedFound
    <3> QED
      BY <3>1, <3>3
  <2>3. CASE sel.byid
    BY <1>6, <2>1, <2>2, <2>3 DEF Selected
  <2>4. CASE ~sel.byid
    <3>1. Selected(sel, S) = {x \in sel.want : \E y \in S : FoundFrom(sel.splitter, y, x)}
      BY <2>1, <2>4 DEF Selected
    <3> QED
      BY <1>6, <2>1, <2>2, <2>4, <3>1
  <2> QED
    BY <1>6, <2>3, <2>4
<1> QED
  BY <1>7, <1>8

\* Nothing else is asked for.
LEMMA SelectsOnly ==
    ASSUME NEW q \in Queries, NEW i \in DOMAIN q.strings, NEW p \in DOMAIN q.strings[i],
           NEW k \in DOMAIN q.strings[i][p], NEW w, Stands(q, w), NEW S \in SUBSET Nodes,
           HasOnly(q, i, p, k, S, w), ~w.astray
    PROVE  w.db \cap Selected(q.strings[i][p][k], S) \subseteq Before(q, i, p, k + 1, w.ever)
<1>1. PICK sel \in Selector : sel = q.strings[i][p][k]
  BY SelectorIs
<1>2. PICK X : X = Before(q, i, p, k, w.ever)
  OBVIOUS
<1>3. Before(q, i, p, k + 1, w.ever) = Chosen(sel, X, w.ever)
  BY <1>1, <1>2, BeforeNext
<1>4. S \subseteq X /\ (S = {} => Top \in X)
  BY <1>2 DEF HasOnly
<1>5. SUFFICES ASSUME NEW n \in w.db, n \in Selected(sel, S)
               PROVE  n \in w.ever /\ \E m \in X : Follows(sel, m, n)
  BY <1>1, <1>3 DEF Chosen
<1>6. n \in w.ever
  BY DEF Stands
<1>7. CASE S = {}
  <2>1. Top \in X
    BY <1>4, <1>7
  <2>2. Follows(sel, Top, n)
    <3>1. CASE sel.splitter = ">"
      BY <1>5, <1>7, <3>1 DEF Follows, Selected
    <3>2. CASE sel.splitter # ">"
      BY <1>5, <1>7, <3>2 DEF Follows, Selected
    <3> QED
      BY <3>1, <3>2
  <2> QED
    BY <1>6, <2>1, <2>2
<1>8. CASE S # {}
  <2>1. PICK m \in S : n \in sel.want /\ (sel.byid \/ FoundFrom(sel.splitter, m, n))
    <3>1. CASE sel.byid
      BY <1>5, <1>8, <3>1 DEF Selected
    <3>2. CASE ~sel.byid
      <4>1. Selected(sel, S) = {x \in sel.want : \E y \in S : FoundFrom(sel.splitter, y, x)}
        BY <1>8, <3>2 DEF Selected
      <4> QED
        BY <1>5, <4>1
    <3> QED
      BY <3>1, <3>2
  <2>2. m # Top /\ m \in X
    BY <1>4, <2>1, SelectAssumption
  <2>3. m \in w.ever
    <3>1. X \subseteq w.ever \cup {Top}
      BY <1>2, BeforeThere DEF Stands
    <3> QED
      BY <2>2, <3>1
  <2>4. FoundFrom(sel.splitter, m, n) => Related(sel.splitter, m, n)
    <3>1. w.ever \in SUBSET Nodes /\ UpClosed(w.ever) /\ Apart(w.ever)
      BY DEF Stands
    <3> QED
      BY <1>6, <2>3, <3>1, FoundRelated
  <2>5. Follows(sel, m, n)
    BY <2>1, <2>2, <2>4 DEF Follows
  <2> QED
    BY <1>6, <2>2, <2>5
<1> QED
  BY <1>7, <1>8

\* The strings after a string.
After(q, i) == SubSeq(q.strings, i + 1, Len(q.strings))

\* The branches that are announced when selector k begins within S.
LEMMA AnnouncesAll ==
    ASSUME NEW q \in Queries, NEW i \in DOMAIN q.strings, NEW p \in DOMAIN q.strings[i],
           NEW k \in DOMAIN q.strings[i][p], NEW w, NEW run, run.op = "find",
           run.todo = SubSeq(q.strings[i][p], k, Len(q.strings[i][p])),
           HasAll(q, i, p, k, run.skeleton, w),
           Announcements(run, After(q, i)) \subseteq w.announced
    PROVE  Told(q, i, p, k, w)
<1>1. SUFFICES ASSUME NEW n \in Branching, n \in Before(q, i, p, k, w.always)
               PROVE  [of |-> n, strings |-> Rest(q, i, p, k)] \in w.announced
  BY DEF Told
<1>2. n \in run.skeleton \cap Branching
  <2>1. n # Top
    BY SelectAssumption
  <2> QED
    BY <1>1, <2>1 DEF HasAll
<1>3. Left(run, After(q, i)) = Rest(q, i, p, k)
  BY DEF Left, Rest, After
<1> QED
  BY <1>2, <1>3 DEF Announcements

\* A branch is announced for what a selector starts within.
Carries(q, i, p, k, a, w) ==
    a.of \in Before(q, i, p, k, w.ever) /\ a.strings = Rest(q, i, p, k)

\* They are right.
LEMMA AnnouncesOnly ==
    ASSUME NEW q \in Queries, NEW i \in DOMAIN q.strings, NEW p \in DOMAIN q.strings[i],
           NEW k \in DOMAIN q.strings[i][p], NEW w, NEW run,
           run.todo = SubSeq(q.strings[i][p], k, Len(q.strings[i][p])),
           HasOnly(q, i, p, k, run.skeleton, w),
           NEW a, a \in Announcements(run, After(q, i))
    PROVE  Carries(q, i, p, k, a, w)
<1>1. PICK n \in run.skeleton \cap Branching :
         a = [of |-> n, strings |-> Left(run, After(q, i))]
  BY DEF Announcements
<1>2. Left(run, After(q, i)) = Rest(q, i, p, k)
  BY DEF Left, Rest, After
<1> QED
  BY <1>1, <1>2 DEF HasOnly, Carries
-----------------------------------------------------------------------------
(* What is known of a request.                                               *)

\* The branches of all strings before are announced.
ToldBefore(q, i, w) ==
    ~w.failed =>
        \A j \in 1..(i - 1) : \A p \in DOMAIN q.strings[j] :
            \A k \in DOMAIN q.strings[j][p] : Told(q, j, p, k, w)

\* S is what the phases of a string are to start within.
StartsWell(q, i, S, w) ==
    \A p \in DOMAIN q.strings[i] :
        /\ ~w.failed => HasAll(q, i, p, 1, S, w)
        /\ ~w.astray => HasOnly(q, i, p, 1, S, w)

\* String i runs, in the phases rs, which have found fs; ss are to come.
Running(q, i, ss, rs, fs, w) ==
    /\ i \in DOMAIN q.strings
    /\ ss = After(q, i)
    /\ DOMAIN rs = DOMAIN q.strings[i] /\ DOMAIN fs = DOMAIN q.strings[i]
    /\ \A p \in DOMAIN q.strings[i] : Fits(q, i, p, rs[p], fs[p], w)
    /\ ToldBefore(q, i, w)

\* The reply is what the phases of the last string have found.
Replied(q, i, rs, fs, r) ==
    r # NotYet => /\ r = fs /\ i = Len(q.strings)
                  /\ \A p \in DOMAIN rs : rs[p].op = "over"

\* The inductive invariant.
SelectInv ==
    /\ query \in Queries
    /\ Stands(query, Now)
    /\ ToldRight(query, Now)
    /\ \/ runs = <<>> /\ reply = NotYet /\ announced = {}
       \/ \E i \in DOMAIN query.strings :
             /\ Running(query, i, strings, runs, found, Now)
             /\ Replied(query, i, runs, found, reply)

\* The strings to come.
LEMMA ToCome ==
    ASSUME NEW q \in Queries, NEW i \in DOMAIN q.strings
    PROVE  LET ss == After(q, i) IN
           /\ ss = <<>> <=> i = Len(q.strings)
           /\ ss # <<>> => /\ i + 1 \in DOMAIN q.strings
                           /\ Head(ss) = q.strings[i + 1]
                           /\ Tail(ss) = After(q, i + 1)
<1>1. PICK s \in Seq(Seq(Seq(Selector))) : s = q.strings
  BY RequestIs
<1>2. PICK n \in Nat : n = Len(s) /\ DOMAIN q.strings = 1..n /\ i \in 1..n
  BY <1>1, RequestIs
<1>3. CASE i = n
  <2>1. SubSeq(s, i + 1, n) \in Seq(Seq(Seq(Selector))) /\ Len(SubSeq(s, i + 1, n)) = 0
    BY <1>2, <1>3
  <2>2. SubSeq(s, i + 1, n) = <<>>
    BY <2>1, EmptySeq
  <2> QED
    BY <1>1, <1>2, <1>3, <2>2 DEF After
<1>4. CASE i # n
  <2>1. PICK k \in 1..Len(s) : k = i + 1
    BY <1>2, <1>4
  <2>2. /\ SubSeq(s, k, Len(s)) # <<>> /\ Head(SubSeq(s, k, Len(s))) = s[k]
        /\ Tail(SubSeq(s, k, Len(s))) = SubSeq(s, k + 1, Len(s))
    BY RestIs
  <2> QED
    BY <1>1, <1>2, <1>4, <2>1, <2>2 DEF After
<1> QED
  BY <1>3, <1>4

\* All of a sequence is what is left of it from its first place on.
LEMMA AllOf ==
    ASSUME NEW S, NEW s \in Seq(S)
    PROVE  SubSeq(s, 1, Len(s)) = s
<1>1. PICK n \in Nat : n = Len(s)
  OBVIOUS
<1>2. /\ SubSeq(s, 1, n) \in Seq(S) /\ Len(SubSeq(s, 1, n)) = n
      /\ \A i \in 1..n : SubSeq(s, 1, n)[i] = s[i]
  BY <1>1
<1> QED
  BY <1>1, <1>2, SeqEqual

\* A request goes on as it did.
LEMMA RunningStays ==
    ASSUME NEW q \in Queries, NEW i, NEW ss, NEW rs, NEW fs, NEW w, NEW v,
           Later(q, w, v), Running(q, i, ss, rs, fs, w)
    PROVE  Running(q, i, ss, rs, fs, v)
<1>1. i \in DOMAIN q.strings
  BY DEF Running
<1>2. ASSUME NEW p \in DOMAIN q.strings[i]
      PROVE  Fits(q, i, p, rs[p], fs[p], v)
  <2>1. Fits(q, i, p, rs[p], fs[p], w)
    BY DEF Running
  <2> QED
    BY <1>1, <2>1, FitsStays
<1>3. ASSUME ~v.failed, NEW j \in 1..(i - 1), NEW p \in DOMAIN q.strings[j],
             NEW k \in DOMAIN q.strings[j][p]
      PROVE  Told(q, j, p, k, v)
  <2>1. ~w.failed
    BY <1>3 DEF Later
  <2>2. Told(q, j, p, k, w)
    BY <2>1 DEF Running, ToldBefore
  <2>3. j \in DOMAIN q.strings
    BY <1>1, RequestIs
  <2>4. k \in 1..(Len(q.strings[j][p]) + 1)
    BY <2>3, PointIs
  <2> QED
    BY <2>2, <2>3, <2>4, ToldStays
<1>4. ToldBefore(q, i, v)
  BY <1>3 DEF ToldBefore
<1> QED
  BY <1>2, <1>4 DEF Running

\* The phases of a string begin.
Begun(q, i, S, bare, rs, fs) ==
    /\ rs = [p \in DOMAIN q.strings[i] |->
                [todo |-> q.strings[i][p], skeleton |-> S,
                 op |-> IF bare THEN "load" ELSE "find"]]
    /\ fs = [p \in DOMAIN q.strings[i] |-> Nothing]
    /\ bare => i = 1 /\ q.bare /\ S = {q.from}

\* A phase begins well.
LEMMA BegunWell ==
    ASSUME NEW q \in Queries, NEW i \in DOMAIN q.strings, NEW S \in SUBSET Nodes,
           NEW bare \in BOOLEAN, NEW rs, NEW fs, Begun(q, i, S, bare, rs, fs),
           NEW p \in DOMAIN q.strings[i], NEW v,
           ~v.failed => HasAll(q, i, p, 1, S, v),
           ~v.astray => HasOnly(q, i, p, 1, S, v),
           Announcements(rs[p], After(q, i)) \subseteq v.announced
    PROVE  Fits(q, i, p, rs[p], fs[p], v)
<1>1. PICK phase \in Seq(Selector) : phase = q.strings[i][p]
  BY RequestIs
<1>2. /\ rs[p] = [todo |-> phase, skeleton |-> S, op |-> IF bare THEN "load" ELSE "find"]
      /\ fs[p] = Nothing
  BY <1>1 DEF Begun
<1>3. rs[p] \in Run /\ fs[p] \in Result
  BY <1>1, <1>2 DEF Run, Result, Nothing
<1>4. CASE bare
  <2>1. Loading(q, i, p, rs[p], fs[p])
    BY <1>1, <1>2, <1>4 DEF Loading, Begun
  <2> QED
    BY <1>3, <2>1 DEF Fits
<1>5. CASE ~bare
  <2>1. rs[p].op = "find" /\ rs[p].skeleton = S /\ rs[p].todo = phase
    BY <1>2, <1>5
  <2>2. 1 \in 1..Len(phase) /\ Len(phase) \in Nat /\ 1 \in DOMAIN q.strings[i][p]
    BY <1>1, RequestIs
  <2>3. phase = SubSeq(phase, 1, Len(phase))
    BY AllOf
  <2>4. ASSUME ~v.failed
        PROVE  Told(q, i, p, 1, v)
    <3>1. HasAll(q, i, p, 1, rs[p].skeleton, v)
      BY <2>1, <2>4
    <3>2. rs[p].todo = SubSeq(q.strings[i][p], 1, Len(q.strings[i][p]))
      BY <1>1, <2>1, <2>3
    <3> QED
      BY <2>1, <2>2, <3>1, <3>2, AnnouncesAll
  <2>5. ~v.failed => \A j \in 1..1 : Told(q, i, p, j, v)
    BY <2>4
  <2>6. Finding(q, i, p, rs[p], fs[p], v)
    BY <1>1, <1>2, <2>1, <2>2, <2>3, <2>5 DEF Finding
  <2> QED
    BY <1>3, <2>6 DEF Fits
<1> QED
  BY <1>4, <1>5

\* The branches announced as a string begins.
Announced(q, i, rs) == UNION {Announcements(rs[p], After(q, i)) : p \in DOMAIN q.strings[i]}

\* They are right.
LEMMA AnnouncedOnly ==
    ASSUME NEW q \in Queries, NEW i \in DOMAIN q.strings, NEW S, NEW bare,
           NEW rs, NEW fs, Begun(q, i, S, bare, rs, fs), NEW v, StartsWell(q, i, S, v),
           ~v.astray, NEW a \in Announced(q, i, rs)
    PROVE  \E j \in DOMAIN q.strings : \E p \in DOMAIN q.strings[j] :
              \E k \in DOMAIN q.strings[j][p] :
                 /\ a.of \in Before(q, j, p, k, v.ever)
                 /\ a.strings = Rest(q, j, p, k)
<1>1. PICK p \in DOMAIN q.strings[i] : a \in Announcements(rs[p], After(q, i))
  BY DEF Announced
<1>2. PICK run : run = rs[p]
  OBVIOUS
<1>3. run.todo = q.strings[i][p] /\ run.skeleton = S
  BY <1>2 DEF Begun
<1>4. PICK k \in DOMAIN q.strings[i][p] : k = 1
  BY RequestIs
<1>5. run.todo = SubSeq(q.strings[i][p], k, Len(q.strings[i][p]))
  <2>1. q.strings[i][p] \in Seq(Selector)
    BY RequestIs
  <2> QED
    BY <1>3, <1>4, <2>1, AllOf
<1>6. HasOnly(q, i, p, k, run.skeleton, v)
  BY <1>3, <1>4 DEF StartsWell
<1>7. a \in Announcements(run, After(q, i))
  BY <1>1, <1>2
<1>8. Carries(q, i, p, k, a, v)
  BY <1>5, <1>6, <1>7, AnnouncesOnly
<1> QED
  BY <1>8 DEF Carries

\* A string begins well, if all strings before were told of.
LEMMA Begins ==
    ASSUME NEW q \in Queries, NEW i \in DOMAIN q.strings, NEW S \in SUBSET Nodes,
           NEW bare \in BOOLEAN, NEW rs, NEW fs, Begun(q, i, S, bare, rs, fs),
           NEW w, NEW v, Later(q, w, v),
           v.announced = w.announced \cup Announced(q, i, rs),
           StartsWell(q, i, S, v), ToldBefore(q, i, w), ToldRight(q, w)
    PROVE  /\ Running(q, i, After(q, i), rs, fs, v)
           /\ ToldRight(q, v)
<1>1. ASSUME NEW p \in DOMAIN q.strings[i]
      PROVE  Fits(q, i, p, rs[p], fs[p], v)
  <2>1. Announcements(rs[p], After(q, i)) \subseteq v.announced
    BY DEF Announced
  <2>2. (~v.failed => HasAll(q, i, p, 1, S, v)) /\ (~v.astray => HasOnly(q, i, p, 1, S, v))
    BY DEF StartsWell
  <2> QED
    BY <2>1, <2>2, BegunWell
<1>2. ASSUME ~v.failed, NEW j \in 1..(i - 1), NEW p \in DOMAIN q.strings[j],
             NEW k \in DOMAIN q.strings[j][p]
      PROVE  Told(q, j, p, k, v)
  <2>1. ~w.failed
    BY <1>2 DEF Later
  <2>2. Told(q, j, p, k, w)
    BY <2>1 DEF ToldBefore
  <2>3. j \in DOMAIN q.strings
    BY RequestIs
  <2>4. k \in 1..(Len(q.strings[j][p]) + 1)
    BY <2>3, PointIs
  <2> QED
    BY <2>2, <2>3, <2>4, ToldStays
<1>3. DOMAIN rs = DOMAIN q.strings[i] /\ DOMAIN fs = DOMAIN q.strings[i]
  BY DEF Begun
<1>4. Running(q, i, After(q, i), rs, fs, v)
  <2>1. ToldBefore(q, i, v)
    BY <1>2 DEF ToldBefore
  <2> QED
    BY <1>1, <1>3, <2>1 DEF Running
<1>5. ASSUME ~v.astray, NEW a \in v.announced
      PROVE  \E j \in DOMAIN q.strings : \E p \in DOMAIN q.strings[j] :
                \E k \in DOMAIN q.strings[j][p] :
                   /\ a.of \in Before(q, j, p, k, v.ever)
                   /\ a.strings = Rest(q, j, p, k)
  <2>1. CASE a \in w.announced
    BY <1>5, <2>1, ToldOf
  <2>2. CASE a \notin w.announced
    <3>1. a \in Announced(q, i, rs)
      BY <2>2
    <3> QED
      BY <1>5, <3>1, AnnouncedOnly
  <2> QED
    BY <2>1, <2>2
<1>6. ToldRight(q, v)
  BY <1>5 DEF ToldRight
<1> QED
  BY <1>4, <1>6
\* The next string starts within what all phases of this one have found.
LEMMA NextWell ==
    ASSUME NEW q \in Queries, NEW i \in DOMAIN q.strings, NEW e \in DOMAIN q.strings, e = i + 1,
           NEW ss, NEW rs, NEW fs, NEW u, Running(q, i, ss, rs, fs, u),
           \A p \in DOMAIN rs : rs[p].op = "over",
           NEW v, v.always = u.always, v.ever = u.ever, v.failed = u.failed,
           v.astray = (u.astray \/ Merged(fs) = {})
    PROVE  /\ Merged(fs) \in SUBSET Nodes
           /\ StartsWell(q, e, Merged(fs), v)
           /\ ToldBefore(q, e, u)
<1> DEFINE End(p) == Len(q.strings[i][p]) + 1
<1>1. DOMAIN rs = DOMAIN q.strings[i] /\ DOMAIN fs = DOMAIN q.strings[i]
  BY DEF Running
<1>2. ASSUME NEW p \in DOMAIN q.strings[i]
      PROVE  /\ fs[p].top \subseteq Nodes
             /\ Finds(q, i, p, fs[p], u)
  <2>1. Fits(q, i, p, rs[p], fs[p], u) /\ rs[p].op = "over"
    BY <1>1 DEF Running
  <2>2. Finds(q, i, p, fs[p], u)
    BY <2>1 DEF Fits, Loading, Finding, Descending, Ended
  <2> QED
    BY <2>1, <2>2 DEF Fits, Result
<1>3. ASSUME NEW p \in DOMAIN q.strings[i]
      PROVE  /\ ~u.failed => Before(q, i, p, End(p), u.always) \subseteq fs[p].top
             /\ ~u.astray => fs[p].top \subseteq Before(q, i, p, End(p), u.ever)
             /\ ~u.failed => \A k \in DOMAIN q.strings[i][p] : Told(q, i, p, k, u)
  <2>1. DOMAIN q.strings[i][p] = 1..Len(q.strings[i][p])
    BY RequestIs
  <2> QED
    BY <1>2, <2>1 DEF Finds
<1>4. Merged(fs) = UNION {fs[p].top : p \in DOMAIN q.strings[i]}
  BY <1>1 DEF Merged
<1>5. Merged(fs) \in SUBSET Nodes
  BY <1>2, <1>4
<1>6. ASSUME NEW p \in DOMAIN q.strings[e], NEW U
      PROVE  Before(q, e, p, 1, U) = UNION {Before(q, i, r, End(r), U) : r \in DOMAIN q.strings[i]}
  BY BeforeString DEF Selects
<1>7. ASSUME ~v.failed, NEW p \in DOMAIN q.strings[e]
      PROVE  HasAll(q, e, p, 1, Merged(fs), v)
  <2>1. \A r \in DOMAIN q.strings[i] : Before(q, i, r, End(r), u.always) \subseteq fs[r].top
    BY <1>3, <1>7
  <2>2. ASSUME NEW n \in Before(q, e, p, 1, u.always)
        PROVE  n \in Merged(fs)
    <3>1. Before(q, e, p, 1, u.always) =
             UNION {Before(q, i, r, End(r), u.always) : r \in DOMAIN q.strings[i]}
      BY <1>6
    <3>2. PICK r \in DOMAIN q.strings[i] : n \in Before(q, i, r, End(r), u.always)
      BY <2>2, <3>1
    <3>3. n \in fs[r].top
      BY <2>1, <3>2
    <3> QED
      BY <1>4, <3>3
  <2>3. Before(q, e, p, 1, v.always) \subseteq Merged(fs) /\ Top \notin Merged(fs)
    BY <1>5, <2>2, SelectAssumption
  <2> QED
    BY <2>3 DEF HasAll
<1>8. ASSUME ~v.astray, NEW p \in DOMAIN q.strings[e]
      PROVE  HasOnly(q, e, p, 1, Merged(fs), v)
  <2>1. ~u.astray /\ Merged(fs) # {}
    BY <1>8
  <2>2. \A r \in DOMAIN q.strings[i] : fs[r].top \subseteq Before(q, i, r, End(r), u.ever)
    BY <1>3, <2>1
  <2>3. ASSUME NEW n \in Merged(fs)
        PROVE  n \in Before(q, e, p, 1, u.ever)
    <3>1. PICK r \in DOMAIN q.strings[i] : n \in fs[r].top
      BY <1>4
    <3>2. n \in Before(q, i, r, End(r), u.ever)
      BY <2>2, <3>1
    <3>3. Before(q, e, p, 1, u.ever) =
             UNION {Before(q, i, x, End(x), u.ever) : x \in DOMAIN q.strings[i]}
      BY <1>6
    <3> QED
      BY <3>2, <3>3
  <2> QED
    BY <2>1, <2>3 DEF HasOnly
<1>9. ASSUME ~u.failed, NEW j \in 1..(e - 1), NEW p \in DOMAIN q.strings[j],
             NEW k \in DOMAIN q.strings[j][p]
      PROVE  Told(q, j, p, k, u)
  <2>1. j \in 1..(i - 1) \/ j = i
    BY RequestIs
  <2>2. CASE j = i
    BY <1>3, <1>9, <2>2
  <2>3. CASE j \in 1..(i - 1)
    BY <1>9, <2>3 DEF Running, ToldBefore
  <2> QED
    BY <2>1, <2>2, <2>3
<1> QED
  BY <1>5, <1>7, <1>8, <1>9 DEF StartsWell, ToldBefore

\* One of the phases goes on, and the others as they did.
LEMMA RunningWith ==
    ASSUME NEW q \in Queries, NEW i, NEW ss, NEW rs, NEW fs, NEW w, NEW u,
           Later(q, w, u), Running(q, i, ss, rs, fs, w), NEW p \in DOMAIN q.strings[i],
           NEW rt, DOMAIN rt = DOMAIN rs, \A r \in DOMAIN rs \ {p} : rt[r] = rs[r],
           NEW ft, DOMAIN ft = DOMAIN fs, \A r \in DOMAIN fs \ {p} : ft[r] = fs[r],
           Fits(q, i, p, rt[p], ft[p], u)
    PROVE  Running(q, i, ss, rt, ft, u)
<1>1. Running(q, i, ss, rs, fs, u)
  BY RunningStays
<1>2. DOMAIN rs = DOMAIN q.strings[i] /\ DOMAIN fs = DOMAIN q.strings[i]
  BY DEF Running
<1>3. ASSUME NEW r \in DOMAIN q.strings[i]
      PROVE  Fits(q, i, r, rt[r], ft[r], u)
  <2>1. CASE r = p
    BY <2>1
  <2>2. CASE r # p
    <3>1. rt[r] = rs[r] /\ ft[r] = fs[r]
      BY <1>2, <2>2
    <3> QED
      BY <1>1, <3>1 DEF Running
  <2> QED
    BY <2>1, <2>2
<1> QED
  BY <1>1, <1>2, <1>3 DEF Running

\* What makes it go astray, when no other request does.
LEMMA AstrayIs ==
    ASSUME ever' = ever
    PROVE  /\ blank' = blank => Astray' = Astray
           /\ \A S : blank' = (blank \/ S = {}) => Astray' = (Astray \/ S = {})
           /\ ~Astray' => Apart(ever)
<1>1. Apart(ever') <=> Apart(ever)
  OBVIOUS
<1>2. Astray = (blank \/ ~Apart(ever))
  BY DEF Astray
<1>3. Astray' = (blank' \/ ~Apart(ever'))
  BY DEF Astray
<1>4. Astray' = (blank' \/ ~Apart(ever))
  BY <1>1, <1>3
<1>5. ASSUME NEW S, blank' = (blank \/ S = {})
      PROVE  Astray' = (Astray \/ S = {})
  BY <1>2, <1>4, <1>5
<1>6. ASSUME blank' = blank
      PROVE  Astray' = Astray
  BY <1>2, <1>4, <1>6
<1> QED
  BY <1>4, <1>5, <1>6

\* A phase goes on as run, having found res: u is how things stand then.
LEMMA Continued ==
    ASSUME SelectInv, query' = query, collection' = collection,
           NEW i \in DOMAIN query.strings,
           Running(query, i, strings, runs, found, Now),
           Replied(query, i, runs, found, reply),
           NEW p \in DOMAIN query.strings[i], runs[p].op # "over",
           NEW run, NEW res, NEW u,
           u.db = db, u.always = always, u.ever = ever, u.astray = Astray, u.failed = failed',
           u.announced = announced \cup Announcements(run, strings),
           failed => failed',
           ToldRight(query, u), Fits(query, i, p, run, res, u),
           Continues(p, run, res)
    PROVE  SelectInv'
<1>0. PICK q \in Queries : q = query
  BY DEF SelectInv
<1>1. PICK w, v : q = query /\ w = Now /\ v = Now'
  BY <1>0
<1>2. /\ w.db = db /\ w.always = always /\ w.ever = ever /\ w.astray = Astray
      /\ w.failed = failed /\ w.announced = announced
      /\ v.db = db /\ v.always = always /\ v.ever = ever /\ v.astray = Astray'
      /\ v.failed = failed' /\ v.announced = announced'
  BY <1>1 DEF Now, collection
<1>3. Later(q, w, u)
  BY <1>2 DEF Later
<1>4. PICK rs, fs : rs = [runs EXCEPT ![p] = run] /\ fs = [found EXCEPT ![p] = res]
  OBVIOUS
<1>5. DOMAIN runs = DOMAIN q.strings[i] /\ DOMAIN found = DOMAIN q.strings[i]
      /\ strings = After(q, i)
  BY <1>1 DEF Running
<1>6. Running(q, i, strings, rs, fs, u)
  <2>1. Running(q, i, strings, runs, found, w) /\ Fits(q, i, p, run, res, u)
    BY <1>1
  <2>2. p \in DOMAIN q.strings[i]
    BY <1>1
  <2>3. /\ DOMAIN rs = DOMAIN runs /\ \A r \in DOMAIN runs \ {p} : rs[r] = runs[r]
        /\ DOMAIN fs = DOMAIN found /\ \A r \in DOMAIN found \ {p} : fs[r] = found[r]
        /\ rs[p] = run /\ fs[p] = res
    BY <1>4, <1>5, <2>2
  <2>4. Fits(q, i, p, rs[p], fs[p], u)
    BY <2>1, <2>3
  <2> QED
    BY <1>3, <2>1, <2>2, <2>3, <2>4, RunningWith
<1>7. reply = NotYet
  BY <1>1, <1>5 DEF Replied
<1>8. Stands(q, v)
  <2>1. Stands(q, w)
    BY <1>1 DEF SelectInv
  <2>2. ~v.astray => Apart(v.ever)
    BY <1>2, AstrayIs DEF collection
  <2> QED
    BY <1>2, <2>1, <2>2 DEF Stands
<1> DEFINE over == \A r \in DOMAIN rs : rs[r].op = "over"
<1>9. \/ /\ ~over /\ runs' = rs /\ found' = fs
         /\ announced' = announced \cup Announcements(run, strings)
         /\ UNCHANGED <<strings, reply, blank>>
      \/ /\ over /\ strings # <<>>
         /\ BeginStage(Head(strings), Merged(fs), FALSE, Tail(strings))
         /\ blank' = (blank \/ Merged(fs) = {})
         /\ UNCHANGED reply
      \/ /\ over /\ strings = <<>>
         /\ runs' = rs /\ found' = fs /\ reply' = fs
         /\ UNCHANGED <<strings, announced, blank>>
  BY <1>4 DEF Continues
<1>10. over => Announcements(run, strings) = {}
  <2>1. over => run.op = "over"
    BY <1>1, <1>4, <1>5
  <2> QED
    BY <2>1 DEF Announcements
<1>11. ASSUME Later(q, u, v), v.announced = u.announced, runs' = rs, found' = fs, strings' = strings,
              Replied(q, i, rs, fs, reply')
       PROVE  SelectInv'
  <2>1. Running(q, i, strings, rs, fs, v)
    BY <1>6, <1>11, RunningStays
  <2>2. ToldRight(q, v)
    <3>1. \A a \in u.announced : ~v.astray =>
             \E j \in DOMAIN q.strings : \E r \in DOMAIN q.strings[j] :
                \E k \in DOMAIN q.strings[j][r] :
                   /\ a.of \in Before(q, j, r, k, v.ever)
                   /\ a.strings = Rest(q, j, r, k)
      BY <1>1, <1>11, ToldOf
    <3> QED
      BY <1>11, <3>1 DEF ToldRight
  <2>3. Running(query', i, strings', runs', found', Now') /\ Replied(query', i, runs', found', reply')
    BY <1>1, <1>11, <2>1
  <2>4. query' \in Queries /\ Stands(query', Now') /\ ToldRight(query', Now') /\ i \in DOMAIN query'.strings
    BY <1>1, <1>8, <2>2
  <2> QED
    BY <2>3, <2>4 DEF SelectInv
<1>12. CASE /\ ~over /\ runs' = rs /\ found' = fs
            /\ announced' = announced \cup Announcements(run, strings)
            /\ UNCHANGED <<strings, reply, blank>>
  <2>1. Later(q, u, v) /\ v.announced = u.announced
    BY <1>2, <1>12, AstrayIs DEF Later, collection
  <2>2. Replied(q, i, rs, fs, reply')
    BY <1>7, <1>12 DEF Replied
  <2> QED
    BY <1>11, <1>12, <2>1, <2>2
<1>13. CASE /\ over /\ strings = <<>>
            /\ runs' = rs /\ found' = fs /\ reply' = fs
            /\ UNCHANGED <<strings, announced, blank>>
  <2>1. Later(q, u, v) /\ v.announced = u.announced
    BY <1>2, <1>10, <1>13, AstrayIs DEF Later, collection
  <2>2. i = Len(q.strings)
    BY <1>1, <1>5, <1>13, ToCome
  <2>3. Replied(q, i, rs, fs, reply')
    BY <1>13, <2>2 DEF Replied
  <2> QED
    BY <1>11, <1>13, <2>1, <2>3
<1>14. CASE /\ over /\ strings # <<>>
            /\ BeginStage(Head(strings), Merged(fs), FALSE, Tail(strings))
            /\ blank' = (blank \/ Merged(fs) = {})
            /\ UNCHANGED reply
  <2>1. PICK e \in DOMAIN q.strings : e = i + 1
    BY <1>1, <1>5, <1>14, ToCome
  <2>2. /\ Head(strings) = q.strings[e]
        /\ Tail(strings) = After(q, e)
    BY <1>1, <1>5, <1>14, <2>1, ToCome
  <2>3. /\ runs' = [r \in DOMAIN q.strings[e] |->
                      [todo |-> q.strings[e][r], skeleton |-> Merged(fs),
                       op |-> IF FALSE THEN "load" ELSE "find"]]
        /\ found' = [r \in DOMAIN q.strings[e] |-> Nothing]
        /\ strings' = After(q, e)
        /\ announced' = announced \cup
              UNION {Announcements(runs'[r], After(q, e)) :
                        r \in DOMAIN q.strings[e]}
    BY <1>14, <2>2 DEF BeginStage
  <2>4. PICK rt, ft : rt = runs' /\ ft = found'
    OBVIOUS
  <2>5. Begun(q, e, Merged(fs), FALSE, rt, ft)
    BY <2>3, <2>4 DEF Begun
  <2>6. /\ Merged(fs) \in SUBSET Nodes
        /\ v.astray = (u.astray \/ Merged(fs) = {})
        /\ StartsWell(q, e, Merged(fs), v) /\ ToldBefore(q, e, u)
    <3>1. v.always = u.always /\ v.ever = u.ever /\ v.failed = u.failed
          /\ v.astray = (u.astray \/ Merged(fs) = {})
      <4>1. ever' = ever /\ blank' = (blank \/ Merged(fs) = {})
        BY <1>14 DEF collection
      <4>2. Astray' = (Astray \/ Merged(fs) = {})
        BY <4>1, AstrayIs
      <4>3. u.astray = Astray /\ v.astray = Astray'
        BY <1>2
      <4> QED
        BY <1>2, <4>2, <4>3
    <3>2. \A r \in DOMAIN rs : rs[r].op = "over"
      BY <1>14
    <3> QED
      BY <1>1, <1>6, <2>1, <3>1, <3>2, NextWell
  <2>7. v.announced = u.announced \cup
           Announced(q, e, rt)
    BY <1>2, <1>10, <1>14, <2>3, <2>4 DEF Announced
  <2>8. Later(q, u, v)
    <3>1. v.astray = (u.astray \/ Merged(fs) = {})
      BY <2>6
    <3> QED
      BY <1>2, <2>7, <3>1 DEF Later
  <2>9. /\ Running(q, e, After(q, e), rt, ft, v)
        /\ ToldRight(q, v)
    <3>1. PICK S \in SUBSET Nodes : S = Merged(fs)
      BY <2>6
    <3>2. Begun(q, e, S, FALSE, rt, ft)
      BY <2>5, <3>1
    <3>3. StartsWell(q, e, S, v) /\ ToldBefore(q, e, u)
      BY <2>6, <3>1
    <3>4. ToldRight(q, u)
      BY <1>1
    <3>5. FALSE \in BOOLEAN
      OBVIOUS
    <3> QED
      BY <2>7, <2>8, <3>2, <3>3, <3>4, <3>5, Begins
  <2>10. Running(query', e, strings', runs', found', Now') /\ Replied(query', e, runs', found', reply')
    BY <1>1, <1>7, <1>14, <2>3, <2>4, <2>9 DEF Replied
  <2>11. query' \in Queries /\ Stands(query', Now') /\ ToldRight(query', Now') /\ e \in DOMAIN query'.strings
    BY <1>1, <1>8, <2>9
  <2> QED
    BY <2>10, <2>11 DEF SelectInv
<1> HIDE DEF over
<1> QED
  BY <1>9, <1>12, <1>13, <1>14
-----------------------------------------------------------------------------
(* What the finds of a phase come to.                                        *)

\* What is left of a phase, from selector k on.
Leaves(q, i, p, k, todo) ==
    /\ Head(todo) = q.strings[i][p][k]
    /\ Tail(todo) = SubSeq(q.strings[i][p], k + 1, Len(q.strings[i][p]))
    /\ Tail(todo) \in Seq(Selector)
    /\ Len(todo) = 1 <=> k = Len(q.strings[i][p])

\* It is that.
LEMMA LeftIs ==
    ASSUME NEW q \in Queries, NEW i \in DOMAIN q.strings, NEW p \in DOMAIN q.strings[i],
           NEW k \in DOMAIN q.strings[i][p], NEW todo,
           todo = SubSeq(q.strings[i][p], k, Len(q.strings[i][p]))
    PROVE  Leaves(q, i, p, k, todo)
<1>1. PICK s \in Seq(Selector) : s = q.strings[i][p]
  BY RequestIs
<1>2. PICK n \in Nat : n = Len(s) /\ k \in 1..n
  <2>1. PICK n \in Nat : n = Len(q.strings[i][p]) /\ DOMAIN q.strings[i][p] = 1..n
    BY RequestIs
  <2> QED
    BY <1>1, <2>1
<1>3. PICK c \in 1..Len(s) : c = k
  BY <1>2
<1>4. /\ SubSeq(s, c, Len(s)) # <<>>
      /\ Len(SubSeq(s, c, Len(s))) = Len(s) - c + 1
      /\ Head(SubSeq(s, c, Len(s))) = s[c]
      /\ Tail(SubSeq(s, c, Len(s))) = SubSeq(s, c + 1, Len(s))
  BY RestIs
<1>5. SubSeq(s, c, Len(s)) \in Seq(Selector)
  BY <1>2, <1>3
<1>6. PICK r : r = SubSeq(s, c, Len(s)) /\ todo = r
  BY <1>1, <1>3
<1>7. Len(r) = 1 <=> k = n
  BY <1>2, <1>3, <1>4, <1>6
<1>8. Head(r) = s[k] /\ Tail(r) = SubSeq(s, k + 1, Len(s)) /\ r \in Seq(Selector) /\ r # <<>>
  BY <1>3, <1>4, <1>5, <1>6
<1>9. Tail(r) \in Seq(Selector)
  BY <1>8
<1> QED
  BY <1>1, <1>2, <1>6, <1>7, <1>8, <1>9 DEF Leaves

\* The number of selectors of a phase.
LEMMA PhaseLength ==
    ASSUME NEW q \in Queries, NEW i \in DOMAIN q.strings, NEW p \in DOMAIN q.strings[i]
    PROVE  \E n \in Nat : n = Len(q.strings[i][p]) /\ DOMAIN q.strings[i][p] = 1..n
BY RequestIs

\* The last selector of a phase found top.
LEMMA LastFinds ==
    ASSUME NEW q \in Queries, NEW i \in DOMAIN q.strings, NEW p \in DOMAIN q.strings[i],
           NEW k \in DOMAIN q.strings[i][p], NEW w, NEW top, NEW res, res.top = top,
           k = Len(q.strings[i][p]),
           ~w.failed => Before(q, i, p, k + 1, w.always) \subseteq top,
           ~w.astray => top \subseteq Before(q, i, p, k + 1, w.ever),
           ~w.failed => \A j \in 1..k : Told(q, i, p, j, w)
    PROVE  Finds(q, i, p, res, w)
BY DEF Finds

\* A selector found nothing: neither will the others.
LEMMA NoneFinds ==
    ASSUME NEW q \in Queries, NEW i \in DOMAIN q.strings, NEW p \in DOMAIN q.strings[i],
           NEW k \in DOMAIN q.strings[i][p], NEW w, NEW res, res.top = {},
           ~w.failed => Before(q, i, p, k + 1, w.always) \subseteq {},
           ~w.failed => \A j \in 1..k : Told(q, i, p, j, w)
    PROVE  Finds(q, i, p, res, w)
<1>1. PICK n \in Nat : n = Len(q.strings[i][p]) /\ DOMAIN q.strings[i][p] = 1..n
  BY RequestIs
<1>2. ASSUME ~w.failed, NEW j \in (k + 1)..(n + 1)
      PROVE  Before(q, i, p, j, w.always) = {}
  <2>1. PICK c \in 1..(Len(q.strings[i][p]) + 1) : c = k + 1
    BY <1>1
  <2>2. Before(q, i, p, c, w.always) = {} /\ j \in c..(Len(q.strings[i][p]) + 1)
    BY <1>1, <1>2, <2>1
  <2> QED
    BY <2>2, NothingWithin
<1>3. ASSUME ~w.failed, NEW j \in 1..n
      PROVE  Told(q, i, p, j, w)
  <2>1. CASE j \in 1..k
    BY <1>3, <2>1
  <2>2. CASE j \notin 1..k
    <3>1. j \in (k + 1)..(n + 1)
      BY <1>1, <2>2
    <3>2. Before(q, i, p, j, w.always) = {}
      BY <1>2, <1>3, <3>1
    <3> QED
      BY <3>2 DEF Told
  <2> QED
    BY <2>1, <2>2
<1>4. ~w.failed => Before(q, i, p, n + 1, w.always) = {}
  BY <1>1, <1>2
<1> QED
  BY <1>1, <1>3, <1>4 DEF Finds

\* Selector k of a phase is about to run.
At(q, i, p, k, run, w) ==
    /\ run \in Run /\ run.op = "find"
    /\ run.todo = SubSeq(q.strings[i][p], k, Len(q.strings[i][p]))
    /\ ~w.failed => HasAll(q, i, p, k, run.skeleton, w)
    /\ ~w.astray => HasOnly(q, i, p, k, run.skeleton, w)
    /\ ~w.failed => \A j \in 1..k : Told(q, i, p, j, w)

\* What selector k of a phase selects lies between what it means among what was
\* there throughout, and among all that was ever there.
Between(q, i, p, k, top, w) ==
    /\ top \in SUBSET Nodes
    /\ ~w.failed => Before(q, i, p, k + 1, w.always) \subseteq top
    /\ ~w.astray => top \subseteq Before(q, i, p, k + 1, w.ever)

\* What its find finds does.
LEMMA FindsBetween ==
    ASSUME NEW q \in Queries, NEW i \in DOMAIN q.strings, NEW p \in DOMAIN q.strings[i],
           NEW k \in DOMAIN q.strings[i][p], NEW w, Stands(q, w),
           NEW run, At(q, i, p, k, run, w)
    PROVE  Between(q, i, p, k, w.db \cap Selected(q.strings[i][p][k], run.skeleton), w)
<1>1. PICK S \in SUBSET Nodes : S = run.skeleton
  BY DEF At, Run
<1>2. PICK top : top = w.db \cap Selected(q.strings[i][p][k], S)
  OBVIOUS
<1>3. ASSUME ~w.failed
      PROVE  Before(q, i, p, k + 1, w.always) \subseteq top
  <2>1. HasAll(q, i, p, k, S, w)
    BY <1>1, <1>3 DEF At
  <2> QED
    BY <1>2, <2>1, SelectsAll
<1>4. ASSUME ~w.astray
      PROVE  top \subseteq Before(q, i, p, k + 1, w.ever)
  <2>1. HasOnly(q, i, p, k, S, w)
    BY <1>1, <1>4 DEF At
  <2> QED
    BY <1>2, <1>4, <2>1, SelectsOnly
<1>5. top \in SUBSET Nodes
  BY <1>2 DEF Stands
<1> QED
  BY <1>1, <1>2, <1>3, <1>4, <1>5 DEF Between

\* The next selector is about to run, within top.
LEMMA NextAt ==
    ASSUME NEW q \in Queries, NEW i \in DOMAIN q.strings, NEW p \in DOMAIN q.strings[i],
           NEW k \in DOMAIN q.strings[i][p], NEW e \in DOMAIN q.strings[i][p], e = k + 1,
           NEW w, NEW u, Later(q, w, u), Stands(q, w),
           u.always = w.always, u.ever = w.ever, u.failed = w.failed, u.astray = w.astray,
           NEW run, At(q, i, p, k, run, w),
           NEW top, top # {}, Between(q, i, p, k, top, w),
           NEW next, next = [run EXCEPT !.todo = Tail(@), !.skeleton = top],
           Announcements(next, After(q, i)) \subseteq u.announced
    PROVE  At(q, i, p, e, next, u)
<1>1. run \in Run /\ run.op = "find"
      /\ run.todo = SubSeq(q.strings[i][p], k, Len(q.strings[i][p]))
  BY DEF At
<1>2. /\ Tail(run.todo) = SubSeq(q.strings[i][p], e, Len(q.strings[i][p]))
      /\ Tail(run.todo) \in Seq(Selector)
  <2>1. PICK todo : todo = run.todo
    OBVIOUS
  <2>2. todo = SubSeq(q.strings[i][p], k, Len(q.strings[i][p]))
    BY <1>1, <2>1
  <2>3. Leaves(q, i, p, k, todo)
    BY <2>2, LeftIs
  <2> QED
    BY <2>1, <2>3 DEF Leaves
<1>3. /\ next.op = "find" /\ next.skeleton = top
      /\ next.todo = SubSeq(q.strings[i][p], e, Len(q.strings[i][p]))
      /\ next \in Run
  BY <1>1, <1>2 DEF Between, Run
<1>4. ASSUME ~u.failed
      PROVE  HasAll(q, i, p, e, top, u)
  <2>1. Before(q, i, p, e, u.always) \subseteq top /\ Top \notin top
    BY <1>4, SelectAssumption DEF Between
  <2> QED
    BY <2>1 DEF HasAll
<1>5. ASSUME ~u.astray
      PROVE  HasOnly(q, i, p, e, top, u)
  BY <1>5 DEF HasOnly, Between
<1>6. ASSUME ~u.failed, NEW j \in 1..e
      PROVE  Told(q, i, p, j, u)
  <2>1. PICK n \in Nat : n = Len(q.strings[i][p]) /\ DOMAIN q.strings[i][p] = 1..n
    BY PhaseLength
  <2>2. CASE j \in 1..k
    <3>1. Told(q, i, p, j, w)
      BY <1>6, <2>2 DEF At
    <3>2. j \in 1..(Len(q.strings[i][p]) + 1)
      BY <2>1, <2>2
    <3> QED
      BY <3>1, <3>2, ToldStays
  <2>3. CASE j \notin 1..k
    <3>1. j = e
      BY <2>1, <2>3
    <3>2. HasAll(q, i, p, e, next.skeleton, u)
      BY <1>3, <1>4, <1>6
    <3>3. Told(q, i, p, e, u)
      BY <1>3, <3>2, AnnouncesAll
    <3> QED
      BY <3>1, <3>3
  <2> QED
    BY <2>2, <2>3
<1> QED
  BY <1>3, <1>4, <1>5, <1>6 DEF At

\* A selector that is about to run fits.
LEMMA AtFits ==
    ASSUME NEW q \in Queries, NEW i \in DOMAIN q.strings, NEW p \in DOMAIN q.strings[i],
           NEW k \in DOMAIN q.strings[i][p], NEW w, NEW run, At(q, i, p, k, run, w)
    PROVE  Fits(q, i, p, run, Nothing, w)
<1>1. k \in 1..Len(q.strings[i][p])
  BY RequestIs
<1>2. Finding(q, i, p, run, Nothing, w)
  BY <1>1 DEF At, Finding
<1>3. run \in Run /\ Nothing \in Result
  BY DEF At, Nothing, Result
<1> QED
  BY <1>2, <1>3 DEF Fits

\* A phase that finds does so with one of its selectors.
LEMMA FitsAt ==
    ASSUME NEW q \in Queries, NEW i \in DOMAIN q.strings, NEW p \in DOMAIN q.strings[i],
           NEW w, NEW run, NEW res, Fits(q, i, p, run, res, w), run.op = "find"
    PROVE  res = Nothing /\ \E k \in DOMAIN q.strings[i][p] : At(q, i, p, k, run, w)
<1>1. Finding(q, i, p, run, res, w) /\ run \in Run
  BY DEF Fits, Loading, Descending, Ended
<1>2. PICK k \in 1..Len(q.strings[i][p]) : At(q, i, p, k, run, w)
  BY <1>1 DEF Finding, At
<1>3. DOMAIN q.strings[i][p] = 1..Len(q.strings[i][p])
  BY RequestIs
<1> QED
  BY <1>1, <1>2, <1>3 DEF Finding

\* A moment after w, at which nothing but more branches is known.
Tells(q, w, u) ==
    /\ Later(q, w, u)
    /\ u.db = w.db /\ u.always = w.always /\ u.ever = w.ever
    /\ u.failed = w.failed /\ u.astray = w.astray

\* A phase that is over, having found res.
LEMMA OverFits ==
    ASSUME NEW q \in Queries, NEW i \in DOMAIN q.strings, NEW p \in DOMAIN q.strings[i],
           NEW w, NEW res \in Result, Finds(q, i, p, res, w), res.below \subseteq w.ever,
           i = Len(q.strings) /\ Last(q.strings[i][p]).tree /\ ~w.failed => Whole(res, w)
    PROVE  Fits(q, i, p, Over, res, w)
<1>1. Over \in Run /\ Over.op = "over"
  BY DEF Over, Run
<1>2. Ended(q, i, p, Over, res, w)
  BY <1>1 DEF Ended
<1> QED
  BY <1>1, <1>2 DEF Fits

\* The phase is over, with what its last selector found.
LEMMA LastWell ==
    ASSUME NEW q \in Queries, NEW i \in DOMAIN q.strings, NEW p \in DOMAIN q.strings[i],
           NEW k \in DOMAIN q.strings[i][p], k = Len(q.strings[i][p]),
           NEW w, NEW run, At(q, i, p, k, run, w),
           NEW top, Between(q, i, p, k, top, w),
           ~(i = Len(q.strings) /\ q.strings[i][p][k].tree /\ top # {}),
           NEW res \in Result, res.top = top, res.below = {}
    PROVE  Fits(q, i, p, Over, res, w)
<1>2. res \in Result /\ res.top = top /\ res.below = {}
  OBVIOUS
<1>3. Finds(q, i, p, res, w)
  BY <1>2, LastFinds DEF At, Between
<1>4. Last(q.strings[i][p]) = q.strings[i][p][k]
  BY DEF Last
<1>5. i = Len(q.strings) /\ Last(q.strings[i][p]).tree => Whole(res, w)
  BY <1>2, <1>4 DEF Whole
<1>6. res.below \subseteq w.ever
  BY <1>2
<1> QED
  BY <1>2, <1>3, <1>5, <1>6, OverFits

\* The phase is over, since a selector found nothing.
LEMMA NoneWell ==
    ASSUME NEW q \in Queries, NEW i \in DOMAIN q.strings, NEW p \in DOMAIN q.strings[i],
           NEW k \in DOMAIN q.strings[i][p],
           NEW w, NEW run, At(q, i, p, k, run, w), Between(q, i, p, k, {}, w)
    PROVE  Fits(q, i, p, Over, Nothing, w)
<1>1. PICK res : res = Nothing
  OBVIOUS
<1>2. res \in Result /\ res.top = {} /\ res.below = {}
  BY <1>1 DEF Nothing, Result
<1>3. Finds(q, i, p, res, w)
  BY <1>2, NoneFinds DEF At, Between
<1>4. Whole(res, w)
  BY <1>2 DEF Whole
<1>5. res.below \subseteq w.ever
  BY <1>2
<1>6. Fits(q, i, p, Over, res, w)
  BY <1>2, <1>3, <1>4, <1>5, OverFits
<1> QED
  BY <1>1, <1>6

\* The branches announced for a selector that is about to run are right.
LEMMA TellsRight ==
    ASSUME NEW q \in Queries, NEW i \in DOMAIN q.strings, NEW p \in DOMAIN q.strings[i],
           NEW k \in DOMAIN q.strings[i][p], NEW w, NEW u, Tells(q, w, u), ToldRight(q, w),
           NEW run, At(q, i, p, k, run, u),
           u.announced = w.announced \cup Announcements(run, After(q, i))
    PROVE  ToldRight(q, u)
<1>1. SUFFICES ASSUME ~u.astray, NEW a \in u.announced
               PROVE  \E j \in DOMAIN q.strings : \E r \in DOMAIN q.strings[j] :
                         \E c \in DOMAIN q.strings[j][r] :
                            /\ a.of \in Before(q, j, r, c, u.ever)
                            /\ a.strings = Rest(q, j, r, c)
  BY DEF ToldRight
<1>2. CASE a \in w.announced
  BY <1>1, <1>2, ToldOf DEF Tells
<1>3. CASE a \in Announcements(run, After(q, i))
  <2>1. /\ run.todo = SubSeq(q.strings[i][p], k, Len(q.strings[i][p]))
        /\ HasOnly(q, i, p, k, run.skeleton, u)
    BY <1>1 DEF At
  <2>2. Carries(q, i, p, k, a, u)
    BY <1>3, <2>1, AnnouncesOnly
  <2> QED
    BY <2>2 DEF Carries
<1> QED
  BY <1>1, <1>2, <1>3

\* If no branch is announced nothing changes.
LEMMA TellsNone ==
    ASSUME NEW q \in Queries, NEW w, NEW u, Later(q, w, u), ToldRight(q, w),
           u.announced = w.announced
    PROVE  ToldRight(q, u)
<1>1. SUFFICES ASSUME ~u.astray, NEW a \in u.announced
               PROVE  \E j \in DOMAIN q.strings : \E r \in DOMAIN q.strings[j] :
                         \E c \in DOMAIN q.strings[j][r] :
                            /\ a.of \in Before(q, j, r, c, u.ever)
                            /\ a.strings = Rest(q, j, r, c)
  BY DEF ToldRight
<1>2. a \in w.announced
  OBVIOUS
<1> QED
  BY <1>1, <1>2, ToldOf

\* A find without a tree: the phase goes on as the code has it.
LEMMA StepWell ==
    ASSUME NEW q \in Queries, NEW i \in DOMAIN q.strings, NEW p \in DOMAIN q.strings[i],
           NEW k \in DOMAIN q.strings[i][p], NEW w, NEW u, Tells(q, w, u),
           Stands(q, w), ToldRight(q, w),
           NEW run, At(q, i, p, k, run, w),
           NEW top, Between(q, i, p, k, top, w),
           u.announced = w.announced \cup Announcements(Stepped(run, top), After(q, i)),
           ~(Len(run.todo) = 1 /\ i = Len(q.strings) /\ Head(run.todo).tree /\ top # {}),
           NEW res \in Result, Len(run.todo) = 1 => res.top = top /\ res.below = {},
           Len(run.todo) # 1 => res = Nothing
    PROVE  Fits(q, i, p, Stepped(run, top), res, u) /\ ToldRight(q, u)
<1>1. Leaves(q, i, p, k, run.todo)
  <2>1. PICK todo : todo = run.todo
    OBVIOUS
  <2>2. todo = SubSeq(q.strings[i][p], k, Len(q.strings[i][p]))
    BY <2>1 DEF At
  <2> QED
    BY <2>1, <2>2, LeftIs
<1>2. Head(run.todo) = q.strings[i][p][k] /\ (Len(run.todo) = 1 <=> k = Len(q.strings[i][p]))
  BY <1>1 DEF Leaves
<1>3. Later(q, w, u)
  BY DEF Tells
<1>4. CASE Len(run.todo) = 1
  <2>1. Stepped(run, top) = Over
    BY <1>4 DEF Stepped
  <2>2. Fits(q, i, p, Over, res, w)
    BY <1>2, <1>4, LastWell
  <2>3. Fits(q, i, p, Over, res, u)
    BY <1>3, <2>2, FitsStays
  <2>4. ToldRight(q, u)
    <3>1. u.announced = w.announced
      BY <2>1 DEF Announcements, Over
    <3> QED
      BY <1>3, <3>1, TellsNone
  <2> QED
    BY <1>4, <2>1, <2>3, <2>4
<1>5. CASE Len(run.todo) # 1 /\ top = {}
  <2>1. Stepped(run, top) = Over
    BY <1>5 DEF Stepped
  <2>2. Fits(q, i, p, Over, Nothing, w)
    <3>1. Between(q, i, p, k, {}, w)
      BY <1>5
    <3> QED
      BY <3>1, NoneWell
  <2>3. Fits(q, i, p, Over, Nothing, u)
    BY <1>3, <2>2, FitsStays
  <2>4. ToldRight(q, u)
    <3>1. u.announced = w.announced
      BY <2>1 DEF Announcements, Over
    <3> QED
      BY <1>3, <3>1, TellsNone
  <2> QED
    BY <1>5, <2>1, <2>3, <2>4
<1>6. CASE Len(run.todo) # 1 /\ top # {}
  <2>1. PICK next : next = Stepped(run, top)
    OBVIOUS
  <2>2. next = [run EXCEPT !.todo = Tail(@), !.skeleton = top]
    BY <1>6, <2>1 DEF Stepped
  <2>3. PICK e \in DOMAIN q.strings[i][p] : e = k + 1
    <3>1. PICK n \in Nat : n = Len(q.strings[i][p]) /\ DOMAIN q.strings[i][p] = 1..n
      BY PhaseLength
    <3>2. k \in 1..n /\ k # n
      BY <1>2, <1>6, <3>1
    <3> QED
      BY <3>1, <3>2
  <2>4. Announcements(next, After(q, i)) \subseteq u.announced
    BY <2>1
  <2>5. At(q, i, p, e, next, u)
    <3>1. u.always = w.always /\ u.ever = w.ever /\ u.failed = w.failed /\ u.astray = w.astray
      BY DEF Tells
    <3> QED
      BY <1>3, <1>6, <2>2, <2>3, <2>4, <3>1, NextAt
  <2>6. Fits(q, i, p, next, Nothing, u)
    BY <2>5, AtFits
  <2>7. ToldRight(q, u)
    <3>1. u.announced = w.announced \cup Announcements(next, After(q, i))
      BY <2>1
    <3> QED
      BY <2>5, <3>1, TellsRight
  <2> QED
    BY <1>6, <2>1, <2>6, <2>7
<1> QED
  BY <1>4, <1>5, <1>6
-----------------------------------------------------------------------------
(* The steps.                                                                *)

\* A phase that has begun belongs to a string.
LEMMA Underway ==
    ASSUME SelectInv, NEW p \in DOMAIN runs
    PROVE  \E i \in DOMAIN query.strings :
              /\ Running(query, i, strings, runs, found, Now)
              /\ Replied(query, i, runs, found, reply)
              /\ p \in DOMAIN query.strings[i]
              /\ Fits(query, i, p, runs[p], found[p], Now)
              /\ runs[p].op # "over" => reply = NotYet
<1>1. runs # <<>>
  OBVIOUS
<1>2. PICK i \in DOMAIN query.strings :
         /\ Running(query, i, strings, runs, found, Now)
         /\ Replied(query, i, runs, found, reply)
  BY <1>1 DEF SelectInv
<1>3. p \in DOMAIN query.strings[i] /\ Fits(query, i, p, runs[p], found[p], Now)
  BY <1>2 DEF Running
<1>4. runs[p].op # "over" => reply = NotYet
  BY <1>2 DEF Replied
<1> QED
  BY <1>2, <1>3, <1>4

\* What the moment is made of.
LEMMA NowIs ==
    /\ Now.db = db /\ Now.always = always /\ Now.ever = ever /\ Now.failed = failed
    /\ Now.astray = Astray /\ Now.announced = announced
BY DEF Now

\* The first string starts within the container that is asked, or at the top.
LEMMA FirstWell ==
    ASSUME NEW q \in Queries, NEW i \in DOMAIN q.strings, i = 1, NEW w, Stands(q, w)
    PROVE  StartsWell(q, i, {q.from} \ {Top}, w) /\ ToldBefore(q, i, w)
<1>1. q.from \in Nodes \cup {Top} /\ (q.bare => q.from \in Nodes)
  BY RequestIs
<1>2. q.from \in Nodes => q.from \in w.ever
  BY DEF Stands
<1>3. ASSUME NEW p \in DOMAIN q.strings[i], NEW U
      PROVE  Before(q, i, p, 1, U) = Start(q, U)
  BY BeforeIs
<1>4. Top \notin Nodes
  BY SelectAssumption
<1>5. ASSUME NEW p \in DOMAIN q.strings[i]
      PROVE  HasAll(q, i, p, 1, {q.from} \ {Top}, w)
  <2>1. Before(q, i, p, 1, w.always) = Start(q, w.always)
    BY <1>3
  <2>2. Start(q, w.always) \subseteq {q.from}
    BY DEF Start
  <2> QED
    BY <2>1, <2>2 DEF HasAll
<1>6. ASSUME NEW p \in DOMAIN q.strings[i]
      PROVE  HasOnly(q, i, p, 1, {q.from} \ {Top}, w)
  <2>1. Before(q, i, p, 1, w.ever) = Start(q, w.ever)
    BY <1>3
  <2>2. {q.from} \ {Top} \subseteq Start(q, w.ever)
    BY <1>1, <1>2 DEF Start
  <2>3. {q.from} \ {Top} = {} => Top \in Start(q, w.ever)
    BY <1>1, <1>4 DEF Start
  <2> QED
    BY <2>1, <2>2, <2>3 DEF HasOnly
<1> QED
  BY <1>5, <1>6 DEF StartsWell, ToldBefore

\* The request is handled.
LEMMA HandleKeeps ==
    ASSUME SelectInv, Handle
    PROVE  SelectInv'
<1>0. PICK q \in Queries : q = query
  BY DEF SelectInv
<1>1. PICK w, v : q = query /\ w = Now /\ v = Now'
  BY <1>0
<1>2. /\ w.db = db /\ w.always = always /\ w.ever = ever /\ w.astray = Astray
      /\ w.failed = failed /\ w.announced = announced
      /\ v.db = db /\ v.always = always /\ v.ever = ever /\ v.astray = Astray
      /\ v.failed = failed /\ v.announced = announced'
  <2>1. Astray' = Astray
    BY AstrayIs DEF Handle, collection
  <2> QED
    BY <1>1, <2>1 DEF Now, Handle, collection
<1>3. reply = NotYet
  <2>1. ASSUME NEW i \in DOMAIN q.strings, Running(q, i, strings, runs, found, w)
        PROVE  FALSE
    <3>1. DOMAIN q.strings[i] = 1..Len(q.strings[i]) /\ Len(q.strings[i]) >= 1
          /\ Len(q.strings[i]) \in Nat
      BY RequestIs
    <3>2. DOMAIN runs = DOMAIN q.strings[i] /\ DOMAIN runs = {}
      BY <2>1 DEF Running, Handle
    <3> QED
      BY <3>1, <3>2
  <2> QED
    BY <1>1, <2>1 DEF SelectInv
<1>4. PICK e \in DOMAIN q.strings : e = 1
  BY RequestIs
<1>5. PICK stages : stages = Reverse(Shipped(q))
  OBVIOUS
<1>6. stages = q.strings
  <2>1. q.strings \in Seq(Seq(Seq(Selector)))
    BY RequestIs
  <2> QED
    BY <1>5, <2>1, ReverseTwice DEF Shipped
<1>7. Head(stages) = q.strings[e] /\ Tail(stages) = After(q, e)
  <2>1. PICK s \in Seq(Seq(Seq(Selector))) : s = q.strings
    BY RequestIs
  <2>2. PICK k \in 1..Len(s) : k = 1
    BY <1>4, <2>1
  <2>3. Head(SubSeq(s, k, Len(s))) = s[k] /\ Tail(SubSeq(s, k, Len(s))) = SubSeq(s, k + 1, Len(s))
    BY RestIs
  <2>4. SubSeq(s, 1, Len(s)) = s
    BY AllOf
  <2> QED
    BY <1>4, <1>6, <2>1, <2>2, <2>3, <2>4 DEF After
<1>8. PICK S : S = {q.from} \ {Top}
  OBVIOUS
<1>9. S \in SUBSET Nodes /\ q.bare \in BOOLEAN
  BY <1>8, RequestIs
<1>10. /\ runs' = [r \in DOMAIN q.strings[e] |->
                     [todo |-> q.strings[e][r], skeleton |-> S,
                      op |-> IF q.bare THEN "load" ELSE "find"]]
       /\ found' = [r \in DOMAIN q.strings[e] |-> Nothing]
       /\ strings' = After(q, e)
       /\ announced' = announced \cup
             UNION {Announcements(runs'[r], After(q, e)) : r \in DOMAIN q.strings[e]}
  BY <1>1, <1>5, <1>7, <1>8 DEF Handle, BeginStage
<1>11. PICK rt, ft : rt = runs' /\ ft = found'
  OBVIOUS
<1>12. Begun(q, e, S, q.bare, rt, ft)
  <2>1. q.bare => q.from \in Nodes
    BY RequestIs
  <2>2. q.bare => S = {q.from}
    BY <1>8, <2>1, SelectAssumption
  <2> QED
    BY <1>4, <1>10, <1>11, <2>2 DEF Begun
<1>13. v.announced = w.announced \cup Announced(q, e, rt)
  BY <1>2, <1>10, <1>11 DEF Announced
<1>14. Later(q, w, v)
  BY <1>2, <1>13 DEF Later
<1>15. Stands(q, w) /\ Stands(q, v) /\ ToldRight(q, w)
  BY <1>1, <1>2 DEF SelectInv, Stands
<1>16. StartsWell(q, e, S, v) /\ ToldBefore(q, e, w)
  BY <1>4, <1>8, <1>15, FirstWell
<1>17. /\ Running(q, e, After(q, e), rt, ft, v)
       /\ ToldRight(q, v)
  <2>1. PICK bare \in BOOLEAN : bare = q.bare
    BY <1>9
  <2>2. Begun(q, e, S, bare, rt, ft)
    BY <1>12, <2>1
  <2> QED
    BY <1>9, <1>13, <1>14, <1>15, <1>16, <2>2, Begins
<1>18. Running(query', e, strings', runs', found', Now') /\ Replied(query', e, runs', found', reply')
  BY <1>1, <1>3, <1>10, <1>11, <1>17 DEF Replied, Handle
<1>19. query' \in Queries /\ Stands(query', Now') /\ ToldRight(query', Now') /\ e \in DOMAIN query'.strings
  BY <1>1, <1>15, <1>17 DEF Handle
<1> QED
  BY <1>18, <1>19 DEF SelectInv

\* A container that is loaded is there, or there is nothing to start within.
LEMMA LoadWell ==
    ASSUME NEW q \in Queries, NEW i \in DOMAIN q.strings, NEW p \in DOMAIN q.strings[i],
           NEW old, NEW res, Loading(q, i, p, old, res), NEW w, Stands(q, w),
           NEW v, v.always = w.always, v.ever = w.ever,
           NEW S, S = old.skeleton \cap w.db, v.astray = (w.astray \/ S = {}),
           NEW run \in Run, run.op = "find", run.skeleton = S, run.todo = q.strings[i][p]
    PROVE  Fits(q, i, p, run, res, v)
<1>1. q.bare /\ i = 1 /\ q.from \in Nodes /\ q.from # Top /\ res = Nothing
  BY RequestIs, SelectAssumption DEF Loading
<1>2. S = {q.from} \cap w.db
  BY DEF Loading
<1>3. PICK k \in DOMAIN q.strings[i][p] : k = 1
  BY RequestIs
<1>4. ASSUME NEW U
      PROVE  Before(q, i, p, k, U) = U \cap {q.from}
  <2>1. Before(q, i, p, 1, U) = Start(q, U)
    BY <1>1, BeforeIs
  <2> QED
    BY <1>1, <1>3, <2>1 DEF Start
<1>5. v.always \subseteq w.db /\ w.db \subseteq v.ever
  BY DEF Stands
<1>6. HasAll(q, i, p, k, S, v)
  <2>1. Before(q, i, p, k, v.always) = v.always \cap {q.from}
    BY <1>4
  <2> QED
    BY <1>1, <1>2, <1>5, <2>1 DEF HasAll
<1>7. ~v.astray => HasOnly(q, i, p, k, S, v)
  <2>1. Before(q, i, p, k, v.ever) = v.ever \cap {q.from}
    BY <1>4
  <2> QED
    BY <1>2, <1>5, <2>1 DEF HasOnly
<1>8. \A j \in 1..k : Told(q, i, p, j, v)
  BY <1>1, <1>3 DEF Told
<1>9. /\ run \in Run /\ run.op = "find" /\ run.skeleton = S
      /\ run.todo = SubSeq(q.strings[i][p], k, Len(q.strings[i][p]))
  <2>1. q.strings[i][p] \in Seq(Selector)
    BY RequestIs
  <2>2. SubSeq(q.strings[i][p], 1, Len(q.strings[i][p])) = q.strings[i][p]
    BY <2>1, AllOf
  <2>6. run.todo = SubSeq(q.strings[i][p], k, Len(q.strings[i][p]))
    BY <1>3, <2>2
  <2> QED
    BY <2>6
<1>10. At(q, i, p, k, run, v)
  BY <1>6, <1>7, <1>8, <1>9 DEF At
<1> QED
  BY <1>1, <1>10, AtFits

\* A phase that is to find within S, with the selectors todo.
IsLoaded(todo, S, run) ==
    /\ run.todo = todo /\ run.skeleton = S /\ run.op = "find"
    /\ todo \in Seq(Selector) /\ S \in SUBSET Nodes => run \in Run

\* A phase that was to load, with its skeleton loaded.
LEMMA LoadedRun ==
    ASSUME NEW a, NEW b, NEW S,
           NEW run, run = [todo |-> a, skeleton |-> b, op |-> "load"],
           NEW next, next = [run EXCEPT !.skeleton = S, !.op = "find"]
    PROVE  IsLoaded(a, S, next)
BY DEF IsLoaded, Run

\* A bare container is loaded.
LEMMA LoadKeeps ==
    ASSUME SelectInv, NEW p \in DOMAIN runs, Load(p)
    PROVE  SelectInv'
<1>0. PICK q \in Queries : q = query
  BY DEF SelectInv
<1>1. PICK w, v : q = query /\ w = Now /\ v = Now'
  BY <1>0
<1>2. /\ w.db = db /\ w.always = always /\ w.ever = ever /\ w.astray = Astray
      /\ w.failed = failed /\ w.announced = announced
      /\ v.db = db /\ v.always = always /\ v.ever = ever /\ v.astray = Astray'
      /\ v.failed = failed /\ v.announced = announced
  BY <1>1 DEF Now, Load, collection
<1>3. PICK i \in DOMAIN q.strings :
         /\ Running(q, i, strings, runs, found, w)
         /\ p \in DOMAIN q.strings[i]
         /\ Fits(q, i, p, runs[p], found[p], w)
         /\ runs[p].op # "over" => reply = NotYet
  <2>1. PICK i \in DOMAIN query.strings :
           /\ Running(query, i, strings, runs, found, Now)
           /\ Replied(query, i, runs, found, reply)
           /\ p \in DOMAIN query.strings[i]
           /\ Fits(query, i, p, runs[p], found[p], Now)
           /\ runs[p].op # "over" => reply = NotYet
    BY Underway
  <2> QED
    BY <1>1, <2>1
<1>4. Stands(q, w) /\ ToldRight(q, w)
  BY <1>1 DEF SelectInv
<1>5. Later(q, w, v) /\ v.astray = (w.astray \/ runs[p].skeleton \cap w.db = {})
  <2>1. ever' = ever /\ blank' = (blank \/ runs[p].skeleton \cap db = {})
    BY DEF Load, collection
  <2>2. Astray' = (Astray \/ runs[p].skeleton \cap db = {})
    BY <2>1, AstrayIs
  <2>3. v.astray = (w.astray \/ runs[p].skeleton \cap w.db = {})
    BY <1>2, <2>2
  <2> QED
    BY <1>2, <2>3 DEF Later
<1>6. Loading(q, i, p, runs[p], found[p])
  BY <1>3 DEF Load, Fits, Finding, Descending, Ended
<1>7. PICK S : S = runs[p].skeleton \cap w.db
  OBVIOUS
<1>8. PICK rt, ft : rt = runs' /\ ft = found'
  OBVIOUS
<1>9. /\ DOMAIN rt = DOMAIN runs /\ \A r \in DOMAIN runs \ {p} : rt[r] = runs[r]
      /\ rt[p] = [runs[p] EXCEPT !.skeleton = S, !.op = "find"]
  <2>1. rt = [runs EXCEPT ![p].skeleton = S, ![p].op = "find"]
    BY <1>2, <1>7, <1>8 DEF Load
  <2> QED
    BY <2>1
<1>10. ft = found
  BY <1>8 DEF Load
<1>11. Fits(q, i, p, rt[p], ft[p], v)
  <2>1. PICK old, res, run : old = runs[p] /\ res = found[p] /\ run = rt[p]
    OBVIOUS
  <2>2. Loading(q, i, p, old, res) /\ S = old.skeleton \cap w.db
        /\ run \in Run /\ run.op = "find" /\ run.skeleton = S /\ run.todo = q.strings[i][p]
    <3>1. Loading(q, i, p, old, res) /\ S = old.skeleton \cap w.db
      BY <1>6, <1>7, <2>1
    <3>2. PICK a, b : old = [todo |-> a, skeleton |-> b, op |-> "load"] /\ a = q.strings[i][p]
      BY <3>1 DEF Loading
    <3>3. run = [old EXCEPT !.skeleton = S, !.op = "find"]
      BY <1>9, <2>1
    <3>4. IsLoaded(a, S, run)
      BY <3>2, <3>3, LoadedRun
    <3>5. S \in SUBSET Nodes
      BY <1>4, <1>7 DEF Stands
    <3>6. a \in Seq(Selector)
      <4>1. p \in DOMAIN q.strings[i]
        BY <1>3
      <4> QED
        BY <3>2, <4>1, RequestIs
    <3> QED
      BY <3>1, <3>2, <3>4, <3>5, <3>6 DEF IsLoaded
  <2>3. v.always = w.always /\ v.ever = w.ever /\ v.astray = (w.astray \/ S = {})
    BY <1>2, <1>5, <1>7
  <2>4. p \in DOMAIN q.strings[i]
    BY <1>3
  <2>5. Fits(q, i, p, run, res, v)
    BY <1>4, <2>2, <2>3, <2>4, LoadWell
  <2> QED
    BY <1>10, <2>1, <2>5
<1>12. Running(q, i, strings, rt, ft, v)
  <2>1. p \in DOMAIN q.strings[i] /\ Running(q, i, strings, runs, found, w)
    BY <1>3
  <2>2. DOMAIN ft = DOMAIN found /\ \A r \in DOMAIN found \ {p} : ft[r] = found[r]
    BY <1>10
  <2> QED
    BY <1>5, <1>9, <1>11, <2>1, <2>2, RunningWith
<1>13. Stands(q, v) /\ ToldRight(q, v)
  <2>1. v.announced = w.announced
    BY <1>2
  <2>2. ToldRight(q, v)
    BY <1>4, <1>5, <2>1, TellsNone
  <2>3. ~v.astray => Apart(v.ever)
    BY <1>2, AstrayIs DEF Load, collection
  <2> QED
    BY <1>2, <1>4, <2>2, <2>3 DEF Stands
<1>14. Running(query', i, strings', runs', found', Now') /\ Replied(query', i, runs', found', reply')
  <2>1. reply' = NotYet
    BY <1>3 DEF Load
  <2> QED
    BY <1>1, <1>8, <1>12, <2>1 DEF Load, Replied
<1>15. query' \in Queries /\ Stands(query', Now') /\ ToldRight(query', Now') /\ i \in DOMAIN query'.strings
  BY <1>1, <1>3, <1>13 DEF Load
<1> QED
  BY <1>14, <1>15 DEF SelectInv

\* A find, or a second one, or its failure: the phase goes on in a way that fits.
LEMMA FindTree ==
    ASSUME NEW q \in Queries, NEW i \in DOMAIN q.strings, NEW p \in DOMAIN q.strings[i],
           NEW k \in DOMAIN q.strings[i][p], i = Len(q.strings), k = Len(q.strings[i][p]),
           NEW w, NEW run, At(q, i, p, k, run, w), NEW top, Between(q, i, p, k, top, w),
           NEW res \in Result, res.top = top, res.below = {}
    PROVE  Fits(q, i, p, [run EXCEPT !.op = "tree"], res, w)
<1>1. PICK next : next = [run EXCEPT !.op = "tree"]
  OBVIOUS
<1>2. res \in Result /\ res.top = top /\ res.below = {}
  OBVIOUS
<1>3. next \in Run /\ next.op = "tree"
  BY <1>1 DEF At, Run
<1>4. Finds(q, i, p, res, w)
  BY <1>2, LastFinds DEF At, Between
<1>5. Descending(q, i, p, next, res, w)
  BY <1>2, <1>3, <1>4 DEF Descending
<1>6. Fits(q, i, p, next, res, w)
  BY <1>2, <1>3, <1>5 DEF Fits
<1> QED
  BY <1>1, <1>6

\* All that is below the results is there.
LEMMA DescendWell ==
    ASSUME NEW q \in Queries, NEW i \in DOMAIN q.strings, NEW p \in DOMAIN q.strings[i],
           NEW w, Stands(q, w), NEW run, run.op = "tree",
           NEW res, Fits(q, i, p, run, res, w),
           NEW below, below = w.db \cap UNION {Covered(m) : m \in res.top}
    PROVE  Fits(q, i, p, Over, [res EXCEPT !.below = below], w)
<1>1. Descending(q, i, p, run, res, w) /\ res \in Result
  BY DEF Fits, Loading, Finding, Ended
<1>2. PICK all : all = [res EXCEPT !.below = below]
  OBVIOUS
<1>3. w.db \subseteq Nodes /\ w.db \subseteq w.ever /\ w.always \subseteq w.db /\ UpClosed(w.db)
  BY DEF Stands
<1>4. all \in Result /\ all.top = res.top /\ all.below = below /\ res.top \subseteq Nodes
  BY <1>1, <1>2, <1>3 DEF Result
<1>5. Finds(q, i, p, all, w)
  BY <1>1, <1>4 DEF Descending, Finds
<1>6. Whole(all, w)
  <2>1. SUFFICES ASSUME NEW r \in res.top, NEW n \in w.always, n \in StrictlyBelow(r)
                 PROVE  /\ n \in below
                        /\ \A m \in StrictlyBelow(r) : n \in StrictlyBelow(m) => m \in below
    BY <1>4 DEF Whole
  <2>2. \A m \in StrictlyBelow(r) : m \in w.db => m \in below
    <3>1. r \in Nodes
      BY <1>4
    <3>2. \A m \in StrictlyBelow(r) : m \in Covered(r)
      BY <3>1, BelowCovered
    <3> QED
      BY <3>2
  <2>3. n \in w.db
    BY <1>3
  <2>4. ASSUME NEW m \in StrictlyBelow(r), n \in StrictlyBelow(m)
        PROVE  m \in w.db
    <3>1. m \in Nodes
      BY DEF StrictlyBelow
    <3> QED
      BY <1>3, <2>3, <2>4, <3>1 DEF UpClosed
  <2> QED
    BY <2>1, <2>2, <2>3, <2>4
<1>7. all.below \subseteq w.ever
  BY <1>3, <1>4
<1>8. Fits(q, i, p, Over, all, w)
  BY <1>4, <1>5, <1>6, <1>7, OverFits
<1> QED
  BY <1>2, <1>8

\* A phase that failed has found nothing else.
LEMMA FailWell ==
    ASSUME NEW q \in Queries, NEW i \in DOMAIN q.strings, NEW p \in DOMAIN q.strings[i],
           NEW w, NEW run, run.op # "over", NEW res, Fits(q, i, p, run, res, w), w.failed
    PROVE  Fits(q, i, p, Over, res, w)
<1>1. res \in Result /\ res.below = {}
  BY DEF Fits, Loading, Finding, Descending, Ended, Nothing
<1>2. Finds(q, i, p, res, w)
  <2>1. CASE Descending(q, i, p, run, res, w)
    BY <2>1 DEF Descending
  <2>2. CASE res = Nothing
    BY <2>2 DEF Finds, Nothing
  <2> QED
    BY <2>1, <2>2 DEF Fits, Loading, Finding, Ended
<1> QED
  BY <1>1, <1>2, OverFits

\* A request goes on, in a way that fits.
LEMMA GoesOn ==
    ASSUME query \in Queries, query' = query, NEW i \in DOMAIN query.strings,
           Stands(query, Now'), ToldRight(query, Now'),
           Running(query, i, strings', runs', found', Now'),
           Replied(query, i, runs', found', reply')
    PROVE  SelectInv'
BY DEF SelectInv

\* A find starts the second one.
LEMMA TreeKeeps ==
    ASSUME SelectInv, NEW p \in DOMAIN runs,
           NEW i \in DOMAIN query.strings,
           Running(query, i, strings, runs, found, Now), reply = NotYet,
           NEW next, NEW res, Fits(query, i, p, next, res, Now),
           runs' = [runs EXCEPT ![p] = next], found' = [found EXCEPT ![p] = res],
           UNCHANGED <<query, strings, announced, reply, blank, collection, failed>>
    PROVE  SelectInv'
<1>0. PICK q \in Queries : q = query
  BY DEF SelectInv
<1>1. PICK w : q = query /\ w = Now
  BY <1>0
<1>2. w = Now'
  <2>1. Astray' = Astray
    BY AstrayIs DEF collection
  <2> QED
    BY <1>1, <2>1 DEF Now, collection
<1>3. PICK rt, ft : rt = runs' /\ ft = found'
  OBVIOUS
<1>4. /\ DOMAIN runs = DOMAIN q.strings[i] /\ DOMAIN found = DOMAIN q.strings[i]
      /\ Running(q, i, strings, runs, found, w)
  BY <1>1 DEF Running
<1>5. PICK r \in DOMAIN q.strings[i] : r = p
  BY <1>4
<1>6. /\ DOMAIN rt = DOMAIN runs /\ \A s \in DOMAIN runs \ {r} : rt[s] = runs[s]
      /\ DOMAIN ft = DOMAIN found /\ \A s \in DOMAIN found \ {r} : ft[s] = found[s]
      /\ rt[r] = next /\ ft[r] = res
  BY <1>3, <1>4, <1>5
<1>7. Fits(q, i, r, rt[r], ft[r], w)
  BY <1>1, <1>5, <1>6
<1>8. Later(q, w, w)
  BY DEF Later
<1>9. Running(q, i, strings, rt, ft, w)
  BY <1>4, <1>6, <1>7, <1>8, RunningWith
<1>10. Running(query, i, strings', runs', found', Now') /\ Replied(query, i, runs', found', reply')
  BY <1>1, <1>2, <1>3, <1>9 DEF Replied
<1>11. query \in Queries /\ Stands(query, Now') /\ ToldRight(query, Now')
  BY <1>1, <1>2 DEF SelectInv
<1> QED
  BY <1>10, <1>11, GoesOn

\* A find.
LEMMA FindKeeps ==
    ASSUME SelectInv, NEW p \in DOMAIN runs, Find(p)
    PROVE  SelectInv'
<1>0. PICK q \in Queries : q = query
  BY DEF SelectInv
<1>1. PICK w : q = query /\ w = Now
  BY <1>0
<1>2. /\ w.db = db /\ w.always = always /\ w.ever = ever /\ w.astray = Astray
      /\ w.failed = failed /\ w.announced = announced
  BY <1>1, NowIs
<1>3. PICK i \in DOMAIN query.strings :
         /\ Running(query, i, strings, runs, found, Now)
         /\ Replied(query, i, runs, found, reply)
         /\ p \in DOMAIN query.strings[i]
         /\ Fits(query, i, p, runs[p], found[p], Now)
         /\ runs[p].op # "over" => reply = NotYet
  BY Underway
<1>4. PICK r \in DOMAIN query.strings[i] : r = p
  BY <1>3
<1>5. PICK run : run = runs[p]
  OBVIOUS
<1>6. run.op = "find"
  BY <1>5 DEF Find
<1>7. PICK k \in DOMAIN q.strings[i][r] : At(q, i, r, k, run, w)
  <2>1. i \in DOMAIN q.strings /\ r \in DOMAIN q.strings[i] /\ Fits(q, i, r, run, found[p], w)
    BY <1>1, <1>3, <1>4, <1>5
  <2> QED
    BY <1>6, <2>1, FitsAt
<1>8. Stands(q, w) /\ ToldRight(q, w)
  BY <1>1 DEF SelectInv
<1>9. Leaves(q, i, r, k, run.todo)
  <2>1. PICK todo : todo = run.todo
    OBVIOUS
  <2>2. todo = SubSeq(q.strings[i][r], k, Len(q.strings[i][r]))
    BY <1>7, <2>1 DEF At
  <2>3. i \in DOMAIN q.strings /\ r \in DOMAIN q.strings[i]
    BY <1>1
  <2> QED
    BY <2>1, <2>2, <2>3, LeftIs
<1>10. /\ Head(run.todo) = q.strings[i][r][k]
       /\ Len(run.todo) = 1 <=> k = Len(q.strings[i][r])
  BY <1>9 DEF Leaves
<1>11. PICK top : top = db \cap Selected(Head(run.todo), run.skeleton)
  OBVIOUS
<1>12. Between(q, i, r, k, top, w)
  <2>1. i \in DOMAIN q.strings /\ r \in DOMAIN q.strings[i]
    BY <1>1
  <2>2. Between(q, i, r, k, w.db \cap Selected(q.strings[i][r][k], run.skeleton), w)
    BY <1>7, <1>8, <2>1, FindsBetween
  <2> QED
    BY <1>2, <1>10, <1>11, <2>2
<1>13. strings = <<>> <=> i = Len(q.strings)
  <2>1. i \in DOMAIN q.strings /\ strings = After(q, i)
    BY <1>1, <1>3 DEF Running
  <2> QED
    BY <2>1, ToCome
<1>14. PICK res : res = IF Len(run.todo) = 1 THEN [Nothing EXCEPT !.top = top] ELSE Nothing
  OBVIOUS
<1>15. /\ res \in Result /\ (Len(run.todo) = 1 => res.top = top /\ res.below = {})
       /\ (Len(run.todo) # 1 => res = Nothing)
  BY <1>12, <1>14 DEF Between, Nothing, Result
<1>16. reply = NotYet
  BY <1>3, <1>5, <1>6
<1>17. \/ /\ Len(run.todo) = 1 /\ strings = <<>> /\ Head(run.todo).tree /\ top # {}
          /\ runs' = [runs EXCEPT ![p].op = "tree"]
          /\ found' = [found EXCEPT ![p] = res]
          /\ UNCHANGED <<strings, announced, reply, blank>>
       \/ /\ ~(Len(run.todo) = 1 /\ strings = <<>> /\ Head(run.todo).tree /\ top # {})
          /\ Continues(p, Stepped(run, top), res)
  BY <1>5, <1>11, <1>14 DEF Find
<1>18. UNCHANGED <<query, collection, failed>>
  BY DEF Find
<1>19. CASE /\ Len(run.todo) = 1 /\ strings = <<>> /\ Head(run.todo).tree /\ top # {}
            /\ runs' = [runs EXCEPT ![p].op = "tree"]
            /\ found' = [found EXCEPT ![p] = res]
            /\ UNCHANGED <<strings, announced, reply, blank>>
  <2>1. PICK next : next = [run EXCEPT !.op = "tree"]
    OBVIOUS
  <2>2. runs' = [runs EXCEPT ![p] = next]
    BY <1>5, <1>19, <2>1
  <2>3. Fits(q, i, r, next, res, w)
    <3>1. /\ i \in DOMAIN q.strings /\ r \in DOMAIN q.strings[i]
          /\ i = Len(q.strings) /\ k = Len(q.strings[i][r])
          /\ res \in Result /\ res.top = top /\ res.below = {}
      BY <1>1, <1>10, <1>13, <1>15, <1>19
    <3> QED
      BY <1>7, <1>12, <2>1, <3>1, FindTree
  <2>4. Fits(query, i, p, next, res, Now)
    BY <1>1, <1>4, <2>3
  <2> QED
    BY <1>3, <1>16, <1>18, <1>19, <2>2, <2>4, TreeKeeps
<1>20. CASE /\ ~(Len(run.todo) = 1 /\ strings = <<>> /\ Head(run.todo).tree /\ top # {})
            /\ Continues(p, Stepped(run, top), res)
  <2>1. PICK next : next = Stepped(run, top)
    OBVIOUS
  <2>2. PICK u : u = [w EXCEPT !.announced = announced \cup Announcements(next, strings)]
    OBVIOUS
  <2>3. /\ u.db = db /\ u.always = always /\ u.ever = ever /\ u.astray = Astray
        /\ u.failed = failed /\ u.announced = announced \cup Announcements(next, strings)
    BY <1>1, <2>2 DEF Now
  <2>4. Tells(q, w, u)
    BY <1>2, <2>3 DEF Tells, Later
  <2>5. Fits(q, i, r, Stepped(run, top), res, u) /\ ToldRight(q, u)
    <3>1. i \in DOMAIN q.strings /\ r \in DOMAIN q.strings[i]
      BY <1>1
    <3>2. u.announced = w.announced \cup Announcements(Stepped(run, top), After(q, i))
      BY <1>1, <1>2, <1>3, <2>1, <2>3 DEF Running
    <3>3. ~(Len(run.todo) = 1 /\ i = Len(q.strings) /\ Head(run.todo).tree /\ top # {})
      BY <1>13, <1>20
    <3> QED
      BY <1>7, <1>8, <1>12, <1>15, <2>4, <3>1, <3>2, <3>3, StepWell
  <2>6. Fits(query, i, r, next, res, u) /\ ToldRight(query, u) /\ Continues(r, next, res)
    BY <1>1, <1>4, <1>20, <2>1, <2>5
  <2>7. runs[r].op # "over" /\ u.failed = failed' /\ (failed => failed') /\ query' = query
        /\ collection' = collection
    BY <1>4, <1>5, <1>6, <1>18, <2>3
  <2> QED
    BY <1>3, <2>3, <2>6, <2>7, Continued
<1> QED
  BY <1>17, <1>19, <1>20

\* A second find.
LEMMA DescendKeeps ==
    ASSUME SelectInv, NEW p \in DOMAIN runs, Descend(p)
    PROVE  SelectInv'
<1>0. PICK q \in Queries : q = query
  BY DEF SelectInv
<1>1. PICK w : q = query /\ w = Now
  BY <1>0
<1>2. /\ w.db = db /\ w.always = always /\ w.ever = ever /\ w.astray = Astray
      /\ w.failed = failed /\ w.announced = announced
  BY <1>1, NowIs
<1>3. PICK i \in DOMAIN query.strings :
         /\ Running(query, i, strings, runs, found, Now)
         /\ Replied(query, i, runs, found, reply)
         /\ p \in DOMAIN query.strings[i]
         /\ Fits(query, i, p, runs[p], found[p], Now)
         /\ runs[p].op # "over" => reply = NotYet
  BY Underway
<1>4. PICK r \in DOMAIN query.strings[i] : r = p
  BY <1>3
<1>5. PICK run, old : run = runs[p] /\ old = found[p]
  OBVIOUS
<1>6. run.op = "tree"
  BY <1>5 DEF Descend
<1>7. Stands(q, w) /\ ToldRight(q, w)
  BY <1>1 DEF SelectInv
<1>8. PICK below, res : below = DescendentsOf(old.top) /\ res = [old EXCEPT !.below = below]
  OBVIOUS
<1>9. Fits(q, i, r, Over, res, w)
  <2>1. i \in DOMAIN q.strings /\ r \in DOMAIN q.strings[i] /\ Fits(q, i, r, run, old, w)
    BY <1>1, <1>3, <1>4, <1>5
  <2>2. below = w.db \cap UNION {Covered(m) : m \in old.top}
    BY <1>2, <1>8 DEF DescendentsOf
  <2> QED
    BY <1>6, <1>7, <1>8, <2>1, <2>2, DescendWell
<1>10. PICK next : next = Over
  OBVIOUS
<1>11. Announcements(next, strings) = {} /\ next.op = "over"
  BY <1>10 DEF Announcements, Over
<1>12. Continues(p, next, res) /\ UNCHANGED <<query, collection, failed>>
  BY <1>5, <1>8, <1>10 DEF Descend
<1>13. Fits(query, i, r, next, res, w) /\ ToldRight(query, w) /\ Continues(r, next, res)
  BY <1>1, <1>4, <1>7, <1>9, <1>10, <1>12
<1>14. runs[r].op # "over" /\ w.failed = failed' /\ (failed => failed') /\ query' = query
       /\ collection' = collection
  BY <1>2, <1>4, <1>5, <1>6, <1>12
<1>15. w.announced = announced \cup Announcements(next, strings)
  BY <1>2, <1>11
<1> QED
  BY <1>2, <1>3, <1>13, <1>14, <1>15, Continued

\* A phase fails.
LEMMA FailKeeps ==
    ASSUME SelectInv, NEW p \in DOMAIN runs, Fail(p)
    PROVE  SelectInv'
<1>0. PICK q \in Queries : q = query
  BY DEF SelectInv
<1>1. PICK w : q = query /\ w = Now
  BY <1>0
<1>2. /\ w.db = db /\ w.always = always /\ w.ever = ever /\ w.astray = Astray
      /\ w.failed = failed /\ w.announced = announced
  BY <1>1, NowIs
<1>3. PICK i \in DOMAIN query.strings :
         /\ Running(query, i, strings, runs, found, Now)
         /\ Replied(query, i, runs, found, reply)
         /\ p \in DOMAIN query.strings[i]
         /\ Fits(query, i, p, runs[p], found[p], Now)
         /\ runs[p].op # "over" => reply = NotYet
  BY Underway
<1>4. PICK r \in DOMAIN query.strings[i] : r = p
  BY <1>3
<1>5. PICK run, res : run = runs[p] /\ res = found[p]
  OBVIOUS
<1>6. run.op # "over"
  BY <1>5 DEF Fail
<1>7. ToldRight(q, w)
  BY <1>1 DEF SelectInv
<1>8. PICK u : u = [w EXCEPT !.failed = TRUE]
  OBVIOUS
<1>9. /\ u.db = db /\ u.always = always /\ u.ever = ever /\ u.astray = Astray
      /\ u.failed = TRUE /\ u.announced = announced
  BY <1>1, <1>8 DEF Now
<1>10. Later(q, w, u)
  BY <1>2, <1>9 DEF Later
<1>11. Fits(q, i, r, Over, res, u)
  <2>1. i \in DOMAIN q.strings /\ r \in DOMAIN q.strings[i] /\ Fits(q, i, r, run, res, w)
    BY <1>1, <1>3, <1>4, <1>5
  <2>2. Fits(q, i, r, run, res, u)
    BY <1>10, <2>1, FitsStays
  <2> QED
    BY <1>6, <1>9, <2>1, <2>2, FailWell
<1>12. ToldRight(q, u)
  <2>1. u.announced = w.announced
    BY <1>2, <1>9
  <2> QED
    BY <1>7, <1>10, <2>1, TellsNone
<1>13. PICK next : next = Over
  OBVIOUS
<1>14. Announcements(next, strings) = {} /\ next.op = "over"
  BY <1>13 DEF Announcements, Over
<1>15. Continues(p, next, res) /\ UNCHANGED <<query, collection>> /\ failed' = TRUE
  BY <1>5, <1>13 DEF Fail
<1>16. Fits(query, i, r, next, res, u) /\ ToldRight(query, u) /\ Continues(r, next, res)
  BY <1>1, <1>4, <1>11, <1>12, <1>13, <1>15
<1>17. runs[r].op # "over" /\ u.failed = failed' /\ (failed => failed') /\ query' = query
       /\ collection' = collection
  BY <1>4, <1>5, <1>6, <1>9, <1>15
<1>18. u.announced = announced \cup Announcements(next, strings)
  BY <1>9, <1>14
<1> QED
  BY <1>3, <1>9, <1>16, <1>17, <1>18, Continued

\* What is added gets a place that nothing in the collection has.
LEMMA NextPlace ==
    ASSUME db \in SUBSET Nodes, db \subseteq ever, UpClosed(db), Apart(db),
           NEW n \in Nodes, Added(n), NEW l \in db
    PROVE  Place[l] # Place[n]
<1>1. SUFFICES ASSUME Place[l] = Place[n]
               PROVE  FALSE
  OBVIOUS
<1>2. l \in Nodes /\ l # n
  BY DEF Added
<1>3. PICK k \in Nat : k = Len(Line[n]) /\ k = Len(Line[l]) /\ k >= 1
  BY <1>1, <1>2, PlaceIs, LineIs
<1>4. Position[l] = Position[n]
  <2>1. Line[n][k] = n /\ Line[l][k] = l
    BY <1>2, <1>3, SelectAssumption DEF Last
  <2>2. k \in 1..Len(Line[n]) /\ k \in 1..Len(Line[l])
    BY <1>3
  <2>3. Place[n][k] = Position[n] /\ Place[l][k] = Position[l]
    BY <1>2, <2>1, <2>2, PlaceIs
  <2> QED
    BY <1>1, <2>3
<1>5. Position[n] \in Nat /\ \A m \in Nodes : Position[m] \in Nat
  BY SelectAssumption
<1>6. CASE n \in Roots
  <2>1. l \in Roots
    BY <1>2, <1>3, <1>6 DEF Roots
  <2>2. ~ Position[l] < Position[n]
    BY <1>4, <1>5
  <2>3. ASSUME NEW m \in db, n \in Children(m)
        PROVE  FALSE
    <3>1. n \in StrictlyBelow(m)
      BY <2>3, AboveIs
    <3> QED
      BY <1>6, <3>1, AboveIs
  <2> QED
    <3>1. \/ \A m \in Roots \cap db : Position[m] < Position[n]
          \/ Roots \cap db = {}
      BY <2>3 DEF Added
    <3> QED
      BY <2>1, <2>2, <3>1
<1>7. CASE n \notin Roots
  <2>1. PICK m \in db : n \in Children(m) /\ \A c \in ever \cap Children(m) : Position[c] < Position[n]
    BY <1>7 DEF Added
  <2>2. m \in Nodes /\ Len(Line[m]) = k - 1 /\ Len(Line[m]) \in Nat /\ Len(Line[m]) >= 1
    <3>1. m \in Nodes
      BY <2>1
    <3>2. n \in Children(m) <=>
             /\ Len(Line[m]) = Len(Line[n]) - 1
             /\ \A i \in 1..Len(Line[m]) : Line[m][i] = Line[n][i]
      BY <3>1, LineIs
    <3>3. PICK c : c = Len(Line[m])
      OBVIOUS
    <3>4. c \in Nat /\ c >= 1
      BY <3>1, <3>3, LineIs
    <3>5. c = k - 1
      BY <1>3, <2>1, <3>2, <3>3
    <3> QED
      BY <3>1, <3>3, <3>4, <3>5
  <2>3. PICK j \in Nat : j = k - 1 /\ j >= 1 /\ j < k /\ j \in 1..Len(Line[l])
    <3>1. k - 1 \in Nat /\ k - 1 >= 1 /\ k - 1 < k /\ k - 1 \in 1..k
      <4>1. PICK c \in Nat : c = Len(Line[m])
        BY <2>2
      <4>2. c = k - 1 /\ c >= 1
        BY <2>2, <4>1
      <4> QED
        BY ONLY <4>1, <4>2, k \in Nat
    <3> QED
      BY <1>3, <3>1
  <2>4. PICK p \in Nodes :
           /\ Len(Line[p]) = j
           /\ \A i \in 1..j : Line[p][i] = Line[l][i] /\ Place[p][i] = Place[l][i]
           /\ p = l \/ l \in StrictlyBelow(p)
    <3>1. \E x \in Nodes :
             /\ Line[l][j] = x /\ Len(Line[x]) = j
             /\ \A i \in 1..j : Line[x][i] = Line[l][i]
             /\ \A i \in 1..j : Place[x][i] = Place[l][i]
             /\ x = l \/ l \in StrictlyBelow(x)
      BY <1>2, <2>3, OnTheWay
    <3> QED
      BY <3>1
  <2>5. p # l
    BY <1>3, <2>3, <2>4
  <2>6. p \in db
    BY <2>4, <2>5 DEF UpClosed
  <2>7. \A i \in 1..j : Place[m][i] = Place[n][i]
    <3>1. n \in Covered(m)
      BY <2>1, <2>2, AboveIs, BelowCovered
    <3> QED
      BY <2>2, <2>3, <3>1, CoveredIs
  <2>8. Place[p] = Place[m]
    <3>1. PICK s \in Seq(Nat), t \in Seq(Nat) : s = Place[p] /\ t = Place[m]
      BY <2>2, PlaceIs
    <3>2. Len(s) = j /\ Len(t) = j
      BY <2>2, <2>3, <2>4, <3>1, PlaceIs
    <3>3. \A i \in 1..j : s[i] = t[i]
      BY <1>1, <2>4, <2>7, <3>1
    <3>4. s = t
      BY <3>2, <3>3, SeqEqual
    <3> QED
      BY <3>1, <3>4
  <2>9. p = m
    BY <2>1, <2>6, <2>8 DEF Apart
  <2>10. l \in Children(m)
    BY <1>2, <1>3, <2>2, <2>3, <2>4, <2>9, LineIs
  <2>11. Position[l] < Position[n]
    BY <2>1, <2>10
  <2> QED
    BY <1>2, <1>4, <1>5, <2>11
<1> QED
  BY <1>6, <1>7

\* The collection, after a change of it.
LEMMA StandsStill ==
    ASSUME NEW q \in Queries, Stands(q, Now), Change
    PROVE  Stands(q, Now') /\ Later(q, Now, Now')
<1>1. /\ always \subseteq db /\ db \subseteq ever /\ ever \subseteq Nodes
      /\ UpClosed(db) /\ UpClosed(ever) /\ Apart(db)
      /\ (q.from \in Nodes => q.from \in ever)
  BY DEF Stands, Now
<1>2. failed' = failed /\ announced' = announced /\ blank' = blank
  BY DEF Change, resolver
<1>3. ASSUME NEW n \in Nodes, Added(n)
      PROVE  /\ always' = always /\ ever' = ever \cup {n} /\ db' = db \cup {n}
             /\ UpClosed(db') /\ UpClosed(ever') /\ Apart(db')
  <2>1. always' = always /\ ever' = ever \cup {n} /\ db' = db \cup {n}
    BY <1>3 DEF Added
  <2>2. ASSUME NEW m \in Nodes, n \in StrictlyBelow(m)
        PROVE  m \in db
    <3>1. n \notin Roots
      BY <2>2, AboveIs
    <3>2. PICK l \in db : n \in Children(l)
      BY <1>3, <3>1 DEF Added
    <3>3. l \in Nodes
      BY <1>1
    <3>4. m = l \/ l \in StrictlyBelow(m)
      BY <2>2, <3>2, <3>3, AboveIs
    <3> QED
      BY <1>1, <3>2, <3>4 DEF UpClosed
  <2>3. UpClosed(db')
    BY <1>1, <2>1, <2>2 DEF UpClosed
  <2>4. UpClosed(ever')
    BY <1>1, <2>1, <2>2 DEF UpClosed
  <2>5. Apart(db')
    <3>1. \A l \in db : Place[l] # Place[n]
      BY <1>1, <1>3, NextPlace
    <3> QED
      BY <1>1, <2>1, <3>1 DEF Apart
  <2> QED
    BY <2>1, <2>3, <2>4, <2>5
<1>4. ASSUME NEW n \in Nodes, Removed(n)
      PROVE  /\ always' = always \cap db' /\ ever' = ever /\ db' \subseteq db
             /\ UpClosed(db') /\ Apart(db')
  <2>1. db' = db \ ({n} \cup Covered(n)) /\ always' = always \cap db' /\ ever' = ever
    BY <1>4 DEF Removed
  <2>2. ASSUME NEW l \in db', NEW m \in Nodes, l \in StrictlyBelow(m)
        PROVE  m \in db'
    <3>1. m \in db /\ l \in Nodes
      BY <1>1, <2>1, <2>2 DEF UpClosed
    <3>2. m # n
      BY <2>1, <2>2, BelowCovered
    <3>3. m \notin Covered(n)
      <4>1. l \in Covered(m)
        BY <2>2, BelowCovered
      <4>2. m \in Covered(n) => l \in Covered(n)
        BY <3>1, <4>1, CoveredOn
      <4> QED
        BY <2>1, <4>2
    <3> QED
      BY <2>1, <3>1, <3>2, <3>3
  <2>3. UpClosed(db')
    BY <2>2 DEF UpClosed
  <2>4. Apart(db')
    BY <1>1, <2>1 DEF Apart
  <2> QED
    BY <2>1, <2>3, <2>4
<1>5. /\ always' \subseteq always /\ ever \subseteq ever' /\ ever' \subseteq Nodes
      /\ always' \subseteq db' /\ db' \subseteq ever'
      /\ UpClosed(db') /\ UpClosed(ever') /\ Apart(db')
  <2>1. PICK n \in Nodes : Added(n) \/ Removed(n)
    BY DEF Change
  <2>2. CASE Added(n)
    BY <1>1, <1>3, <2>2
  <2>3. CASE Removed(n)
    BY <1>1, <1>4, <2>3
  <2> QED
    BY <2>1, <2>2, <2>3
<1>6. ~Astray' => Apart(ever')
  BY DEF Astray
<1>7. Astray => Astray'
  <2>1. Apart(ever') => Apart(ever)
    BY <1>5 DEF Apart
  <2> QED
    BY <1>2, <2>1 DEF Astray
<1> QED
  BY <1>1, <1>2, <1>5, <1>6, <1>7 DEF Stands, Later, Now

\* Another request changes the collection, or nothing happens: the request goes
\* on as it did.
LEMMA StaysThatWay ==
    ASSUME SelectInv, query' = query, resolver' = resolver,
           Stands(query, Now'), Later(query, Now, Now'), announced' = announced
    PROVE  SelectInv'
<1>0. PICK q \in Queries : q = query
  BY DEF SelectInv
<1>1. PICK w, v : q = query /\ w = Now /\ v = Now'
  BY <1>0
<1>2. strings' = strings /\ runs' = runs /\ found' = found /\ reply' = reply
  BY DEF resolver
<1>3. v.announced = w.announced
  BY <1>1 DEF Now
<1>4. Later(q, w, v) /\ ToldRight(q, w)
  BY <1>1 DEF SelectInv
<1>5. ToldRight(q, v)
  BY <1>3, <1>4, TellsNone
<1>6. CASE runs = <<>> /\ reply = NotYet /\ announced = {}
  BY <1>1, <1>2, <1>5, <1>6 DEF SelectInv
<1>7. ASSUME NEW i \in DOMAIN query.strings,
             Running(query, i, strings, runs, found, Now), Replied(query, i, runs, found, reply)
      PROVE  SelectInv'
  <2>1. PICK ss, rs, fs : ss = strings /\ rs = runs /\ fs = found
    OBVIOUS
  <2>2. Running(q, i, ss, rs, fs, w)
    BY <1>1, <1>7, <2>1
  <2>3. Running(q, i, ss, rs, fs, v)
    BY <1>4, <2>2, RunningStays
  <2>4. Running(query, i, strings', runs', found', Now') /\ Replied(query, i, runs', found', reply')
    BY <1>1, <1>2, <1>7, <2>1, <2>3
  <2>5. query \in Queries /\ ToldRight(query, Now')
    BY <1>1, <1>5
  <2> QED
    BY <2>4, <2>5, GoesOn
<1> QED
  BY <1>6, <1>7 DEF SelectInv

\* Every step keeps the invariant.
LEMMA StepKeeps ==
    ASSUME SelectInv, [Next]_vars
    PROVE  SelectInv'
<1>1. CASE Handle
  BY <1>1, HandleKeeps
<1>2. ASSUME NEW p \in DOMAIN runs, Load(p) PROVE SelectInv'
  BY <1>2, LoadKeeps
<1>3. ASSUME NEW p \in DOMAIN runs, Find(p) PROVE SelectInv'
  BY <1>3, FindKeeps
<1>4. ASSUME NEW p \in DOMAIN runs, Descend(p) PROVE SelectInv'
  BY <1>4, DescendKeeps
<1>5. ASSUME NEW p \in DOMAIN runs, Fail(p) PROVE SelectInv'
  BY <1>5, FailKeeps
<1>6. CASE Change
  <2>1. query \in Queries /\ Stands(query, Now)
    BY DEF SelectInv
  <2>2. Stands(query, Now') /\ Later(query, Now, Now')
    BY <1>6, <2>1, StandsStill
  <2>3. query' = query /\ resolver' = resolver /\ announced' = announced
    BY <1>6 DEF Change, resolver
  <2> QED
    BY <2>2, <2>3, StaysThatWay
<1>7. CASE UNCHANGED vars
  <2>1. UNCHANGED <<query, resolver, collection, failed>>
    BY <1>7 DEF vars
  <2>2. Astray' = Astray
    BY <2>1, AstrayIs DEF resolver, collection
  <2> QED
    BY <2>1, <2>2 DEF resolver, collection, SelectInv, Now
<1> QED
  BY <1>1, <1>2, <1>3, <1>4, <1>5, <1>6, <1>7 DEF Next, Resolve

\* It holds to begin with.
LEMMA InitWell ==
    ASSUME Init
    PROVE  SelectInv
<1>1. query \in Queries /\ query.from \in db \cup {Top} /\ always = db /\ ever = db
      /\ announced = {} /\ runs = <<>> /\ reply = NotYet
  BY DEF Init
<1>2. db \in SUBSET Nodes /\ IsTree(db) /\ Apart(db)
  BY SelectAssumption DEF Init
<1>3. UpClosed(db)
  BY <1>2, TreesClosed
<1>4. Stands(query, Now)
  BY <1>1, <1>2, <1>3, SelectAssumption DEF Stands, Now
<1>5. ToldRight(query, Now)
  BY <1>1 DEF ToldRight, Now
<1> QED
  BY <1>1, <1>4, <1>5 DEF SelectInv
-----------------------------------------------------------------------------
(* The theorems about requests.                                              *)

\* What a phase of the string that runs has found lies between what it means
\* among what was there throughout and among all that was ever there, and its
\* branches and those of all strings before are announced, whatever comes, goes
\* and fails (resolveselector.js, select.js, ensure_skeleton.js).
THEOREM SelectInvariance == Spec => []SelectInv
<1>1. Init => SelectInv
  BY InitWell
<1>2. SelectInv /\ [Next]_vars => SelectInv'
  BY StepKeeps
<1> QED
  BY <1>1, <1>2, PTL DEF Spec

\* At any time no two containers have the same place, and none is without the
\* one it is below, whatever is appended and deleted (append.js, delete.js): a
\* place that is used twice is used one time after the other.
THEOREM PlacesStayApart == Spec => [](Apart(db) /\ UpClosed(db))
<1>1. SelectInv => Apart(db) /\ UpClosed(db)
  BY DEF SelectInv, Stands, Now
<1> QED
  BY <1>1, SelectInvariance, PTL

\* What is known of an answer.
LEMMA AnswerIs ==
    ASSUME SelectInv, Answered
    PROVE  LET i == Len(query.strings) IN
           /\ query \in Queries
           /\ i \in DOMAIN query.strings
           /\ Last(query.strings) = query.strings[i]
           /\ ToldBefore(query, i, Now)
           /\ DOMAIN reply = DOMAIN query.strings[i]
           /\ \A p \in DOMAIN reply : \E run : Ended(query, i, p, run, reply[p], Now)
<1>1. query \in Queries
  BY DEF SelectInv
<1>2. PICK i \in DOMAIN query.strings :
         Running(query, i, strings, runs, found, Now) /\ Replied(query, i, runs, found, reply)
  BY DEF SelectInv, Answered
<1>3. i = Len(query.strings) /\ reply = found /\ \A p \in DOMAIN runs : runs[p].op = "over"
  BY <1>2 DEF Replied, Answered
<1>4. DOMAIN runs = DOMAIN query.strings[i] /\ DOMAIN found = DOMAIN query.strings[i]
      /\ ToldBefore(query, i, Now)
  BY <1>2 DEF Running
<1>5. ASSUME NEW p \in DOMAIN reply
      PROVE  Ended(query, i, p, runs[p], reply[p], Now)
  <2>1. Fits(query, i, p, runs[p], reply[p], Now) /\ runs[p].op = "over"
    BY <1>2, <1>3, <1>4, <1>5 DEF Running
  <2> QED
    BY <2>1 DEF Fits, Loading, Finding, Descending
<1> QED
  BY <1>1, <1>3, <1>4, <1>5 DEF Last

\* What was there throughout and is meant is found, unless mongo fails
\* (resolveselector.js, select.js).
THEOREM FindsAll == Spec => []NothingLost
<1>1. ASSUME SelectInv
      PROVE  NothingLost
  <2>1. SUFFICES ASSUME Answered, ~failed, NEW p \in DOMAIN reply
                 PROVE  Meant(query, p, always) \subseteq reply[p].top
    BY DEF NothingLost
  <2>2. PICK i : i = Len(query.strings)
    OBVIOUS
  <2>3. /\ Last(query.strings) = query.strings[i]
        /\ \E run : Ended(query, i, p, run, reply[p], Now)
    BY <1>1, <2>1, <2>2, AnswerIs
  <2>4. Finds(query, i, p, reply[p], Now)
    BY <2>3 DEF Ended
  <2>5. Before(query, i, p, Len(query.strings[i][p]) + 1, always) \subseteq reply[p].top
    BY <2>1, <2>4 DEF Finds, Now
  <2> QED
    BY <2>2, <2>3, <2>5 DEF Meant
<1> QED
  BY <1>1, SelectInvariance, PTL

\* What is found was there and is meant, failures or not, unless an empty
\* skeleton was taken for the top or a place was used again (resolveselector.js,
\* select.js).
THEOREM FindsNothingElse == Spec => []NothingInvented
<1>1. ASSUME SelectInv
      PROVE  NothingInvented
  <2>1. SUFFICES ASSUME Answered, ~blank, Apart(ever), NEW p \in DOMAIN reply
                 PROVE  reply[p].top \subseteq Meant(query, p, ever)
    BY DEF NothingInvented
  <2>2. PICK i : i = Len(query.strings)
    OBVIOUS
  <2>3. /\ Last(query.strings) = query.strings[i]
        /\ \E run : Ended(query, i, p, run, reply[p], Now)
    BY <1>1, <2>1, <2>2, AnswerIs
  <2>4. Finds(query, i, p, reply[p], Now)
    BY <2>3 DEF Ended
  <2>5. reply[p].top \subseteq Before(query, i, p, Len(query.strings[i][p]) + 1, ever)
    BY <2>1, <2>4 DEF Finds, Now, Astray
  <2> QED
    BY <2>2, <2>3, <2>5 DEF Meant
<1> QED
  BY <1>1, SelectInvariance, PTL

\* A result with its tree has all that was below it throughout, and what is
\* below it was there (select.js:336-372).
THEOREM TreesAreWhole == Spec => []TreesWhole
<1>1. ASSUME SelectInv
      PROVE  TreesWhole
  <2>1. SUFFICES ASSUME Answered, NEW p \in DOMAIN reply,
                        NEW r \in reply[p].top \ reply[p].below
                 PROVE  /\ Under(r, reply[p]) \subseteq ever
                        /\ Last(Last(query.strings)[p]).tree /\ ~failed =>
                              always \cap StrictlyBelow(r) \subseteq Under(r, reply[p])
    BY DEF TreesWhole
  <2>2. PICK i, res : i = Len(query.strings) /\ res = reply[p]
    OBVIOUS
  <2>3. PICK run : Ended(query, i, p, run, res, Now)
    BY <1>1, <2>1, <2>2, AnswerIs
  <2>4. Last(query.strings) = query.strings[i]
    BY <1>1, <2>1, <2>2, AnswerIs
  <2>5. res.below \subseteq ever
    BY <2>3 DEF Ended, Now
  <2>6. Under(r, res) = {n \in res.below \cap StrictlyBelow(r) :
                           \A m \in StrictlyBelow(r) : n \in StrictlyBelow(m) => m \in res.below}
    BY <2>2 DEF Under
  <2>7. ASSUME Last(Last(query.strings)[p]).tree, ~failed, NEW n \in always, n \in StrictlyBelow(r)
        PROVE  n \in Under(r, res)
    <3>1. Whole(res, Now) /\ Now.always = always
      BY <2>2, <2>3, <2>4, <2>7 DEF Ended, Now
    <3>2. /\ n \in res.below
          /\ \A m \in StrictlyBelow(r) : n \in StrictlyBelow(m) => m \in res.below
      BY <2>2, <2>7, <3>1 DEF Whole
    <3> QED
      BY <2>6, <2>7, <3>2
  <2> QED
    BY <2>2, <2>5, <2>6, <2>7
<1> QED
  BY <1>1, SelectInvariance, PTL

\* A branch is announced exactly for what a selector starts within, with this
\* selector and all after it (resolveselector.js:127-144).
THEOREM BranchesRight == Spec => []BranchesCarryTheRest
<1>1. ASSUME SelectInv
      PROVE  BranchesCarryTheRest
  <2>1. ASSUME ~blank, Apart(ever), NEW a \in announced
        PROVE  \E i \in DOMAIN query.strings : \E p \in DOMAIN query.strings[i] :
                  \E k \in DOMAIN query.strings[i][p] :
                     /\ a.of \in Before(query, i, p, k, ever)
                     /\ a.strings = Rest(query, i, p, k)
    BY <1>1, <2>1 DEF SelectInv, ToldRight, Now, Astray
  <2>2. ASSUME Answered, ~failed, NEW i \in DOMAIN query.strings,
               NEW p \in DOMAIN query.strings[i], NEW k \in DOMAIN query.strings[i][p],
               NEW n \in Branching \cap Before(query, i, p, k, always)
        PROVE  \/ query.bare /\ i = 1 /\ k = 1
               \/ [of |-> n, strings |-> Rest(query, i, p, k)] \in announced
    <3>1. PICK last : last = Len(query.strings)
      OBVIOUS
    <3>2. /\ query \in Queries /\ last \in DOMAIN query.strings
          /\ ToldBefore(query, last, Now)
          /\ DOMAIN reply = DOMAIN query.strings[last]
          /\ \A r \in DOMAIN reply : \E run : Ended(query, last, r, run, reply[r], Now)
      BY <1>1, <2>2, <3>1, AnswerIs
    <3>3. i \in 1..(last - 1) \/ i = last
      <4>1. i \in 1..last /\ last \in Nat
        BY <3>1, <3>2, RequestIs
      <4> QED
        BY <4>1
    <3>4. k \in 1..Len(query.strings[i][p])
      BY <3>2, RequestIs
    <3>5. ~Now.failed /\ Now.always = always /\ Now.announced = announced
      BY <2>2, NowIs
    <3>6. Told(query, i, p, k, Now)
      <4>1. CASE i \in 1..(last - 1)
        BY <3>2, <3>5, <4>1 DEF ToldBefore
      <4>2. CASE i = last
        <5>1. Finds(query, i, p, reply[p], Now)
          BY <3>2, <4>2 DEF Ended
        <5> QED
          BY <3>4, <3>5, <5>1 DEF Finds
      <4> QED
        BY <3>3, <4>1, <4>2
    <3> QED
      BY <3>5, <3>6 DEF Told
  <2> QED
    BY <2>1, <2>2 DEF BranchesCarryTheRest
<1> QED
  BY <1>1, SelectInvariance, PTL

-----------------------------------------------------------------------------
(* Powers.                                                                   *)

\* A power is the last of as many products.
LEMMA PowersAre ==
    ASSUME NEW b \in Nat, NEW n \in Nat
    PROVE  \E f \in [0..n -> Nat] :
              f[0] = 1 /\ (\A k \in 1..n : f[k] = b * f[k - 1]) /\ Power(b, n) = f[n]
<1> DEFINE Is(f) == f = [k \in 0..n |-> IF k = 0 THEN 1 ELSE b * f[k - 1]]
<1>1. PICK T : T = [a \in (1..n) \X Nat |-> b * a[2]]
  OBVIOUS
<1>2. StepsOf(n, Nat, T)
  BY <1>1 DEF StepsOf
<1>3. PICK f \in [0..n -> Nat] : f[0] = 1 /\ \A k \in 1..n : f[k] = T[<<k, f[k - 1]>>]
  <2>1. PICK V, X : V = Nat /\ X = 1
    OBVIOUS
  <2>2. X \in V /\ StepsOf(n, V, T)
    BY <1>2, <2>1
  <2>3. Walks(n, V, T, X) # {}
    BY <2>2, Recursion
  <2> QED
    BY <2>1, <2>3 DEF Walks
<1>4. \A k \in 1..n : f[k] = b * f[k - 1]
  <2>1. ASSUME NEW k \in 1..n
        PROVE  f[k] = b * f[k - 1]
    <3>1. k - 1 \in 0..n /\ f[k - 1] \in Nat
      OBVIOUS
    <3>2. T[<<k, f[k - 1]>>] = b * <<k, f[k - 1]>>[2]
      BY <1>1, <3>1
    <3> QED
      BY <1>3, <3>2
  <2> QED
    BY <2>1
<1>5. Is(f)
  BY <1>3, <1>4
<1>6. PICK h : h = CHOOSE g : Is(g)
  OBVIOUS
<1>7. Is(h)
  <2> HIDE DEF Is
  <2> QED
    BY <1>5, <1>6
<1>8. Power(b, n) = h[n]
  BY <1>6 DEF Power
<1>9. h[0] = 1 /\ \A k \in 1..n : h[k] = b * h[k - 1]
  BY <1>7
<1>10. \A k \in 0..n : f[k] = h[k]
  <2> DEFINE G == {k \in 0..n : f[k] = h[k]}
  <2>1. 0 \in G
    BY <1>3, <1>9
  <2>2. ASSUME NEW k \in 0..(n - 1), k \in G
        PROVE  k + 1 \in G
    <3>1. k + 1 \in 1..n /\ (k + 1) - 1 = k
      OBVIOUS
    <3> QED
      BY <2>2, <3>1, <1>4, <1>9
  <2>3. \A k \in 0..n : k \in G
    <3> HIDE DEF G
    <3> QED
      BY <2>1, <2>2, UpTo
  <2> QED
    BY <2>3
<1> QED
  BY <1>3, <1>4, <1>8, <1>10

\* The powers of a number, one by one.
LEMMA PowerIs ==
    ASSUME NEW b \in Nat, NEW n \in Nat
    PROVE  /\ Power(b, n) \in Nat
           /\ Power(b, 0) = 1
           /\ Power(b, n + 1) = b * Power(b, n)
<1>1. PICK f \in [0..n -> Nat] :
         f[0] = 1 /\ (\A k \in 1..n : f[k] = b * f[k - 1]) /\ Power(b, n) = f[n]
  BY PowersAre
<1>2. PICK g \in [0..(n + 1) -> Nat] :
         g[0] = 1 /\ (\A k \in 1..(n + 1) : g[k] = b * g[k - 1]) /\ Power(b, n + 1) = g[n + 1]
  <2>1. n + 1 \in Nat
    OBVIOUS
  <2> QED
    BY <2>1, PowersAre, Zenon
<1>3. PICK z \in [0..0 -> Nat] : z[0] = 1 /\ Power(b, 0) = z[0]
  BY PowersAre
<1> DEFINE G == {k \in 0..n : f[k] = g[k]}
<1>4. \A k \in 0..n : k \in G
  <2>1. 0 \in G
    BY <1>1, <1>2
  <2>2. ASSUME NEW k \in 0..(n - 1), k \in G
        PROVE  k + 1 \in G
    <3>1. k + 1 \in 1..n /\ k + 1 \in 1..(n + 1) /\ (k + 1) - 1 = k
      OBVIOUS
    <3> QED
      BY <2>2, <3>1, <1>1, <1>2
  <2> HIDE DEF G
  <2> QED
    BY <2>1, <2>2, UpTo
<1>5. f[n] = g[n] /\ n + 1 \in 1..(n + 1) /\ (n + 1) - 1 = n
  BY <1>4
<1> QED
  BY <1>1, <1>2, <1>3, <1>5

-----------------------------------------------------------------------------
(* The fraction of a place comes of that of what is behind its first         *)
(* position.                                                                 *)

\* What is behind the first element.
LEMMA TailOf ==
    ASSUME NEW S, NEW p \in Seq(S), Len(p) > 1
    PROVE  /\ Tail(p) \in Seq(S) /\ Len(Tail(p)) = Len(p) - 1 /\ Len(Tail(p)) > 0
           /\ \A i \in 1..(Len(p) - 1) : Tail(p)[i] = p[i + 1]
           /\ p[1] \in S
<1>1. PICK m \in Nat : m = Len(p) /\ m > 1
  OBVIOUS
<1>2. p # <<>>
  BY <1>1, EmptySeq
<1>3. Tail(p) \in Seq(S) /\ Len(Tail(p)) = Len(p) - 1 /\ \A i \in 1..(Len(p) - 1) : Tail(p)[i] = p[i + 1]
  BY <1>2, HeadTailProperties
<1>4. p[1] \in S
  BY <1>1
<1> QED
  BY <1>1, <1>3, <1>4

Fractions == [numerator : Nat, denominator : Nat]

\* The positions with unity between them, and those behind the first position.
LEMMA PartsAre ==
    ASSUME NEW p \in Seq(Nat), Len(p) > 0
    PROVE  /\ \A i \in 1..(2 * Len(p) - 1) : UnityParts(p)[i] \in Nat
           /\ UnityParts(p)[1] = p[1]
           /\ UnityParts(p)[2 * Len(p) - 1] = p[Len(p)]
           /\ Len(p) > 1 =>
                 /\ UnityParts(p)[2] = 1
                 /\ \A i \in 1..(2 * Len(p) - 3) : UnityParts(Tail(p))[i] = UnityParts(p)[i + 2]
<1>1. PICK m \in Nat : m = Len(p) /\ m > 0
  OBVIOUS
<1>2. \A i \in 1..(2 * m - 1) : UnityParts(p)[i] = IF i % 2 = 1 THEN p[(i + 1) \div 2] ELSE 1
  BY <1>1 DEF UnityParts
<1>3. \A i \in 1..(2 * m - 1) : (i + 1) \div 2 \in 1..m
  BY <1>1
<1>4. \A i \in 1..(2 * m - 1) : UnityParts(p)[i] \in Nat
  BY <1>1, <1>2, <1>3
<1>5. UnityParts(p)[1] = p[1] /\ UnityParts(p)[2 * m - 1] = p[m]
  <2>1. 1 % 2 = 1 /\ (1 + 1) \div 2 = 1 /\ (2 * m - 1) % 2 = 1 /\ ((2 * m - 1) + 1) \div 2 = m
    BY <1>1
  <2>2. 1 \in 1..(2 * m - 1) /\ 2 * m - 1 \in 1..(2 * m - 1)
    BY <1>1
  <2> QED
    BY <1>2, <2>1, <2>2
<1>6. ASSUME m > 1
      PROVE  /\ UnityParts(p)[2] = 1
             /\ \A i \in 1..(2 * m - 3) : UnityParts(Tail(p))[i] = UnityParts(p)[i + 2]
  <2>1. UnityParts(p)[2] = 1
    <3>1. 2 % 2 # 1 /\ 2 \in 1..(2 * m - 1)
      BY <1>6
    <3> QED
      BY <1>2, <3>1
  <2>2. PICK t \in Seq(Nat) : t = Tail(p) /\ Len(t) = m - 1 /\ \A i \in 1..(m - 1) : t[i] = p[i + 1]
    <3>1. p # <<>> /\ Len(p) - 1 = m - 1
      BY <1>1, EmptySeq
    <3>2. Tail(p) \in Seq(Nat) /\ Len(Tail(p)) = Len(p) - 1 /\ \A i \in 1..(Len(p) - 1) : Tail(p)[i] = p[i + 1]
      BY <3>1, HeadTailProperties
    <3> QED
      BY <3>1, <3>2
  <2>3. \A i \in 1..(2 * m - 3) : UnityParts(t)[i] = IF i % 2 = 1 THEN t[(i + 1) \div 2] ELSE 1
    <3>1. 2 * Len(t) - 1 = 2 * m - 3
      BY <2>2
    <3> QED
      BY <3>1 DEF UnityParts
  <2>4. ASSUME NEW i \in 1..(2 * m - 3)
        PROVE  UnityParts(t)[i] = UnityParts(p)[i + 2]
    <3>1. i + 2 \in 1..(2 * m - 1) /\ (i + 2) % 2 = i % 2
      OBVIOUS
    <3>2. (i + 1) \div 2 \in 1..(m - 1) /\ ((i + 2) + 1) \div 2 = (i + 1) \div 2 + 1
      OBVIOUS
    <3> QED
      BY <1>2, <2>2, <2>3, <3>1, <3>2
  <2> QED
    BY <2>1, <2>2, <2>4
<1> QED
  BY <1>1, <1>4, <1>5, <1>6

\* The fraction is what the reduction ends with, part by part.
LEMMA ReducedAre ==
    ASSUME NEW p \in Seq(Nat), Len(p) > 0
    PROVE  \E f \in [0..(2 * Len(p) - 2) -> Fractions] :
              /\ f[0] = Fraction(p[Len(p)], 1)
              /\ \A k \in 1..(2 * Len(p) - 2) :
                    f[k] = Reduce(UnityParts(p)[2 * Len(p) - 1 - k], f[k - 1])
              /\ Encoding(p) = f[2 * Len(p) - 2]
<1>0. PICK parts : parts = UnityParts(p)
  OBVIOUS
<1>1. PICK last \in Nat, n \in Nat :
         /\ last = 2 * Len(p) - 1 /\ n = last - 1 /\ n = 2 * Len(p) - 2
         /\ parts = UnityParts(p)
  BY <1>0
<1>2. (\A i \in 1..last : parts[i] \in Nat) /\ parts[last] = p[Len(p)]
  BY <1>1, PartsAre
<1>3. PICK X, V : X = Fraction(parts[last], 1) /\ V = Fractions
  OBVIOUS
<1>4. X \in V
  BY <1>1, <1>2, <1>3 DEF Fraction, Fractions
<1>5. PICK T : T = [a \in (1..n) \X V |-> Reduce(parts[last - a[1]], a[2])]
  OBVIOUS
<1>6. \A k \in 1..n, x \in V : T[<<k, x>>] = Reduce(parts[last - k], x)
  BY <1>5
<1>7. StepsOf(n, V, T)
  <2>1. ASSUME NEW k \in 1..n, NEW x \in V
        PROVE  Reduce(parts[last - k], x) \in V
    <3>1. last - k \in 1..last
      BY <1>1
    <3>2. parts[last - k] \in Nat
      BY <1>2, <3>1
    <3>3. PICK a \in Nat : a = parts[last - k]
      BY <3>2
    <3>4. PICK c \in Nat, d \in Nat : c = x.numerator /\ d = x.denominator
      BY <1>3 DEF Fractions
    <3>5. a * c \in Nat
      OBVIOUS
    <3>6. a * c + d \in Nat
      BY <3>5
    <3> QED
      BY <1>3, <3>3, <3>4, <3>6 DEF Reduce, Fraction, Fractions
  <2>2. \A a \in (1..n) \X V : Reduce(parts[last - a[1]], a[2]) \in V
    BY <2>1
  <2> QED
    BY <1>5, <2>2 DEF StepsOf
<1>8. PICK f \in [0..n -> V] : f[0] = X /\ \A k \in 1..n : f[k] = T[<<k, f[k - 1]>>]
  <2>1. n \in Nat /\ X \in V /\ StepsOf(n, V, T)
    BY <1>4, <1>7
  <2>2. Walks(n, V, T, X) # {}
    BY <2>1, Recursion
  <2> QED
    BY <2>2 DEF Walks
<1>9. ASSUME NEW k \in 1..n
      PROVE  f[k] = Reduce(parts[last - k], f[k - 1])
  <2>1. k - 1 \in 0..n /\ f[k - 1] \in V
    OBVIOUS
  <2> QED
    BY <1>6, <1>8, <2>1
<1> DEFINE Is(g) == g = [k \in 0..n |->
               IF k = 0 THEN Fraction(parts[last], 1) ELSE Reduce(parts[last - k], g[k - 1])]
<1>10. Is(f)
  BY <1>3, <1>8, <1>9
<1>11. PICK h : h = CHOOSE g : Is(g)
  OBVIOUS
<1>12. Is(h)
  <2> HIDE DEF Is
  <2> QED
    BY <1>10, <1>11
<1>13. Encoding(p) = h[n]
  BY <1>1, <1>11 DEF Encoding
<1>14. h[0] = X /\ \A k \in 1..n : h[k] = Reduce(parts[last - k], h[k - 1])
  BY <1>3, <1>12
<1>15. \A k \in 0..n : f[k] = h[k]
  <2> DEFINE G == {k \in 0..n : f[k] = h[k]}
  <2>1. 0 \in G
    BY <1>8, <1>14
  <2>2. ASSUME NEW k \in 0..(n - 1), k \in G
        PROVE  k + 1 \in G
    <3>1. k + 1 \in 1..n /\ (k + 1) - 1 = k
      OBVIOUS
    <3> QED
      BY <2>2, <3>1, <1>9, <1>14
  <2> HIDE DEF G
  <2>3. \A k \in 0..n : k \in G
    BY <2>1, <2>2, UpTo
  <2> QED
    BY <2>3 DEF G
<1>16. f[0] = Fraction(p[Len(p)], 1) /\ Encoding(p) = f[n]
  BY <1>1, <1>2, <1>3, <1>8, <1>13, <1>15
<1> QED
  BY <1>1, <1>3, <1>8, <1>9, <1>16

\* The fraction by its first position: two steps of the reduction are left when
\* what is behind it is reduced.
LEMMA EncodingIs ==
    ASSUME NEW p \in Seq(Nat), Len(p) > 0
    PROVE  /\ Encoding(p) \in Fractions
           /\ Len(p) = 1 => Encoding(p) = Fraction(p[1], 1)
           /\ Len(p) > 1 => Encoding(p) = Reduce(p[1], Reduce(1, Encoding(Tail(p))))
<1>1. PICK m \in Nat : m = Len(p) /\ m > 0
  OBVIOUS
<1>2. PICK f \in [0..(2 * m - 2) -> Fractions] :
         /\ f[0] = Fraction(p[m], 1)
         /\ \A k \in 1..(2 * m - 2) : f[k] = Reduce(UnityParts(p)[2 * m - 1 - k], f[k - 1])
         /\ Encoding(p) = f[2 * m - 2]
  BY <1>1, ReducedAre
<1>3. Encoding(p) \in Fractions
  <2>1. 2 * m - 2 \in 0..(2 * m - 2)
    BY <1>1
  <2> QED
    BY <1>2, <2>1
<1>4. ASSUME m = 1
      PROVE  Encoding(p) = Fraction(p[1], 1)
  BY <1>2, <1>4
<1>5. ASSUME m > 1
      PROVE  Encoding(p) = Reduce(p[1], Reduce(1, Encoding(Tail(p))))
  <2>1. PICK t \in Seq(Nat) : t = Tail(p) /\ Len(t) = m - 1 /\ t[m - 1] = p[m]
    <3>1. /\ Tail(p) \in Seq(Nat) /\ Len(Tail(p)) = Len(p) - 1
          /\ \A i \in 1..(Len(p) - 1) : Tail(p)[i] = p[i + 1]
      BY <1>1, <1>5, TailOf
    <3>2. Len(p) - 1 = m - 1 /\ m - 1 \in 1..(m - 1) /\ (m - 1) + 1 = m
      BY <1>1, <1>5
    <3>3. Tail(p)[m - 1] = p[m]
      BY ONLY <3>1, <3>2
    <3> QED
      BY ONLY <3>1, <3>2, <3>3
  <2>2. PICK n \in Nat : n = 2 * m - 4 /\ n = 2 * Len(t) - 2
    BY <1>5, <2>1
  <2>3. PICK g \in [0..n -> Fractions] :
           /\ g[0] = Fraction(t[m - 1], 1)
           /\ \A k \in 1..n : g[k] = Reduce(UnityParts(t)[2 * Len(t) - 1 - k], g[k - 1])
           /\ Encoding(t) = g[n]
    <3>1. Len(t) > 0
      BY <1>5, <2>1
    <3>2. \E g \in [0..(2 * Len(t) - 2) -> Fractions] :
             /\ g[0] = Fraction(t[Len(t)], 1)
             /\ \A k \in 1..(2 * Len(t) - 2) : g[k] = Reduce(UnityParts(t)[2 * Len(t) - 1 - k], g[k - 1])
             /\ Encoding(t) = g[2 * Len(t) - 2]
      BY <3>1, ReducedAre
    <3> QED
      BY <2>1, <2>2, <3>2
  <2>4. \A i \in 1..(2 * m - 3) : UnityParts(t)[i] = UnityParts(p)[i + 2]
    BY <1>1, <1>5, <2>1, PartsAre
  <2>5. ASSUME NEW k \in 1..n
        PROVE  g[k] = Reduce(UnityParts(p)[2 * m - 1 - k], g[k - 1])
    <3>1. 2 * Len(t) - 1 - k \in 1..(2 * m - 3) /\ (2 * Len(t) - 1 - k) + 2 = 2 * m - 1 - k
      BY <1>1, <1>5, <2>1, <2>2
    <3> QED
      BY <2>3, <2>4, <3>1
  <2> DEFINE G == {k \in 0..n : f[k] = g[k]}
  <2>6. \A k \in 0..n : k \in G
    <3>1. 0 \in G
      <4>1. f[0] = g[0]
        BY <1>2, <2>1, <2>3
      <4> QED
        BY <4>1
    <3>2. ASSUME NEW k \in 0..(n - 1), k \in G
          PROVE  k + 1 \in G
      <4>1. k + 1 \in 1..n /\ k + 1 \in 1..(2 * m - 2) /\ (k + 1) - 1 = k
        BY <2>2
      <4> QED
        BY <3>2, <4>1, <1>2, <2>5
    <3> HIDE DEF G
    <3> QED
      BY <3>1, <3>2, UpTo
  <2>7. f[n] = Encoding(t)
    BY <2>3, <2>6
  <2>8. /\ n + 1 \in 1..(2 * m - 2) /\ (n + 1) - 1 = n /\ 2 * m - 1 - (n + 1) = 2
        /\ n + 2 \in 1..(2 * m - 2) /\ (n + 2) - 1 = n + 1 /\ 2 * m - 1 - (n + 2) = 1
        /\ n + 2 = 2 * m - 2
    BY <1>5, <2>2
  <2>9. UnityParts(p)[2] = 1 /\ UnityParts(p)[1] = p[1]
    BY <1>1, <1>5, PartsAre
  <2>10. f[n + 1] = Reduce(1, Encoding(t))
    <3>1. f[n + 1] = Reduce(UnityParts(p)[2 * m - 1 - (n + 1)], f[(n + 1) - 1])
      BY <1>2, <2>8
    <3> QED
      BY <2>7, <2>8, <2>9, <3>1
  <2>11. f[n + 2] = Reduce(p[1], f[n + 1])
    <3>1. f[n + 2] = Reduce(UnityParts(p)[2 * m - 1 - (n + 2)], f[(n + 2) - 1])
      BY <1>2, <2>8
    <3> QED
      BY <2>8, <2>9, <3>1
  <2> QED
    BY <1>2, <2>1, <2>8, <2>10, <2>11
<1> QED
  BY <1>1, <1>3, <1>4, <1>5

-----------------------------------------------------------------------------
(* One fraction behind a position, and the order of fractions.               *)

Positions == Nat \ {0}

Proper == [numerator : Positions, denominator : Positions]

Lift(a, e) == Reduce(a, Reduce(1, e))

\* The numbers of a fraction behind a position.
LEMMA LiftIs ==
    ASSUME NEW a \in Positions, NEW e \in Proper
    PROVE  /\ Lift(a, e) \in Proper
           /\ Lift(a, e).denominator = e.numerator + e.denominator
           /\ Lift(a, e).numerator = a * (e.numerator + e.denominator) + e.numerator
<1>1. PICK n \in Positions, d \in Positions : n = e.numerator /\ d = e.denominator
  BY DEF Proper
<1>2. Reduce(1, e) = Fraction(n + d, n)
  <2>1. 1 * n = n
    BY DEF Positions
  <2> QED
    BY <1>1, <2>1 DEF Reduce
<1>3. Lift(a, e) = Fraction(a * (n + d) + n, n + d)
  BY <1>2 DEF Lift, Reduce, Fraction
<1>4. n + d \in Positions /\ a * (n + d) \in Nat
  BY DEF Positions
<1>5. a * (n + d) + n \in Positions
  BY <1>4 DEF Positions
<1> QED
  BY <1>1, <1>3, <1>4, <1>5 DEF Fraction, Proper

\* It lies between its position and the next one.
LEMMA LiftBetween ==
    ASSUME NEW a \in Positions, NEW e \in Proper, NEW b \in Positions
    PROVE  /\ AtMost(Fraction(b, 1), Lift(a, e)) <=> b <= a
           /\ Below(Fraction(b, 1), Lift(a, e)) <=> b <= a
           /\ AtMost(Lift(a, e), Fraction(b, 1)) <=> a < b
           /\ Below(Lift(a, e), Fraction(b, 1)) <=> a < b
<1>1. PICK n \in Positions, d \in Positions : n = e.numerator /\ d = e.denominator
  BY DEF Proper
<1>2. PICK c \in Positions : c = n + d /\ n < c
  BY DEF Positions
<1>3. PICK m \in Positions : m = a * c + n
  <2>1. a * c \in Nat
    BY DEF Positions
  <2> QED
    BY <2>1 DEF Positions
<1>4. Lift(a, e).denominator = c /\ Lift(a, e).numerator = m
  BY <1>1, <1>2, <1>3, LiftIs
<1>5. b <= a => b * c <= a * c
  BY DEF Positions
<1>6. a < b => a * c + c <= b * c
  BY DEF Positions
<1>7. a * c \in Nat /\ b * c \in Nat
  BY DEF Positions
<1>8. (b <= a => b * c < m) /\ (a < b => m < b * c)
  BY <1>2, <1>3, <1>5, <1>6, <1>7 DEF Positions
<1>9. m * 1 = m
  BY DEF Positions
<1>10. (b <= a \/ a < b) /\ ~ (b <= a /\ a < b)
  BY DEF Positions
<1>11. (b * c <= m <=> b <= a) /\ (b * c < m <=> b <= a) /\ (m <= b * c <=> a < b) /\ (m < b * c <=> a < b)
  BY <1>7, <1>8, <1>10 DEF Positions
<1>12. Fraction(b, 1).numerator = b /\ Fraction(b, 1).denominator = 1
  BY DEF Fraction
<1> QED
  BY <1>4, <1>9, <1>11, <1>12 DEF AtMost, Below

\* Another position goes before all that is behind.
LEMMA LiftApart ==
    ASSUME NEW a \in Positions, NEW b \in Positions, a < b, NEW e \in Proper, NEW f \in Proper
    PROVE  Below(Lift(a, e), Lift(b, f)) /\ ~ AtMost(Lift(b, f), Lift(a, e))
<1>1. PICK n \in Positions, d \in Positions, m \in Positions, c \in Positions :
         /\ n = Lift(a, e).numerator /\ d = Lift(a, e).denominator
         /\ m = Lift(b, f).numerator /\ c = Lift(b, f).denominator
  BY LiftIs DEF Proper
<1>2. n < b * d
  <2>1. Below(Lift(a, e), Fraction(b, 1))
    BY LiftBetween
  <2>2. n * 1 = n
    BY DEF Positions
  <2> QED
    BY <1>1, <2>1, <2>2 DEF Below, Fraction
<1>3. b * c < m
  <2>1. Below(Fraction(b, 1), Lift(b, f))
    BY LiftBetween DEF Positions
  <2>2. m * 1 = m
    BY DEF Positions
  <2> QED
    BY <1>1, <2>1, <2>2 DEF Below, Fraction
<1>4. n * c < (b * d) * c
  BY <1>2 DEF Positions
<1>5. (b * c) * d < m * d
  BY <1>3 DEF Positions
<1>6. (b * d) * c = (b * c) * d
  BY DEF Positions
<1>7. n * c \in Nat /\ m * d \in Nat /\ (b * c) * d \in Nat
  BY DEF Positions
<1>8. n * c < m * d
  BY <1>4, <1>5, <1>6, <1>7
<1> QED
  BY <1>1, <1>7, <1>8 DEF Below, AtMost

\* Behind the same position the order is the same.
LEMMA LiftOrder ==
    ASSUME NEW a \in Positions, NEW e \in Proper, NEW f \in Proper
    PROVE  /\ AtMost(Lift(a, e), Lift(a, f)) <=> AtMost(e, f)
           /\ Below(Lift(a, e), Lift(a, f)) <=> Below(e, f)
<1>1. PICK n \in Nat, d \in Nat, m \in Nat, c \in Nat, u \in Nat :
         n = e.numerator /\ d = e.denominator /\ m = f.numerator /\ c = f.denominator /\ u = a
  BY DEF Proper, Positions
<1>2. \A n1, d1, n2, d2, x \in Nat :
         (x * (n1 + d1) + n1) * (n2 + d2) <= (x * (n2 + d2) + n2) * (n1 + d1) <=> n1 * d2 <= n2 * d1
  OBVIOUS
<1>3. \A n1, d1, n2, d2, x \in Nat :
         (x * (n1 + d1) + n1) * (n2 + d2) < (x * (n2 + d2) + n2) * (n1 + d1) <=> n1 * d2 < n2 * d1
  OBVIOUS
<1>4. /\ Lift(a, e).denominator = n + d /\ Lift(a, e).numerator = u * (n + d) + n
      /\ Lift(a, f).denominator = m + c /\ Lift(a, f).numerator = u * (m + c) + m
  BY <1>1, LiftIs
<1>5. (u * (n + d) + n) * (m + c) <= (u * (m + c) + m) * (n + d) <=> n * c <= m * d
  BY <1>2
<1>6. (u * (n + d) + n) * (m + c) < (u * (m + c) + m) * (n + d) <=> n * c < m * d
  BY <1>3
<1> QED
  BY <1>1, <1>4, <1>5, <1>6 DEF AtMost, Below

\* Below is at most and not the other way round.
LEMMA StrictOrder ==
    ASSUME NEW e \in Proper, NEW f \in Proper
    PROVE  (Below(e, f) <=> ~ AtMost(f, e)) /\ (Below(e, f) => AtMost(e, f))
<1>1. PICK n \in Positions, d \in Positions, m \in Positions, c \in Positions :
         n = e.numerator /\ d = e.denominator /\ m = f.numerator /\ c = f.denominator
  BY DEF Proper
<1>2. n * c \in Nat /\ m * d \in Nat
  BY DEF Positions
<1> QED
  BY <1>1, <1>2 DEF Below, AtMost

-----------------------------------------------------------------------------
(* Places, their heads and their tails.                                      *)

\* The same head and the same tail make the same place.
LEMMA SameParts ==
    ASSUME NEW S, NEW p \in Seq(S), NEW q \in Seq(S), Len(p) > 1, Len(q) > 1,
           p[1] = q[1], Tail(p) = Tail(q)
    PROVE  p = q
<1>1. PICK m \in Nat : m = Len(p) /\ m > 1 /\ Len(q) = m
  <2>1. Len(Tail(p)) = Len(p) - 1 /\ Len(Tail(q)) = Len(q) - 1
    BY TailOf
  <2>2. Len(p) \in Nat /\ Len(q) \in Nat
    OBVIOUS
  <2> QED
    BY <2>1, <2>2
<1>2. ASSUME NEW i \in 1..m
      PROVE  p[i] = q[i]
  <2>1. CASE i = 1
    BY <2>1
  <2>2. CASE i > 1
    <3>1. PICK j \in 1..(m - 1) : j + 1 = i
      BY <2>2
    <3>2. Tail(p)[j] = p[j + 1] /\ Tail(q)[j] = q[j + 1]
      BY <1>1, TailOf
    <3> QED
      BY <3>1, <3>2
  <2> QED
    BY <2>1, <2>2
<1> QED
  BY <1>1, <1>2, SeqEqual

\* To be a prefix, by the first positions and what is behind them.
LEMMA PrefixByTail ==
    ASSUME NEW S, NEW p \in Seq(S), NEW q \in Seq(S), Len(p) > 0, Len(q) > 0
    PROVE  /\ Len(p) = 1 => (IsPrefix(p, q) <=> p[1] = q[1])
           /\ Len(p) = 1 => (IsStrictPrefix(p, q) <=> Len(q) > 1 /\ p[1] = q[1])
           /\ Len(p) > 1 /\ Len(q) = 1 => ~ IsPrefix(p, q) /\ ~ IsStrictPrefix(p, q)
           /\ Len(p) > 1 /\ Len(q) > 1 =>
                 /\ IsPrefix(p, q) <=> p[1] = q[1] /\ IsPrefix(Tail(p), Tail(q))
                 /\ IsStrictPrefix(p, q) <=> p[1] = q[1] /\ IsStrictPrefix(Tail(p), Tail(q))
<1>1. PICK n \in Nat, m \in Nat : n = Len(p) /\ m = Len(q) /\ n > 0 /\ m > 0
  OBVIOUS
<1>2. IsPrefix(p, q) <=> n <= m /\ \A i \in 1..n : p[i] = q[i]
  BY <1>1, PrefixIs
<1>3. IsStrictPrefix(p, q) <=> n < m /\ \A i \in 1..n : p[i] = q[i]
  BY <1>1, StrictPrefixIs
<1>4. ASSUME n > 1, m > 1
      PROVE  /\ IsPrefix(p, q) <=> p[1] = q[1] /\ IsPrefix(Tail(p), Tail(q))
             /\ IsStrictPrefix(p, q) <=> p[1] = q[1] /\ IsStrictPrefix(Tail(p), Tail(q))
  <2>1. PICK s \in Seq(S) : s = Tail(p) /\ Len(s) = n - 1 /\ \A i \in 1..(n - 1) : s[i] = p[i + 1]
    <3>1. Len(p) > 1
      BY <1>1, <1>4
    <3>2. /\ Tail(p) \in Seq(S) /\ Len(Tail(p)) = Len(p) - 1
          /\ \A i \in 1..(Len(p) - 1) : Tail(p)[i] = p[i + 1]
      BY ONLY <3>1, TailOf, p \in Seq(S)
    <3> QED
      BY ONLY <1>1, <3>2
  <2>2. PICK t \in Seq(S) : t = Tail(q) /\ Len(t) = m - 1 /\ \A i \in 1..(m - 1) : t[i] = q[i + 1]
    <3>1. Len(q) > 1
      BY <1>1, <1>4
    <3>2. /\ Tail(q) \in Seq(S) /\ Len(Tail(q)) = Len(q) - 1
          /\ \A i \in 1..(Len(q) - 1) : Tail(q)[i] = q[i + 1]
      BY ONLY <3>1, TailOf, q \in Seq(S)
    <3> QED
      BY ONLY <1>1, <3>2
  <2>3. IsPrefix(s, t) <=> n - 1 <= m - 1 /\ \A i \in 1..(n - 1) : s[i] = t[i]
    <3>1. IsPrefix(s, t) <=> Len(s) <= Len(t) /\ \A i \in 1..Len(s) : s[i] = t[i]
      BY PrefixIs
    <3> QED
      BY <2>1, <2>2, <3>1
  <2>4. IsStrictPrefix(s, t) <=> n - 1 < m - 1 /\ \A i \in 1..(n - 1) : s[i] = t[i]
    <3>1. IsStrictPrefix(s, t) <=> Len(s) < Len(t) /\ \A i \in 1..Len(s) : s[i] = t[i]
      BY StrictPrefixIs
    <3> QED
      BY <2>1, <2>2, <3>1
  <2>5. ASSUME n <= m
        PROVE  (\A i \in 1..n : p[i] = q[i]) <=> p[1] = q[1] /\ \A i \in 1..(n - 1) : s[i] = t[i]
    <3>1. ASSUME \A i \in 1..n : p[i] = q[i]
          PROVE  p[1] = q[1] /\ \A i \in 1..(n - 1) : s[i] = t[i]
      <4>1. \A i \in 1..(n - 1) : i + 1 \in 1..n /\ i \in 1..(m - 1)
        BY <2>5
      <4>2. 1 \in 1..n
        BY <1>1
      <4> QED
        BY <2>1, <2>2, <3>1, <4>1, <4>2
    <3>2. ASSUME p[1] = q[1], \A i \in 1..(n - 1) : s[i] = t[i], NEW i \in 1..n
          PROVE  p[i] = q[i]
      <4>1. CASE i = 1
        BY <3>2, <4>1
      <4>2. CASE i > 1
        <5>1. PICK j \in 1..(n - 1) : j + 1 = i /\ j \in 1..(m - 1)
          BY <4>2, <2>5
        <5> QED
          BY <2>1, <2>2, <3>2, <5>1
      <4> QED
        BY <4>1, <4>2
    <3> QED
      BY <3>1, <3>2
  <2> QED
    BY <1>2, <1>3, <2>1, <2>2, <2>3, <2>4, <2>5
<1>5. ASSUME n = 1
      PROVE  (\A i \in 1..n : p[i] = q[i]) <=> p[1] = q[1]
  BY <1>5
<1> QED
  BY <1>1, <1>2, <1>3, <1>4, <1>5

\* The next sibling has the same parent.
LEMMA SiblingIs ==
    ASSUME NEW p \in Seq(Positions), Len(p) > 0
    PROVE  /\ NextSibling(p) \in Seq(Positions)
           /\ Len(NextSibling(p)) = Len(p)
           /\ NextSibling(p)[Len(p)] = p[Len(p)] + 1
           /\ \A i \in 1..(Len(p) - 1) : NextSibling(p)[i] = p[i]
<1>1. PICK n \in Nat : n = Len(p) /\ n > 0
  OBVIOUS
<1>2. PICK f : f = Front(p)
  OBVIOUS
<1>3. f \in Seq(Positions) /\ Len(f) = n - 1 /\ \A i \in 1..(n - 1) : f[i] = p[i]
  BY <1>1, <1>2 DEF Front
<1>4. PICK l \in Positions : l = p[n] /\ l + 1 \in Positions
  BY <1>1 DEF Positions
<1>5. NextSibling(p) = Append(f, l + 1)
  BY <1>1, <1>2, <1>4 DEF NextSibling, Last
<1>6. /\ Append(f, l + 1) \in Seq(Positions) /\ Len(Append(f, l + 1)) = Len(f) + 1
      /\ Append(f, l + 1)[Len(f) + 1] = l + 1
      /\ \A i \in 1..Len(f) : Append(f, l + 1)[i] = f[i]
  BY <1>3, <1>4, AppendProperties
<1>7. Len(f) + 1 = n
  BY <1>3
<1> QED
  BY <1>1, <1>3, <1>4, <1>5, <1>6, <1>7

\* What is behind the first position of a sibling is the sibling of what is
\* behind it.
LEMMA SiblingTail ==
    ASSUME NEW p \in Seq(Positions), Len(p) > 1
    PROVE  NextSibling(p)[1] = p[1] /\ Tail(NextSibling(p)) = NextSibling(Tail(p))
<1>1. PICK n \in Nat : n = Len(p) /\ n > 1 /\ n > 0
  OBVIOUS
<1>2. PICK s \in Seq(Positions) : s = NextSibling(p) /\ Len(s) = n /\ s[n] = p[n] + 1
                                  /\ \A i \in 1..(n - 1) : s[i] = p[i]
  BY <1>1, SiblingIs
<1>3. PICK t \in Seq(Positions) : t = Tail(p) /\ Len(t) = n - 1 /\ n - 1 > 0
                                  /\ \A i \in 1..(n - 1) : t[i] = p[i + 1]
  <2>1. /\ Tail(p) \in Seq(Positions) /\ Len(Tail(p)) = Len(p) - 1
        /\ \A i \in 1..(Len(p) - 1) : Tail(p)[i] = p[i + 1]
    BY TailOf
  <2>2. n - 1 > 0
    BY <1>1
  <2>3. Len(Tail(p)) = n - 1 /\ \A i \in 1..(n - 1) : Tail(p)[i] = p[i + 1]
    BY ONLY <1>1, <2>1
  <2> QED
    BY ONLY <2>1, <2>2, <2>3, Zenon
<1>4. PICK u \in Seq(Positions) : u = NextSibling(t) /\ Len(u) = n - 1 /\ u[n - 1] = t[n - 1] + 1
                                  /\ \A i \in 1..(n - 2) : u[i] = t[i]
  <2>1. Len(t) > 0 /\ Len(t) - 1 = n - 2
    BY <1>1, <1>3
  <2>2. /\ NextSibling(t) \in Seq(Positions) /\ Len(NextSibling(t)) = Len(t)
        /\ NextSibling(t)[Len(t)] = t[Len(t)] + 1
        /\ \A i \in 1..(Len(t) - 1) : NextSibling(t)[i] = t[i]
    BY <2>1, SiblingIs
  <2> QED
    BY ONLY <1>3, <2>1, <2>2
<1>5. PICK v \in Seq(Positions) : v = Tail(s) /\ Len(v) = n - 1 /\ \A i \in 1..(n - 1) : v[i] = s[i + 1]
  <2>1. Len(s) > 1
    BY <1>1, <1>2
  <2>2. /\ Tail(s) \in Seq(Positions) /\ Len(Tail(s)) = Len(s) - 1
        /\ \A i \in 1..(Len(s) - 1) : Tail(s)[i] = s[i + 1]
    BY <2>1, TailOf
  <2> QED
    BY ONLY <1>2, <2>2
<1>6. ASSUME NEW i \in 1..(n - 1)
      PROVE  v[i] = u[i]
  <2>1. CASE i = n - 1
    <3>1. i + 1 = n
      BY <2>1
    <3> QED
      BY <1>2, <1>3, <1>4, <1>5, <2>1, <3>1
  <2>2. CASE i < n - 1
    <3>1. i + 1 \in 1..(n - 1) /\ i \in 1..(n - 2)
      BY <2>2
    <3> QED
      BY <1>2, <1>3, <1>4, <1>5, <3>1
  <2> QED
    BY <2>1, <2>2
<1>7. v = u
  BY <1>4, <1>5, <1>6, SeqEqual
<1>8. 1 \in 1..(n - 1)
  BY <1>1
<1> QED
  BY <1>2, <1>3, <1>4, <1>5, <1>7, <1>8

-----------------------------------------------------------------------------
(* The nested set.                                                           *)

\* Every place has a fraction, and one with more behind its first position that
\* of the rest behind it.
LEMMA EncodingByTail ==
    ASSUME NEW p \in Seq(Positions), Len(p) > 0
    PROVE  /\ Encoding(p) \in Proper
           /\ Len(p) = 1 => Encoding(p) = Fraction(p[1], 1)
           /\ Len(p) > 1 => /\ Encoding(Tail(p)) \in Proper
                            /\ Encoding(p) = Lift(p[1], Encoding(Tail(p)))
<1>1. ASSUME NEW q \in Seq(Positions), Len(q) > 0
      PROVE  /\ Len(q) = 1 => Encoding(q) = Fraction(q[1], 1)
             /\ Len(q) > 1 => Encoding(q) = Lift(q[1], Encoding(Tail(q)))
  <2>1. q \in Seq(Nat)
    BY DEF Positions
  <2> QED
    BY <1>1, <2>1, EncodingIs DEF Lift
<1> DEFINE Even(n) == \A q \in Seq(Positions) : Len(q) = n + 1 => Encoding(q) \in Proper
           G == {n \in Nat : Even(n)}
<1>2. 0 \in G
  <2>1. ASSUME NEW q \in Seq(Positions), Len(q) = 0 + 1
        PROVE  Encoding(q) \in Proper
    <3>1. Len(q) = 1 /\ Len(q) > 0
      BY <2>1
    <3>2. Encoding(q) = Fraction(q[1], 1)
      BY <1>1, <3>1
    <3>3. q[1] \in Positions
      BY <3>1
    <3> QED
      BY <3>2, <3>3 DEF Fraction, Proper, Positions
  <2> QED
    BY <2>1
<1>3. ASSUME NEW n \in Nat, n \in G
      PROVE  n + 1 \in G
  <2>1. ASSUME NEW q \in Seq(Positions), Len(q) = (n + 1) + 1
        PROVE  Encoding(q) \in Proper
    <3>1. Len(q) > 1 /\ Len(q) > 0 /\ Len(q) - 1 = n + 1
      BY <2>1
    <3>2. Tail(q) \in Seq(Positions) /\ Len(Tail(q)) = n + 1 /\ q[1] \in Positions
      BY <3>1, TailOf
    <3>3. Encoding(Tail(q)) \in Proper
      BY <1>3, <3>2
    <3>4. Encoding(q) = Lift(q[1], Encoding(Tail(q)))
      BY <1>1, <3>1
    <3> QED
      BY <3>2, <3>3, <3>4, LiftIs
  <2> QED
    BY <2>1
<1>4. ASSUME NEW q \in Seq(Positions), Len(q) > 0
      PROVE  Encoding(q) \in Proper
  <2>1. PICK n \in Nat : Len(q) = n + 1
    <3>1. Len(q) - 1 \in Nat /\ (Len(q) - 1) + 1 = Len(q)
      BY <1>4
    <3> QED
      BY <3>1
  <2>2. n \in G
    <3>1. \A k \in 0..n : k \in G
      <4>1. \A k \in 0..(n - 1) : k \in G => k + 1 \in G
        BY <1>3
      <4> HIDE DEF G
      <4> QED
        BY <1>2, <4>1, UpTo
    <3> QED
      BY <3>1
  <2> QED
    BY <2>1, <2>2
<1>5. Len(p) > 1 => Tail(p) \in Seq(Positions) /\ Len(Tail(p)) > 0
  BY TailOf
<1> QED
  BY <1>1, <1>4, <1>5

\* The two ends of a place: of a root its position and the next, of any other
\* those of what is behind its first position, lifted.
LEMMA EndsAre ==
    ASSUME NEW p \in Seq(Positions), Len(p) > 0
    PROVE  /\ LeftOf(p) \in Proper /\ RightOf(p) \in Proper
           /\ Len(p) = 1 => LeftOf(p) = Fraction(p[1], 1) /\ RightOf(p) = Fraction(p[1] + 1, 1)
           /\ Len(p) > 1 => /\ LeftOf(Tail(p)) \in Proper /\ RightOf(Tail(p)) \in Proper
                            /\ LeftOf(p) = Lift(p[1], LeftOf(Tail(p)))
                            /\ RightOf(p) = Lift(p[1], RightOf(Tail(p)))
<1>1. PICK s \in Seq(Positions) : s = NextSibling(p) /\ Len(s) = Len(p) /\ Len(s) > 0
                                  /\ s[Len(p)] = p[Len(p)] + 1
  BY SiblingIs
<1>2. Encoding(p) \in Proper /\ Encoding(s) \in Proper
  BY <1>1, EncodingByTail
<1>3. ASSUME Len(p) = 1
      PROVE  Encoding(p) = Fraction(p[1], 1) /\ Encoding(s) = Fraction(p[1] + 1, 1)
  <2>1. Len(s) = 1 /\ s[1] = p[1] + 1
    BY <1>1, <1>3
  <2>2. Encoding(s) = Fraction(s[1], 1) /\ Encoding(p) = Fraction(p[1], 1)
    BY <1>1, <1>3, <2>1, EncodingByTail
  <2> QED
    BY <2>1, <2>2
<1>4. ASSUME Len(p) > 1
      PROVE  /\ Encoding(Tail(p)) \in Proper /\ Encoding(NextSibling(Tail(p))) \in Proper
             /\ Encoding(p) = Lift(p[1], Encoding(Tail(p)))
             /\ Encoding(s) = Lift(p[1], Encoding(NextSibling(Tail(p))))
  <2>1. s[1] = p[1] /\ Tail(s) = NextSibling(Tail(p)) /\ Len(s) > 1
    BY <1>1, <1>4, SiblingTail
  <2>2. Encoding(p) = Lift(p[1], Encoding(Tail(p))) /\ Encoding(Tail(p)) \in Proper
    BY <1>4, EncodingByTail
  <2>3. Encoding(s) = Lift(s[1], Encoding(Tail(s))) /\ Encoding(Tail(s)) \in Proper
    BY <1>1, <2>1, EncodingByTail
  <2> QED
    BY <2>1, <2>2, <2>3
<1> QED
  BY <1>1, <1>2, <1>3, <1>4 DEF LeftOf, RightOf

\* One place within another, by the fractions and by the positions.
Within(p, q) ==
    /\ AtMost(LeftOf(p), LeftOf(q)) /\ AtMost(RightOf(q), RightOf(p)) <=> IsPrefix(p, q)
    /\ Below(LeftOf(p), LeftOf(q)) /\ Below(RightOf(q), RightOf(p)) <=> IsStrictPrefix(p, q)

\* What lies within a root is what begins with its position.
LEMMA RootsWithin ==
    ASSUME NEW p \in Seq(Positions), Len(p) = 1, NEW q \in Seq(Positions), Len(q) > 0
    PROVE  Within(p, q)
<1>1. PICK a \in Positions, b \in Positions : a = p[1] /\ b = q[1] /\ a + 1 \in Positions /\ b + 1 \in Positions
  <2>1. p[1] \in Positions /\ q[1] \in Positions
    <3>1. Len(p) \in Nat /\ Len(q) \in Nat
      BY LenProperties
    <3>2. 1 \in 1..Len(p) /\ 1 \in 1..Len(q)
      BY <3>1
    <3> QED
      BY <3>2, ElementOfSeq
  <2> QED
    BY <2>1 DEF Positions
<1>2. LeftOf(p) = Fraction(a, 1) /\ RightOf(p) = Fraction(a + 1, 1)
  <2>1. Len(p) > 0
    OBVIOUS
  <2>2. LeftOf(p) = Fraction(p[1], 1) /\ RightOf(p) = Fraction(p[1] + 1, 1)
    BY <2>1, EndsAre
  <2> QED
    BY <1>1, <2>2
<1>3. (IsPrefix(p, q) <=> a = b) /\ (IsStrictPrefix(p, q) <=> Len(q) > 1 /\ a = b)
  <2>1. Len(p) > 0
    OBVIOUS
  <2> QED
    BY <1>1, <2>1, PrefixByTail
<1>4. CASE Len(q) = 1
  <2>1. LeftOf(q) = Fraction(b, 1) /\ RightOf(q) = Fraction(b + 1, 1)
    BY <1>1, <1>4, EndsAre
  <2>2. ASSUME NEW x \in Positions, NEW y \in Positions
        PROVE  /\ AtMost(Fraction(x, 1), Fraction(y, 1)) <=> x <= y
               /\ Below(Fraction(x, 1), Fraction(y, 1)) <=> x < y
    <3>1. x * 1 = x /\ y * 1 = y
      BY DEF Positions
    <3> QED
      BY <3>1 DEF AtMost, Below, Fraction
  <2>3. /\ AtMost(LeftOf(p), LeftOf(q)) <=> a <= b
        /\ AtMost(RightOf(q), RightOf(p)) <=> b + 1 <= a + 1
        /\ Below(LeftOf(p), LeftOf(q)) <=> a < b
        /\ Below(RightOf(q), RightOf(p)) <=> b + 1 < a + 1
    BY <1>1, <1>2, <2>1, <2>2
  <2>4. (a <= b /\ b + 1 <= a + 1 <=> a = b) /\ ~ (a < b /\ b + 1 < a + 1)
    BY DEF Positions
  <2>5. ~ (Len(q) > 1)
    BY <1>4
  <2> QED
    BY <1>3, <2>3, <2>4, <2>5 DEF Within
<1>5. CASE Len(q) > 1
  <2>1. PICK e \in Proper, f \in Proper : LeftOf(q) = Lift(b, e) /\ RightOf(q) = Lift(b, f)
    BY <1>1, <1>5, EndsAre
  <2>2. /\ AtMost(LeftOf(p), LeftOf(q)) <=> a <= b
        /\ AtMost(RightOf(q), RightOf(p)) <=> b < a + 1
        /\ Below(LeftOf(p), LeftOf(q)) <=> a <= b
        /\ Below(RightOf(q), RightOf(p)) <=> b < a + 1
    BY <1>1, <1>2, <2>1, LiftBetween
  <2>3. a <= b /\ b < a + 1 <=> a = b
    BY DEF Positions
  <2> QED
    BY <1>3, <1>5, <2>2, <2>3 DEF Within
<1> QED
  BY <1>4, <1>5

\* What lies within any other place lies within its root, and behind that within
\* what is behind it.
LEMMA ChildrenWithin ==
    ASSUME NEW p \in Seq(Positions), Len(p) > 1, NEW q \in Seq(Positions), Len(q) > 0,
           Len(q) > 1 => Within(Tail(p), Tail(q))
    PROVE  Within(p, q)
<1>1. PICK a \in Positions, b \in Positions : a = p[1] /\ b = q[1] /\ b + 1 \in Positions
  <2>1. p[1] \in Positions /\ q[1] \in Positions
    <3>1. Len(p) \in Nat /\ Len(q) \in Nat
      BY LenProperties
    <3>2. 1 \in 1..Len(p) /\ 1 \in 1..Len(q)
      BY <3>1
    <3> QED
      BY <3>2, ElementOfSeq
  <2> QED
    BY <2>1 DEF Positions
<1>2. Len(p) > 0 /\ Len(p) # 1 /\ (Len(q) = 1 \/ Len(q) > 1)
  <2>1. Len(p) \in Nat /\ Len(q) \in Nat
    BY LenProperties
  <2>2. PICK n \in Nat, m \in Nat : n = Len(p) /\ m = Len(q) /\ n > 1 /\ m > 0
    BY <2>1
  <2> QED
    BY ONLY <2>2
<1>3. PICK e \in Proper, f \in Proper :
         /\ e = LeftOf(Tail(p)) /\ f = RightOf(Tail(p))
         /\ LeftOf(p) = Lift(a, e) /\ RightOf(p) = Lift(a, f)
  BY <1>1, <1>2, EndsAre
<1>4. CASE Len(q) = 1
  <2>1. LeftOf(q) = Fraction(b, 1) /\ RightOf(q) = Fraction(b + 1, 1)
    BY <1>1, <1>4, EndsAre
  <2>2. ~ IsPrefix(p, q) /\ ~ IsStrictPrefix(p, q)
    BY <1>2, <1>4, PrefixByTail
  <2>3. /\ AtMost(LeftOf(p), LeftOf(q)) <=> a < b
        /\ AtMost(RightOf(q), RightOf(p)) <=> b + 1 <= a
        /\ Below(LeftOf(p), LeftOf(q)) <=> a < b
        /\ Below(RightOf(q), RightOf(p)) <=> b + 1 <= a
    BY <1>1, <1>3, <2>1, LiftBetween
  <2>4. ~ (a < b /\ b + 1 <= a)
    BY DEF Positions
  <2> QED
    BY <2>2, <2>3, <2>4 DEF Within
<1>5. CASE Len(q) > 1
  <2>1. PICK g \in Proper, h \in Proper :
           /\ g = LeftOf(Tail(q)) /\ h = RightOf(Tail(q))
           /\ LeftOf(q) = Lift(b, g) /\ RightOf(q) = Lift(b, h)
    BY <1>1, <1>5, EndsAre
  <2>2. /\ IsPrefix(p, q) <=> a = b /\ IsPrefix(Tail(p), Tail(q))
        /\ IsStrictPrefix(p, q) <=> a = b /\ IsStrictPrefix(Tail(p), Tail(q))
    BY <1>1, <1>2, <1>5, PrefixByTail
  <2>3. CASE a = b
    <3>1. /\ AtMost(LeftOf(p), LeftOf(q)) <=> AtMost(e, g)
          /\ AtMost(RightOf(q), RightOf(p)) <=> AtMost(h, f)
          /\ Below(LeftOf(p), LeftOf(q)) <=> Below(e, g)
          /\ Below(RightOf(q), RightOf(p)) <=> Below(h, f)
      BY <1>3, <2>1, <2>3, LiftOrder
    <3> QED
      BY <1>3, <1>5, <2>1, <2>2, <2>3, <3>1 DEF Within
  <2>4. CASE a < b
    <3>1. Below(RightOf(p), RightOf(q)) /\ ~ AtMost(RightOf(q), RightOf(p))
      BY <1>3, <2>1, <2>4, LiftApart
    <3>2. ~ Below(RightOf(q), RightOf(p))
      BY <1>2, <3>1, EndsAre, StrictOrder
    <3>3. a # b
      BY <2>4 DEF Positions
    <3> QED
      BY <2>2, <3>1, <3>2, <3>3 DEF Within
  <2>5. CASE b < a
    <3>1. Below(LeftOf(q), LeftOf(p)) /\ ~ AtMost(LeftOf(p), LeftOf(q))
      BY <1>3, <2>1, <2>5, LiftApart
    <3>2. ~ Below(LeftOf(p), LeftOf(q))
      BY <1>2, <3>1, EndsAre, StrictOrder
    <3>3. a # b
      BY <2>5 DEF Positions
    <3> QED
      BY <2>2, <3>1, <3>2, <3>3 DEF Within
  <2> QED
    BY <2>3, <2>4, <2>5 DEF Positions
<1> QED
  BY <1>2, <1>4, <1>5

\* Of any two places, the one lies within the other exactly when it is below it.
LEMMA PlacesNest ==
    ASSUME NEW p \in Seq(Positions), Len(p) > 0, NEW q \in Seq(Positions), Len(q) > 0
    PROVE  Within(p, q)
<1> DEFINE Nests(n) == \A s, t \in Seq(Positions) : Len(s) = n + 1 /\ Len(t) > 0 => Within(s, t)
           G == {n \in Nat : Nests(n)}
<1>1. 0 \in G
  <2>1. ASSUME NEW s \in Seq(Positions), NEW t \in Seq(Positions), Len(s) = 0 + 1, Len(t) > 0
        PROVE  Within(s, t)
    <3>1. Len(s) = 1
      BY <2>1
    <3> QED
      BY <2>1, <3>1, RootsWithin
  <2> QED
    BY <2>1
<1>2. ASSUME NEW n \in Nat, n \in G
      PROVE  n + 1 \in G
  <2>1. ASSUME NEW s \in Seq(Positions), NEW t \in Seq(Positions), Len(s) = (n + 1) + 1, Len(t) > 0
        PROVE  Within(s, t)
    <3>1. Len(s) > 1 /\ Len(s) - 1 = n + 1
      BY <2>1
    <3>2. Tail(s) \in Seq(Positions) /\ Len(Tail(s)) = n + 1
      BY <3>1, TailOf
    <3>3. ASSUME Len(t) > 1
          PROVE  Within(Tail(s), Tail(t))
      <4>1. Tail(t) \in Seq(Positions) /\ Len(Tail(t)) > 0
        BY <3>3, TailOf
      <4> QED
        BY <1>2, <3>2, <4>1
    <3> QED
      BY <2>1, <3>1, <3>3, ChildrenWithin
  <2> QED
    BY <2>1
<1>3. PICK n \in Nat : Len(p) = n + 1
  <2>1. Len(p) - 1 \in Nat /\ (Len(p) - 1) + 1 = Len(p)
    OBVIOUS
  <2> QED
    BY <2>1
<1>4. \A k \in 0..n : k \in G
  <2>1. \A k \in 0..(n - 1) : k \in G => k + 1 \in G
    BY <1>2
  <2> HIDE DEF G
  <2> QED
    BY <1>1, <2>1, UpTo
<1> QED
  BY <1>3, <1>4

-----------------------------------------------------------------------------
(* How large the numbers get.                                                *)

\* A higher power is no smaller.
LEMMA PowerGrows ==
    ASSUME NEW b \in Positions, NEW n \in Nat, NEW k \in 0..n
    PROVE  Power(b, k) \in Positions /\ Power(b, k) <= Power(b, n)
<1> DEFINE G == {i \in 0..(n - k) : Power(b, k) <= Power(b, k + i)}
           H == {i \in 0..n : Power(b, i) \in Positions}
<1>1. b \in Nat /\ b >= 1
  BY DEF Positions
<1>2. \A i \in 0..n : i \in H
  <2>1. 0 \in H
    BY <1>1, PowerIs DEF Positions
  <2>2. ASSUME NEW i \in 0..(n - 1), i \in H
        PROVE  i + 1 \in H
    <3>1. PICK x \in Positions : x = Power(b, i)
      BY <2>2
    <3>2. Power(b, i + 1) = b * x
      BY <1>1, <3>1, PowerIs
    <3>3. b * x \in Positions
      BY DEF Positions
    <3> QED
      BY <3>2, <3>3
  <2> HIDE DEF H
  <2> QED
    BY <2>1, <2>2, UpTo
<1>3. n - k \in Nat /\ k + (n - k) = n
  OBVIOUS
<1>4. \A i \in 0..(n - k) : i \in G
  <2>1. 0 \in G
    <3>1. k + 0 = k /\ Power(b, k) \in Positions
      BY <1>2
    <3> QED
      BY <1>3, <3>1 DEF Positions
  <2>2. ASSUME NEW i \in 0..((n - k) - 1), i \in G
        PROVE  i + 1 \in G
    <3>1. k + i \in 0..n /\ k + i \in Nat /\ k + (i + 1) = (k + i) + 1 /\ i + 1 \in 0..(n - k)
      OBVIOUS
    <3>2. PICK x \in Positions, y \in Positions : x = Power(b, k + i) /\ y = Power(b, k)
      BY <1>2, <3>1
    <3>3. Power(b, k + (i + 1)) = b * x
      BY <1>1, <3>1, <3>2, PowerIs
    <3>4. x <= b * x
      BY <1>1 DEF Positions
    <3>5. y <= x
      BY <2>2, <3>2
    <3>6. y <= b * x
      <4>1. b * x \in Nat
        BY DEF Positions
      <4> QED
        BY <3>4, <3>5, <4>1 DEF Positions
    <3> QED
      BY <3>1, <3>2, <3>3, <3>6
  <2> HIDE DEF G
  <2> QED
    BY <1>3, <2>1, <2>2, UpTo
<1>5. Power(b, k) <= Power(b, n)
  <2>1. n - k \in 0..(n - k)
    BY <1>3
  <2> QED
    BY <1>3, <1>4, <2>1
<1> QED
  BY <1>2, <1>5

\* Positions within w, and the last of them within the next one.
Narrow(p, w) ==
    /\ \A i \in 1..(Len(p) - 1) : p[i] <= w
    /\ p[Len(p)] <= w + 1

\* The fraction of narrow positions is narrow.
LEMMA NarrowIs ==
    ASSUME NEW w \in Nat, NEW p \in Seq(Positions), Len(p) > 0, Narrow(p, w)
    PROVE  AtMost(Encoding(p), Fraction(w + 1, 1))
<1>1. PICK n \in Nat, a \in Positions : n = Len(p) /\ n > 0 /\ a = p[1]
  <2>1. Len(p) \in Nat /\ Len(p) > 0
    BY LenProperties
  <2>2. 1 \in 1..Len(p)
    BY <2>1
  <2>3. p[1] \in Positions
    BY <2>2, ElementOfSeq
  <2> QED
    BY ONLY <2>1, <2>3
<1>2. CASE n = 1
  <2>1. Encoding(p) = Fraction(a, 1)
    BY <1>1, <1>2, EncodingByTail
  <2>2. a <= w + 1
    BY <1>1, <1>2 DEF Narrow
  <2>3. a * 1 <= (w + 1) * 1
    BY <2>2 DEF Positions
  <2> QED
    BY <2>1, <2>3 DEF AtMost, Fraction
<1>3. CASE n > 1
  <2>1. a <= w
    <3>1. 1 \in 1..(Len(p) - 1)
      BY <1>1, <1>3
    <3> QED
      BY <1>1, <3>1 DEF Narrow
  <2>2. PICK e \in Proper : Encoding(p) = Lift(a, e)
    BY <1>1, <1>3, EncodingByTail
  <2>3. w + 1 \in Positions /\ a < w + 1
    BY <2>1 DEF Positions
  <2> QED
    BY <2>2, <2>3, LiftBetween
<1> QED
  BY <1>1, <1>2, <1>3

\* Positions are as narrow behind the first one.
LEMMA NarrowTail ==
    ASSUME NEW w \in Nat, NEW p \in Seq(Positions), Len(p) > 1, Narrow(p, w)
    PROVE  Narrow(Tail(p), w)
<1>1. PICK n \in Nat : n = Len(p) /\ n > 1
  BY LenProperties
<1>2. PICK t : t = Tail(p) /\ Len(t) = n - 1 /\ \A i \in 1..(n - 1) : t[i] = p[i + 1]
  BY <1>1, TailOf
<1>3. (\A i \in 1..(n - 1) : p[i] <= w) /\ p[n] <= w + 1
  BY <1>1 DEF Narrow
<1>4. \A i \in 1..(n - 2) : i \in 1..(n - 1) /\ i + 1 \in 1..(n - 1)
  OBVIOUS
<1>5. \A i \in 1..(n - 2) : t[i] <= w
  BY <1>2, <1>3, <1>4
<1>6. n - 1 \in 1..(n - 1) /\ (n - 1) + 1 = n
  BY <1>1
<1>7. t[n - 1] <= w + 1
  BY <1>2, <1>3, <1>6
<1>8. Len(t) - 1 = n - 2
  BY <1>2
<1> QED
  BY <1>2, <1>5, <1>7, <1>8 DEF Narrow

NarrowBehind(p, w) == Len(p) > 1 => Narrow(Tail(p), w)

\* With each position the denominator grows by a factor at most.
LEMMA DenominatorBounded ==
    ASSUME NEW w \in Nat, NEW p \in Seq(Positions), Len(p) > 0, NarrowBehind(p, w)
    PROVE  Encoding(p).denominator <= Power(w + 2, Len(p) - 1)
<1> DEFINE Small(n) == \A q \in Seq(Positions) :
                         Len(q) = n + 1 /\ NarrowBehind(q, w) =>
                            Encoding(q).denominator <= Power(w + 2, n)
           G == {n \in Nat : Small(n)}
<1>1. w + 2 \in Nat
  OBVIOUS
<1>2. 0 \in G
  <2>1. ASSUME NEW q \in Seq(Positions), Len(q) = 0 + 1
        PROVE  Encoding(q).denominator <= Power(w + 2, 0)
    <3>1. Len(q) = 1 /\ Len(q) > 0
      BY <2>1
    <3>2. Encoding(q) = Fraction(q[1], 1)
      BY <3>1, EncodingByTail
    <3>4. Encoding(q).denominator = 1
      BY <3>2 DEF Fraction
    <3>3. Power(w + 2, 0) = 1
      BY <1>1, PowerIs
    <3> QED
      BY <3>3, <3>4
  <2> QED
    BY <2>1
<1>3. ASSUME NEW n \in Nat, n \in G
      PROVE  n + 1 \in G
  <2>1. ASSUME NEW q \in Seq(Positions), Len(q) = (n + 1) + 1, NarrowBehind(q, w)
        PROVE  Encoding(q).denominator <= Power(w + 2, n + 1)
    <3>1. Len(q) > 1 /\ Len(q) > 0 /\ Len(q) - 1 = n + 1
      BY <2>1
    <3>2. PICK t \in Seq(Positions) : t = Tail(q) /\ Len(t) = n + 1 /\ Len(t) > 0 /\ q[1] \in Positions
                                      /\ Narrow(t, w)
      <4>1. Tail(q) \in Seq(Positions) /\ Len(Tail(q)) = Len(q) - 1 /\ Len(Tail(q)) > 0 /\ q[1] \in Positions
        BY <3>1, TailOf
      <4>2. Narrow(Tail(q), w)
        BY <2>1, <3>1 DEF NarrowBehind
      <4> QED
        BY ONLY <3>1, <4>1, <4>2
    <3>3. PICK e \in Proper, c \in Positions, d \in Positions :
             e = Encoding(t) /\ c = e.numerator /\ d = e.denominator
      BY <3>2, EncodingByTail DEF Proper
    <3>4. Encoding(q).denominator = c + d
      <4>1. Encoding(q) = Lift(q[1], e)
        BY <3>1, <3>2, <3>3, EncodingByTail
      <4> QED
        BY <3>2, <3>3, <4>1, LiftIs
    <3>5. c <= (w + 1) * d
      <4>1. AtMost(e, Fraction(w + 1, 1))
        BY <3>2, <3>3, NarrowIs
      <4>2. c * 1 = c
        BY DEF Positions
      <4> QED
        BY <3>3, <4>1, <4>2 DEF AtMost, Fraction
    <3>6. d <= Power(w + 2, n)
      <4>1. NarrowBehind(t, w)
        BY <3>2, NarrowTail DEF NarrowBehind
      <4> QED
        BY <1>3, <3>2, <3>3, <4>1
    <3>7. PICK x \in Nat : x = Power(w + 2, n) /\ Power(w + 2, n + 1) = (w + 2) * x
      BY <1>1, PowerIs
    <3>8. d <= x
      BY <3>6, <3>7
    <3>9. (w + 2) * d <= (w + 2) * x /\ (w + 2) * d = (w + 1) * d + d
      <4>1. \A k, y, z \in Nat : y <= z => k * y <= k * z
        OBVIOUS
      <4>2. \A k, y \in Nat : (k + 2) * y = (k + 1) * y + y
        OBVIOUS
      <4>3. w + 2 \in Nat /\ d \in Nat
        BY DEF Positions
      <4> QED
        BY ONLY <3>8, <4>1, <4>2, <4>3, w \in Nat, x \in Nat
    <3>10. (w + 2) * d \in Nat /\ (w + 1) * d \in Nat /\ (w + 2) * x \in Nat
      BY DEF Positions
    <3>11. c + d <= (w + 2) * x
      BY <3>5, <3>9, <3>10 DEF Positions
    <3> QED
      BY <3>4, <3>7, <3>11
  <2> QED
    BY <2>1
<1>4. PICK n \in Nat : Len(p) = n + 1 /\ Len(p) - 1 = n
  <2>1. Len(p) \in Nat
    BY LenProperties
  <2>2. Len(p) - 1 \in Nat /\ (Len(p) - 1) + 1 = Len(p)
    BY <2>1
  <2> QED
    BY ONLY <2>2
<1>5. \A k \in 0..n : k \in G
  <2>1. \A k \in 0..(n - 1) : k \in G => k + 1 \in G
    BY <1>3
  <2> HIDE DEF G
  <2> QED
    BY <1>2, <2>1, UpTo
<1>6. n \in G
  BY <1>5
<1> QED
  BY <1>4, <1>6

-----------------------------------------------------------------------------
(* The strings.                                                              *)

\* The digits are the most that the fraction has.
LEMMA ValueIs ==
    ASSUME NEW f \in Proper
    PROVE  /\ Power(10, Digits) \in Positions
           /\ Value(f) \in Nat
           /\ Value(f) * f.denominator <= f.numerator * Power(10, Digits)
           /\ \A v \in Nat : v * f.denominator <= f.numerator * Power(10, Digits) => v <= Value(f)
<1>1. PICK n \in Positions, d \in Positions : n = f.numerator /\ d = f.denominator
  BY DEF Proper
<1>2. Digits \in Nat /\ 10 \in Positions
  BY NestedSetAssumption DEF Positions
<1>3. Power(10, Digits) \in Positions
  <2>1. Digits \in 0..Digits
    BY <1>2
  <2> QED
    BY <1>2, <2>1, PowerGrows
<1>4. PICK x \in Nat, c \in Nat : x = n * Power(10, Digits) /\ c = d /\ c > 0
  <2>1. n * Power(10, Digits) \in Nat /\ d \in Nat /\ d > 0
    BY <1>3 DEF Positions
  <2> QED
    BY <2>1
<1>5. \A y, z \in Nat : z > 0 => /\ y \div z \in Nat
                                 /\ (y \div z) * z <= y
                                 /\ y < (y \div z + 1) * z
  OBVIOUS
<1>6. x \div c \in Nat /\ (x \div c) * c <= x /\ x < (x \div c + 1) * c
  BY <1>4, <1>5
<1>7. PICK q \in Nat : q = x \div c /\ q * c <= x /\ x < (q + 1) * c
  BY <1>6
<1>8. ASSUME NEW v \in Nat, v * c <= x
      PROVE  v <= q
  <2>1. \A u, k, z \in Nat : k + 1 <= u => (k + 1) * z <= u * z
    OBVIOUS
  <2>2. q + 1 <= v => (q + 1) * c <= v * c
    BY <2>1
  <2>3. v * c \in Nat /\ (q + 1) * c \in Nat
    OBVIOUS
  <2> QED
    BY <1>7, <1>8, <2>2, <2>3
<1>9. Value(f) = q
  BY <1>1, <1>4, <1>7 DEF Value
<1> QED
  BY <1>1, <1>3, <1>4, <1>7, <1>8, <1>9

\* The order of fractions is that of their strings.
LEMMA ValueOrder ==
    ASSUME NEW f \in Proper, NEW g \in Proper,
           f.denominator * g.denominator <= Power(10, Digits)
    PROVE  /\ AtMost(f, g) <=> Value(f) <= Value(g)
           /\ Below(f, g) <=> Value(f) < Value(g)
<1> DEFINE P == Power(10, Digits)
<1>1. ASSUME NEW e \in Proper, NEW h \in Proper, e.denominator * h.denominator <= P
      PROVE  /\ AtMost(e, h) => Value(e) <= Value(h)
             /\ Below(e, h) => Value(e) < Value(h)
  <2>1. PICK n \in Nat, d \in Nat, m \in Nat, c \in Nat :
           /\ n = e.numerator /\ d = e.denominator /\ m = h.numerator /\ c = h.denominator
           /\ d > 0 /\ c > 0
    BY DEF Proper, Positions
  <2>2. PICK p \in Nat, v \in Nat : p = P /\ v = Value(e) /\ v * d <= n * p
    BY <2>1, ValueIs DEF Positions
  <2>3. \A u \in Nat : u * c <= m * p => u <= Value(h)
    BY <2>1, <2>2, ValueIs
  <2>4. \A x, y, z \in Nat : x <= y => x * z <= y * z
    OBVIOUS
  <2>5. \A x, y, z \in Nat : z > 0 /\ x * z <= y * z => x <= y
    OBVIOUS
  <2>6. /\ v * d \in Nat /\ n * p \in Nat /\ n * c \in Nat /\ m * d \in Nat /\ d * c \in Nat
        /\ v * c \in Nat /\ m * p \in Nat /\ (v + 1) * c \in Nat /\ v + 1 \in Nat
    OBVIOUS
  <2>7. (v * d) * c <= (n * p) * c
    BY <2>2, <2>4, <2>6
  <2>8. (v * d) * c = (v * c) * d /\ (n * p) * c = (n * c) * p /\ (m * d) * p = (m * p) * d
        /\ ((v + 1) * c) * d = (v * c) * d + d * c
        /\ (n * c + 1) * p = (n * c) * p + p
    OBVIOUS
  <2>9. (v * c) * d \in Nat /\ (n * c) * p \in Nat /\ (m * p) * d \in Nat /\ ((v + 1) * c) * d \in Nat
        /\ (n * c + 1) * p \in Nat /\ n * c + 1 \in Nat
    BY <2>6
  <2>10. ASSUME AtMost(e, h)
         PROVE  v <= Value(h)
    <3>1. n * c <= m * d
      BY <2>1, <2>10 DEF AtMost
    <3>2. (n * c) * p <= (m * d) * p
      BY <2>4, <2>6, <3>1
    <3>3. (v * c) * d <= (m * p) * d
      BY <2>7, <2>8, <2>9, <3>2
    <3>4. v * c <= m * p
      BY <2>1, <2>5, <2>6, <3>3
    <3> QED
      BY <2>3, <3>4
  <2>11. ASSUME Below(e, h)
         PROVE  v + 1 <= Value(h)
    <3>1. n * c + 1 <= m * d
      <4>1. n * c < m * d
        BY <2>1, <2>11 DEF Below
      <4> QED
        BY <2>6, <4>1
    <3>2. (n * c + 1) * p <= (m * d) * p
      BY <2>4, <2>6, <2>9, <3>1
    <3>3. d * c <= p
      BY <1>1, <2>1, <2>2
    <3>4. ((v + 1) * c) * d <= (m * p) * d
      BY <2>6, <2>7, <2>8, <2>9, <3>2, <3>3
    <3>5. (v + 1) * c <= m * p
      BY <2>1, <2>5, <2>6, <3>4
    <3> QED
      BY <2>3, <2>6, <3>5
  <2> QED
    BY <2>2, <2>10, <2>11, ValueIs
<1>2. g.denominator * f.denominator <= P
  <2>1. f.denominator * g.denominator = g.denominator * f.denominator
    BY DEF Proper, Positions
  <2> QED
    BY <2>1
<1>3. AtMost(f, g) => Value(f) <= Value(g)
  BY <1>1
<1>4. Below(f, g) => Value(f) < Value(g)
  BY <1>1
<1>5. AtMost(g, f) => Value(g) <= Value(f)
  BY <1>1, <1>2
<1>6. Below(g, f) => Value(g) < Value(f)
  BY <1>1, <1>2
<1>7. (Below(f, g) <=> ~ AtMost(g, f)) /\ (Below(g, f) <=> ~ AtMost(f, g))
  BY StrictOrder
<1>8. Value(f) \in Nat /\ Value(g) \in Nat
  BY ValueIs
<1> QED
  BY <1>3, <1>4, <1>5, <1>6, <1>7, <1>8

\* Of strings of the same length the order is that of the numbers.
LEMMA StringsAre ==
    ASSUME NEW m \in Nat, NEW n \in Nat,
           m < Power(10, FixedLength), n < Power(10, FixedLength)
    PROVE  StringBelow(m, n) <=> m < n
<1>1. StringLength(m) = FixedLength /\ StringLength(n) = FixedLength
  BY DEF StringLength
<1>2. FixedLength \in Nat /\ FixedLength - FixedLength = 0
  BY NestedSetAssumption DEF FixedLength
<1>3. Power(10, 0) = 1
  <2>1. 10 \in Nat /\ 0 \in Nat
    OBVIOUS
  <2> QED
    BY <2>1, PowerIs
<1>4. m \div 1 = m /\ n \div 1 = n
  OBVIOUS
<1>5. ~ (FixedLength < FixedLength)
  BY <1>2
<1> QED
  BY <1>1, <1>2, <1>3, <1>4, <1>5 DEF StringBelow

-----------------------------------------------------------------------------
(* The trees.                                                                *)

\* What a place of the trees is.
LEMMA PortalIs ==
    ASSUME NEW p \in Portals
    PROVE  /\ p \in Seq(Positions) /\ Len(p) \in 1..Depth
           /\ p[1] \in Tops
           /\ \A i \in 2..Len(p) : p[i] \in 1..Width
<1>1. PICK n \in 1..Depth : p \in [1..n -> Tops \cup 1..Width]
  BY DEF Portals
<1>2. n \in Nat /\ Tops \cup 1..Width \subseteq Positions
  BY NestedSetAssumption DEF Positions
<1>3. p \in [1..n -> Positions]
  BY <1>1, <1>2
<1>4. p \in Seq(Positions) /\ Len(p) = n
  BY <1>2, <1>3
<1>5. p[1] \in Tops /\ \A i \in 2..Len(p) : p[i] \in 1..Width
  BY DEF Portals
<1> QED
  BY <1>1, <1>4, <1>5

\* What is such a place.
LEMMA IsPortal ==
    ASSUME NEW p \in Seq(Positions), Len(p) \in 1..Depth, p[1] \in Tops,
           \A i \in 2..Len(p) : p[i] \in 1..Width
    PROVE  p \in Portals
<1>1. PICK n \in Nat : n = Len(p) /\ n \in 1..Depth
  BY LenProperties
<1>2. p = [i \in 1..n |-> p[i]]
  BY <1>1, LenProperties
<1>3. ASSUME NEW i \in 1..n
      PROVE  p[i] \in Tops \cup 1..Width
  <2>1. i = 1 \/ i \in 2..n
    OBVIOUS
  <2> QED
    BY <1>1, <2>1
<1>4. p \in [1..n -> Tops \cup 1..Width]
  BY <1>2, <1>3
<1>5. p \in UNION {[1..k -> Tops \cup 1..Width] : k \in 1..Depth}
  BY <1>1, <1>4
<1> QED
  BY <1>5 DEF Portals

\* The positions of the trees are narrow, the next sibling's too.
LEMMA PortalsNarrow ==
    ASSUME NEW p \in Portals
    PROVE  NarrowBehind(p, Width) /\ NarrowBehind(NextSibling(p), Width)
<1>1. PICK n \in Nat : n = Len(p) /\ n > 0 /\ p \in Seq(Positions)
  BY PortalIs, LenProperties
<1>2. Width \in Nat
  BY NestedSetAssumption
<1>3. ASSUME n > 1
      PROVE  Narrow(Tail(p), Width) /\ Narrow(NextSibling(Tail(p)), Width)
  <2>1. PICK t \in Seq(Positions) : t = Tail(p) /\ Len(t) = n - 1
                                    /\ \A i \in 1..(n - 1) : t[i] = p[i + 1]
    <3>1. /\ Tail(p) \in Seq(Positions) /\ Len(Tail(p)) = Len(p) - 1
          /\ \A i \in 1..(Len(p) - 1) : Tail(p)[i] = p[i + 1]
      BY <1>1, <1>3, TailOf
    <3> QED
      BY ONLY <1>1, <3>1
  <2>2. \A i \in 1..(n - 1) : t[i] \in 1..Width
    <3>1. \A i \in 2..n : p[i] \in 1..Width
      BY <1>1, PortalIs
    <3>2. \A i \in 1..(n - 1) : i + 1 \in 2..n
      OBVIOUS
    <3> QED
      BY <2>1, <3>1, <3>2
  <2>3. n - 1 \in 1..(n - 1) /\ Len(t) > 0
    BY <1>3, <2>1
  <2>4. PICK s : /\ s = NextSibling(t) /\ Len(s) = n - 1 /\ s[n - 1] = t[n - 1] + 1
                 /\ \A i \in 1..((n - 1) - 1) : s[i] = t[i]
    <3>1. /\ Len(NextSibling(t)) = Len(t) /\ NextSibling(t)[Len(t)] = t[Len(t)] + 1
          /\ \A i \in 1..(Len(t) - 1) : NextSibling(t)[i] = t[i]
      BY <2>3, SiblingIs
    <3> QED
      BY ONLY <2>1, <3>1
  <2>5. \A i \in 1..((n - 1) - 1) : i \in 1..(n - 1)
    OBVIOUS
  <2>6. \A i \in 1..((n - 1) - 1) : t[i] <= Width /\ s[i] <= Width
    BY <1>2, <2>2, <2>4, <2>5
  <2>7. t[n - 1] <= Width + 1 /\ s[n - 1] <= Width + 1
    BY <1>2, <2>2, <2>3, <2>4
  <2> QED
    BY <2>1, <2>4, <2>6, <2>7 DEF Narrow
<1>4. Len(NextSibling(p)) = n
  BY <1>1, SiblingIs
<1>5. n > 1 => Tail(NextSibling(p)) = NextSibling(Tail(p))
  BY <1>1, SiblingTail
<1> QED
  BY <1>1, <1>3, <1>4, <1>5 DEF NarrowBehind

\* The two ends of a place.
EndsOf(p) == {LeftOf(p), RightOf(p)}

\* No number is larger than the next root's position times a power: as long as
\* that is at most 2^53, the numbers are exact in the code too.
THEOREM NumbersBounded ==
    ASSUME NEW p \in Portals, NEW e \in EndsOf(p)
    PROVE  /\ e \in Proper
           /\ e.denominator <= Power(Width + 2, Depth - 1)
           /\ e.numerator <= (p[1] + 1) * e.denominator
<1>1. PICK n \in Nat, a \in Positions : /\ n = Len(p) /\ n \in 1..Depth /\ n > 0 /\ p \in Seq(Positions)
                                        /\ a = p[1] /\ a + 1 \in Positions
  <2>1. p \in Seq(Positions) /\ Len(p) \in 1..Depth /\ p[1] \in Tops
    BY PortalIs
  <2>2. p[1] \in Positions /\ p[1] + 1 \in Positions /\ Len(p) \in Nat /\ Len(p) > 0
    BY <2>1, NestedSetAssumption DEF Positions
  <2> QED
    BY ONLY <2>1, <2>2
<1>2. e \in Proper
  BY <1>1, EndsAre DEF EndsOf
<1>3. e.denominator <= Power(Width + 2, n - 1)
  <2>1. PICK q \in Seq(Positions) : e = Encoding(q) /\ Len(q) = n /\ NarrowBehind(q, Width)
    <3>1. NextSibling(p) \in Seq(Positions) /\ Len(NextSibling(p)) = n
      BY <1>1, SiblingIs
    <3>2. e = Encoding(p) \/ e = Encoding(NextSibling(p))
      BY DEF EndsOf, LeftOf, RightOf
    <3> QED
      BY <1>1, <3>1, <3>2, PortalsNarrow
  <2>2. Len(q) > 0 /\ Width \in Nat
    BY <1>1, <2>1, NestedSetAssumption
  <2> QED
    BY <2>1, <2>2, DenominatorBounded
<1>4. Power(Width + 2, n - 1) \in Positions /\ Power(Width + 2, n - 1) <= Power(Width + 2, Depth - 1)
      /\ Power(Width + 2, Depth - 1) \in Positions
  <2>1. Width + 2 \in Positions /\ Depth - 1 \in Nat /\ n - 1 \in 0..(Depth - 1) /\ Depth - 1 \in 0..(Depth - 1)
    BY <1>1, NestedSetAssumption DEF Positions
  <2> QED
    BY <2>1, PowerGrows
<1>5. e.denominator <= Power(Width + 2, Depth - 1)
  BY <1>2, <1>3, <1>4 DEF Proper, Positions
<1>6. e.numerator <= (a + 1) * e.denominator
  <2>1. CASE n = 1
    <3>1. e = Fraction(a, 1) \/ e = Fraction(a + 1, 1)
      BY <1>1, <2>1, EndsAre DEF EndsOf
    <3>2. (a + 1) * 1 = a + 1 /\ a <= a + 1
      BY DEF Positions
    <3> QED
      BY <3>1, <3>2 DEF Fraction, Positions
  <2>2. CASE n > 1
    <3>1. PICK f \in Proper : e = Lift(a, f)
      BY <1>1, <2>2, EndsAre DEF EndsOf
    <3>2. AtMost(e, Fraction(a + 1, 1))
      BY <1>1, <3>1, LiftBetween DEF Positions
    <3>3. e.numerator * 1 = e.numerator
      BY <1>2 DEF Proper, Positions
    <3> QED
      BY <3>2, <3>3 DEF AtMost, Fraction
  <2> QED
    BY <1>1, <2>1, <2>2
<1> QED
  BY <1>1, <1>2, <1>5, <1>6

\* Of an end the string is one of those of the fixed length.
LEMMA ValueFits ==
    ASSUME Precise, NEW p \in Portals, NEW e \in EndsOf(p)
    PROVE  Value(e) \in Nat /\ Value(e) < Power(10, FixedLength)
<1>1. PICK n \in Nat, d \in Nat, a \in Nat :
         n = e.numerator /\ d = e.denominator /\ d > 0 /\ a = p[1] + 1 /\ n <= a * d /\ e \in Proper
  <2>1. e \in Proper /\ e.numerator <= (p[1] + 1) * e.denominator
    BY NumbersBounded
  <2>2. e.numerator \in Nat /\ e.denominator \in Nat /\ e.denominator > 0
    BY <2>1 DEF Proper, Positions
  <2>3. p[1] + 1 \in Nat
    <3>1. p[1] \in Nat
      BY PortalIs, NestedSetAssumption
    <3> QED
      BY <3>1
  <2> QED
    BY ONLY <2>1, <2>2, <2>3
<1>2. PICK x \in Nat, v \in Nat : x = Power(10, Digits) /\ x > 0 /\ v = Value(e) /\ v * d <= n * x
  <2>1. Power(10, Digits) \in Nat /\ Power(10, Digits) > 0 /\ Value(e) \in Nat
        /\ Value(e) * e.denominator <= e.numerator * Power(10, Digits)
    BY <1>1, ValueIs DEF Positions
  <2> QED
    BY <1>1, <2>1
<1>3. \A k \in Nat : Power(10, k + 4) = 10000 * Power(10, k) /\ Power(10, k) \in Nat
  <2>1. ASSUME NEW k \in Nat
        PROVE  Power(10, k + 4) = 10000 * Power(10, k) /\ Power(10, k) \in Nat
    <3>1. /\ Power(10, k + 1) = 10 * Power(10, k) /\ Power(10, k) \in Nat
          /\ Power(10, (k + 1) + 1) = 10 * Power(10, k + 1)
          /\ Power(10, (k + 2) + 1) = 10 * Power(10, k + 2)
          /\ Power(10, (k + 3) + 1) = 10 * Power(10, k + 3)
      <4>1. 10 \in Nat /\ k + 1 \in Nat /\ k + 2 \in Nat /\ k + 3 \in Nat
        OBVIOUS
      <4> QED
        BY <4>1, PowerIs
    <3>2. (k + 1) + 1 = k + 2 /\ (k + 2) + 1 = k + 3 /\ (k + 3) + 1 = k + 4
      OBVIOUS
    <3>3. PICK y \in Nat : y = Power(10, k)
      BY <3>1
    <3>4. Power(10, k + 4) = 10 * (10 * (10 * (10 * y)))
      BY <3>1, <3>2, <3>3
    <3> QED
      BY <3>3, <3>4
  <2> QED
    BY <2>1
<1>4. a < 10000
  <2>1. Power(10, 0) = 1 /\ Power(10, 0 + 4) = 10000 * Power(10, 0)
    <3>1. 10 \in Nat /\ 0 \in Nat
      OBVIOUS
    <3> QED
      BY <1>3, <3>1, PowerIs
  <2>2. Power(10, 4) = 10000
    BY <2>1
  <2>3. p[1] \in Tops
    BY PortalIs
  <2> QED
    BY <1>1, <2>2, <2>3 DEF Precise
<1>5. Power(10, FixedLength) = 10000 * x
  BY <1>2, <1>3, NestedSetAssumption DEF FixedLength
<1>6. v <= a * x
  <2>1. \A i, j, k \in Nat : i <= j => i * k <= j * k
    OBVIOUS
  <2>2. \A i, j, k \in Nat : k > 0 /\ i * k <= j * k => i <= j
    OBVIOUS
  <2>3. a * d \in Nat /\ n * x \in Nat /\ a * x \in Nat /\ v * d \in Nat /\ (a * d) * x \in Nat
        /\ (a * d) * x = (a * x) * d
    OBVIOUS
  <2>4. n * x <= (a * d) * x
    BY <1>1, <2>1, <2>3
  <2>5. v * d <= (a * x) * d
    BY <1>2, <2>3, <2>4
  <2> QED
    BY <1>1, <2>2, <2>3, <2>5
<1>7. a * x < 10000 * x
  BY <1>2, <1>4
<1> QED
  BY <1>2, <1>5, <1>6, <1>7

\* The comparisons of the strings of two ends are those of their fractions.
LEMMA StringsOrder ==
    ASSUME Precise, NEW p \in Portals, NEW q \in Portals, NEW e \in EndsOf(p), NEW f \in EndsOf(q)
    PROVE  /\ StringAtMost(Value(e), Value(f)) <=> AtMost(e, f)
           /\ StringBelow(Value(e), Value(f)) <=> Below(e, f)
<1>1. PICK d \in Nat, c \in Nat, most \in Nat :
         /\ d = e.denominator /\ c = f.denominator /\ most = Power(Width + 2, Depth - 1)
         /\ d <= most /\ c <= most /\ e \in Proper /\ f \in Proper
  <2>1. e \in Proper /\ f \in Proper /\ e.denominator <= Power(Width + 2, Depth - 1)
        /\ f.denominator <= Power(Width + 2, Depth - 1)
    BY NumbersBounded
  <2>2. e.denominator \in Nat /\ f.denominator \in Nat
    BY <2>1 DEF Proper, Positions
  <2>3. Power(Width + 2, Depth - 1) \in Nat
    <3>1. Width + 2 \in Nat /\ Depth - 1 \in Nat
      BY NestedSetAssumption
    <3> QED
      BY <3>1, PowerIs
  <2> QED
    BY ONLY <2>1, <2>2, <2>3
<1>2. d * c <= Power(10, Digits)
  <2>1. most * most <= Power(10, Digits)
    BY <1>1 DEF Precise
  <2>2. \A i, j, k, l \in Nat : i <= j /\ k <= l => i * k <= j * l
    <3>1. \A i, j, k \in Nat : i <= j => i * k <= j * k
      OBVIOUS
    <3>2. \A j, k, l \in Nat : k <= l => j * k <= j * l
      OBVIOUS
    <3>3. \A i, k \in Nat : i * k \in Nat
      OBVIOUS
    <3>4. ASSUME NEW i \in Nat, NEW j \in Nat, NEW k \in Nat, NEW l \in Nat, i <= j, k <= l
          PROVE  i * k <= j * l
      <4>1. i * k <= j * k /\ j * k <= j * l
        BY <3>1, <3>2, <3>4
      <4>2. i * k \in Nat /\ j * k \in Nat /\ j * l \in Nat
        BY <3>3
      <4> QED
        BY <4>1, <4>2
    <3> QED
      BY <3>4
  <2>3. d * c <= most * most /\ d * c \in Nat /\ most * most \in Nat
    BY <1>1, <2>2
  <2>4. Power(10, Digits) \in Nat
    BY <1>1, ValueIs DEF Positions
  <2> QED
    BY <2>1, <2>3, <2>4
<1>3. /\ AtMost(e, f) <=> Value(e) <= Value(f)
      /\ Below(e, f) <=> Value(e) < Value(f)
  BY <1>1, <1>2, ValueOrder
<1>4. /\ StringBelow(Value(e), Value(f)) <=> Value(e) < Value(f)
      /\ StringBelow(Value(f), Value(e)) <=> Value(f) < Value(e)
      /\ Value(e) \in Nat /\ Value(f) \in Nat
  BY ValueFits, StringsAre
<1> QED
  BY <1>3, <1>4 DEF StringAtMost

\* Of any two places: what a delete and a select of the one find of the other.
LEMMA PlacesExact ==
    ASSUME Precise, NEW p \in Portals, NEW q \in Portals
    PROVE  /\ DeletedWith(q, p) <=> IsPrefix(p, q)
           /\ DescendantOf(q, p) <=> IsStrictPrefix(p, q)
           /\ AncestorOf(q, p) <=> IsStrictPrefix(q, p)
<1>1. \A r \in Portals : r \in Seq(Positions) /\ Len(r) > 0
  BY PortalIs
<1>2. Within(p, q) /\ Within(q, p)
  BY <1>1, PlacesNest
<1>3. /\ LeftOf(p) \in EndsOf(p) /\ RightOf(p) \in EndsOf(p)
      /\ LeftOf(q) \in EndsOf(q) /\ RightOf(q) \in EndsOf(q)
  BY DEF EndsOf
<1>4. DeletedWith(q, p) <=> AtMost(LeftOf(p), LeftOf(q)) /\ AtMost(RightOf(q), RightOf(p))
  BY <1>3, StringsOrder DEF DeletedWith
<1>5. DescendantOf(q, p) <=> Below(LeftOf(p), LeftOf(q)) /\ Below(RightOf(q), RightOf(p))
  BY <1>3, StringsOrder DEF DescendantOf
<1>6. AncestorOf(q, p) <=> Below(LeftOf(q), LeftOf(p)) /\ Below(RightOf(p), RightOf(q))
  BY <1>3, StringsOrder DEF AncestorOf
<1> QED
  BY <1>2, <1>4, <1>5, <1>6 DEF Within

\* Every place a tree has is one of those looked at.
InTrees == portal \in Portals

LEMMA TreesArePortals == Trees => []InTrees
<1>1. Depth \in Nat /\ Depth >= 1 /\ Tops \subseteq Positions
  BY NestedSetAssumption DEF Positions
<1>2. Planted => InTrees
  <2>1. ASSUME NEW t \in Tops, portal = <<t>>
        PROVE  portal \in Portals
    <3>1. portal \in Seq(Positions) /\ Len(portal) = 1 /\ portal[1] = t
      BY <1>1, <2>1
    <3>2. Len(portal) \in 1..Depth /\ \A i \in 2..Len(portal) : portal[i] \in 1..Width
      BY <1>1, <3>1
    <3> QED
      BY <3>1, <3>2, IsPortal
  <2> QED
    BY <2>1 DEF Planted, InTrees
<1>3. InTrees /\ [Down \/ Along]_portal => InTrees'
  <2>1. SUFFICES ASSUME portal \in Portals, [Down \/ Along]_portal
                 PROVE  portal' \in Portals
    BY DEF InTrees
  <2>2. PICK n \in Nat : n = Len(portal) /\ n \in 1..Depth /\ portal \in Seq(Positions) /\ portal[1] \in Tops
                         /\ \A i \in 2..n : portal[i] \in 1..Width
    BY <2>1, PortalIs, LenProperties
  <2>3. CASE Down
    <3>1. n < Depth /\ 1 \in 1..Width /\ portal' = Append(portal, 1) /\ 1 \in Positions
      BY <2>2, <2>3, NestedSetAssumption DEF Down, Positions
    <3>2. /\ portal' \in Seq(Positions) /\ Len(portal') = n + 1 /\ portal'[n + 1] = 1
          /\ \A i \in 1..n : portal'[i] = portal[i]
      BY <2>2, <3>1, AppendProperties
    <3>3. Len(portal') \in 1..Depth /\ portal'[1] \in Tops
      BY <1>1, <2>2, <3>1, <3>2
    <3>4. \A i \in 2..Len(portal') : portal'[i] \in 1..Width
      <4>1. ASSUME NEW i \in 2..(n + 1)
            PROVE  portal'[i] \in 1..Width
        <5>1. i = n + 1 \/ (i \in 1..n /\ i \in 2..n)
          OBVIOUS
        <5> QED
          BY <2>2, <3>1, <3>2, <5>1
      <4> QED
        BY <3>2, <4>1
    <3> QED
      BY <3>2, <3>3, <3>4, IsPortal
  <2>4. CASE Along
    <3>1. portal' = NextSibling(portal) /\ n > 1 /\ portal[n] < Width
      BY <2>2, <2>4 DEF Along, NextSibling, Last
    <3>2. /\ portal' \in Seq(Positions) /\ Len(portal') = n /\ portal'[n] = portal[n] + 1
          /\ \A i \in 1..(n - 1) : portal'[i] = portal[i]
      <4>1. Len(portal) > 0
        BY <2>2
      <4>2. /\ NextSibling(portal) \in Seq(Positions) /\ Len(NextSibling(portal)) = Len(portal)
            /\ NextSibling(portal)[Len(portal)] = portal[Len(portal)] + 1
            /\ \A i \in 1..(Len(portal) - 1) : NextSibling(portal)[i] = portal[i]
        BY <2>2, <4>1, SiblingIs
      <4> QED
        BY ONLY <2>2, <3>1, <4>2
    <3>3. Len(portal') \in 1..Depth /\ portal'[1] \in Tops
      BY <2>2, <3>1, <3>2
    <3>4. \A i \in 2..Len(portal') : portal'[i] \in 1..Width
      <4>1. ASSUME NEW i \in 2..n
            PROVE  portal'[i] \in 1..Width
        <5>1. i = n \/ (i \in 1..(n - 1) /\ i \in 2..n)
          OBVIOUS
        <5>2. portal[n] \in 1..Width /\ Width \in Nat /\ portal[n] + 1 \in 1..Width
          <6>1. portal[n] \in 1..Width /\ Width \in Nat
            BY <2>2, <3>1, NestedSetAssumption
          <6> QED
            BY <3>1, <6>1
        <5> QED
          BY <2>2, <3>2, <5>1, <5>2
      <4> QED
        BY <3>2, <4>1
    <3> QED
      BY <3>2, <3>3, <3>4, IsPortal
  <2>5. CASE UNCHANGED portal
    BY <2>1, <2>5
  <2> QED
    BY <2>1, <2>3, <2>4, <2>5
<1> QED
  BY <1>2, <1>3, PTL DEF Trees

\* The fractions of every place of every tree enclose those of what is below it
\* and no other (rationalnestedset.js).
THEOREM EncodingsNest == Trees => []FractionsNest
<1>1. InTrees => FractionsNest
  <2>1. \A r \in Portals : r \in Seq(Positions) /\ Len(r) > 0
    BY PortalIs
  <2> QED
    BY <2>1, PlacesNest DEF FractionsNest, Within, InTrees
<1> QED
  BY <1>1, TreesArePortals, PTL

\* As long as the digits are enough for the tree, the handlers that compare the
\* strings find what they are after and nothing else.
THEOREM StringsExact == Trees => []QueriesExact
<1>1. InTrees => QueriesExact
  BY PlacesExact DEF QueriesExact, InTrees
<1> QED
  BY <1>1, TreesArePortals, PTL

\* What Select says of the places is what the queries of getTreeQuery find
\* (select.js L131-159), if the places are in trees that the digits are enough
\* for.
THEOREM TreeQueriesExact ==
    ASSUME Precise, \A n \in Nodes : Place[n] \in Portals, NEW m \in Nodes
    PROVE  /\ \A n \in Nodes : FoundFrom(" ", m, n) <=> DescendantOf(Place[n], Place[m])
           /\ \A n \in Nodes : FoundFrom("<<", m, n) <=> AncestorOf(Place[n], Place[m])
           /\ DescendentsOf({m}) = {n \in db \cap Nodes : DescendantOf(Place[n], Place[m])}
<1>1. ASSUME NEW n \in Nodes
      PROVE  /\ n \in Covered(m) <=> DescendantOf(Place[n], Place[m])
             /\ m \in Covered(n) <=> AncestorOf(Place[n], Place[m])
  BY PlacesExact DEF Covered
<1>2. ASSUME NEW n \in Nodes
      PROVE  /\ FoundFrom(" ", m, n) <=> n \in Covered(m)
             /\ FoundFrom("<<", m, n) <=> m \in Covered(n)
  BY DEF FoundFrom
<1>3. DescendentsOf({m}) = db \cap Covered(m)
  BY DEF DescendentsOf
<1>4. Covered(m) = {n \in Nodes : DescendantOf(Place[n], Place[m])}
  BY <1>1 DEF Covered
<1> QED
  BY <1>1, <1>2, <1>3, <1>4

=============================================================================
