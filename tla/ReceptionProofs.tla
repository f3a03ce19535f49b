-------------------------- MODULE ReceptionProofs --------------------------
(***************************************************************************)
(* What the reception promises holds for any backends, mounts, clients and *)
(* requests, whichever backends start, announce and crash in between.      *)
(***************************************************************************)
EXTENDS Reception, SequenceTheorems, WellFoundedInduction, TLAPS

-----------------------------------------------------------------------------
(* Helpers.                                                                  *)

\* A set of numbers has a least one.
LEMMA Least ==
    ASSUME NEW S \in SUBSET Nat, S # {}
    PROVE  \E k \in S : \A j \in S : k <= j
<1> DEFINE R == {p \in Nat \X Nat : p[1] < p[2]}
<1>1. R = OpToRel(<, Nat)
  BY Zenon DEF OpToRel
<1>2. IsWellFoundedOn(R, Nat)
  BY <1>1, NatLessThanWellFounded
<1>3. PICK k \in S : \A j \in S : <<j, k>> \notin R
  <2> HIDE DEF R
  <2> QED
    BY <1>2, WFMin, Zenon
<1>4. ASSUME NEW j \in S
      PROVE  ~ (j < k)
  <2>1. <<j, k>> \in Nat \X Nat /\ <<j, k>>[1] = j /\ <<j, k>>[2] = k
    OBVIOUS
  <2> QED
    BY <1>3, <2>1
<1> QED
  BY <1>3, <1>4

\* A bounded set of numbers has a greatest one.
LEMMA Greatest ==
    ASSUME NEW n \in Nat, NEW S \in SUBSET (0..n), S # {}
    PROVE  \E k \in S : \A j \in S : j <= k
<1> DEFINE T == {n - k : k \in S}
<1>1. T \in SUBSET Nat /\ T # {}
  <2>1. \A k \in S : k \in 0..n /\ n - k \in Nat
    OBVIOUS
  <2>2. T # {}
    OBVIOUS
  <2> QED
    BY <2>1, <2>2
<1>2. PICK t \in T : \A u \in T : t <= u
  <2> HIDE DEF T
  <2> QED
    BY <1>1, Least
<1>3. PICK k \in S : t = n - k
  OBVIOUS
<1>4. ASSUME NEW j \in S
      PROVE  j <= k
  <2>1. n - j \in T
    OBVIOUS
  <2>2. n - k <= n - j
    BY <1>2, <1>3, <2>1
  <2> QED
    BY <2>2
<1> QED
  BY <1>4

\* The mounts of a backend are a sequence of routes.
LEMMA MountsType ==
    ASSUME NEW b \in Backends
    PROVE  /\ Mounts[b] \in Seq(Routes)
           /\ Len(Mounts[b]) \in Nat
           /\ \A k \in 1..Len(Mounts[b]) : Mounts[b][k] \in Routes
           /\ ToSet(Mounts[b]) = {Mounts[b][k] : k \in 1..Len(Mounts[b])}
<1>1. Mounts[b] \in Seq(ToSet(Mounts[b]))
  BY ConstantsAssumption
<1>2. ToSet(Mounts[b]) \subseteq Routes
  BY DEF Routes
<1>3. DOMAIN Mounts[b] = 1..Len(Mounts[b]) /\ Len(Mounts[b]) \in Nat
      /\ \A k \in 1..Len(Mounts[b]) : Mounts[b][k] \in ToSet(Mounts[b])
  BY <1>1, LenProperties, ElementOfSeq
<1>4. ToSet(Mounts[b]) = {Mounts[b][k] : k \in 1..Len(Mounts[b])}
  BY <1>3 DEF ToSet
<1>5. Mounts[b] \in Seq(Routes)
  BY <1>1, <1>2, SeqMonotonic
<1> QED
  BY <1>2, <1>3, <1>4, <1>5

\* Routes and addresses are records whose path is a sequence.
LEMMA PathType ==
    ASSUME NEW r \in Routes \cup Addresses
    PROVE  /\ r = [department |-> r.department, path |-> r.path]
           /\ r.path \in Seq(ToSet(r.path))
           /\ Len(r.path) \in Nat
<1>1. r.path \in Seq(ToSet(r.path)) /\ r = [department |-> r.department, path |-> r.path]
  BY ConstantsAssumption
<1> DEFINE S == ToSet(r.path)
           p == r.path
<1>2. p \in Seq(S)
  BY <1>1
<1>3. Len(p) \in Nat
  <2> HIDE DEF S, p
  <2> QED
    BY <1>2
<1> QED
  BY <1>1, <1>3

\* Of two routes above the same url the shorter one is above the other.
LEMMA CoversEachOther ==
    ASSUME NEW r \in Routes, NEW s \in Routes, NEW a \in Addresses,
           Covers(r, a), Covers(s, a), Len(r.path) <= Len(s.path)
    PROVE  Covers(r, s)
<1> DEFINE p == r.path
           q == s.path
           t == a.path
           S == ToSet(p) \cup ToSet(q) \cup ToSet(t)
<1>1. p \in Seq(S) /\ q \in Seq(S) /\ t \in Seq(S)
  <2> DEFINE P == ToSet(p)
             Q == ToSet(q)
             T == ToSet(t)
  <2>1. p \in Seq(P) /\ q \in Seq(Q) /\ t \in Seq(T)
    BY PathType
  <2> HIDE DEF P, Q, T, p, q, t
  <2>2. p \in Seq(P \cup Q \cup T) /\ q \in Seq(P \cup Q \cup T) /\ t \in Seq(P \cup Q \cup T)
    BY <2>1
  <2> QED
    BY <2>2 DEF P, Q, T
<1>2. /\ Len(p) <= Len(t) /\ Len(q) <= Len(t) /\ Len(p) <= Len(q)
      /\ SubSeq(p, 1, Len(p)) = SubSeq(t, 1, Len(p))
      /\ SubSeq(q, 1, Len(q)) = SubSeq(t, 1, Len(q))
      /\ r.department = s.department
  BY DEF Covers, IsPrefix
<1>5. Asked(s) = s.department
  BY ConstantsAssumption DEF Asked
<1> HIDE DEF S, p, q, t
<1>3. \A k \in 1..Len(p) : p[k] = q[k]
  <2> TAKE k \in 1..Len(p)
  <2>1. SubSeq(p, 1, Len(p))[k] = p[k] /\ SubSeq(t, 1, Len(p))[k] = t[k]
    BY <1>1, <1>2
  <2>2. SubSeq(q, 1, Len(q))[k] = q[k] /\ SubSeq(t, 1, Len(q))[k] = t[k]
    BY <1>1, <1>2
  <2> QED
    BY <1>2, <2>1, <2>2
<1>4. SubSeq(p, 1, Len(p)) = SubSeq(q, 1, Len(p))
  BY <1>1, <1>2, <1>3
<1> QED
  BY <1>2, <1>4, <1>5 DEF Covers, IsPrefix, p, q

\* Routes above a url are the url, cut off somewhere.
LEMMA CoversIsAbove ==
    ASSUME NEW r \in Routes, NEW a \in Addresses
    PROVE  /\ Covers(r, a) => Len(r.path) \in 0..Len(a.path) /\ r = Above(a, Len(r.path))
           /\ \A k \in 0..Len(a.path) :
                 r = Above(a, k) => Covers(r, a) /\ Len(r.path) = k
<1> DEFINE p == r.path
           t == a.path
           S == ToSet(p)
           T == ToSet(t)
<1>1. /\ p \in Seq(S) /\ t \in Seq(T) /\ Len(p) \in Nat /\ Len(t) \in Nat
      /\ r = [department |-> r.department, path |-> p]
  BY PathType
<1>2. ASSUME Covers(r, a)
      PROVE  Len(p) \in 0..Len(t) /\ r = Above(a, Len(p))
  <2>1. Len(p) <= Len(t) /\ SubSeq(p, 1, Len(p)) = SubSeq(t, 1, Len(p))
        /\ r.department = Asked(a)
    BY <1>2 DEF Covers, IsPrefix
  <2>2. SubSeq(p, 1, Len(p)) = p
    <3> HIDE DEF p, S
    <3> QED
      BY <1>1
  <2>3. Above(a, Len(p)) = [department |-> r.department, path |-> p]
    BY <2>1, <2>2 DEF Above
  <2> QED
    BY <1>1, <2>1, <2>3
<1>3. ASSUME NEW k \in 0..Len(t), r = Above(a, k)
      PROVE  Covers(r, a) /\ Len(p) = k
  <2>1. p = SubSeq(t, 1, k) /\ r.department = Asked(a)
    BY <1>3 DEF Above
  <2>2. Len(p) = k
    <3> HIDE DEF p, t, S, T
    <3> QED
      BY <1>1, <2>1
  <2>3. SubSeq(p, 1, Len(p)) = p
    <3> HIDE DEF p, t, S, T
    <3> QED
      BY <1>1
  <2> QED
    BY <1>1, <2>1, <2>2, <2>3 DEF Covers, IsPrefix
<1> QED
  BY <1>2, <1>3

\* A layer takes what the reception finds it for, if a department is named.
LEMMA CoversFits ==
    ASSUME NEW r \in Routes, NEW a \in Addresses, Covers(r, a), a.department # NoDepartment
    PROVE  LayerFits(r, a)
<1> DEFINE p == r.path
           t == a.path
           S == ToSet(p)
           T == ToSet(t)
<1>1. p \in Seq(S) /\ t \in Seq(T)
  BY PathType
<1>2. /\ Len(p) <= Len(t) /\ SubSeq(p, 1, Len(p)) = SubSeq(t, 1, Len(p))
      /\ r.department = a.department
  BY DEF Covers, IsPrefix, Asked
<1>3. \A i \in DOMAIN p : p[i] = t[i]
  <2> HIDE DEF p, t, S, T
  <2> TAKE i \in DOMAIN p
  <2>1. i \in 1..Len(p) /\ Len(p) \in Nat /\ Len(t) \in Nat
    BY <1>1
  <2>2. SubSeq(p, 1, Len(p))[i] = p[i] /\ SubSeq(t, 1, Len(p))[i] = t[i]
    BY <1>1, <1>2, <2>1
  <2> QED
    BY <1>2, <2>2
<1> QED
  BY <1>2, <1>3 DEF LayerFits

-----------------------------------------------------------------------------
(* The inductive invariant.                                                  *)

Tokens == messages \cup working

MountsMade == \A b \in Backends : mounted[b] <= Len(Mounts[b])

\* What a backend has announced is what it had mounted at some time.
AnnouncedInOrder ==
    \A b \in Backends : \E n \in 0..mounted[b] :
        \A r \in Routes :
            b \in warehouse_routes[r] <=> \E k \in 1..n : r = Mounts[b][k]

\* The route of a request is one of its backend, and none that the backend
\* mounted before is more specific.
RoutedBy(q, b, r) ==
    /\ b \in Backends
    /\ \E i \in 1..mounted[b] :
          /\ Mounts[b][i] = r
          /\ Covers(r, address[q])
          /\ \A k \in 1..i :
                Covers(Mounts[b][k], address[q]) => Len(Mounts[b][k].path) <= Len(r.path)

SentRight == \A q \in Requests : sentTo[q] # NoBackend => RoutedBy(q, sentTo[q], via[q])

\* A request is in one place, and its client waits.
OneToken == \A x, y \in Tokens : x.req = y.req => x = y

Waited == \A x \in Tokens : x.req \in callbacks

Unanswered == \A q \in callbacks : answers[q] = <<>>

Unsent == \A q \in Requests \ callbacks : answers[q] = <<>> => sentTo[q] = NoBackend

Failed(q) == IsSlow(sentTo[q], via[q], prepared, "failed")

BodyRight(body, q) ==
    \/ body = NotFound
    \/ LayerFits(body, address[q]) /\ body \in ToSet(Mounts[sentTo[q]])

Unnamed(q) == address[q].department = NoDepartment

\* Who handles a request is who should.
WorkRight(body, q) ==
    /\ body = NotFound => Failed(q) \/ Unnamed(q)
    /\ SpecificFirst(sentTo[q]) /\ body # NotFound =>
           body = via[q] \/ Failed(q) \/ ~ Covers(body, address[q])

PlaceRight(x) ==
    /\ x.kind = "request" => sentTo[x.req] = NoBackend
    /\ x.kind \in {"forward", "work", "response"} =>
          x.back = sentTo[x.req] /\ x.back # NoBackend
    /\ x.kind \in {"work", "response", "answer"} => BodyRight(x.body, x.req)
    /\ x.kind \in {"work", "response"} => WorkRight(x.body, x.req)

TokensRight == \A x \in Tokens : PlaceRight(x)

\* A callback of the reception is for a request that is with its backend.
KeptFor ==
    \A q \in requests :
        \/ sentTo[q] \notin up
        \/ \E x \in Tokens : x.req = q /\ x.kind \in {"forward", "work", "response"}

RInv ==
    /\ TypeOK
    /\ MountsMade
    /\ AnnouncedInOrder
    /\ SentRight
    /\ OneToken
    /\ Waited
    /\ Unanswered
    /\ Unsent
    /\ TokensRight
    /\ AnsweredOnce
    /\ KeptFor

\* The invariant holds at the start.
LEMMA InitRInv ==
    ASSUME Init
    PROVE  RInv
<1>1. TypeOK
  BY DEF Init, TypeOK, Bodies
<1>2. MountsMade /\ AnnouncedInOrder
  <2>1. ASSUME NEW b \in Backends
        PROVE  mounted[b] = 0 /\ Len(Mounts[b]) \in Nat
    BY MountsType DEF Init
  <2> QED
    BY <2>1 DEF Init, MountsMade, AnnouncedInOrder
<1>3. AnsweredOnce
  BY DEF Init, AnsweredOnce
<1> QED
  BY <1>1, <1>2, <1>3 DEF Init, RInv, Tokens, SentRight, OneToken, Waited, Unanswered,
     Unsent, TokensRight, KeptFor

-----------------------------------------------------------------------------
(* What the two tables of routes find.                                       *)

LEMMA FindIs ==
    ASSUME warehouse_routes \in [Routes -> SUBSET Backends], NEW a \in Addresses
    PROVE  /\ Find(a) = NotFound =>
                 \A s \in Routes : Covers(s, a) => warehouse_routes[s] = {}
           /\ Find(a) # NotFound =>
                 /\ Find(a) \in Routes
                 /\ warehouse_routes[Find(a)] # {}
                 /\ Covers(Find(a), a)
                 /\ \A s \in Routes :
                       Covers(s, a) /\ warehouse_routes[s] # {} =>
                           Len(s.path) <= Len(Find(a).path)
<1> DEFINE found == {k \in 0..Len(a.path) : IsKnown(Above(a, k))}
<1>1. Len(a.path) \in Nat
  BY PathType
<1>2. ASSUME NEW s \in Routes, Covers(s, a), warehouse_routes[s] # {}
      PROVE  Len(s.path) \in found
  BY <1>2, CoversIsAbove DEF IsKnown
<1>3. CASE found = {}
  <2>1. Find(a) = NotFound
    BY <1>3 DEF Find
  <2> QED
    BY <1>2, <1>3, <2>1
<1>4. CASE found # {}
  <2> DEFINE k == CHOOSE k \in found : \A j \in found : j <= k
  <2>1. k \in found /\ \A j \in found : j <= k
    <3>1. found \in SUBSET (0..Len(a.path))
      OBVIOUS
    <3> HIDE DEF found
    <3>2. \E i \in found : \A j \in found : j <= i
      BY <1>1, <1>4, <3>1, Greatest
    <3> QED
      BY <3>2
  <2>2. Find(a) = Above(a, k)
    BY <1>4 DEF Find
  <2> HIDE DEF k
  <2>3. k \in 0..Len(a.path) /\ IsKnown(Above(a, k))
    BY <2>1
  <2>4. Find(a) \in Routes /\ warehouse_routes[Find(a)] # {} /\ Find(a) # NotFound
    BY <2>2, <2>3, ConstantsAssumption DEF IsKnown
  <2>5. Covers(Find(a), a) /\ Len(Find(a).path) = k
    BY <2>2, <2>3, <2>4, CoversIsAbove
  <2> QED
    BY <1>2, <2>1, <2>4, <2>5
<1> QED
  BY <1>3, <1>4

\* The first layer of those that fit.
First(b, F) ==
    IF F = {} THEN NotFound
    ELSE Mounts[b][CHOOSE k \in F : \A j \in F : k <= j]

LEMMA FirstIs ==
    ASSUME NEW b \in Backends, NEW a \in Addresses,
           NEW F \in SUBSET (1..Len(Mounts[b])), \A k \in F : LayerFits(Mounts[b][k], a)
    PROVE  LET h == First(b, F) IN
           /\ h \in Routes \cup {NotFound}
           /\ h # NotFound => LayerFits(h, a) /\ h \in ToSet(Mounts[b])
           /\ \A i \in F :
                 /\ h # NotFound
                 /\ SpecificFirst(b) /\ Covers(h, a) /\ Covers(Mounts[b][i], a)
                    /\ (\A k \in 1..i : Covers(Mounts[b][k], a) =>
                           Len(Mounts[b][k].path) <= Len(Mounts[b][i].path))
                        => h = Mounts[b][i]
<1> DEFINE h == First(b, F)
<1>1. CASE F = {}
  BY <1>1 DEF First
<1>2. CASE F # {}
  <2> DEFINE l == CHOOSE k \in F : \A j \in F : k <= j
  <2>1. l \in F /\ \A j \in F : l <= j
    <3>1. F \in SUBSET Nat
      BY MountsType
    <3>2. \E k \in F : \A j \in F : k <= j
      BY <1>2, <3>1, Least
    <3> QED
      BY <3>2
  <2>2. h = Mounts[b][l]
    BY <1>2 DEF First
  <2> HIDE DEF l, h
  <2>3. l \in 1..Len(Mounts[b]) /\ h \in Routes /\ h \in ToSet(Mounts[b])
    BY <2>1, <2>2, MountsType
  <2>4. h # NotFound /\ LayerFits(h, a)
    BY <2>1, <2>2, <2>3, ConstantsAssumption
  <2>5. ASSUME NEW i \in F, SpecificFirst(b), Covers(h, a), Covers(Mounts[b][i], a),
               \A k \in 1..i : Covers(Mounts[b][k], a) =>
                   Len(Mounts[b][k].path) <= Len(Mounts[b][i].path)
        PROVE  h = Mounts[b][i]
    <3>1. i \in 1..Len(Mounts[b]) /\ Mounts[b][i] \in Routes /\ l <= i
          /\ Len(Mounts[b]) \in Nat
      BY <2>1, MountsType
    <3>2. l \in 1..i /\ Covers(Mounts[b][l], a) /\ Covers(Mounts[b][i], a)
      BY <2>1, <2>2, <2>3, <2>5, <3>1
    <3>3. Covers(Mounts[b][l], Mounts[b][i])
      BY <2>2, <2>3, <2>5, <3>1, <3>2, CoversEachOther
    <3>4. DOMAIN Mounts[b] = 1..Len(Mounts[b])
      BY MountsType, LenProperties
    <3>5. i <= l
      BY <2>3, <2>5, <3>1, <3>3, <3>4 DEF SpecificFirst
    <3>6. i = l
      BY <3>1, <3>2, <3>5
    <3> QED
      BY <2>2, <3>6
  <2> QED
    BY <2>3, <2>4, <2>5 DEF h
<1> QED
  BY <1>1, <1>2

-----------------------------------------------------------------------------
(* Type correctness.                                                         *)

\* The layer that handles a request, P being what is prepared.
LEMMA HandlerIs ==
    ASSUME TypeOK, MountsMade, NEW b \in Backends, NEW a \in Addresses, NEW P
    PROVE  LET h == Handler(b, a, P) IN
           /\ h \in Bodies
           /\ h # NotFound => LayerFits(h, a) /\ h \in ToSet(Mounts[b])
           /\ \A i \in Fits(b, a, P) :
                 /\ h # NotFound
                 /\ SpecificFirst(b) /\ Covers(h, a) /\ Covers(Mounts[b][i], a)
                    /\ (\A k \in 1..i : Covers(Mounts[b][k], a) =>
                           Len(Mounts[b][k].path) <= Len(Mounts[b][i].path))
                        => h = Mounts[b][i]
<1>1. mounted[b] \in Nat /\ mounted[b] <= Len(Mounts[b]) /\ Len(Mounts[b]) \in Nat
  BY MountsType DEF TypeOK, MountsMade
<1>2. /\ Fits(b, a, P) \in SUBSET (1..Len(Mounts[b]))
      /\ \A k \in Fits(b, a, P) : LayerFits(Mounts[b][k], a)
  BY <1>1 DEF Fits
<1>3. Handler(b, a, P) = First(b, Fits(b, a, P))
  BY DEF Handler, First
<1> QED
  BY <1>2, <1>3, FirstIs DEF Bodies

\* What is taken is handled by who should, P being what is prepared.
LEMMA TakenRight ==
    ASSUME TypeOK, MountsMade, SentRight,
           NEW q \in Requests, sentTo[q] # NoBackend, NEW P
    PROVE  LET y == Taken(q, sentTo[q], P)
               failed == IsSlow(sentTo[q], via[q], P, "failed")
           IN  /\ y \in [kind : {"work"}, req : Requests, back : Backends, body : Bodies]
               /\ y.req = q /\ y.back = sentTo[q]
               /\ BodyRight(y.body, q)
               /\ y.body = NotFound => failed \/ Unnamed(q)
               /\ SpecificFirst(sentTo[q]) /\ y.body # NotFound =>
                      y.body = via[q] \/ failed \/ ~ Covers(y.body, address[q])
<1> DEFINE b == sentTo[q]
           a == address[q]
           h == Handler(b, a, P)
           failed == IsSlow(b, via[q], P, "failed")
<1>1. PICK i \in 1..mounted[b] :
          /\ Mounts[b][i] = via[q]
          /\ Covers(via[q], a)
          /\ \A k \in 1..i :
                Covers(Mounts[b][k], a) => Len(Mounts[b][k].path) <= Len(via[q].path)
  BY DEF SentRight, RoutedBy
<1>2. b \in Backends /\ a \in Addresses
  BY DEF SentRight, RoutedBy, TypeOK
<1>3. ~ failed /\ ~ Unnamed(q) => i \in Fits(b, a, P)
  <2>1. i \in 1..Len(Mounts[b])
    BY <1>1, <1>2, MountsType DEF TypeOK, MountsMade
  <2>2. via[q] \in Routes
    BY <1>1, <1>2, <2>1, MountsType
  <2>3. ~ Unnamed(q) => LayerFits(via[q], a)
    BY <1>1, <1>2, <2>2, CoversFits DEF Unnamed
  <2> QED
    BY <1>1, <2>3 DEF Fits
<1>4. Taken(q, b, P) = [kind |-> "work", req |-> q, back |-> b, body |-> h]
  BY DEF Taken, Message
<1>5. h \in Bodies /\ BodyRight(h, q)
  BY <1>2, HandlerIs DEF BodyRight
<1>6. /\ h = NotFound => failed \/ Unnamed(q)
      /\ SpecificFirst(b) /\ h # NotFound => h = via[q] \/ failed \/ ~ Covers(h, a)
  <2>1. h = NotFound => failed \/ Unnamed(q)
    BY <1>2, <1>3, HandlerIs
  <2>2. Unnamed(q) => h = NotFound
    <3> SUFFICES ASSUME Unnamed(q), h # NotFound
                 PROVE  FALSE
      OBVIOUS
    <3>1. LayerFits(h, a) /\ h \in Routes
      BY <1>2, HandlerIs DEF Bodies
    <3> QED
      BY <3>1, ConstantsAssumption DEF LayerFits, Unnamed
  <2>3. ASSUME SpecificFirst(b), h # NotFound, ~ failed, Covers(h, a)
        PROVE  h = via[q]
    <3>1. i \in Fits(b, a, P)
      BY <1>3, <2>2, <2>3
    <3> QED
      BY <1>1, <1>2, <2>3, <3>1, HandlerIs
  <2> QED
    BY <2>1, <2>3
<1> HIDE DEF h, a, b, failed
<1> QED
  BY <1>2, <1>4, <1>5, <1>6 DEF a, b, failed

-----------------------------------------------------------------------------
(* One lemma per action.                                                     *)

\* A request that moves on leaves the others where they are.
LEMMA TokenMoves ==
    ASSUME RInv, NEW x \in Tokens, NEW y, y.req = x.req,
           Tokens' \subseteq (Tokens \ {x}) \cup {y},
           UNCHANGED <<prepared, address, clients>>,
           \A q \in Requests : q # x.req => sentTo'[q] = sentTo[q] /\ via'[q] = via[q],
           y \in Tokens' => PlaceRight(y)'
    PROVE  OneToken' /\ Waited' /\ Unanswered' /\ Unsent' /\ TokensRight' /\ AnsweredOnce'
<1>1. \A z \in Tokens : z.req \in Requests /\ z.req \in callbacks
  BY DEF RInv, TypeOK, Tokens, Waited
<1>2. \A z \in Tokens \ {x} : z.req # x.req
  BY DEF RInv, OneToken
<1>3. OneToken'
  BY <1>2 DEF OneToken, RInv
<1>4. Waited' /\ Unanswered' /\ Unsent'
  BY <1>1 DEF clients, RInv, Waited, Unanswered, Unsent
<1>5. TokensRight'
  <2>1. ASSUME NEW z \in Tokens \ {x}
        PROVE  PlaceRight(z)'
    <3>1. sentTo'[z.req] = sentTo[z.req] /\ via'[z.req] = via[z.req]
      BY <1>1, <1>2, <2>1
    <3>2. PlaceRight(z)
      BY <2>1 DEF RInv, TokensRight
    <3> QED
      BY <3>1, <3>2 DEF PlaceRight, BodyRight, WorkRight, Failed, Unnamed, IsSlow
  <2> QED
    BY <2>1 DEF TokensRight
<1>6. AnsweredOnce'
  <2>1. answers[x.req] = <<>> /\ DOMAIN answers[x.req] = {} /\ Len(answers[x.req]) = 0
    BY <1>1 DEF RInv, Unanswered
  <2>2. ASSUME NEW q \in Requests
        PROVE  /\ Len(answers[q]) <= 1
               /\ \A k \in DOMAIN answers[q] :
                     \/ answers[q][k] = NotFound
                     \/ /\ LayerFits(answers[q][k], address[q])
                        /\ answers[q][k] \in ToSet(Mounts[sentTo'[q]])
    <3>1. CASE q = x.req
      BY <2>1, <3>1
    <3>2. CASE q # x.req
      BY <3>2 DEF RInv, AnsweredOnce
    <3> QED
      BY <3>1, <3>2
  <2> QED
    BY <2>2 DEF AnsweredOnce, clients
<1> QED
  BY <1>3, <1>4, <1>5, <1>6

\* What a request was routed by stays a route of its backend.
LEMMA SentStays ==
    ASSUME RInv, UNCHANGED <<routed, address>>, mounted' \in [Backends -> Nat],
           \A b \in Backends : mounted[b] <= mounted'[b]
    PROVE  SentRight'
<1> SUFFICES ASSUME NEW q \in Requests, sentTo[q] # NoBackend
             PROVE  RoutedBy(q, sentTo[q], via[q])'
  BY DEF SentRight, routed
<1>1. RoutedBy(q, sentTo[q], via[q])
  BY DEF RInv, SentRight
<1>2. sentTo[q] \in Backends /\ mounted[sentTo[q]] \in Nat
  BY <1>1 DEF RoutedBy, RInv, TypeOK
<1>3. 1..mounted[sentTo[q]] \subseteq 1..mounted'[sentTo[q]]
  BY <1>2
<1>4. sentTo' = sentTo /\ via' = via /\ address' = address
  BY DEF routed
<1> QED
  BY <1>1, <1>3, <1>4 DEF RoutedBy

\* While only backends change, requests stay where they are.
LEMMA TokensStay ==
    ASSUME RInv, UNCHANGED <<prepared, address, routed, clients>>, Tokens' \subseteq Tokens
    PROVE  OneToken' /\ Waited' /\ Unanswered' /\ Unsent' /\ TokensRight' /\ AnsweredOnce'
<1>1. sentTo' = sentTo /\ via' = via /\ answers' = answers /\ callbacks' = callbacks
  BY DEF routed, clients
<1>2. TokensRight'
  BY <1>1 DEF RInv, TokensRight, PlaceRight, BodyRight, WorkRight, Failed, Unnamed, IsSlow
<1>3. AnsweredOnce'
  BY <1>1 DEF RInv, AnsweredOnce
<1> QED
  BY <1>1, <1>2, <1>3 DEF RInv, OneToken, Waited, Unanswered, Unsent

\* A backend that starts is a new one: no request was sent to it before.
LEMMA StartRInv ==
    ASSUME RInv, NEW b \in Backends, Start(b)
    PROVE  RInv'
<1>1. TypeOK'
  BY DEF Start, RInv, TypeOK, clients, routed
<1>2. SentRight'
  BY DEF Start, RInv, SentRight, RoutedBy, routed
<1>3. OneToken' /\ Waited' /\ Unanswered' /\ Unsent' /\ TokensRight' /\ AnsweredOnce'
  BY TokensStay DEF Start, Tokens
<1>4. KeptFor'
  <2> SUFFICES ASSUME NEW q \in requests, sentTo[q] \in up \cup {b}
               PROVE  \E x \in Tokens : x.req = q /\ x.kind \in {"forward", "work", "response"}
    BY DEF KeptFor, Start, routed, Tokens
  <2>1. q \in Requests /\ NoBackend \notin Backends
    BY ConstantsAssumption DEF RInv, TypeOK
  <2>2. sentTo[q] # b
    <3>1. SUFFICES ASSUME sentTo[q] = b
                   PROVE  FALSE
      OBVIOUS
    <3>2. mounted[b] = 0 /\ RoutedBy(q, b, via[q])
      BY <2>1, <3>1 DEF Start, RInv, SentRight
    <3> QED
      BY <3>2 DEF RoutedBy
  <2> QED
    BY <2>2 DEF RInv, KeptFor
<1> QED
  BY <1>1, <1>2, <1>3, <1>4 DEF RInv, Start, MountsMade, AnnouncedInOrder

\* A mount comes after those made before.
LEMMA MountRInv ==
    ASSUME RInv, NEW b \in Backends, Mount(b)
    PROVE  RInv'
<1>1. mounted[b] \in Nat /\ Len(Mounts[b]) \in Nat /\ mounted[b] < Len(Mounts[b])
      /\ mounted' = [mounted EXCEPT ![b] = @ + 1]
  BY MountsType DEF Mount, RInv, TypeOK
<1>2. mounted' \in [Backends -> Nat] /\ \A c \in Backends : mounted[c] <= mounted'[c]
  BY <1>1 DEF RInv, TypeOK
<1>3. TypeOK'
  BY <1>2 DEF Mount, RInv, TypeOK, clients, routed
<1>4. MountsMade'
  BY <1>1 DEF RInv, TypeOK, MountsMade
<1>5. AnnouncedInOrder'
  <2> SUFFICES ASSUME NEW c \in Backends
               PROVE  \E n \in 0..mounted'[c] :
                          \A r \in Routes :
                              c \in warehouse_routes[r] <=> \E k \in 1..n : r = Mounts[c][k]
    BY DEF AnnouncedInOrder, Mount
  <2>1. PICK n \in 0..mounted[c] :
            \A r \in Routes : c \in warehouse_routes[r] <=> \E k \in 1..n : r = Mounts[c][k]
    BY DEF RInv, AnnouncedInOrder
  <2>2. n \in 0..mounted'[c]
    BY <1>2 DEF RInv, TypeOK
  <2> QED
    BY <2>1, <2>2
<1>6. SentRight'
  BY <1>2, SentStays DEF Mount
<1>7. OneToken' /\ Waited' /\ Unanswered' /\ Unsent' /\ TokensRight' /\ AnsweredOnce'
  BY TokensStay DEF Mount, Tokens
<1>8. KeptFor'
  BY DEF Mount, Tokens, routed, RInv, KeptFor
<1> QED
  BY <1>3, <1>4, <1>5, <1>6, <1>7, <1>8 DEF RInv

\* An announcement is of all mounts made so far.
LEMMA AnnounceRInv ==
    ASSUME RInv, NEW b \in Backends, Announce(b)
    PROVE  RInv'
<1>1. UNCHANGED <<up, mounted, prepared, requests, callbacks, answers, address, messages,
                  working, sentTo, via>>
  BY DEF Announce, backs, clients, routed
<1>2. TypeOK'
  BY <1>1 DEF Announce, RInv, TypeOK
<1>3. AnnouncedInOrder'
  <2> SUFFICES ASSUME NEW c \in Backends
               PROVE  \E n \in 0..mounted[c] :
                          \A r \in Routes :
                              c \in warehouse_routes'[r] <=> \E k \in 1..n : r = Mounts[c][k]
    BY <1>1 DEF AnnouncedInOrder
  <2>1. PICK n \in 0..mounted[c] :
            \A r \in Routes : c \in warehouse_routes[r] <=> \E k \in 1..n : r = Mounts[c][k]
    BY DEF RInv, AnnouncedInOrder
  <2>2. mounted[c] \in Nat
    BY DEF RInv, TypeOK
  <2>3. ASSUME NEW r \in Routes
        PROVE  c \in warehouse_routes'[r] <=>
                  \/ c \in warehouse_routes[r]
                  \/ c = b /\ \E k \in 1..mounted[b] : r = Mounts[b][k]
    <3>1. warehouse_routes'[r] = IF r \in HasMounted(b) THEN warehouse_routes[r] \cup {b}
                                 ELSE warehouse_routes[r]
      BY DEF Announce
    <3>2. r \in HasMounted(b) <=> \E k \in 1..mounted[b] : r = Mounts[b][k]
      BY DEF HasMounted
    <3> QED
      BY <3>1, <3>2
  <2>4. CASE c = b
    <3>1. \A r \in Routes :
              c \in warehouse_routes'[r] <=> \E k \in 1..mounted[c] : r = Mounts[c][k]
      <4> TAKE r \in Routes
      <4>1. c \in warehouse_routes[r] => \E k \in 1..mounted[c] : r = Mounts[c][k]
        BY <2>1, <2>2
      <4> QED
        BY <2>3, <2>4, <4>1
    <3> QED
      BY <2>2, <3>1
  <2>5. CASE c # b
    BY <2>1, <2>3, <2>5
  <2> QED
    BY <2>4, <2>5
<1>4. OneToken' /\ Waited' /\ Unanswered' /\ Unsent' /\ TokensRight' /\ AnsweredOnce'
  BY <1>1, TokensStay DEF Tokens, routed, clients
<1> QED
  BY <1>1, <1>2, <1>3, <1>4 DEF RInv, MountsMade, SentRight, RoutedBy, KeptFor, Tokens

\* A backend that goes takes its requests with it.
LEMMA CrashRInv ==
    ASSUME RInv, NEW b \in Backends, Crash(b)
    PROVE  RInv'
<1>1. TypeOK'
  BY DEF Crash, RInv, TypeOK, clients, routed
<1>2. SentRight'
  BY DEF Crash, RInv, SentRight, RoutedBy, routed
<1>3. OneToken' /\ Waited' /\ Unanswered' /\ Unsent' /\ TokensRight' /\ AnsweredOnce'
  BY TokensStay DEF Crash, Tokens
<1>4. KeptFor'
  <2> SUFFICES ASSUME NEW q \in requests, sentTo[q] \in up, sentTo[q] # b
               PROVE  \E x \in Tokens' : x.req = q /\ x.kind \in {"forward", "work", "response"}
    BY DEF KeptFor, Crash, routed
  <2>1. PICK x \in Tokens : x.req = q /\ x.kind \in {"forward", "work", "response"}
    BY DEF RInv, KeptFor
  <2>2. x.back # b
    BY <2>1 DEF RInv, TokensRight, PlaceRight
  <2>3. x \in Tokens'
    BY <2>2 DEF Crash, Tokens
  <2> QED
    BY <2>1, <2>3
<1> QED
  BY <1>1, <1>2, <1>3, <1>4 DEF RInv, Crash, MountsMade, AnnouncedInOrder

\* The warehouse hands a request to a layer.
LEMMA HandleRInv ==
    ASSUME RInv, NEW m \in messages, Handle(m)
    PROVE  RInv'
<1> DEFINE q == m.req
<1>0. PICK y : y = Taken(q, m.back, prepared)
  OBVIOUS
<1>1. /\ q \in Requests /\ m.kind = "forward" /\ m.back = sentTo[q] /\ sentTo[q] # NoBackend
      /\ m \in Tokens /\ m \notin working
  BY DEF Handle, RInv, TypeOK, TokensRight, PlaceRight, Tokens
<1>2. /\ y \in [kind : {"work"}, req : Requests, back : Backends, body : Bodies]
      /\ y.req = q /\ PlaceRight(y)
  <2>1. /\ y.kind = "work" /\ y.back = sentTo[q]
        /\ BodyRight(y.body, q) /\ WorkRight(y.body, q)
    BY <1>0, <1>1, TakenRight DEF RInv, WorkRight, Failed
  <2> QED
    BY <1>0, <1>1, <2>1, TakenRight DEF RInv, PlaceRight
<1>3. /\ messages' = messages \ {m} /\ working' = working \cup {y}
      /\ UNCHANGED <<up, mounted, prepared, warehouse_routes, requests, callbacks, answers,
                     address, sentTo, via>>
  BY <1>0 DEF Handle, backs, clients, routed
<1>4. TypeOK'
  BY <1>2, <1>3 DEF RInv, TypeOK
<1>5. PlaceRight(y)'
  BY <1>2, <1>3 DEF PlaceRight, BodyRight, WorkRight, Failed, Unnamed, IsSlow
<1>6. OneToken' /\ Waited' /\ Unanswered' /\ Unsent' /\ TokensRight' /\ AnsweredOnce'
  BY <1>1, <1>2, <1>3, <1>5, TokenMoves DEF Tokens, clients
<1>7. KeptFor'
  <2> SUFFICES ASSUME NEW p \in requests, sentTo[p] \in up
               PROVE  \E x \in Tokens' : x.req = p /\ x.kind \in {"forward", "work", "response"}
    BY <1>3 DEF KeptFor
  <2>1. PICK x \in Tokens : x.req = p /\ x.kind \in {"forward", "work", "response"}
    BY DEF RInv, KeptFor
  <2>2. x \in Tokens' \/ x = m
    BY <1>3 DEF Tokens
  <2>3. y \in Tokens' /\ y.kind = "work"
    BY <1>2, <1>3 DEF Tokens
  <2> QED
    BY <1>2, <2>1, <2>2, <2>3
<1> QED
  BY <1>3, <1>4, <1>6, <1>7 DEF RInv, MountsMade, AnnouncedInOrder, SentRight, RoutedBy

\* What was held is handed on, once it is known whether the supplier works.
LEMMA PrepareRInv ==
    ASSUME RInv, NEW x \in Slow, Prepare(x[1], x[2])
    PROVE  RInv'
<1> DEFINE b == x[1]
           r == x[2]
           held == Held(b, r)
           Again(w) == Taken(w.req, b, prepared')
<1>1. /\ messages' = messages
      /\ working' = (working \ held) \cup {Again(w) : w \in held}
      /\ UNCHANGED <<up, mounted, warehouse_routes, requests, callbacks, answers, address,
                     sentTo, via>>
  BY DEF Prepare, Release, clients, routed
<1>2. x = <<b, r>> /\ b \in Backends
  BY ConstantsAssumption
<1>3. PICK outcome \in {"yes", "failed"} : prepared' = [prepared EXCEPT ![<<b, r>>] = outcome]
  BY DEF Prepare
<1>4. prepared' \in [Slow -> {"no", "yes", "failed"}]
  BY <1>2, <1>3 DEF RInv, TypeOK
<1>5. \A q \in Requests : Failed(q) => Failed(q)'
  BY <1>1, <1>2, <1>3 DEF Failed, IsSlow, Prepare, RInv, TypeOK
<1>6. ASSUME NEW w \in held
      PROVE  /\ w \in working /\ w \in Tokens /\ w.kind = "work"
             /\ w.req \in Requests /\ sentTo[w.req] = b /\ b # NoBackend
  BY <1>6 DEF Held, RInv, TypeOK, Tokens, TokensRight, PlaceRight
<1>7. ASSUME NEW w \in held, NEW y, y = Again(w)
      PROVE  /\ y \in [kind : {"work"}, req : Requests, back : Backends, body : Bodies]
             /\ y.req = w.req /\ PlaceRight(y)'
  <2> DEFINE q == w.req
             failed == IsSlow(b, via[q], prepared', "failed")
  <2>1. q \in Requests /\ sentTo[q] = b /\ b # NoBackend
    BY <1>6, <1>7
  <2>2. /\ y \in [kind : {"work"}, req : Requests, back : Backends, body : Bodies]
        /\ y.req = q /\ y.back = b
        /\ BodyRight(y.body, q)
        /\ y.body = NotFound => failed \/ Unnamed(q)
        /\ SpecificFirst(b) /\ y.body # NotFound =>
               y.body = via[q] \/ failed \/ ~ Covers(y.body, address[q])
    BY <1>7, <2>1, TakenRight DEF RInv
  <2>3. Failed(q)' <=> failed
    BY <1>1, <2>1 DEF Failed
  <2> HIDE DEF failed, held, Again, b, r
  <2>4. PlaceRight(y)'
    BY <1>1, <2>1, <2>2, <2>3 DEF PlaceRight, BodyRight, WorkRight, Unnamed
  <2> QED
    BY <2>2, <2>4
<1> DEFINE new == {Again(w) : w \in held}
<1>8. /\ \A u \in new : \E w \in held : u.req = w.req
      /\ \A w \in held : \E u \in new : u.req = w.req
      /\ \A u, v \in new : u.req = v.req => u = v
      /\ \A u \in new : PlaceRight(u)'
      /\ new \subseteq [kind : {"work"}, req : Requests, back : Backends, body : Bodies]
  <2>1. ASSUME NEW u \in new
        PROVE  /\ \E w \in held : u = Again(w) /\ u.req = w.req
               /\ PlaceRight(u)'
               /\ u \in [kind : {"work"}, req : Requests, back : Backends, body : Bodies]
    <3>1. PICK w \in held : u = Again(w)
      OBVIOUS
    <3> HIDE DEF held, Again, new
    <3> QED
      BY <1>7, <3>1
  <2>2. \A w \in held : Again(w) \in new /\ Again(w).req = w.req
    BY <1>7
  <2>3. \A u, v \in new : u.req = v.req => u = v
    BY <2>1
  <2> HIDE DEF held, new
  <2> QED
    BY <2>1, <2>2, <2>3
<1>9. working' = (working \ held) \cup new /\ held \subseteq working
  BY <1>1, <1>6
<1> HIDE DEF held, Again, new, b, r
<1>10. TypeOK' /\ OneToken' /\ Waited' /\ TokensRight'
  <2>1. TypeOK'
    BY <1>1, <1>4, <1>8, <1>9 DEF RInv, TypeOK
  <2>2. Tokens' = (Tokens \ held) \cup new
    <3>1. messages \cap working = {}
      BY DEF RInv, TypeOK
    <3> QED
      BY <1>1, <1>9, <3>1 DEF Tokens
  <2>3. held \subseteq Tokens
    BY <1>9 DEF Tokens
  <2>4. OneToken' /\ Waited'
    BY <1>1, <1>8, <2>2, <2>3 DEF RInv, OneToken, Waited
  <2>5. ASSUME NEW y \in Tokens
        PROVE  PlaceRight(y)'
    <3>1. PlaceRight(y) /\ y.req \in Requests
      BY <2>5 DEF RInv, TokensRight, TypeOK, Tokens
    <3>2. Failed(y.req) => Failed(y.req)'
      BY <1>5, <3>1
    <3> QED
      BY <1>1, <3>1, <3>2 DEF PlaceRight, BodyRight, WorkRight, Unnamed
  <2> QED
    BY <1>8, <2>1, <2>2, <2>4, <2>5 DEF TokensRight
<1>11. KeptFor'
  <2> SUFFICES ASSUME NEW q \in requests, sentTo[q] \in up
               PROVE  \E z \in Tokens' : z.req = q /\ z.kind \in {"forward", "work", "response"}
    BY <1>1 DEF KeptFor
  <2>1. PICK z \in Tokens : z.req = q /\ z.kind \in {"forward", "work", "response"}
    BY DEF RInv, KeptFor
  <2>2. CASE z \in held
    <3>1. PICK u \in new : u.req = z.req
      BY <1>8, <2>2
    <3>2. u \in Tokens' /\ u.kind = "work"
      BY <1>8, <1>9 DEF Tokens
    <3> QED
      BY <2>1, <3>1, <3>2
  <2>3. CASE z \notin held
    BY <1>1, <1>9, <2>1, <2>3 DEF Tokens
  <2> QED
    BY <2>2, <2>3
<1> QED
  BY <1>1, <1>10, <1>11 DEF RInv, MountsMade, AnnouncedInOrder, SentRight,
     RoutedBy, Unanswered, Unsent, AnsweredOnce

\* A response carries on what the work was.
LEMMA RespondRInv ==
    ASSUME RInv, NEW w \in working, Respond(w)
    PROVE  RInv'
<1>1. PICK y : y = [w EXCEPT !.kind = "response"]
  OBVIOUS
<1>2. /\ w \in [kind : {"work"}, req : Requests, back : Backends, body : Bodies]
      /\ w \in Tokens /\ w \notin messages /\ PlaceRight(w)
  BY DEF RInv, TypeOK, Tokens, TokensRight
<1>3. /\ y \in [kind : {"response"}, req : Requests, back : Backends, body : Bodies]
      /\ y.req = w.req /\ y.body = w.body /\ y.back = w.back
  BY <1>1, <1>2
<1>4. /\ messages' = messages \cup {y} /\ working' = working \ {w}
      /\ UNCHANGED <<up, mounted, prepared, warehouse_routes, requests, callbacks, answers,
                     address, sentTo, via>>
  BY <1>1 DEF Respond, backs, clients, routed
<1>5. TypeOK'
  BY <1>3, <1>4 DEF RInv, TypeOK
<1>6. PlaceRight(y)'
  BY <1>2, <1>3, <1>4 DEF PlaceRight, BodyRight, WorkRight, Failed, Unnamed
<1>7. OneToken' /\ Waited' /\ Unanswered' /\ Unsent' /\ TokensRight' /\ AnsweredOnce'
  BY <1>2, <1>3, <1>4, <1>6, TokenMoves DEF Tokens, clients
<1>8. KeptFor'
  <2> SUFFICES ASSUME NEW q \in requests, sentTo[q] \in up
               PROVE  \E x \in Tokens' : x.req = q /\ x.kind \in {"forward", "work", "response"}
    BY <1>4 DEF KeptFor
  <2>1. PICK x \in Tokens : x.req = q /\ x.kind \in {"forward", "work", "response"}
    BY DEF RInv, KeptFor
  <2>2. (x \in Tokens' \/ x = w) /\ y \in Tokens'
    BY <1>4 DEF Tokens
  <2> QED
    BY <1>3, <2>1, <2>2
<1> QED
  BY <1>4, <1>5, <1>7, <1>8 DEF RInv, MountsMade, AnnouncedInOrder, SentRight, RoutedBy

\* A backend of the route that was found mounts nothing more specific in front of it.
LEMMA FoundIsRouted ==
    ASSUME RInv, NEW q \in Requests, Find(address[q]) # NotFound,
           NEW b \in warehouse_routes[Find(address[q])]
    PROVE  RoutedBy(q, b, Find(address[q]))
<1> DEFINE a == address[q]
           r == Find(a)
<1>1. a \in Addresses /\ warehouse_routes \in [Routes -> SUBSET Backends]
  BY DEF RInv, TypeOK
<1>2. /\ r \in Routes /\ Covers(r, a)
      /\ \A s \in Routes : Covers(s, a) /\ warehouse_routes[s] # {} => Len(s.path) <= Len(r.path)
  BY <1>1, FindIs
<1> HIDE DEF r
<1>3. b \in Backends /\ b \in warehouse_routes[r]
  BY <1>1, <1>2 DEF r
<1>4. PICK n \in 0..mounted[b] :
          \A s \in Routes : b \in warehouse_routes[s] <=> \E k \in 1..n : s = Mounts[b][k]
  BY <1>3 DEF RInv, AnnouncedInOrder
<1>5. PICK i \in 1..n : r = Mounts[b][i]
  BY <1>2, <1>3, <1>4
<1>6. mounted[b] \in Nat /\ mounted[b] <= Len(Mounts[b])
  BY <1>3 DEF RInv, TypeOK, MountsMade
<1>7. ASSUME NEW k \in 1..i, Covers(Mounts[b][k], a)
      PROVE  Len(Mounts[b][k].path) <= Len(r.path)
  <2>1. k \in 1..Len(Mounts[b]) /\ k \in 1..n
    BY <1>3, <1>6, MountsType
  <2>2. Mounts[b][k] \in Routes
    BY <1>3, <2>1, MountsType
  <2>3. b \in warehouse_routes[Mounts[b][k]]
    BY <1>4, <2>1, <2>2
  <2> QED
    BY <1>2, <1>7, <2>2, <2>3
<1>8. i \in 1..mounted[b]
  BY <1>6
<1> QED
  BY <1>2, <1>3, <1>5, <1>7, <1>8 DEF RoutedBy, r

\* The reception sends a request on, or answers 404.
LEMMA RouteRInv ==
    ASSUME RInv, NEW m \in messages, Route(m)
    PROVE  RInv'
<1> DEFINE q == m.req
           r == Find(address[q])
<1>1. q \in Requests /\ m \in Tokens /\ m \notin working /\ m.kind = "request"
  BY DEF Route, RInv, TypeOK, Tokens
<1>2. /\ UNCHANGED <<up, mounted, prepared, warehouse_routes, callbacks, answers, address,
                     working>>
      /\ sentTo[q] = NoBackend
  BY <1>1 DEF Route, backs, clients, RInv, TokensRight, PlaceRight
<1>3. MountsMade' /\ AnnouncedInOrder'
  BY <1>2 DEF RInv, MountsMade, AnnouncedInOrder
<1>4. CASE r = NotFound
  <2>1. PICK y : y = Message("answer", q, NoBackend, NotFound)
    OBVIOUS
  <2>2. /\ messages' = (messages \ {m}) \cup {y} /\ requests' = requests
        /\ sentTo' = sentTo /\ via' = via
    BY <1>1, <1>4, <2>1 DEF Route, routed
  <2>3. /\ y \in [kind : {"answer"}, req : Requests, back : {NoBackend}, body : {NotFound}]
        /\ y.req = q
    BY <1>1, <2>1 DEF Message
  <2>4. TypeOK'
    BY <1>2, <2>2, <2>3 DEF RInv, TypeOK, Bodies
  <2>5. PlaceRight(y)'
    BY <2>3 DEF PlaceRight, BodyRight
  <2>6. OneToken' /\ Waited' /\ Unanswered' /\ Unsent' /\ TokensRight' /\ AnsweredOnce'
    BY <1>1, <1>2, <2>2, <2>3, <2>5, TokenMoves DEF Tokens, clients
  <2>7. KeptFor'
    BY <1>1, <1>2, <2>2 DEF RInv, KeptFor, Tokens
  <2>8. SentRight'
    BY <1>2, <2>2 DEF RInv, SentRight, RoutedBy
  <2> QED
    BY <1>3, <2>4, <2>6, <2>7, <2>8 DEF RInv
<1>5. CASE r # NotFound
  <2>1. PICK b \in warehouse_routes[r] :
            /\ requests' = requests \cup {q}
            /\ sentTo' = [sentTo EXCEPT ![q] = b]
            /\ via' = [via EXCEPT ![q] = r]
            /\ messages' = IF b \in up THEN (messages \ {m}) \cup {Message("forward", q, b, r)}
                           ELSE messages \ {m}
    BY <1>1, <1>5 DEF Route
  <2>2. PICK y : y = Message("forward", q, b, r)
    OBVIOUS
  <2>3. RoutedBy(q, b, r)
    BY <1>1, <1>5, FoundIsRouted
  <2>4. r \in Routes /\ b \in Backends
    BY <1>1, <1>5, <2>3, FindIs DEF RInv, TypeOK, RoutedBy
  <2> HIDE DEF r
  <2>5. y \in [kind : {"forward"}, req : Requests, back : Backends, body : Routes] /\ y.req = q
        /\ y.back = b
    BY <1>1, <2>2, <2>4 DEF Message
  <2>6. sentTo'[q] = b /\ via'[q] = r
        /\ \A p \in Requests : p # q => sentTo'[p] = sentTo[p] /\ via'[p] = via[p]
    BY <1>1, <2>1 DEF RInv, TypeOK
  <2>7. TypeOK'
    <3>1. sentTo' \in [Requests -> Backends \cup {NoBackend}] /\ via' \in [Requests -> Bodies]
      BY <1>1, <2>1, <2>4 DEF RInv, TypeOK, Bodies
    <3>2. requests' \subseteq Requests
      BY <1>1, <2>1 DEF RInv, TypeOK
    <3>3. messages' \subseteq messages \cup {y}
      BY <2>1, <2>2
    <3> QED
      BY <1>2, <2>5, <3>1, <3>2, <3>3 DEF RInv, TypeOK, Bodies
  <2>8. SentRight'
    <3> SUFFICES ASSUME NEW p \in Requests, sentTo'[p] # NoBackend
                 PROVE  RoutedBy(p, sentTo'[p], via'[p])
      BY <1>2 DEF SentRight, RoutedBy
    <3>1. CASE p = q
      BY <2>3, <2>6, <3>1
    <3>2. CASE p # q
      BY <2>6, <3>2 DEF RInv, SentRight
    <3> QED
      BY <3>1, <3>2
  <2>9. PlaceRight(y)'
    BY <2>4, <2>5, <2>6, ConstantsAssumption DEF PlaceRight
  <2>10. Tokens' \subseteq (Tokens \ {m}) \cup {y}
    BY <1>1, <1>2, <2>1, <2>2 DEF Tokens
  <2>11. OneToken' /\ Waited' /\ Unanswered' /\ Unsent' /\ TokensRight' /\ AnsweredOnce'
    BY <1>1, <1>2, <2>5, <2>6, <2>9, <2>10, TokenMoves DEF clients
  <2>12. KeptFor'
    <3> SUFFICES ASSUME NEW p \in requests', sentTo'[p] \in up
                 PROVE  \E x \in Tokens' : x.req = p /\ x.kind \in {"forward", "work", "response"}
      BY <1>2 DEF KeptFor
    <3>1. CASE p = q
      <4>1. y \in Tokens'
        BY <2>1, <2>2, <2>6, <3>1 DEF Tokens
      <4> QED
        BY <2>5, <3>1, <4>1
    <3>2. CASE p # q
      <4>1. p \in requests /\ p \in Requests
        BY <2>1, <3>2 DEF RInv, TypeOK
      <4>2. PICK x \in Tokens : x.req = p /\ x.kind \in {"forward", "work", "response"}
        BY <2>6, <3>2, <4>1 DEF RInv, KeptFor
      <4>3. x \in Tokens'
        BY <1>2, <2>1, <3>2, <4>2 DEF Tokens
      <4> QED
        BY <4>2, <4>3
    <3> QED
      BY <3>1, <3>2
  <2> QED
    BY <1>3, <2>7, <2>8, <2>11, <2>12 DEF RInv
<1> QED
  BY <1>4, <1>5

\* The reception forgets a request when it passes its response on.
LEMMA TakeResponseRInv ==
    ASSUME RInv, NEW m \in messages, TakeResponse(m)
    PROVE  RInv'
<1> DEFINE q == m.req
<1>1. PICK y : y = [m EXCEPT !.kind = "answer"]
  OBVIOUS
<1>2. /\ m \in [kind : {"response"}, req : Requests, back : Backends \cup {NoBackend},
                body : Bodies]
      /\ m \in Tokens /\ m \notin working /\ PlaceRight(m)
  BY DEF TakeResponse, RInv, TypeOK, Tokens, TokensRight
<1>3. /\ y \in [kind : {"answer"}, req : Requests, back : Backends \cup {NoBackend},
                body : Bodies]
      /\ y.req = q /\ y.body = m.body
  BY <1>1, <1>2
<1>4. /\ messages' \subseteq (messages \ {m}) \cup {y} /\ messages \ {m} \subseteq messages'
      /\ requests' = requests \ {q}
      /\ UNCHANGED <<up, mounted, prepared, warehouse_routes, callbacks, answers, address,
                     working, sentTo, via>>
  BY <1>1 DEF TakeResponse, PassOn, Forget, backs, clients, routed
<1>5. TypeOK'
  BY <1>3, <1>4 DEF RInv, TypeOK
<1>6. PlaceRight(y)'
  BY <1>2, <1>3, <1>4 DEF PlaceRight, BodyRight
<1>7. OneToken' /\ Waited' /\ Unanswered' /\ Unsent' /\ TokensRight' /\ AnsweredOnce'
  BY <1>2, <1>3, <1>4, <1>6, TokenMoves DEF Tokens, clients
<1>8. KeptFor'
  <2> SUFFICES ASSUME NEW p \in requests, p # q, sentTo[p] \in up
               PROVE  \E x \in Tokens' : x.req = p /\ x.kind \in {"forward", "work", "response"}
    BY <1>4 DEF KeptFor
  <2>1. PICK x \in Tokens : x.req = p /\ x.kind \in {"forward", "work", "response"}
    BY DEF RInv, KeptFor
  <2>2. x \in Tokens'
    BY <1>4, <2>1 DEF Tokens
  <2> QED
    BY <2>1, <2>2
<1> QED
  BY <1>4, <1>5, <1>7, <1>8 DEF RInv, MountsMade, AnnouncedInOrder, SentRight, RoutedBy

\* A client asks what it has not asked before.
LEMMA AskRInv ==
    ASSUME RInv, NEW q \in Requests, Ask(q)
    PROVE  RInv'
<1>1. PICK y : y = Message("request", q, NoBackend, NotFound)
  OBVIOUS
<1>2. /\ y \in [kind : {"request"}, req : Requests, back : {NoBackend}, body : {NotFound}]
      /\ y.req = q
  BY <1>1 DEF Message
<1>3. /\ messages' = messages \cup {y} /\ callbacks' = callbacks \cup {q}
      /\ answers[q] = <<>> /\ q \notin callbacks
      /\ UNCHANGED <<up, mounted, prepared, warehouse_routes, requests, answers, address,
                     working, sentTo, via>>
  BY <1>1 DEF Ask, backs, routed
<1>4. TypeOK'
  BY <1>2, <1>3 DEF RInv, TypeOK, Bodies
<1>5. Tokens' = Tokens \cup {y} /\ \A x \in Tokens : x.req # q
  BY <1>3 DEF Tokens, RInv, Waited
<1>6. sentTo[q] = NoBackend
  BY <1>3 DEF RInv, Unsent
<1>7. OneToken' /\ Waited' /\ Unanswered' /\ Unsent'
  BY <1>2, <1>3, <1>5 DEF RInv, OneToken, Waited, Unanswered, Unsent
<1>8. TokensRight'
  <2>1. PlaceRight(y)'
    BY <1>2, <1>3, <1>6 DEF PlaceRight
  <2>2. ASSUME NEW x \in Tokens
        PROVE  PlaceRight(x)'
    BY <1>3, <2>2 DEF RInv, TokensRight, PlaceRight, BodyRight, WorkRight, Failed, Unnamed
  <2> QED
    BY <1>5, <2>1, <2>2 DEF TokensRight
<1>9. KeptFor'
  BY <1>3, <1>5 DEF RInv, KeptFor
<1> QED
  BY <1>3, <1>4, <1>7, <1>8, <1>9 DEF RInv, MountsMade, AnnouncedInOrder, SentRight, RoutedBy,
     AnsweredOnce

\* A client that is called back waits no more.
LEMMA DeliverRInv ==
    ASSUME RInv, NEW m \in messages, Deliver(m)
    PROVE  RInv'
<1> DEFINE q == m.req
<1>1. /\ q \in Requests /\ m.body \in Bodies /\ m.kind = "answer" /\ m \in Tokens
      /\ m \notin working /\ PlaceRight(m)
  BY DEF Deliver, RInv, TypeOK, Tokens, TokensRight
<1>2. q \in callbacks /\ answers[q] = <<>>
  BY <1>1 DEF RInv, Waited, Unanswered
<1>3. /\ messages' = messages \ {m} /\ callbacks' = callbacks \ {q}
      /\ answers' = [answers EXCEPT ![q] = Append(answers[q], m.body)]
      /\ UNCHANGED <<up, mounted, prepared, warehouse_routes, requests, address, working,
                     sentTo, via>>
  BY <1>2 DEF Deliver, backs, routed
<1>4. /\ answers'[q] = <<m.body>>
      /\ \A p \in Requests : p # q => answers'[p] = answers[p]
      /\ answers' \in [Requests -> Seq(Bodies)]
  <2>1. Append(answers[q], m.body) = <<m.body>> /\ <<m.body>> \in Seq(Bodies)
    BY <1>1, <1>2
  <2> QED
    BY <1>1, <1>3, <2>1 DEF RInv, TypeOK
<1>5. TypeOK'
  BY <1>3, <1>4 DEF RInv, TypeOK
<1>6. Tokens' = Tokens \ {m} /\ \A x \in Tokens \ {m} : x.req # q
  BY <1>1, <1>3 DEF Tokens, RInv, OneToken
<1>7. OneToken' /\ Waited'
  BY <1>3, <1>6 DEF RInv, OneToken, Waited
<1>8. Unanswered'
  BY <1>3, <1>4 DEF RInv, Unanswered, TypeOK
<1>9. Unsent'
  <2> SUFFICES ASSUME NEW p \in Requests \ callbacks', answers'[p] = <<>>
               PROVE  sentTo[p] = NoBackend
    BY <1>3 DEF Unsent
  <2>1. p # q
    BY <1>4
  <2> QED
    BY <1>3, <1>4, <2>1 DEF RInv, Unsent
<1>10. TokensRight'
  <2>1. ASSUME NEW x \in Tokens
        PROVE  PlaceRight(x)'
    BY <1>3, <2>1 DEF RInv, TokensRight, PlaceRight, BodyRight, WorkRight, Failed, Unnamed
  <2> QED
    BY <1>6, <2>1 DEF TokensRight
<1>11. AnsweredOnce'
  <2>1. ASSUME NEW p \in Requests
        PROVE  /\ Len(answers'[p]) <= 1
               /\ \A k \in DOMAIN answers'[p] : BodyRight(answers'[p][k], p)
    <3>1. CASE p = q
      <4>1. BodyRight(m.body, p) /\ answers'[p] = <<m.body>>
        BY <1>1, <1>4, <3>1 DEF PlaceRight
      <4>2. Len(<<m.body>>) = 1 /\ DOMAIN <<m.body>> = {1} /\ <<m.body>>[1] = m.body
        OBVIOUS
      <4>3. ASSUME NEW k \in DOMAIN answers'[p]
            PROVE  BodyRight(answers'[p][k], p)
        <5>1. k = 1 /\ answers'[p][k] = m.body
          BY <4>1, <4>2
        <5> QED
          BY <4>1, <5>1
      <4> QED
        BY <4>1, <4>2, <4>3
    <3>2. CASE p # q
      BY <1>4, <3>2 DEF RInv, AnsweredOnce, BodyRight
    <3> QED
      BY <3>1, <3>2
  <2> QED
    BY <1>3, <2>1 DEF AnsweredOnce, BodyRight
<1>12. KeptFor'
  <2> SUFFICES ASSUME NEW p \in requests, sentTo[p] \in up
               PROVE  \E x \in Tokens' : x.req = p /\ x.kind \in {"forward", "work", "response"}
    BY <1>3 DEF KeptFor
  <2>1. PICK x \in Tokens : x.req = p /\ x.kind \in {"forward", "work", "response"}
    BY DEF RInv, KeptFor
  <2> QED
    BY <1>1, <1>6, <2>1
<1> QED
  BY <1>3, <1>5, <1>7, <1>8, <1>9, <1>10, <1>11, <1>12 DEF RInv, MountsMade, AnnouncedInOrder,
     SentRight, RoutedBy

\* Every step keeps the invariant.
LEMMA StepRInv ==
    ASSUME RInv, [Next]_vars
    PROVE  RInv'
<1>1. CASE UNCHANGED vars
  BY <1>1 DEF vars, RInv, TypeOK, MountsMade, AnnouncedInOrder, SentRight, RoutedBy, OneToken,
     Waited, Unanswered, Unsent, TokensRight, PlaceRight, BodyRight, WorkRight, Failed, Unnamed,
     AnsweredOnce, KeptFor, Tokens
<1>2. CASE Carry
  BY <1>2, HandleRInv, RouteRInv, TakeResponseRInv, DeliverRInv, RespondRInv, PrepareRInv
  DEF Carry
<1> QED
  BY <1>1, <1>2, StartRInv, MountRInv, AnnounceRInv, CrashRInv, AskRInv DEF Next

-----------------------------------------------------------------------------
\* Requests are in one place each, where they were routed to (server.js,
\* backclient.js, warehouse/proto.js).
THEOREM ReceptionInvariance == Spec => []RInv
<1>1. Init => RInv
  BY InitRInv
<1>2. RInv /\ [Next]_vars => RInv'
  BY StepRInv
<1> QED
  BY <1>1, <1>2, PTL DEF Spec

\* A client is called back once at most, by 404 or by a supplier of the department
\* it named that is mounted above what it asked for, whichever backends come and go (rpc/client.js,
\* server.js).
THEOREM OneAnswer == Spec => []AnsweredOnce
<1>1. RInv => AnsweredOnce
  BY DEF RInv
<1> QED
  BY <1>1, ReceptionInvariance, PTL

\* What the reception remembers is with the backend it was sent to, or lost with
\* it (rpc/server callbacks of the reception).
THEOREM KeptForAReason == Spec => []NothingKept
<1>1. RInv => NothingKept
  <2> SUFFICES ASSUME RInv, NEW q \in requests, sentTo[q] \in up
               PROVE  \E m \in messages \cup working : m.req = q /\ m.back = sentTo[q]
    BY DEF NothingKept, RInv
  <2>1. PICK x \in Tokens : x.req = q /\ x.kind \in {"forward", "work", "response"}
    BY DEF RInv, KeptFor
  <2>2. x.back = sentTo[q]
    BY <2>1 DEF RInv, TokensRight, PlaceRight
  <2> QED
    BY <2>1, <2>2 DEF Tokens
<1> QED
  BY <1>1, ReceptionInvariance, PTL

\* A warehouse has a layer for whatever the reception's search of routes sent to it
\* with a department in its header, and where two layers would take it by the very
\* path that was asked for, the one that was found takes it (reception/server.js,
\* warehouse/proto.js).
THEOREM RouterAndWarehouseAgree == Spec => []HandledAsRouted
<1>1. RInv => HandledAsRouted
  <2> SUFFICES ASSUME RInv
               PROVE  HandledAsRouted
    OBVIOUS
  <2>1. ASSUME NEW x \in Tokens, x.kind \in {"work", "response"}
        PROVE  /\ x.body = NotFound =>
                     \/ IsSlow(x.back, via[x.req], prepared, "failed")
                     \/ address[x.req].department = NoDepartment
               /\ SpecificFirst(x.back) /\ x.body # NotFound =>
                     \/ x.body = via[x.req]
                     \/ IsSlow(x.back, via[x.req], prepared, "failed")
                     \/ ~ Covers(x.body, address[x.req])
    BY <2>1 DEF RInv, TokensRight, PlaceRight, WorkRight, Failed, Unnamed
  <2>2. \A w \in working : w \in Tokens /\ w.kind = "work"
    BY DEF RInv, TypeOK, Tokens
  <2>3. \A m \in messages : m \in Tokens
    BY DEF Tokens
  <2> QED
    BY <2>1, <2>2, <2>3 DEF HandledAsRouted
<1> QED
  BY <1>1, ReceptionInvariance, PTL

\* router() of the reception finds the most specific route that anybody
\* announced, and nothing only if nobody announced any (reception/server.js).
THEOREM RoutesRight == Spec => RoutedRight
<1> DEFINE A == \A m \in messages \ messages' :
                    m.kind = "request" =>
                        LET q == m.req
                            fits == {r \in Routes : warehouse_routes[r] # {}
                                                      /\ Covers(r, address[q])}
                        IN  IF fits = {} THEN sentTo'[q] = NoBackend
                            ELSE \E r \in fits :
                                     /\ \A s \in fits : Len(s.path) <= Len(r.path)
                                     /\ sentTo'[q] \in warehouse_routes[r]
<1>1. RInv /\ [Next]_vars => [A]_vars
  <2> SUFFICES ASSUME RInv, Next, NEW m \in messages \ messages', m.kind = "request"
               PROVE  LET q == m.req
                          fits == {r \in Routes : warehouse_routes[r] # {}
                                                    /\ Covers(r, address[q])}
                      IN  IF fits = {} THEN sentTo'[q] = NoBackend
                          ELSE \E r \in fits :
                                   /\ \A s \in fits : Len(s.path) <= Len(r.path)
                                   /\ sentTo'[q] \in warehouse_routes[r]
    OBVIOUS
  <2> DEFINE q == m.req
             a == address[q]
             fits == {r \in Routes : warehouse_routes[r] # {} /\ Covers(r, a)}
  <2>1. Route(m)
    BY DEF Next, Carry, Start, Mount, Announce, Crash, Ask, Handle, Route, TakeResponse,
       Deliver, Respond, Prepare
  <2>2. /\ q \in Requests /\ a \in Addresses
        /\ warehouse_routes \in [Routes -> SUBSET Backends]
        /\ sentTo \in [Requests -> Backends \cup {NoBackend}]
        /\ sentTo[q] = NoBackend
    BY DEF RInv, TypeOK, TokensRight, Tokens, PlaceRight
  <2>3. CASE Find(a) = NotFound
    <3>1. fits = {}
      BY <2>2, <2>3, FindIs
    <3>2. sentTo'[q] = NoBackend
      BY <2>1, <2>2, <2>3 DEF Route, routed
    <3> QED
      BY <3>1, <3>2
  <2>4. CASE Find(a) # NotFound
    <3>1. Find(a) \in fits /\ \A s \in fits : Len(s.path) <= Len(Find(a).path)
      BY <2>2, <2>4, FindIs
    <3>2. sentTo'[q] \in warehouse_routes[Find(a)]
      BY <2>1, <2>2, <2>4 DEF Route
    <3> QED
      BY <3>1, <3>2
  <2> QED
    BY <2>3, <2>4
<1> QED
  BY <1>1, ReceptionInvariance, PTL DEF Spec, RoutedRight
=============================================================================
