--------------------------- MODULE QuarryDBProofs ---------------------------
(***************************************************************************)
(* Trees in a collection: for any collection, any bodies, and any requests  *)
(* that meet in it, whatever mongo reorders or fails, and for what is said  *)
(* with something granted, under just that.                                 *)
(*                                                                         *)
(* There are four inductive invariants, each on those before it.           *)
(*   PlacesInv   where a container is, in every copy of its record: links   *)
(*               agree, and places are final;                              *)
(*   BodyInv     what becomes of a body: an answer means that all of it is  *)
(*               there, and its containers are apart;                      *)
(*   LinkedInv   one request at a time, no failures: no orphans;           *)
(*   CountedInv  everything granted: children are counted, places unique,  *)
(*               and a delete takes a subtree.                             *)
(***************************************************************************)
EXTENDS QuarryDB, FiniteSetTheorems, SequenceTheorems, WellFoundedInduction, TLAPS

-----------------------------------------------------------------------------
(* The inductive invariant: a container is given its place once, in memory,  *)
(* and every copy of its record, in the collection, on the way to it or held *)
(* by a request, has that place.                                             *)

\* A record is where the container in memory is.
InPlace(rec, m) == m.portal # <<>> /\ rec.portal = m.portal /\ rec.parent = m.parent

\* The operations that bring a container: its count, then its parent's update,
\* then its insert.
Carriers == {"count", "update", "insert"}

\* A place agrees with the parent's in memory M.
LinkWell(rec, M) ==
    /\ rec.portal # <<>>
    /\ rec.parent = NoDoc => Len(rec.portal) = 1
    /\ rec.parent # NoDoc =>
           /\ Len(rec.portal) > 1
           /\ M[rec.parent].portal # <<>>
           /\ Front(rec.portal) = M[rec.parent].portal

\* In memory M links agree, and a container without a place has no children
\* with one.
MemoryWell(M) ==
    \A d \in Docs :
        /\ M[d] # Absent => LinkWell(M[d], M)
        /\ M[d] = Absent => \A n \in DOMAIN Kids[d] : M[Kids[d][n]] = Absent

\* What the collection D holds.
StoredWell(D, M) == \A d \in Docs : D[d] # Absent => InPlace(D[d], M[d])

\* An item of a body that was not appended yet.
Unbegun(n, phase, current) ==
    \/ phase \in {"idle", "loading"}
    \/ n > current
    \/ n = current /\ phase = "waiting"

\* A request: how far it is (P, I), what it is addressed to (T) and holds (H).
RequestWell(r, M, H, T, P, I) ==
    /\ P[r] \in {"loading", "waiting", "appending"} => IsAppend(r)
    /\ P[r] \in {"saving", "deleting"} => ~ IsAppend(r)
    /\ P[r] = "loading" => T[r] \in Docs
    /\ IsAppend(r) =>
           /\ I[r] \in DOMAIN Items[r]
           /\ H[r] # Absent => P[r] # "idle" /\ T[r] \in Docs /\ InPlace(H[r], M[T[r]])
           /\ \A n \in DOMAIN Items[r] : Unbegun(n, P[r], I[r]) => M[Items[r][n]] = Absent

\* An operation on the way to mongo.
OpWell(op, M, P, I) ==
    /\ op.op = "load" => op.at \in Docs /\ P[op.req] \in {"loading", "saving", "deleting"}
    /\ op.op = "write" => op.at \in Docs /\ P[op.req] = "saving" /\ InPlace(op.rec, M[op.at])
    /\ op.op = "remove" => P[op.req] = "deleting"
    /\ op.op \in Carriers =>
           /\ op.doc \in Docs
           /\ P[op.req] = "appending"
           /\ \A n \in DOMAIN Kids[op.doc] : M[Kids[op.doc][n]] = Absent
    /\ op.op = "count" =>
           /\ IsAppend(op.req)
           /\ op.doc = Items[op.req][I[op.req]]
           /\ M[op.doc] = Absent
    /\ op.op \in {"update", "insert"} =>
           /\ op.at \in Docs
           /\ M[op.doc] # Absent
           /\ InPlace(op.rec, M[op.at])
    /\ op.op = "insert" => op.at = op.doc

\* Two operations bring two containers, and a request has no other two.
OpsApart(a, b) ==
    /\ a.op \in Carriers /\ b.op \in Carriers => a.doc # b.doc
    /\ a.op \notin Carriers \/ b.op \notin Carriers => a.req # b.req

\* All the operations on the way.
WireWell(W, M, P, I) ==
    /\ \A k \in DOMAIN W : OpWell(W[k], M, P, I)
    /\ \A j, k \in DOMAIN W : j # k => OpsApart(W[j], W[k])

\* All of it.
PlacesInv ==
    /\ TypeOK
    /\ MemoryWell(mem)
    /\ StoredWell(db, mem)
    /\ \A r \in Requests : RequestWell(r, mem, held, target, pc, item)
    /\ WireWell(wire, mem, pc, item)

-----------------------------------------------------------------------------
(* Sequences of operations.                                                  *)

\* An operation is done: the others stay as they are.
LEMMA RestIs ==
    ASSUME NEW W \in Seq(Ops), NEW k \in DOMAIN W
    PROVE  /\ RemoveAt(W, k) \in Seq(Ops)
           /\ \A j \in DOMAIN RemoveAt(W, k) :
                  LET i == IF j < k THEN j ELSE j + 1
                  IN  i \in DOMAIN W /\ i # k /\ RemoveAt(W, k)[j] = W[i]
<1>1. k \in 1..Len(W) /\ Len(W) \in Nat
  OBVIOUS
<1> DEFINE A == SubSeq(W, 1, k - 1)
           B == SubSeq(W, k + 1, Len(W))
<1>2. A \in Seq(Ops) /\ Len(A) = k - 1 /\ \A j \in 1..(k - 1) : A[j] = W[j]
  BY <1>1, SubSeqProperties
<1>3. B \in Seq(Ops) /\ Len(B) = Len(W) - k /\ \A j \in 1..(Len(W) - k) : B[j] = W[k + j]
  BY <1>1, SubSeqProperties
<1>4. RemoveAt(W, k) = A \o B
  BY DEF RemoveAt
<1> HIDE DEF A, B
<1>5. RemoveAt(W, k) \in Seq(Ops) /\ Len(RemoveAt(W, k)) = Len(W) - 1
  BY <1>1, <1>2, <1>3, <1>4, ConcatProperties
<1>6. ASSUME NEW j \in DOMAIN RemoveAt(W, k)
      PROVE  LET i == IF j < k THEN j ELSE j + 1
             IN  i \in DOMAIN W /\ i # k /\ RemoveAt(W, k)[j] = W[i]
  <2>1. j \in 1..(Len(W) - 1)
    BY <1>5
  <2>2. CASE j < k
    <3>1. RemoveAt(W, k)[j] = A[j]
      BY <1>1, <1>2, <1>3, <1>4, <2>1, <2>2, ConcatProperties
    <3> QED
      BY <1>1, <1>2, <2>1, <2>2, <3>1
  <2>3. CASE ~ (j < k)
    <3>1. RemoveAt(W, k)[j] = B[j - (k - 1)]
      BY <1>1, <1>2, <1>3, <1>4, <2>1, <2>3, ConcatProperties
    <3>2. B[j - (k - 1)] = W[j + 1]
      BY <1>1, <1>3, <2>1, <2>3
    <3> QED
      BY <1>1, <2>1, <2>3, <3>1, <3>2
  <2> QED
    BY <2>2, <2>3
<1> QED
  BY <1>5, <1>6

\* So they are as well as before.
LEMMA RestWell ==
    ASSUME NEW W \in Seq(Ops), NEW k \in DOMAIN W, NEW M, NEW P, NEW I,
           WireWell(W, M, P, I)
    PROVE  LET R == RemoveAt(W, k)
           IN  /\ R \in Seq(Ops)
               /\ WireWell(R, M, P, I)
               /\ \A j \in DOMAIN R : R[j] \in Ops /\ OpsApart(R[j], W[k])
<1> DEFINE R == RemoveAt(W, k)
           o(j) == IF j < k THEN j ELSE j + 1
<1>1. R \in Seq(Ops) /\ \A j \in DOMAIN R : o(j) \in DOMAIN W /\ o(j) # k /\ R[j] = W[o(j)]
  BY RestIs, Zenon
<1>2. \A j \in DOMAIN R : j \in Nat
  BY <1>1
<1>3. k \in Nat
  OBVIOUS
<1>4. \A i, j \in DOMAIN R : i # j => o(i) # o(j)
  BY <1>2, <1>3
<1>5. \A j \in DOMAIN R : R[j] \in Ops
  BY <1>1
<1> HIDE DEF R, o
<1>6. WireWell(R, M, P, I)
  BY <1>1, <1>4, Zenon DEF WireWell
<1>7. \A j \in DOMAIN R : OpsApart(R[j], W[k])
  BY <1>1, Zenon DEF WireWell
<1> QED
  BY <1>1, <1>5, <1>6, <1>7 DEF R

\* An operation is sent.
LEMMA SentWell ==
    ASSUME NEW W \in Seq(Ops), NEW op \in Ops, NEW M, NEW P, NEW I,
           WireWell(W, M, P, I), OpWell(op, M, P, I),
           \A j \in DOMAIN W : OpsApart(W[j], op)
    PROVE  Append(W, op) \in Seq(Ops) /\ WireWell(Append(W, op), M, P, I)
<1> DEFINE A == Append(W, op)
<1>1. A \in Seq(Ops) /\ Len(A) = Len(W) + 1 /\ Len(W) \in Nat
  OBVIOUS
<1>2. \A j \in DOMAIN A : (j \in DOMAIN W /\ A[j] = W[j]) \/ (j = Len(W) + 1 /\ A[j] = op)
  BY <1>1
<1>3. \A j \in DOMAIN W : j # Len(W) + 1
  BY <1>1
<1>4. \A a, b : OpsApart(a, b) => OpsApart(b, a)
  BY DEF OpsApart
<1> HIDE DEF A
<1>5. \A j \in DOMAIN A : OpWell(A[j], M, P, I)
  BY <1>2, Zenon DEF WireWell
<1>6. ASSUME NEW i \in DOMAIN A, NEW j \in DOMAIN A, i # j
      PROVE  OpsApart(A[i], A[j])
  <2>1. CASE i \in DOMAIN W /\ A[i] = W[i] /\ j \in DOMAIN W /\ A[j] = W[j]
    BY <1>6, <2>1, Zenon DEF WireWell
  <2>2. CASE i \in DOMAIN W /\ A[i] = W[i] /\ A[j] = op
    BY <2>2, Zenon
  <2>3. CASE A[i] = op /\ j \in DOMAIN W /\ A[j] = W[j]
    BY <1>4, <2>3, Zenon
  <2> QED
    BY <1>2, <1>6, <2>1, <2>2, <2>3
<1> QED
  BY <1>1, <1>5, <1>6, Zenon DEF A, WireWell

\* Several are.
LEMMA AllSentWell ==
    ASSUME NEW W \in Seq(Ops), NEW L \in Seq(Ops), NEW M, NEW P, NEW I,
           WireWell(W, M, P, I), WireWell(L, M, P, I),
           \A j \in DOMAIN W, i \in DOMAIN L : OpsApart(W[j], L[i])
    PROVE  W \o L \in Seq(Ops) /\ WireWell(W \o L, M, P, I)
<1> DEFINE A == W \o L
<1>1. A \in Seq(Ops) /\ Len(A) = Len(W) + Len(L) /\ Len(W) \in Nat /\ Len(L) \in Nat
  BY ConcatProperties
<1>2. \A j \in DOMAIN A : (j \in DOMAIN W /\ A[j] = W[j])
                         \/ (j > Len(W) /\ j - Len(W) \in DOMAIN L /\ A[j] = L[j - Len(W)])
  <2> SUFFICES ASSUME NEW j \in DOMAIN A
               PROVE  (j \in DOMAIN W /\ A[j] = W[j])
                      \/ (j > Len(W) /\ j - Len(W) \in DOMAIN L /\ A[j] = L[j - Len(W)])
    OBVIOUS
  <2>1. j \in 1..(Len(W) + Len(L))
    BY <1>1
  <2> QED
    BY <1>1, <2>1, ConcatProperties
<1>3. \A j \in DOMAIN A : j \in Nat
  BY <1>1
<1>4. \A a, b : OpsApart(a, b) => OpsApart(b, a)
  BY DEF OpsApart
<1>n. Len(W) \in Nat /\ \A j \in DOMAIN W : j <= Len(W)
  BY <1>1
<1> HIDE DEF A
<1>5. \A j \in DOMAIN A : OpWell(A[j], M, P, I)
  BY <1>2, Zenon DEF WireWell
<1>6. ASSUME NEW i \in DOMAIN A, NEW j \in DOMAIN A, i # j
      PROVE  OpsApart(A[i], A[j])
  <2>1. CASE i \in DOMAIN W /\ A[i] = W[i] /\ j \in DOMAIN W /\ A[j] = W[j]
    BY <1>6, <2>1, Zenon DEF WireWell
  <2>2. CASE i \in DOMAIN W /\ A[i] = W[i] /\ j - Len(W) \in DOMAIN L /\ A[j] = L[j - Len(W)]
    BY <2>2, Zenon
  <2>3. CASE i - Len(W) \in DOMAIN L /\ A[i] = L[i - Len(W)] /\ j \in DOMAIN W /\ A[j] = W[j]
    BY <1>4, <2>3, Zenon
  <2>4. CASE /\ i - Len(W) \in DOMAIN L /\ A[i] = L[i - Len(W)]
             /\ j - Len(W) \in DOMAIN L /\ A[j] = L[j - Len(W)]
    <3>1. i - Len(W) # j - Len(W)
      BY <1>3, <1>6, <1>n
    <3> QED
      BY <2>4, <3>1, Zenon DEF WireWell
  <2> QED
    BY <1>2, <1>6, <2>1, <2>2, <2>3, <2>4, Zenon
<1> QED
  BY <1>1, <1>5, <1>6, Zenon DEF A, WireWell

-----------------------------------------------------------------------------
(* Memory grows: places are given and none is taken.                         *)

\* All that has a place in M has it in N.
Grows(M, N) ==
    \A d \in Docs :
        M[d] # Absent =>
            N[d] # Absent /\ N[d].portal = M[d].portal /\ N[d].parent = M[d].parent

\* The containers of a body.
LEMMA BodiesAre ==
    /\ \A r \in Requests : /\ Items[r] \in Seq(Docs)
                           /\ DOMAIN Items[r] = 1..Len(Items[r]) /\ Len(Items[r]) \in Nat
                           /\ \A n \in DOMAIN Items[r] : Items[r][n] \in Docs
    /\ \A d \in Docs : /\ Kids[d] \in Seq(Docs)
                       /\ DOMAIN Kids[d] = 1..Len(Kids[d]) /\ Len(Kids[d]) \in Nat
                       /\ \A n \in DOMAIN Kids[d] : Kids[d][n] \in Docs
<1>1. Items \in [Requests -> Seq(Docs)] /\ Kids \in [Docs -> Seq(Docs)]
  BY ConstantsAssumption
<1>2. \A s \in Seq(Docs) : /\ DOMAIN s = 1..Len(s) /\ Len(s) \in Nat
                           /\ \A n \in DOMAIN s : s[n] \in Docs
  OBVIOUS
<1> QED
  BY <1>1, <1>2, Zenon

\* A record in place stays in place.
LEMMA InPlaceStays ==
    ASSUME NEW M, NEW N, Grows(M, N), NEW d \in Docs, NEW rec, InPlace(rec, M[d])
    PROVE  InPlace(rec, N[d])
<1>1. M[d] # Absent
  BY DEF InPlace, Absent, Record
<1> QED
  BY <1>1 DEF Grows, InPlace

\* What is stored stays in place.
LEMMA StoredStays ==
    ASSUME NEW M, NEW N, Grows(M, N), NEW D, StoredWell(D, M)
    PROVE  StoredWell(D, N)
BY InPlaceStays, Zenon DEF StoredWell

\* A place that agrees with its parent's goes on doing so.
LEMMA LinkStays ==
    ASSUME NEW M, NEW N, Grows(M, N), NEW rec \in Records, LinkWell(rec, M)
    PROVE  LinkWell(rec, N)
<1>1. CASE rec.parent = NoDoc
  BY <1>1 DEF LinkWell
<1>2. CASE rec.parent # NoDoc
  <2>1. rec.parent \in Docs
    BY <1>2 DEF Records
  <2>2. M[rec.parent] # Absent
    BY <1>2 DEF LinkWell, Absent, Record
  <2> QED
    BY <1>2, <2>1, <2>2 DEF LinkWell, Grows
<1> QED
  BY <1>1, <1>2

\* Memory is well when what is new in it is.
LEMMA MemoryGrows ==
    ASSUME NEW M \in [Docs -> Records], NEW N \in [Docs -> Records],
           MemoryWell(M), Grows(M, N),
           \A x \in Docs : M[x] = Absent /\ N[x] # Absent => LinkWell(N[x], N),
           \A x \in Docs : N[x] = Absent => \A n \in DOMAIN Kids[x] : N[Kids[x][n]] = Absent
    PROVE  MemoryWell(N)
<1> SUFFICES ASSUME NEW d \in Docs, M[d] # Absent
             PROVE  LinkWell(N[d], N)
  BY Zenon DEF MemoryWell
<1>1. LinkWell(M[d], M)
  BY DEF MemoryWell
<1>2. LinkWell(M[d], N)
  BY <1>1, LinkStays
<1> QED
  BY <1>2 DEF LinkWell, Grows

\* An operation whose request is where it was, and whose container has gained
\* nothing it may not have, is as well as before.
LEMMA OpStays ==
    ASSUME NEW op \in Ops, NEW M, NEW P, NEW I, OpWell(op, M, P, I),
           NEW N, NEW P2, NEW I2, Grows(M, N),
           P2[op.req] = P[op.req], I2[op.req] = I[op.req],
           op.op \in Carriers => \A n \in DOMAIN Kids[op.doc] : N[Kids[op.doc][n]] = Absent,
           op.op = "count" => N[op.doc] = Absent
    PROVE  OpWell(op, N, P2, I2)
<1>1. op.op \in {"update", "insert"} => op.at \in Docs /\ N[op.doc] # Absent /\ InPlace(op.rec, N[op.at])
  <2> SUFFICES ASSUME op.op \in {"update", "insert"}
               PROVE  op.at \in Docs /\ N[op.doc] # Absent /\ InPlace(op.rec, N[op.at])
    OBVIOUS
  <2>1. op.at \in Docs /\ op.doc \in Docs /\ M[op.doc] # Absent /\ InPlace(op.rec, M[op.at])
    BY DEF OpWell, Carriers
  <2> QED
    BY <2>1, InPlaceStays DEF Grows
<1>2. op.op = "write" => op.at \in Docs /\ P2[op.req] = "saving" /\ InPlace(op.rec, N[op.at])
  BY InPlaceStays DEF OpWell
<1> QED
  BY <1>1, <1>2 DEF OpWell

\* And so is a request, when what it has not begun is still without a place.
LEMMA RequestStays ==
    ASSUME NEW r \in Requests, NEW M, NEW H, NEW T, NEW P, NEW I,
           RequestWell(r, M, H, T, P, I),
           NEW N, NEW H2, NEW T2, NEW P2, NEW I2, Grows(M, N),
           H2[r] = H[r], T2[r] = T[r], P2[r] = P[r], I2[r] = I[r],
           \A n \in DOMAIN Items[r] : Unbegun(n, P[r], I[r]) => N[Items[r][n]] = Absent
    PROVE  RequestWell(r, N, H2, T2, P2, I2)
<1>1. IsAppend(r) /\ H[r] # Absent => P[r] # "idle" /\ T[r] \in Docs /\ InPlace(H[r], N[T[r]])
  BY InPlaceStays DEF RequestWell
<1> QED
  BY <1>1 DEF RequestWell

\* When memory stays as it is, all that is on the way stays well.
LEMMA WireStays ==
    ASSUME NEW W \in Seq(Ops), NEW M, NEW P, NEW I, WireWell(W, M, P, I),
           NEW P2, NEW I2,
           \A k \in DOMAIN W : P2[W[k].req] = P[W[k].req] /\ I2[W[k].req] = I[W[k].req]
    PROVE  WireWell(W, M, P2, I2)
<1>1. Grows(M, M)
  BY DEF Grows
<1> SUFFICES ASSUME NEW k \in DOMAIN W
             PROVE  OpWell(W[k], M, P2, I2)
  BY DEF WireWell
<1>2. W[k] \in Ops /\ OpWell(W[k], M, P, I)
  BY DEF WireWell
<1> QED
  BY <1>1, <1>2, OpStays DEF OpWell

-----------------------------------------------------------------------------
(* Places.                                                                   *)

\* An item is no child of the body.
LEMMA ItemsAreNoKids ==
    \A r \in Requests, x \in Docs : \A m \in DOMAIN Items[r], n \in DOMAIN Kids[x] :
        Items[r][m] # Kids[x][n]
BY ConstantsAssumption DEF BodiesApart

\* Below a record in place, a child has a place.
LEMMA ChildIs ==
    ASSUME NEW M \in [Docs -> Records], NEW at \in Docs, NEW rec \in Records,
           InPlace(rec, M[at]), rec.npos > 0
    PROVE  /\ Child(at, rec) \in Records
           /\ Child(at, rec) # Absent
           /\ LinkWell(Child(at, rec), M)
<1>1. rec.portal \in Seq(Nat \ {0}) /\ rec.npos \in Nat \ {0}
  BY DEF Records
<1> DEFINE s == Append(rec.portal, rec.npos)
<1>2. /\ s \in Seq(Nat \ {0})
      /\ Len(s) = Len(rec.portal) + 1
      /\ Len(rec.portal) \in Nat
      /\ \A j \in 1..Len(rec.portal) : s[j] = rec.portal[j]
  BY <1>1
<1>3. rec.portal # <<>> /\ Len(rec.portal) # 0
  BY <1>1, EmptySeq DEF InPlace
<1>4. s # <<>>
  BY <1>2
<1>5. Front(s) = rec.portal
  <2>1. Front(s) = SubSeq(s, 1, Len(rec.portal))
    BY <1>2 DEF Front
  <2> QED
    BY <2>1, <1>1, <1>2
<1>6. at # NoDoc
  BY ConstantsAssumption
<1> HIDE DEF s
<1>7. Child(at, rec) = [portal |-> s, parent |-> at, npos |-> 0]
  BY DEF Child, Record, s
<1> QED
  BY <1>2, <1>3, <1>4, <1>5, <1>6, <1>7 DEF Records, Absent, Record, LinkWell, InPlace

\* A container that is not there.
LEMMA AbsentIs == Absent \in Records /\ Absent.portal = <<>> /\ Absent.npos = 0
BY DEF Absent, Record, Records

\* An item is given a place.
LEMMA ItemPlaced ==
    ASSUME NEW M \in [Docs -> Records], MemoryWell(M),
           NEW r \in Requests, NEW n \in DOMAIN Items[r], M[Items[r][n]] = Absent,
           NEW rec \in Records, rec # Absent, LinkWell(rec, M),
           NEW N \in [Docs -> Records], N[Items[r][n]] = rec,
           \A x \in Docs : x # Items[r][n] => N[x] = M[x]
    PROVE  Grows(M, N) /\ MemoryWell(N)
<1> DEFINE d == Items[r][n]
<1>1. d \in Docs
  BY BodiesAre
<1>2. N \in [Docs -> Records] /\ N[d] = rec /\ \A x \in Docs : x # d => N[x] = M[x]
  OBVIOUS
<1>3. \A x \in Docs : \A m \in DOMAIN Kids[x] : Kids[x][m] \in Docs /\ Kids[x][m] # d
  BY BodiesAre, ItemsAreNoKids
<1>4. M[d] = Absent
  OBVIOUS
<1> HIDE DEF d
<1>5. Grows(M, N)
  BY <1>2, <1>4 DEF Grows
<1>6. \A x \in Docs : M[x] = Absent /\ N[x] # Absent => LinkWell(N[x], N)
  BY <1>2, <1>5, LinkStays
<1>7. \A x \in Docs : N[x] = Absent => \A m \in DOMAIN Kids[x] : N[Kids[x][m]] = Absent
  BY <1>2, <1>3, <1>4 DEF MemoryWell
<1>8. MemoryWell(N)
  BY <1>2, <1>5, <1>6, <1>7, MemoryGrows
<1> QED
  BY <1>5, <1>8

\* Then operations that do not bring it are as well as before.
LEMMA WireItemPlaced ==
    ASSUME NEW W \in Seq(Ops), NEW M, NEW P, NEW I, WireWell(W, M, P, I),
           NEW r \in Requests, NEW n \in DOMAIN Items[r],
           \A k \in DOMAIN W : W[k].op \in Carriers => W[k].doc # Items[r][n],
           NEW N, Grows(M, N), \A x \in Docs : x # Items[r][n] => N[x] = M[x],
           NEW P2, NEW I2,
           \A k \in DOMAIN W : P2[W[k].req] = P[W[k].req] /\ I2[W[k].req] = I[W[k].req]
    PROVE  WireWell(W, N, P2, I2)
<1> SUFFICES ASSUME NEW k \in DOMAIN W
             PROVE  OpWell(W[k], N, P2, I2)
  BY Zenon DEF WireWell
<1>1. W[k] \in Ops /\ OpWell(W[k], M, P, I)
  BY DEF WireWell
<1>2. ASSUME W[k].op \in Carriers
      PROVE  \A m \in DOMAIN Kids[W[k].doc] : N[Kids[W[k].doc][m]] = Absent
  <2>1. W[k].doc \in Docs
    BY <1>1, <1>2 DEF OpWell
  <2>2. \A m \in DOMAIN Kids[W[k].doc] :
            /\ Kids[W[k].doc][m] \in Docs
            /\ Kids[W[k].doc][m] # Items[r][n]
            /\ M[Kids[W[k].doc][m]] = Absent
    BY <1>1, <1>2, <2>1, BodiesAre, ItemsAreNoKids DEF OpWell
  <2> QED
    BY <2>2
<1>3. W[k].op = "count" => N[W[k].doc] = Absent
  BY <1>1 DEF OpWell, Carriers
<1> QED
  BY <1>1, <1>2, <1>3, OpStays

\* And requests, where it is begun.
LEMMA RequestItemPlaced ==
    ASSUME NEW q \in Requests, NEW M, NEW H, NEW T, NEW P, NEW I,
           RequestWell(q, M, H, T, P, I),
           NEW r \in Requests, NEW n \in DOMAIN Items[r], q # r,
           NEW N, Grows(M, N), \A x \in Docs : x # Items[r][n] => N[x] = M[x],
           NEW H2, NEW T2, NEW P2, NEW I2,
           H2[q] = H[q], T2[q] = T[q], P2[q] = P[q], I2[q] = I[q]
    PROVE  RequestWell(q, N, H2, T2, P2, I2)
<1>1. \A m \in DOMAIN Items[q] : Items[q][m] \in Docs /\ Items[q][m] # Items[r][n]
  BY BodiesAre, ConstantsAssumption DEF BodiesApart
<1>2. \A m \in DOMAIN Items[q] : Unbegun(m, P[q], I[q]) => N[Items[q][m]] = Absent
  <2>1. ASSUME NEW m \in DOMAIN Items[q], Unbegun(m, P[q], I[q])
        PROVE  M[Items[q][m]] = Absent
    <3>1. Items[q] # <<>>
      OBVIOUS
    <3> QED
      BY <2>1, <3>1 DEF RequestWell, IsAppend
  <2> QED
    BY <1>1, <2>1
<1> QED
  BY <1>2, RequestStays

-----------------------------------------------------------------------------
(* The next item of a body.                                                  *)

\* No operation brings an item that has no place, but its own count.
LEMMA NotOnTheWay ==
    ASSUME NEW W \in Seq(Ops), NEW M, NEW P, NEW I, WireWell(W, M, P, I),
           NEW r \in Requests, NEW n \in DOMAIN Items[r], M[Items[r][n]] = Absent,
           \A q \in Requests : IsAppend(q) => I[q] \in DOMAIN Items[q],
           \A k \in DOMAIN W : W[k].req # r
    PROVE  \A k \in DOMAIN W : W[k].op \in Carriers => W[k].doc # Items[r][n]
<1> SUFFICES ASSUME NEW k \in DOMAIN W, W[k].op \in Carriers, W[k].doc = Items[r][n]
             PROVE  FALSE
  OBVIOUS
<1>1. W[k] \in Ops /\ OpWell(W[k], M, P, I)
  BY DEF WireWell
<1>2. W[k].op = "count"
  BY <1>1 DEF OpWell, Carriers
<1>3. /\ W[k].req \in Requests
      /\ IsAppend(W[k].req)
      /\ Items[r][n] = Items[W[k].req][I[W[k].req]]
  BY <1>1, <1>2 DEF OpWell, Ops
<1> QED
  BY <1>3, ConstantsAssumption DEF BodiesApart

\* An item starts: it waits for the mapreduce, or it has its place at once.
LEMMA StartItemWell ==
    ASSUME TypeOK, MemoryWell(mem),
           \A q \in Requests : RequestWell(q, mem, held, target, pc, item),
           NEW r \in Requests, NEW n \in DOMAIN Items[r],
           NEW W \in Seq(Ops), WireWell(W, mem, pc, item),
           \A k \in DOMAIN W : W[k].req # r,
           \A m \in DOMAIN Items[r] : m >= n => mem[Items[r][m]] = Absent,
           NEW at, NEW parent \in Records,
           parent # Absent => at = target[r] /\ at \in Docs /\ InPlace(parent, mem[at]),
           StartItem(r, n, at, parent, W)
    PROVE  /\ mem' \in [Docs -> Records]
           /\ held' \in [Requests -> Records]
           /\ pc' \in [Requests -> Phases]
           /\ item' \in [Requests -> Nat \ {0}]
           /\ wire' \in Seq(Ops)
           /\ Grows(mem, mem')
           /\ MemoryWell(mem')
           /\ \A q \in Requests : RequestWell(q, mem', held', target, pc', item')
           /\ WireWell(wire', mem', pc', item')
<1> DEFINE d == Items[r][n]
           counted == Claim(parent)
<1>1. d \in Docs /\ n \in Nat \ {0} /\ DOMAIN Items[r] \subseteq Nat /\ IsAppend(r)
  BY BodiesAre DEF IsAppend
<1>2. item' \in [Requests -> Nat \ {0}] /\ item'[r] = n /\ \A q \in Requests : q # r => item'[q] = item[q]
  BY <1>1 DEF StartItem, TypeOK
<1>3. mem \in [Docs -> Records] /\ held \in [Requests -> Records] /\ pc \in [Requests -> Phases]
  BY DEF TypeOK
<1>4. mem[d] = Absent
  BY <1>1
<1>5. \A k \in DOMAIN W : W[k].req # r
  OBVIOUS
<1>r. \A k \in DOMAIN W : W[k].req \in Requests
  <2>1. \A k \in DOMAIN W : W[k] \in Ops
    OBVIOUS
  <2> QED
    BY <2>1 DEF Ops
<1>6. CASE parent = Absent
  <2>1. /\ mem' = mem /\ wire' = W
        /\ pc' = [pc EXCEPT ![r] = "waiting"]
        /\ held' = [held EXCEPT ![r] = parent]
    BY <1>6 DEF StartItem, Present
  <2>2. /\ pc' \in [Requests -> Phases] /\ pc'[r] = "waiting"
        /\ held' \in [Requests -> Records] /\ held'[r] = Absent
        /\ \A q \in Requests : q # r => pc'[q] = pc[q] /\ held'[q] = held[q]
    BY <1>3, <1>6, <2>1 DEF Phases
  <2>3. Grows(mem, mem)
    BY DEF Grows
  <2>4. WireWell(W, mem, pc', item')
    BY <1>2, <1>5, <1>r, <2>2, WireStays
  <2>5. RequestWell(r, mem, held', target, pc', item')
    BY <1>1, <1>2, <2>2 DEF RequestWell, Unbegun
  <2>6. ASSUME NEW q \in Requests, q # r
        PROVE  RequestWell(q, mem, held', target, pc', item')
    BY <1>2, <2>2, <2>6 DEF RequestWell
  <2> QED
    BY <1>2, <1>3, <2>1, <2>2, <2>3, <2>4, <2>5, <2>6
<1>7. CASE parent # Absent
  <2>1. /\ at \in Docs /\ at = target[r] /\ InPlace(parent, mem[at])
        /\ mem' = [mem EXCEPT ![d] = Child(at, counted)]
        /\ wire' = Append(W, Update(r, at, counted, d))
        /\ pc' = [pc EXCEPT ![r] = "appending"]
        /\ held' = [held EXCEPT ![r] = counted]
    BY <1>7 DEF StartItem, Present
  <2>2. counted \in Records /\ counted.npos > 0 /\ InPlace(counted, mem[at])
    <3>1. parent.npos \in Nat
      BY DEF Records
    <3>2. /\ counted \in Records
          /\ counted.npos = parent.npos + 1
          /\ counted.portal = parent.portal
          /\ counted.parent = parent.parent
      BY <3>1 DEF Claim, Records
    <3> QED
      BY <2>1, <3>1, <3>2 DEF InPlace
  <2>3. counted # Absent
    BY <2>2 DEF Absent, Record
  <2> HIDE DEF counted
  <2>4. /\ pc' \in [Requests -> Phases] /\ pc'[r] = "appending"
        /\ held' \in [Requests -> Records] /\ held'[r] = counted
        /\ \A q \in Requests : q # r => pc'[q] = pc[q] /\ held'[q] = held[q]
    BY <1>3, <2>1, <2>2 DEF Phases
  <2>5. PICK rec : rec = Child(at, counted)
    OBVIOUS
  <2>6. rec \in Records /\ rec # Absent /\ LinkWell(rec, mem)
    BY <1>3, <2>1, <2>2, <2>5, ChildIs
  <2>7. /\ mem' \in [Docs -> Records]
        /\ Grows(mem, mem')
        /\ MemoryWell(mem')
        /\ mem'[d] = rec
        /\ \A x \in Docs : x # d => mem'[x] = mem[x]
    <3>1. PICK M, N : M = mem /\ N = mem'
      OBVIOUS
    <3>2. N \in [Docs -> Records] /\ N[d] = rec /\ \A x \in Docs : x # d => N[x] = M[x]
      BY <1>1, <1>3, <2>1, <2>5, <2>6, <3>1
    <3>4. M \in [Docs -> Records] /\ MemoryWell(M) /\ M[d] = Absent /\ LinkWell(rec, M)
      BY <1>3, <1>4, <2>6, <3>1
    <3>3. Grows(M, N) /\ MemoryWell(N)
      BY <2>6, <3>2, <3>4, ItemPlaced
    <3> QED
      BY <3>1, <3>2, <3>3
  <2>17. InPlace(counted, mem'[at])
    <3>1. PICK M, N : M = mem /\ N = mem'
      OBVIOUS
    <3>2. Grows(M, N) /\ InPlace(counted, M[at])
      BY <2>2, <2>7, <3>1
    <3>3. InPlace(counted, N[at])
      BY <2>1, <3>2, InPlaceStays
    <3> QED
      BY <3>1, <3>3
  <2>8. \A k \in DOMAIN W : W[k].op \in Carriers => W[k].doc # d
    <3>1. \A q \in Requests : IsAppend(q) => item[q] \in DOMAIN Items[q]
      BY DEF RequestWell
    <3> QED
      BY <1>4, <3>1, NotOnTheWay
  <2>9. WireWell(W, mem', pc', item')
    <3>1. PICK N, P2, I2 : N = mem' /\ P2 = pc' /\ I2 = item'
      OBVIOUS
    <3>2. Grows(mem, N) /\ \A x \in Docs : x # d => N[x] = mem[x]
      BY <2>7, <3>1
    <3>3. \A k \in DOMAIN W : P2[W[k].req] = pc[W[k].req] /\ I2[W[k].req] = item[W[k].req]
      BY <1>2, <1>5, <1>r, <2>4, <3>1
    <3>4. WireWell(W, N, P2, I2)
      BY <2>8, <3>2, <3>3, WireItemPlaced
    <3> QED
      BY <3>1, <3>4
  <2> DEFINE op == Update(r, at, counted, d)
  <2>10. op = [op |-> "update", req |-> r, at |-> at, rec |-> counted, doc |-> d]
    BY DEF Update, Op
  <2> HIDE DEF op
  <2>11. op \in Ops
    BY <1>1, <2>1, <2>2, <2>10 DEF Ops
  <2>12. OpWell(op, mem', pc', item')
    <3>1. InPlace(counted, mem'[at])
      BY <2>17
    <3>2. \A m \in DOMAIN Kids[d] : mem'[Kids[d][m]] = Absent
      <4>1. \A m \in DOMAIN Kids[d] : mem[Kids[d][m]] = Absent
        BY <1>1, <1>4 DEF MemoryWell
      <4>2. \A m \in DOMAIN Kids[d] : Kids[d][m] \in Docs /\ Kids[d][m] # d
        BY <1>1, BodiesAre, ItemsAreNoKids
      <4> QED
        BY <2>7, <4>1, <4>2
    <3> QED
      BY <1>1, <2>1, <2>4, <2>6, <2>7, <2>10, <3>1, <3>2 DEF OpWell, Carriers
  <2>13. \A k \in DOMAIN W : OpsApart(W[k], op)
    BY <1>5, <2>8, <2>10 DEF OpsApart
  <2>14. wire' \in Seq(Ops) /\ WireWell(wire', mem', pc', item')
    <3>1. wire' = Append(W, op)
      BY <2>1 DEF op
    <3> QED
      BY <2>9, <2>11, <2>12, <2>13, <3>1, SentWell
  <2>15. RequestWell(r, mem', held', target, pc', item')
    <3>1. InPlace(counted, mem'[target[r]]) /\ target[r] \in Docs
      BY <2>1, <2>17
    <3>2. \A m \in DOMAIN Items[r] : m > n => mem'[Items[r][m]] = Absent
      <4>1. \A m \in DOMAIN Items[r] : m > n => Items[r][m] \in Docs /\ Items[r][m] # d
        BY <1>1, BodiesAre, ConstantsAssumption DEF BodiesApart
      <4>2. \A m \in DOMAIN Items[r] : m > n => m >= n
        BY <1>1
      <4> QED
        BY <2>7, <4>1, <4>2
    <3> QED
      BY <1>1, <1>2, <2>4, <3>1, <3>2 DEF RequestWell, Unbegun
  <2>16. ASSUME NEW q \in Requests, q # r
         PROVE  RequestWell(q, mem', held', target, pc', item')
    BY <1>2, <2>4, <2>7, <2>16, RequestItemPlaced
  <2> QED
    BY <1>2, <2>4, <2>7, <2>14, <2>15, <2>16
<1> QED
  BY <1>6, <1>7

-----------------------------------------------------------------------------
(* The children of a container.                                              *)

\* A child of the body has one parent there.
LEMMA KidsAreApart ==
    \A d, x \in Docs : \A m \in DOMAIN Kids[d], n \in DOMAIN Kids[x] :
        Kids[d][m] = Kids[x][n] => d = x /\ m = n
BY ConstantsAssumption DEF BodiesApart

\* The body puts x directly below d.
IsKid(d, x) == \E n \in DOMAIN Kids[d] : x = Kids[d][n]

\* They are all given places.
LEMMA KidsPlaced ==
    ASSUME NEW M \in [Docs -> Records], MemoryWell(M),
           NEW d \in Docs, M[d] # Absent,
           \A n \in DOMAIN Kids[d] : M[Kids[d][n]] = Absent,
           NEW N \in [Docs -> Records],
           N[d] # Absent, N[d].portal = M[d].portal, N[d].parent = M[d].parent,
           \A n \in DOMAIN Kids[d] : N[Kids[d][n]] = Child(d, [M[d] EXCEPT !.npos = n]),
           \A x \in Docs : x # d /\ ~ IsKid(d, x) => N[x] = M[x]
    PROVE  Grows(M, N) /\ MemoryWell(N)
<1>1. Grows(M, N)
  <2> SUFFICES ASSUME NEW x \in Docs, M[x] # Absent
               PROVE  N[x] # Absent /\ N[x].portal = M[x].portal /\ N[x].parent = M[x].parent
    BY DEF Grows
  <2>1. ~ IsKid(d, x)
    BY DEF IsKid
  <2> QED
    BY <2>1
<1>2. \A n \in DOMAIN Kids[d] : N[Kids[d][n]] # Absent /\ LinkWell(N[Kids[d][n]], N)
  <2> SUFFICES ASSUME NEW n \in DOMAIN Kids[d]
               PROVE  N[Kids[d][n]] # Absent /\ LinkWell(N[Kids[d][n]], N)
    OBVIOUS
  <2>1. n \in Nat \ {0}
    BY BodiesAre
  <2>2. PICK rec : rec = [M[d] EXCEPT !.npos = n]
    OBVIOUS
  <2>3. M[d] \in Records /\ LinkWell(M[d], M)
    BY DEF MemoryWell
  <2>4. rec \in Records /\ rec.npos = n /\ rec.portal = M[d].portal /\ rec.parent = M[d].parent
    BY <2>1, <2>2, <2>3 DEF Records
  <2>5. InPlace(rec, M[d])
    BY <2>3, <2>4 DEF InPlace, LinkWell
  <2>6. /\ Child(d, rec) \in Records /\ Child(d, rec) # Absent
        /\ LinkWell(Child(d, rec), M)
    BY <2>1, <2>4, <2>5, ChildIs
  <2>7. N[Kids[d][n]] = Child(d, rec)
    BY <2>2
  <2> QED
    BY <1>1, <2>6, <2>7, LinkStays
<1>3. \A x \in Docs : M[x] = Absent /\ N[x] # Absent => LinkWell(N[x], N)
  <2> SUFFICES ASSUME NEW x \in Docs, M[x] = Absent, N[x] # Absent
               PROVE  LinkWell(N[x], N)
    OBVIOUS
  <2>1. PICK n \in DOMAIN Kids[d] : x = Kids[d][n]
    BY DEF IsKid
  <2> QED
    BY <1>2, <2>1
<1>4. \A x \in Docs : N[x] = Absent => \A n \in DOMAIN Kids[x] : N[Kids[x][n]] = Absent
  <2> SUFFICES ASSUME NEW x \in Docs, N[x] = Absent, NEW n \in DOMAIN Kids[x]
               PROVE  N[Kids[x][n]] = Absent
    OBVIOUS
  <2>1. x # d /\ ~ IsKid(d, x)
    BY <1>2 DEF IsKid
  <2>2. M[Kids[x][n]] = Absent /\ Kids[x][n] \in Docs
    BY <2>1, BodiesAre DEF MemoryWell
  <2>3. ~ IsKid(d, Kids[x][n])
    BY <2>1, KidsAreApart DEF IsKid
  <2> QED
    BY <2>2, <2>3
<1> QED
  BY <1>1, <1>3, <1>4, MemoryGrows

\* What had no place and is no child of it still has none.
LEMMA StillAbsent ==
    ASSUME NEW M, NEW N, NEW d \in Docs, M[d] # Absent,
           \A x \in Docs : x # d /\ ~ IsKid(d, x) => N[x] = M[x],
           NEW x \in Docs, M[x] = Absent, ~ IsKid(d, x)
    PROVE  N[x] = Absent
OBVIOUS

\* Requests are as well as before: items are not children.
LEMMA RequestKidsPlaced ==
    ASSUME NEW q \in Requests, NEW M, NEW H, NEW T, NEW P, NEW I,
           RequestWell(q, M, H, T, P, I),
           NEW d \in Docs, M[d] # Absent,
           NEW N, Grows(M, N), \A x \in Docs : x # d /\ ~ IsKid(d, x) => N[x] = M[x]
    PROVE  RequestWell(q, N, H, T, P, I)
<1>1. ASSUME NEW m \in DOMAIN Items[q], Unbegun(m, P[q], I[q])
      PROVE  N[Items[q][m]] = Absent
  <2>1. Items[q] # <<>>
    OBVIOUS
  <2>2. M[Items[q][m]] = Absent
    BY <1>1, <2>1 DEF RequestWell, IsAppend
  <2>3. Items[q][m] \in Docs /\ ~ IsKid(d, Items[q][m])
    BY BodiesAre, ItemsAreNoKids DEF IsKid
  <2> QED
    BY <2>2, <2>3, StillAbsent
<1> QED
  BY <1>1, RequestStays

\* And so are operations that bring another container.
LEMMA WireKidsPlaced ==
    ASSUME NEW W \in Seq(Ops), NEW M, NEW P, NEW I, WireWell(W, M, P, I),
           \A q \in Requests : IsAppend(q) => I[q] \in DOMAIN Items[q],
           NEW d \in Docs, M[d] # Absent,
           \A k \in DOMAIN W : W[k].op \in Carriers => W[k].doc # d,
           NEW N, Grows(M, N), \A x \in Docs : x # d /\ ~ IsKid(d, x) => N[x] = M[x]
    PROVE  WireWell(W, N, P, I)
<1> SUFFICES ASSUME NEW k \in DOMAIN W
             PROVE  OpWell(W[k], N, P, I)
  BY Zenon DEF WireWell
<1>1. W[k] \in Ops /\ OpWell(W[k], M, P, I)
  BY DEF WireWell
<1>2. ASSUME W[k].op \in Carriers, NEW m \in DOMAIN Kids[W[k].doc]
      PROVE  N[Kids[W[k].doc][m]] = Absent
  <2>1. W[k].doc \in Docs /\ M[Kids[W[k].doc][m]] = Absent
    BY <1>1, <1>2 DEF OpWell
  <2>2. Kids[W[k].doc][m] \in Docs /\ W[k].doc # d
    BY <1>2, <2>1, BodiesAre
  <2>3. ~ IsKid(d, Kids[W[k].doc][m])
    BY <2>1, <2>2, KidsAreApart DEF IsKid
  <2> QED
    BY <2>1, <2>2, <2>3, StillAbsent
<1>3. ASSUME W[k].op = "count"
      PROVE  N[W[k].doc] = Absent
  <2>1. /\ W[k].req \in Requests /\ IsAppend(W[k].req)
        /\ W[k].doc = Items[W[k].req][I[W[k].req]]
        /\ M[W[k].doc] = Absent
    BY <1>1, <1>3 DEF OpWell, Ops
  <2>2. W[k].doc \in Docs /\ ~ IsKid(d, W[k].doc)
    BY <2>1, BodiesAre, ItemsAreNoKids DEF IsKid
  <2> QED
    BY <2>1, <2>2, StillAbsent
<1> QED
  BY <1>1, <1>2, <1>3, OpStays

-----------------------------------------------------------------------------
(* Positions at the top.                                                     *)

\* A set of numbers has a least one.
LEMMA Least ==
    ASSUME NEW S \in SUBSET Nat, S # {}
    PROVE  \E k \in S : \A j \in S : k <= j
<1> DEFINE R == {p \in Nat \X Nat : p[1] < p[2]}
<1>1. R = OpToRel(<, Nat)
  BY Zenon DEF OpToRel
<1>2. IsWellFoundedOn(R, Nat)
  BY <1>1, NatLessThanWellFounded
<1>3. PICK k \in S : \A j \in S : <<j, k>> \notin R
  <2> HIDE DEF R
  <2> QED
    BY <1>2, WFMin, Zenon
<1>4. ASSUME NEW j \in S
      PROVE  ~ (j < k)
  <2>1. <<j, k>> \in Nat \X Nat /\ <<j, k>>[1] = j /\ <<j, k>>[2] = k
    OBVIOUS
  <2> QED
    BY <1>3, <2>1
<1> QED
  BY <1>3, <1>4

\* Of some containers with a number each, one has the greatest.
LEMMA GreatestOf ==
    ASSUME NEW f \in [Docs -> Nat], NEW D \in SUBSET Docs, D # {}
    PROVE  \E d \in D : \A x \in D : f[x] <= f[d]
<1> DEFINE HasGreatest(E) == \E d \in E : \A x \in E : f[x] <= f[d]
           Sizes == {Cardinality(E) : E \in {E \in SUBSET Docs : E # {} /\ ~ HasGreatest(E)}}
<1>1. \A E \in SUBSET Docs : IsFiniteSet(E) /\ Cardinality(E) \in Nat
  BY ConstantsAssumption, FS_Subset, FS_CardinalityType
<1>2. ASSUME Sizes # {}
      PROVE  FALSE
  <2>1. PICK c \in Sizes : \A b \in Sizes : c <= b
    <3>1. Sizes \in SUBSET Nat
      BY <1>1
    <3> HIDE DEF Sizes
    <3> QED
      BY <1>2, <3>1, Least
  <2>2. PICK E \in SUBSET Docs : E # {} /\ ~ HasGreatest(E) /\ c = Cardinality(E)
    BY <2>1
  <2>3. PICK e \in E : TRUE
    BY <2>2
  <2>4. Cardinality(E \ {e}) = c - 1 /\ c \in Nat
    BY <1>1, <2>2, <2>3, FS_RemoveElement
  <2>5. E \ {e} \in SUBSET Docs
    OBVIOUS
  <2>6. E \ {e} # {}
    <3> SUFFICES ASSUME E \ {e} = {}
                 PROVE  HasGreatest(E)
      BY <2>2
    <3>1. \A x \in E : x = e /\ f[x] \in Nat
      OBVIOUS
    <3> QED
      BY <3>1
  <2>7. HasGreatest(E \ {e})
    <3>1. c - 1 \notin Sizes
      BY <2>1, <2>4
    <3> QED
      BY <2>4, <2>5, <2>6, <3>1
  <2>8. PICK d \in E \ {e} : \A x \in E \ {e} : f[x] <= f[d]
    BY <2>7
  <2>9. f[d] \in Nat /\ f[e] \in Nat /\ \A x \in E : f[x] \in Nat
    OBVIOUS
  <2>10. CASE f[e] <= f[d]
    <3>1. \A x \in E : f[x] <= f[d]
      BY <2>8, <2>10
    <3> QED
      BY <2>2, <3>1
  <2>11. CASE f[d] < f[e]
    <3>1. \A x \in E : f[x] <= f[e]
      BY <2>8, <2>9, <2>11
    <3> QED
      BY <2>2, <2>3, <3>1
  <2> QED
    BY <2>9, <2>10, <2>11
<1>3. HasGreatest(D)
  BY <1>2
<1> QED
  BY <1>3

\* The next position of a root is one.
LEMMA RootPositionIs ==
    ASSUME db \in [Docs -> Records], StoredWell(db, mem)
    PROVE  /\ NextRootPosition \in Nat \ {0}
           /\ \A x \in Docs : Present(db[x]) /\ db[x].parent = NoDoc =>
                  db[x].portal[1] < NextRootPosition
<1> DEFINE D == {x \in Docs : Present(db[x]) /\ db[x].parent = NoDoc}
           f == [d \in Docs |-> IF d \in D THEN db[d].portal[1] ELSE 0]
           S == RootPositions \cup {0}
<1>1. \A d \in D : db[d].portal[1] \in Nat
  <2> SUFFICES ASSUME NEW d \in D
               PROVE  db[d].portal[1] \in Nat
    OBVIOUS
  <2>1. db[d].portal \in Seq(Nat \ {0})
    BY DEF Records
  <2>2. db[d].portal # <<>>
    BY DEF StoredWell, InPlace, Present
  <2>3. Len(db[d].portal) \in Nat \ {0}
    BY <2>1, <2>2
  <2> QED
    BY <2>1, <2>3
<1>2. f \in [Docs -> Nat]
  BY <1>1
<1>3. RootPositions = {f[d] : d \in D}
  BY DEF RootPositions
<1>4. \E m \in S : \A n \in S : n <= m
  <2>1. CASE D = {}
    BY <1>3, <2>1
  <2>2. CASE D # {}
    <3>1. PICK d \in D : \A x \in D : f[x] <= f[d]
      <4>1. D \in SUBSET Docs
        OBVIOUS
      <4> HIDE DEF D, f
      <4> QED
        BY <1>2, <2>2, <4>1, GreatestOf
    <3>2. f[d] \in S /\ f[d] >= 0
      BY <1>2, <1>3
    <3> HIDE DEF f
    <3> QED
      BY <1>3, <3>1, <3>2
  <2> QED
    BY <2>1, <2>2
<1>5. S \subseteq Nat
  BY <1>2, <1>3
<1>6. Highest(S) \in Nat
  <2> HIDE DEF S
  <2>1. Highest(S) \in S
    BY <1>4 DEF Highest
  <2> QED
    BY <1>5, <2>1
<1>7. \A n \in S : n <= Highest(S)
  <2> HIDE DEF S
  <2> QED
    BY <1>4 DEF Highest
<1>8. \A x \in D : db[x].portal[1] \in S
  BY DEF RootPositions
<1>9. NextRootPosition = Highest(S) + 1
  BY DEF NextRootPosition
<1>10. PICK h \in Nat : h = Highest(S)
  BY <1>6
<1>11. ASSUME NEW x \in Docs, Present(db[x]), db[x].parent = NoDoc
       PROVE  db[x].portal[1] < NextRootPosition
  <2>1. PICK v : v = db[x].portal[1]
    OBVIOUS
  <2>2. v \in Nat /\ v <= h
    BY <1>1, <1>7, <1>8, <1>10, <1>11, <2>1
  <2>3. NextRootPosition = h + 1
    BY <1>9, <1>10
  <2> QED
    BY <2>1, <2>2, <2>3
<1>12. NextRootPosition \in Nat \ {0}
  <2>1. NextRootPosition = h + 1
    BY <1>9, <1>10
  <2> QED
    BY <2>1
<1> QED
  BY <1>11, <1>12

-----------------------------------------------------------------------------
(* Requests arrive.                                                          *)

\* Nothing is under way for a request that waits or is over.
LEMMA Silent ==
    ASSUME PlacesInv, NEW r \in Requests, pc[r] \notin {"loading", "saving", "deleting", "appending"}
    PROVE  \A k \in DOMAIN wire : wire[k].req # r
<1> SUFFICES ASSUME NEW k \in DOMAIN wire, wire[k].req = r
             PROVE  FALSE
  OBVIOUS
<1>1. OpWell(wire[k], mem, pc, item)
  BY DEF PlacesInv, WireWell
<1>2. wire[k] \in Ops
  BY DEF PlacesInv, TypeOK
<1>3. wire[k].op \in {"load", "count", "update", "insert", "write", "remove"}
  BY <1>2 DEF Ops
<1> QED
  BY <1>1, <1>3 DEF OpWell, Carriers

\* What the invariant gives a step.
LEMMA Known ==
    ASSUME PlacesInv
    PROVE  /\ TypeOK
           /\ mem \in [Docs -> Records] /\ MemoryWell(mem)
           /\ db \in [Docs -> Records] /\ StoredWell(db, mem)
           /\ \A q \in Requests : RequestWell(q, mem, held, target, pc, item)
           /\ \A q \in Requests : IsAppend(q) => item[q] \in DOMAIN Items[q]
           /\ wire \in Seq(Ops) /\ WireWell(wire, mem, pc, item)
BY DEF PlacesInv, TypeOK, RequestWell

\* A body that was not begun has no places.
LEMMA NotBegun ==
    ASSUME PlacesInv, NEW r \in Requests, pc[r] \in {"idle", "loading"}, IsAppend(r)
    PROVE  /\ 1 \in DOMAIN Items[r]
           /\ \A m \in DOMAIN Items[r] : mem[Items[r][m]] = Absent
<1>1. RequestWell(r, mem, held, target, pc, item)
  BY Known
<1>2. item[r] \in 1..Len(Items[r]) /\ Len(Items[r]) \in Nat
  BY <1>1, BodiesAre DEF RequestWell
<1>3. 1 \in DOMAIN Items[r]
  BY <1>2, BodiesAre
<1> QED
  BY <1>1, <1>3 DEF RequestWell, Unbegun

\* An append at the top starts its first item.
LEMMA AppendTopKeeps ==
    ASSUME PlacesInv, NEW r \in Requests, AppendTop(r)
    PROVE  PlacesInv' /\ Grows(mem, mem')
<1>1. pc[r] = "idle" /\ IsAppend(r) /\ StartItem(r, 1, NoDoc, Absent, wire)
  BY DEF AppendTop, MayStart
<1>2. UNCHANGED <<db, target, stored, granted>>
  BY DEF AppendTop
<1>3. \A k \in DOMAIN wire : wire[k].req # r
  BY <1>1, Silent
<1>4. /\ mem' \in [Docs -> Records] /\ held' \in [Requests -> Records]
      /\ pc' \in [Requests -> Phases] /\ item' \in [Requests -> Nat \ {0}]
      /\ wire' \in Seq(Ops)
      /\ Grows(mem, mem') /\ MemoryWell(mem')
      /\ \A q \in Requests : RequestWell(q, mem', held', target, pc', item')
      /\ WireWell(wire', mem', pc', item')
  BY <1>1, <1>3, Known, NotBegun, AbsentIs, StartItemWell
<1>5. StoredWell(db, mem')
  BY <1>4, Known, StoredStays
<1> QED
  BY <1>2, <1>4, <1>5 DEF PlacesInv, TypeOK

\* A request that reads the container it is addressed to.
LEMMA LoadingKeeps ==
    ASSUME PlacesInv, NEW r \in Requests, NEW d \in Docs, pc[r] = "idle",
           NEW phase \in {"loading", "saving", "deleting"}, IsAppend(r) <=> phase = "loading",
           pc' = [pc EXCEPT ![r] = phase],
           target' = [target EXCEPT ![r] = d],
           wire' = Load(r, d),
           held' \in [Requests -> Records],
           \A q \in Requests : q # r \/ IsAppend(q) => held'[q] = held[q],
           UNCHANGED <<db, mem, item, stored, granted>>
    PROVE  PlacesInv' /\ Grows(mem, mem')
<1>1. /\ pc' \in [Requests -> Phases] /\ pc'[r] = phase
      /\ target' \in [Requests -> Docs \cup {NoDoc}] /\ target'[r] = d
      /\ \A q \in Requests : q # r => pc'[q] = pc[q] /\ target'[q] = target[q]
  BY Known DEF TypeOK, Phases
<1>2. \A k \in DOMAIN wire : wire[k].req \in Requests /\ wire[k].req # r
  <2>1. \A k \in DOMAIN wire : wire[k] \in Ops
    BY Known
  <2> QED
    BY <2>1, Silent DEF Ops
<1>3. WireWell(wire, mem, pc', item)
  BY <1>1, <1>2, Known, WireStays
<1> DEFINE op == Op("load", r, d, Absent, NoDoc)
<1>4. op = [op |-> "load", req |-> r, at |-> d, rec |-> Absent, doc |-> NoDoc]
  BY DEF Op
<1> HIDE DEF op
<1>5. op \in Ops
  BY <1>4, AbsentIs DEF Ops
<1>6. OpWell(op, mem, pc', item)
  BY <1>1, <1>4 DEF OpWell, Carriers
<1>7. \A k \in DOMAIN wire : OpsApart(wire[k], op)
  BY <1>2, <1>4 DEF OpsApart, Carriers
<1>8. wire' = Append(wire, op)
  BY DEF Load, op
<1>9. wire' \in Seq(Ops) /\ WireWell(wire', mem, pc', item)
  BY <1>3, <1>5, <1>6, <1>7, <1>8, Known, SentWell
<1>10. ASSUME NEW q \in Requests
       PROVE  RequestWell(q, mem, held', target', pc', item)
  <2>1. RequestWell(q, mem, held, target, pc, item)
    BY Known
  <2>2. CASE q # r
    BY <1>1, <2>1, <2>2 DEF RequestWell
  <2>3. CASE q = r
    BY <1>1, <2>1, <2>3 DEF RequestWell, Unbegun
  <2> QED
    BY <2>2, <2>3
<1> QED
  BY <1>1, <1>9, <1>10 DEF PlacesInv, TypeOK, Grows

\* An append to a container reads it.
LEMMA AppendToKeeps ==
    ASSUME PlacesInv, NEW r \in Requests, NEW d \in Docs, AppendTo(r, d)
    PROVE  PlacesInv' /\ Grows(mem, mem')
<1>1. /\ pc[r] = "idle" /\ IsAppend(r)
      /\ target' = [target EXCEPT ![r] = d]
      /\ pc' = [pc EXCEPT ![r] = "loading"]
      /\ wire' = Load(r, d)
      /\ UNCHANGED <<db, mem, held, item, stored, granted>>
  BY DEF AppendTo, MayStart
<1>2. held' \in [Requests -> Records] /\ \A q \in Requests : held'[q] = held[q]
  BY <1>1, Known DEF TypeOK
<1> QED
  BY <1>1, <1>2, LoadingKeeps

\* A save reads it, with a body that only counts children.
LEMMA SaveKeeps ==
    ASSUME PlacesInv, NEW r \in Requests, NEW d \in Docs, Save(r, d)
    PROVE  PlacesInv' /\ Grows(mem, mem')
<1>1. /\ pc[r] = "idle" /\ ~ IsAppend(r)
      /\ target' = [target EXCEPT ![r] = d]
      /\ pc' = [pc EXCEPT ![r] = "saving"]
      /\ wire' = Load(r, d)
      /\ UNCHANGED <<db, mem, item, stored, granted>>
  BY DEF Save, MayStart
<1>2. PICK n \in 0..db[d].npos : held' = [held EXCEPT ![r].npos = n]
  BY DEF Save
<1>3. db[d].npos \in Nat
  BY Known DEF Records
<1>4. held' \in [Requests -> Records] /\ \A q \in Requests : q # r => held'[q] = held[q]
  <2>1. n \in Nat
    BY <1>3
  <2>2. held \in [Requests -> Records]
    BY Known DEF TypeOK
  <2>3. [held[r] EXCEPT !.npos = n] \in Records
    BY <2>1, <2>2 DEF Records
  <2> QED
    BY <1>2, <2>2, <2>3
<1>5. \A q \in Requests : q # r \/ IsAppend(q) => held'[q] = held[q]
  BY <1>1, <1>4
<1> QED
  BY <1>1, <1>4, <1>5, LoadingKeeps

\* A delete reads it.
LEMMA DeleteKeeps ==
    ASSUME PlacesInv, NEW r \in Requests, NEW d \in Docs, Delete(r, d)
    PROVE  PlacesInv' /\ Grows(mem, mem')
<1>1. /\ pc[r] = "idle" /\ ~ IsAppend(r)
      /\ target' = [target EXCEPT ![r] = d]
      /\ pc' = [pc EXCEPT ![r] = "deleting"]
      /\ wire' = Load(r, d)
      /\ UNCHANGED <<db, mem, held, item, stored, granted>>
  BY DEF Delete, MayStart
<1>2. held' \in [Requests -> Records] /\ \A q \in Requests : held'[q] = held[q]
  BY <1>1, Known DEF TypeOK
<1> QED
  BY <1>1, <1>2, LoadingKeeps

\* An item that waited is counted; nothing else on the way brings it.
LEMMA TimerKeeps ==
    ASSUME PlacesInv, NEW r \in Requests, Timer(r)
    PROVE  PlacesInv' /\ Grows(mem, mem')
<1> DEFINE d == Items[r][item[r]]
           op == Op("count", r, NoDoc, Absent, d)
<1>1. /\ pc[r] = "waiting"
      /\ pc' = [pc EXCEPT ![r] = "appending"]
      /\ wire' = Append(wire, op)
      /\ UNCHANGED <<db, mem, held, target, item, stored, granted>>
  BY DEF Timer
<1>2. RequestWell(r, mem, held, target, pc, item)
  BY Known
<1>3. IsAppend(r) /\ item[r] \in DOMAIN Items[r] /\ d \in Docs /\ mem[d] = Absent
  BY <1>1, <1>2, BodiesAre DEF RequestWell, Unbegun
<1>4. /\ pc' \in [Requests -> Phases] /\ pc'[r] = "appending"
      /\ \A q \in Requests : q # r => pc'[q] = pc[q]
  BY <1>1, Known DEF TypeOK, Phases
<1>5. \A k \in DOMAIN wire : wire[k].req \in Requests /\ wire[k].req # r
  <2>1. \A k \in DOMAIN wire : wire[k] \in Ops
    BY Known
  <2> QED
    BY <1>1, <2>1, Silent DEF Ops
<1>6. WireWell(wire, mem, pc', item)
  BY <1>4, <1>5, Known, WireStays
<1>7. \A k \in DOMAIN wire : wire[k].op \in Carriers => wire[k].doc # d
  BY <1>3, <1>5, Known, NotOnTheWay
<1>8. op = [op |-> "count", req |-> r, at |-> NoDoc, rec |-> Absent, doc |-> d]
  BY DEF Op
<1> HIDE DEF op
<1>9. op \in Ops
  BY <1>3, <1>8, AbsentIs DEF Ops
<1>10. OpWell(op, mem, pc', item)
  <2>1. \A m \in DOMAIN Kids[d] : mem[Kids[d][m]] = Absent
    BY <1>3, Known DEF MemoryWell
  <2> QED
    BY <1>3, <1>4, <1>8, <2>1 DEF OpWell, Carriers
<1>11. \A k \in DOMAIN wire : OpsApart(wire[k], op)
  BY <1>5, <1>7, <1>8 DEF OpsApart
<1>12. wire' \in Seq(Ops) /\ WireWell(wire', mem, pc', item)
  BY <1>1, <1>6, <1>9, <1>10, <1>11, Known, SentWell
<1>13. ASSUME NEW q \in Requests
       PROVE  RequestWell(q, mem, held, target, pc', item)
  <2>1. RequestWell(q, mem, held, target, pc, item)
    BY Known
  <2>2. CASE q # r
    BY <1>4, <2>1, <2>2 DEF RequestWell
  <2>3. CASE q = r
    BY <1>1, <1>3, <1>4, <2>1, <2>3 DEF RequestWell, Unbegun
  <2> QED
    BY <2>2, <2>3
<1> QED
  BY <1>1, <1>4, <1>12, <1>13 DEF PlacesInv, TypeOK, Grows

-----------------------------------------------------------------------------
(* Mongo does an operation.                                                  *)

\* The operation, and what is left on the way.
LEMMA Under ==
    ASSUME PlacesInv, NEW k \in DOMAIN wire
    PROVE  /\ wire[k] \in Ops /\ wire[k].req \in Requests
           /\ OpWell(wire[k], mem, pc, item)
           /\ RequestWell(wire[k].req, mem, held, target, pc, item)
           /\ Rest(k) \in Seq(Ops)
           /\ WireWell(Rest(k), mem, pc, item)
           /\ \A j \in DOMAIN Rest(k) :
                  /\ Rest(k)[j].req \in Requests
                  /\ OpsApart(Rest(k)[j], wire[k])
                  /\ wire[k].op \notin Carriers => Rest(k)[j].req # wire[k].req
<1>1. wire \in Seq(Ops) /\ WireWell(wire, mem, pc, item)
  BY Known
<1>2. wire[k] \in Ops
  BY <1>1
<1>3. wire[k].req \in Requests
  BY <1>2 DEF Ops
<1>4. OpWell(wire[k], mem, pc, item)
  BY <1>1 DEF WireWell
<1>5. /\ Rest(k) \in Seq(Ops)
      /\ WireWell(Rest(k), mem, pc, item)
      /\ \A j \in DOMAIN Rest(k) : Rest(k)[j] \in Ops /\ OpsApart(Rest(k)[j], wire[k])
  BY <1>1, RestWell DEF Rest
<1>6. \A op \in Ops : op.req \in Requests
  BY DEF Ops
<1> QED
  BY <1>2, <1>3, <1>4, <1>5, <1>6, Known DEF OpsApart

\* An operation that brings nothing is the last of its request.
LEMMA EndKeeps ==
    ASSUME PlacesInv, NEW k \in DOMAIN wire, wire[k].op \notin Carriers,
           NEW phase \in Ended,
           wire' = Rest(k),
           pc' = [pc EXCEPT ![wire[k].req] = phase],
           db' \in [Docs -> Records], StoredWell(db', mem),
           UNCHANGED <<mem, held, target, item, stored, granted>>
    PROVE  PlacesInv' /\ Grows(mem, mem')
<1> DEFINE r == wire[k].req
<1>1. r \in Requests /\ RequestWell(r, mem, held, target, pc, item)
  BY Under
<1>2. pc' \in [Requests -> Phases] /\ pc'[r] = phase /\ \A q \in Requests : q # r => pc'[q] = pc[q]
  BY <1>1, Known DEF TypeOK, Phases, Ended
<1>3. WireWell(Rest(k), mem, pc', item)
  <2>1. \A j \in DOMAIN Rest(k) : pc'[Rest(k)[j].req] = pc[Rest(k)[j].req]
    BY <1>2, Under
  <2> QED
    BY <2>1, Under, WireStays
<1>4. wire' \in Seq(Ops)
  BY Under
<1>5. phase \in {"done", "failed"}
  BY DEF Ended
<1>6. pc[r] # "idle"
  BY <1>1, Silent
<1> HIDE DEF r
<1>7. ASSUME NEW q \in Requests
      PROVE  RequestWell(q, mem, held, target, pc', item)
  <2>1. RequestWell(q, mem, held, target, pc, item)
    BY Known
  <2>2. CASE q # r
    BY <1>2, <2>1, <2>2 DEF RequestWell
  <2>3. CASE q = r
    BY <1>1, <1>2, <1>5, <1>6, <2>1, <2>3 DEF RequestWell, Unbegun
  <2> QED
    BY <2>2, <2>3
<1> QED
  BY <1>2, <1>3, <1>4, <1>7 DEF PlacesInv, TypeOK, Grows

\* A save or a delete has loaded its container and sends its own operation.
LEMMA SendKeeps ==
    ASSUME PlacesInv, NEW k \in DOMAIN wire, wire[k].op \notin Carriers,
           NEW op \in Ops, op.op \notin Carriers, op.req = wire[k].req,
           OpWell(op, mem, pc, item),
           wire' = Append(Rest(k), op),
           UNCHANGED <<db, mem, held, target, pc, item, stored, granted>>
    PROVE  PlacesInv' /\ Grows(mem, mem')
<1>1. \A j \in DOMAIN Rest(k) : OpsApart(Rest(k)[j], op)
  BY Under DEF OpsApart
<1>2. wire' \in Seq(Ops) /\ WireWell(wire', mem, pc, item)
  BY <1>1, Under, SentWell
<1> QED
  BY <1>2 DEF PlacesInv, TypeOK, Grows

\* The first item of an append starts below what was read.
LEMMA LoadTargetKeeps ==
    ASSUME PlacesInv, NEW k \in DOMAIN wire, LoadTarget(k)
    PROVE  PlacesInv' /\ Grows(mem, mem')
<1> DEFINE r == wire[k].req
           parent == db[target[r]]
<1>1. /\ wire[k].op = "load" /\ pc[r] = "loading"
      /\ StartItem(r, 1, target[r], parent, Rest(k))
      /\ UNCHANGED <<db, target, stored, granted>>
  BY DEF LoadTarget, Does
<1>2. r \in Requests /\ RequestWell(r, mem, held, target, pc, item)
  BY Under
<1>3. IsAppend(r) /\ target[r] \in Docs
  BY <1>1, <1>2 DEF RequestWell
<1>4. \A j \in DOMAIN Rest(k) : Rest(k)[j].req # r
  BY <1>1, Under DEF Carriers
<1>5. parent \in Records /\ (parent # Absent => InPlace(parent, mem[target[r]]))
  BY <1>3, Known DEF StoredWell
<1>6. 1 \in DOMAIN Items[r] /\ \A m \in DOMAIN Items[r] : mem[Items[r][m]] = Absent
  BY <1>1, <1>2, <1>3, NotBegun
<1>7. Rest(k) \in Seq(Ops) /\ WireWell(Rest(k), mem, pc, item)
  BY Under
<1> HIDE DEF r, parent
<1>8. /\ mem' \in [Docs -> Records] /\ held' \in [Requests -> Records]
      /\ pc' \in [Requests -> Phases] /\ item' \in [Requests -> Nat \ {0}]
      /\ wire' \in Seq(Ops)
      /\ Grows(mem, mem') /\ MemoryWell(mem')
      /\ \A q \in Requests : RequestWell(q, mem', held', target, pc', item')
      /\ WireWell(wire', mem', pc', item')
  BY <1>1, <1>2, <1>3, <1>4, <1>5, <1>6, <1>7, Known, StartItemWell
<1>9. StoredWell(db, mem')
  BY <1>8, Known, StoredStays
<1> QED
  BY <1>1, <1>8, <1>9 DEF PlacesInv, TypeOK

\* A save lays its body over the record, which stays in place.
LEMMA LoadSavedKeeps ==
    ASSUME PlacesInv, NEW k \in DOMAIN wire, LoadSaved(k)
    PROVE  PlacesInv' /\ Grows(mem, mem')
<1> DEFINE r == wire[k].req
           d == wire[k].at
           body == held[r].npos
           merged == [db[d] EXCEPT !.npos = IF body = 0 THEN @ ELSE body]
           op == Op("write", r, d, merged, NoDoc)
<1>1. /\ wire[k].op = "load" /\ pc[r] = "saving"
      /\ UNCHANGED <<db, mem, held, target, item, stored, granted>>
  BY DEF LoadSaved, Does
<1>2. wire[k].op \notin Carriers
  BY <1>1 DEF Carriers
<1>3. CASE ~ Present(db[d])
  <2>1. wire' = Rest(k) /\ pc' = [pc EXCEPT ![r] = "failed"]
    BY <1>3 DEF LoadSaved
  <2>2. "failed" \in Ended
    BY DEF Ended
  <2>3. db' \in [Docs -> Records] /\ StoredWell(db', mem)
    BY <1>1, Known
  <2> QED
    BY <1>1, <1>2, <2>1, <2>2, <2>3, EndKeeps
<1>4. CASE Present(db[d])
  <2>1. wire' = Append(Rest(k), op) /\ UNCHANGED pc
    BY <1>4 DEF LoadSaved
  <2>2. r \in Requests /\ d \in Docs
    BY <1>1, Under DEF OpWell
  <2>3. db[d] \in Records /\ InPlace(db[d], mem[d]) /\ body \in Nat
    <3>1. held[r] \in Records
      BY <2>2, Known DEF TypeOK
    <3> QED
      BY <1>4, <2>2, <3>1, Known DEF Present, StoredWell, Records
  <2>4. merged \in Records /\ merged.portal = db[d].portal /\ merged.parent = db[d].parent
    BY <2>3 DEF Records
  <2> HIDE DEF merged
  <2>5. op = [op |-> "write", req |-> r, at |-> d, rec |-> merged, doc |-> NoDoc]
    BY DEF Op
  <2> HIDE DEF op
  <2>6. op \in Ops
    BY <2>2, <2>4, <2>5 DEF Ops
  <2>7. OpWell(op, mem, pc, item)
    BY <1>1, <2>2, <2>3, <2>4, <2>5 DEF OpWell, Carriers, InPlace
  <2>8. op.op \notin Carriers /\ op.req = wire[k].req
    BY <2>5 DEF Carriers
  <2> QED
    BY <1>1, <1>2, <2>1, <2>6, <2>7, <2>8, SendKeeps
<1> QED
  BY <1>3, <1>4

\* A delete sends its remove.
LEMMA LoadSkeletonKeeps ==
    ASSUME PlacesInv, NEW k \in DOMAIN wire, LoadSkeleton(k)
    PROVE  PlacesInv' /\ Grows(mem, mem')
<1> DEFINE r == wire[k].req
           d == wire[k].at
           op == Op("remove", r, d, db[d], NoDoc)
<1>1. /\ wire[k].op = "load" /\ pc[r] = "deleting"
      /\ UNCHANGED <<db, mem, held, target, item, stored, granted>>
  BY DEF LoadSkeleton, Does
<1>2. wire[k].op \notin Carriers
  BY <1>1 DEF Carriers
<1>3. CASE ~ Present(db[d])
  <2>1. wire' = Rest(k) /\ pc' = [pc EXCEPT ![r] = "failed"]
    BY <1>3 DEF LoadSkeleton
  <2>2. "failed" \in Ended
    BY DEF Ended
  <2>3. db' \in [Docs -> Records] /\ StoredWell(db', mem)
    BY <1>1, Known
  <2> QED
    BY <1>1, <1>2, <2>1, <2>2, <2>3, EndKeeps
<1>4. CASE Present(db[d])
  <2>1. wire' = Append(Rest(k), op) /\ UNCHANGED pc
    BY <1>4 DEF LoadSkeleton
  <2>2. r \in Requests /\ d \in Docs
    BY <1>1, Under DEF OpWell
  <2>3. db[d] \in Records
    BY <2>2, Known
  <2>5. op = [op |-> "remove", req |-> r, at |-> d, rec |-> db[d], doc |-> NoDoc]
    BY DEF Op
  <2> HIDE DEF op
  <2>6. op \in Ops
    BY <2>2, <2>3, <2>5 DEF Ops
  <2>7. OpWell(op, mem, pc, item)
    BY <1>1, <2>5 DEF OpWell, Carriers
  <2>8. op.op \notin Carriers /\ op.req = wire[k].req
    BY <2>5 DEF Carriers
  <2> QED
    BY <1>1, <1>2, <2>1, <2>6, <2>7, <2>8, SendKeeps
<1> QED
  BY <1>3, <1>4

\* A load, a write or a remove fails.
LEMMA FailKeeps ==
    ASSUME PlacesInv, NEW k \in DOMAIN wire, LoadFails(k) \/ WriteFails(k)
    PROVE  PlacesInv' /\ Grows(mem, mem')
<1>1. /\ wire[k].op \in {"load", "write", "remove"}
      /\ wire' = Rest(k)
      /\ pc' = [pc EXCEPT ![wire[k].req] = "failed"]
      /\ UNCHANGED <<db, mem, held, target, item, stored, granted>>
  BY DEF LoadFails, WriteFails, Does
<1>2. wire[k].op \notin Carriers /\ "failed" \in Ended
  BY <1>1 DEF Carriers, Ended
<1>3. db' \in [Docs -> Records] /\ StoredWell(db', mem)
  BY <1>1, Known
<1> QED
  BY <1>1, <1>2, <1>3, EndKeeps

\* A save is written.
LEMMA WriteSavedKeeps ==
    ASSUME PlacesInv, NEW k \in DOMAIN wire, WriteSaved(k)
    PROVE  PlacesInv' /\ Grows(mem, mem')
<1> DEFINE d == wire[k].at
           rec == wire[k].rec
<1>1. /\ wire[k].op = "write"
      /\ db' = Written(d, rec)
      /\ wire' = Rest(k)
      /\ pc' = [pc EXCEPT ![wire[k].req] = "done"]
      /\ UNCHANGED <<mem, held, target, item, stored, granted>>
  BY DEF WriteSaved, Does
<1>2. wire[k].op \notin Carriers /\ "done" \in Ended
  BY <1>1 DEF Carriers, Ended
<1>3. d \in Docs /\ InPlace(rec, mem[d])
  BY <1>1, Under DEF OpWell
<1>4. rec \in Records
  BY Under DEF Ops
<1>5. db' \in [Docs -> Records] /\ StoredWell(db', mem)
  BY <1>1, <1>3, <1>4, Known DEF Written, StoredWell
<1> QED
  BY <1>1, <1>2, <1>5, EndKeeps

\* A tree is removed: places are taken from the collection, not from memory.
LEMMA RemoveTreeKeeps ==
    ASSUME PlacesInv, NEW k \in DOMAIN wire, RemoveTree(k)
    PROVE  PlacesInv' /\ Grows(mem, mem')
<1>1. /\ wire[k].op = "remove"
      /\ db' = [d \in Docs |-> IF Within(db[d], wire[k].rec) THEN Absent ELSE db[d]]
      /\ wire' = Rest(k)
      /\ pc' = [pc EXCEPT ![wire[k].req] = "done"]
      /\ UNCHANGED <<mem, held, target, item, stored, granted>>
  BY DEF RemoveTree, Does
<1>2. wire[k].op \notin Carriers /\ "done" \in Ended
  BY <1>1 DEF Carriers, Ended
<1>3. db' \in [Docs -> Records] /\ StoredWell(db', mem)
  BY <1>1, Known, AbsentIs DEF StoredWell
<1> QED
  BY <1>1, <1>2, <1>3, EndKeeps

\* A root is given its place.
LEMMA CountRootsKeeps ==
    ASSUME PlacesInv, NEW k \in DOMAIN wire, NEW done \in BOOLEAN, CountRoots(k, done)
    PROVE  PlacesInv' /\ Grows(mem, mem')
<1> DEFINE r == wire[k].req
           n == item[r]
           d == wire[k].doc
           rec == Record(<<IF done THEN NextRootPosition ELSE 1>>, NoDoc, 0)
           op == Insert(r, d, rec)
<1>1. /\ wire[k].op = "count"
      /\ mem' = [mem EXCEPT ![d] = rec]
      /\ wire' = Append(Rest(k), op)
      /\ UNCHANGED <<db, held, target, pc, item, stored, granted>>
  BY DEF CountRoots, Does
<1>2. /\ r \in Requests /\ IsAppend(r) /\ n \in DOMAIN Items[r]
      /\ pc[r] = "appending"
      /\ d = Items[r][n] /\ d \in Docs /\ mem[d] = Absent
  BY <1>1, Under, Known DEF OpWell, Carriers
<1>3. rec \in Records /\ rec # Absent /\ LinkWell(rec, mem)
  <2>1. PICK p \in Nat \ {0} : p = IF done THEN NextRootPosition ELSE 1
    BY Known, RootPositionIs
  <2>2. rec = [portal |-> <<p>>, parent |-> NoDoc, npos |-> 0]
    BY <2>1 DEF Record
  <2>3. <<p>> \in Seq(Nat \ {0}) /\ <<p>> # <<>> /\ Len(<<p>>) = 1
    OBVIOUS
  <2> QED
    BY <2>2, <2>3 DEF Records, Absent, Record, LinkWell
<1>4. \A j \in DOMAIN Rest(k) : Rest(k)[j].op \in Carriers => Rest(k)[j].doc # d
  BY <1>1, Under DEF OpsApart, Carriers
<1>5. op = [op |-> "insert", req |-> r, at |-> d, rec |-> rec, doc |-> d]
  BY DEF Insert, Op
<1> HIDE DEF rec, op
<1>6. PICK M, N : M = mem /\ N = mem'
  OBVIOUS
<1>7. /\ M \in [Docs -> Records] /\ MemoryWell(M) /\ M[d] = Absent /\ LinkWell(rec, M)
      /\ N \in [Docs -> Records] /\ N[d] = rec /\ \A x \in Docs : x # d => N[x] = M[x]
  BY <1>1, <1>2, <1>3, <1>6, Known
<1>8. Grows(M, N) /\ MemoryWell(N)
  BY <1>2, <1>3, <1>7, ItemPlaced
<1>9. WireWell(Rest(k), N, pc, item)
  <2>1. Rest(k) \in Seq(Ops) /\ WireWell(Rest(k), M, pc, item)
    BY <1>6, Under
  <2> QED
    BY <1>2, <1>4, <1>7, <1>8, <2>1, WireItemPlaced
<1>10. op \in Ops
  BY <1>2, <1>3, <1>5 DEF Ops
<1>11. OpWell(op, N, pc, item)
  <2>1. \A m \in DOMAIN Kids[d] : Kids[d][m] \in Docs /\ Kids[d][m] # d /\ M[Kids[d][m]] = Absent
    BY <1>2, <1>7, BodiesAre, ItemsAreNoKids DEF MemoryWell
  <2>2. \A m \in DOMAIN Kids[d] : N[Kids[d][m]] = Absent
    BY <1>7, <2>1
  <2>3. InPlace(rec, N[d])
    BY <1>3, <1>7 DEF InPlace, LinkWell
  <2> QED
    BY <1>2, <1>3, <1>5, <1>7, <2>2, <2>3 DEF OpWell, Carriers
<1>12. \A j \in DOMAIN Rest(k) : OpsApart(Rest(k)[j], op)
  BY <1>1, <1>4, <1>5, Under DEF OpsApart, Carriers
<1>13. wire' \in Seq(Ops) /\ WireWell(wire', N, pc, item)
  BY <1>1, <1>9, <1>10, <1>11, <1>12, Under, SentWell
<1>14. ASSUME NEW q \in Requests
       PROVE  RequestWell(q, N, held, target, pc, item)
  <2>1. RequestWell(q, M, held, target, pc, item)
    BY <1>6, Known
  <2>2. CASE q # r
    BY <1>2, <1>7, <1>8, <2>1, <2>2, RequestItemPlaced
  <2>3. CASE q = r
    <3>1. \A m \in DOMAIN Items[r] : Unbegun(m, pc[r], item[r]) =>
              M[Items[r][m]] = Absent /\ m # n
      BY <1>2, <2>1, <2>3, BodiesAre DEF RequestWell, Unbegun
    <3>2. \A m \in DOMAIN Items[r] : m # n => Items[r][m] \in Docs /\ Items[r][m] # d
      BY <1>2, BodiesAre, ConstantsAssumption DEF BodiesApart
    <3>3. \A m \in DOMAIN Items[r] : Unbegun(m, pc[r], item[r]) => N[Items[r][m]] = Absent
      BY <1>7, <3>1, <3>2
    <3> QED
      BY <1>8, <2>1, <2>3, <3>3, RequestStays
  <2> QED
    BY <2>2, <2>3
<1>15. StoredWell(db, N)
  BY <1>6, <1>8, Known, StoredStays
<1> QED
  BY <1>1, <1>6, <1>7, <1>8, <1>13, <1>14, <1>15 DEF PlacesInv, TypeOK

\* The parent is written, or not, and the child is sent.
LEMMA UpdateParentKeeps ==
    ASSUME PlacesInv, NEW k \in DOMAIN wire, NEW done \in BOOLEAN, UpdateParent(k, done)
    PROVE  PlacesInv' /\ Grows(mem, mem')
<1> DEFINE r == wire[k].req
           d == wire[k].doc
           rec == wire[k].rec
           op == Insert(r, d, mem[d])
<1>1. /\ wire[k].op = "update"
      /\ db' = IF done THEN Written(wire[k].at, rec) ELSE db
      /\ wire' = Append(Rest(k), op)
      /\ UNCHANGED <<mem, held, target, pc, item, stored, granted>>
  BY DEF UpdateParent, Does
<1>2. /\ r \in Requests /\ pc[r] = "appending" /\ d \in Docs /\ mem[d] # Absent
      /\ wire[k].at \in Docs /\ InPlace(rec, mem[wire[k].at])
      /\ \A m \in DOMAIN Kids[d] : mem[Kids[d][m]] = Absent
  BY <1>1, Under DEF OpWell, Carriers
<1>3. rec \in Records /\ mem[d] \in Records
  BY <1>2, Known, Under DEF Ops
<1>4. db' \in [Docs -> Records] /\ StoredWell(db', mem)
  BY <1>1, <1>2, <1>3, Known DEF Written, StoredWell
<1>5. op = [op |-> "insert", req |-> r, at |-> d, rec |-> mem[d], doc |-> d]
  BY DEF Insert, Op
<1> HIDE DEF op
<1>6. op \in Ops
  BY <1>2, <1>3, <1>5 DEF Ops
<1>7. OpWell(op, mem, pc, item)
  <2>1. InPlace(mem[d], mem[d])
    BY <1>2, Known DEF MemoryWell, LinkWell, InPlace
  <2> QED
    BY <1>2, <1>5, <2>1 DEF OpWell, Carriers
<1>8. \A j \in DOMAIN Rest(k) : OpsApart(Rest(k)[j], op)
  BY <1>1, <1>5, Under DEF OpsApart, Carriers
<1>9. wire' \in Seq(Ops) /\ WireWell(wire', mem, pc, item)
  BY <1>1, <1>6, <1>7, <1>8, Under, SentWell
<1> QED
  BY <1>1, <1>4, <1>9, Known DEF PlacesInv, TypeOK, Grows

\* Which child of d it is.
Turn(d, x) == CHOOSE n \in DOMAIN Kids[d] : Kids[d][n] = x

\* What becomes of memory M when the children of d are numbered, and what is
\* sent for it.
Numbered(d, M) ==
    [x \in Docs |->
        IF x = d THEN [M[d] EXCEPT !.npos = Len(Kids[d])]
        ELSE IF \E n \in DOMAIN Kids[d] : Kids[d][n] = x
        THEN Child(d, [M[d] EXCEPT !.npos = Turn(d, x)])
        ELSE M[x]]

\* The updates that are sent for them.
KidUpdates(r, d, M) ==
    [n \in DOMAIN Kids[d] |-> Update(r, d, [M[d] EXCEPT !.npos = n], Kids[d][n])]

\* The children of a container that was inserted are numbered.
LEMMA KidsSent ==
    ASSUME PlacesInv, NEW k \in DOMAIN wire, wire[k].op = "insert",
           NEW r, r = wire[k].req, NEW d, d = wire[k].at,
           mem' = Numbered(d, mem),
           wire' = Rest(k) \o KidUpdates(r, d, mem),
           UNCHANGED <<held, target, pc, item>>
    PROVE  /\ mem' \in [Docs -> Records] /\ wire' \in Seq(Ops)
           /\ Grows(mem, mem') /\ MemoryWell(mem')
           /\ \A q \in Requests : RequestWell(q, mem', held, target, pc, item)
           /\ WireWell(wire', mem', pc, item)
<1>1. /\ r \in Requests /\ pc[r] = "appending" /\ d \in Docs /\ d = wire[k].doc
      /\ mem[d] # Absent
      /\ \A n \in DOMAIN Kids[d] : mem[Kids[d][n]] = Absent
  BY Under DEF OpWell, Carriers
<1>2. /\ DOMAIN Kids[d] = 1..Len(Kids[d]) /\ Len(Kids[d]) \in Nat
      /\ \A n \in DOMAIN Kids[d] : n \in Nat \ {0} /\ Kids[d][n] \in Docs /\ Kids[d][n] # d
  BY <1>1, BodiesAre
<1>3. PICK M, N : M = mem /\ N = mem' /\ N = Numbered(d, M)
  OBVIOUS
<1>4. M \in [Docs -> Records] /\ MemoryWell(M) /\ M[d] # Absent
      /\ \A n \in DOMAIN Kids[d] : M[Kids[d][n]] = Absent
  BY <1>1, <1>3, Known
<1> DEFINE Counted(n) == [M[d] EXCEPT !.npos = n]
<1>5. \A n \in Nat : /\ Counted(n) \in Records /\ Counted(n).npos = n
                     /\ Counted(n).portal = M[d].portal /\ Counted(n).parent = M[d].parent
  <2>1. M[d] \in Records
    BY <1>1, <1>4
  <2> QED
    BY <2>1 DEF Records
<1>6. M[d].portal # <<>>
  BY <1>1, <1>4 DEF MemoryWell, LinkWell
<1>7. \A n \in Nat : InPlace(Counted(n), M[d])
  BY <1>5, <1>6 DEF InPlace
<1>8. N[d] = Counted(Len(Kids[d]))
  BY <1>1, <1>3 DEF Numbered
<1>9. \A n \in DOMAIN Kids[d] : N[Kids[d][n]] = Child(d, Counted(n))
  <2> SUFFICES ASSUME NEW n \in DOMAIN Kids[d]
               PROVE  N[Kids[d][n]] = Child(d, Counted(n))
    OBVIOUS
  <2>1. PICK x : x = Kids[d][n]
    OBVIOUS
  <2>2. Turn(d, x) = n
    BY <1>1, <2>1, KidsAreApart DEF Turn
  <2>3. x \in Docs /\ x # d
    BY <1>2, <2>1
  <2>4. N[x] = Child(d, Counted(Turn(d, x)))
    BY <1>3, <2>1, <2>3 DEF Numbered
  <2> QED
    BY <2>1, <2>2, <2>4
<1>10. \A x \in Docs : x # d /\ ~ IsKid(d, x) => N[x] = M[x]
  BY <1>3 DEF IsKid, Numbered
<1>a. DOMAIN N = Docs /\ N = [x \in Docs |-> N[x]]
  BY <1>3 DEF Numbered
<1> HIDE DEF Counted
<1>11. N \in [Docs -> Records]
  <2> SUFFICES ASSUME NEW x \in Docs
               PROVE  N[x] \in Records
    BY <1>a
  <2>1. CASE x = d
    BY <1>2, <1>5, <1>8, <2>1
  <2>2. CASE IsKid(d, x)
    <3>1. PICK n \in DOMAIN Kids[d] : x = Kids[d][n]
      BY <2>2 DEF IsKid
    <3>2. Counted(n).npos > 0
      BY <1>2, <1>5
    <3> QED
      BY <1>1, <1>2, <1>4, <1>5, <1>7, <1>9, <3>1, <3>2, ChildIs
  <2>3. CASE x # d /\ ~ IsKid(d, x)
    BY <1>4, <1>10, <2>3
  <2> QED
    BY <2>1, <2>2, <2>3
<1>12. N[d] # Absent /\ N[d].portal = M[d].portal /\ N[d].parent = M[d].parent
  BY <1>2, <1>5, <1>6, <1>8, AbsentIs
<1>13. Grows(M, N) /\ MemoryWell(N)
  BY <1>1, <1>4, <1>9, <1>10, <1>11, <1>12, KidsPlaced DEF Counted
<1>14. \A q \in Requests : RequestWell(q, N, held, target, pc, item)
  <2>1. \A q \in Requests : RequestWell(q, M, held, target, pc, item)
    BY <1>3, Known
  <2> QED
    BY <1>1, <1>4, <1>10, <1>13, <2>1, RequestKidsPlaced
<1>15. /\ Rest(k) \in Seq(Ops) /\ WireWell(Rest(k), M, pc, item)
       /\ \A j \in DOMAIN Rest(k) : OpsApart(Rest(k)[j], wire[k])
  BY <1>3, Under
<1>16. \A j \in DOMAIN Rest(k) : Rest(k)[j].op \in Carriers => Rest(k)[j].doc # d
  BY <1>1, <1>15 DEF OpsApart, Carriers
<1>17. WireWell(Rest(k), N, pc, item)
  <2>1. \A q \in Requests : IsAppend(q) => item[q] \in DOMAIN Items[q]
    BY Known
  <2> QED
    BY <1>1, <1>4, <1>10, <1>13, <1>15, <1>16, <2>1, WireKidsPlaced
<1> DEFINE L == [n \in DOMAIN Kids[d] |-> Update(r, d, Counted(n), Kids[d][n])]
<1>18. DOMAIN L = 1..Len(Kids[d])
       /\ \A n \in DOMAIN L :
              L[n] = [op |-> "update", req |-> r, at |-> d, rec |-> Counted(n), doc |-> Kids[d][n]]
  BY <1>2 DEF Update, Op
<1>b. wire' = Rest(k) \o L
  BY <1>3 DEF Counted, KidUpdates
<1>c. L = [n \in 1..Len(Kids[d]) |-> L[n]]
  BY <1>2
<1> HIDE DEF L
<1>19. \A n \in DOMAIN L : L[n] \in Ops
  <2> SUFFICES ASSUME NEW n \in DOMAIN L
               PROVE  L[n] \in Ops
    OBVIOUS
  <2>1. Counted(n) \in Records /\ Kids[d][n] \in Docs
    BY <1>2, <1>5, <1>18
  <2>2. L[n] = [op |-> "update", req |-> r, at |-> d, rec |-> Counted(n), doc |-> Kids[d][n]]
    BY <1>18
  <2> QED
    BY <1>1, <2>1, <2>2 DEF Ops
<1>20. L \in Seq(Ops)
  <2>1. PICK K : K = Len(Kids[d]) /\ K \in Nat
    BY <1>2
  <2>2. L = [n \in 1..K |-> L[n]] /\ \A n \in 1..K : L[n] \in Ops
    BY <1>18, <1>19, <1>c, <2>1
  <2>3. L \in [1..K -> Ops]
    BY <2>2
  <2> QED
    BY <2>1, <2>3, SeqDef
<1>21. ASSUME NEW n \in DOMAIN L
       PROVE  OpWell(L[n], N, pc, item)
  <2>1. PICK x : x = Kids[d][n]
    OBVIOUS
  <2>2. n \in DOMAIN Kids[d] /\ x \in Docs /\ M[x] = Absent /\ x # d /\ n \in Nat \ {0}
    BY <1>2, <1>4, <1>18, <2>1
  <2>3. \A m \in DOMAIN Kids[x] : N[Kids[x][m]] = Absent
    <3> SUFFICES ASSUME NEW m \in DOMAIN Kids[x]
                 PROVE  N[Kids[x][m]] = Absent
      OBVIOUS
    <3>1. Kids[x][m] \in Docs /\ M[Kids[x][m]] = Absent
      BY <1>4, <2>2, BodiesAre DEF MemoryWell
    <3>2. ~ IsKid(d, Kids[x][m])
      BY <1>1, <2>2, KidsAreApart DEF IsKid
    <3> QED
      BY <1>1, <1>4, <1>10, <3>1, <3>2, StillAbsent
  <2>4. N[x] # Absent
    <3>1. Counted(n).npos > 0 /\ Counted(n) \in Records /\ InPlace(Counted(n), M[d])
      BY <1>5, <1>7, <2>2
    <3> QED
      BY <1>1, <1>4, <1>9, <2>1, <2>2, <3>1, ChildIs
  <2>5. InPlace(Counted(n), N[d])
    BY <1>1, <1>7, <1>13, <2>2, InPlaceStays
  <2>6. L[n] = [op |-> "update", req |-> r, at |-> d, rec |-> Counted(n), doc |-> x]
    BY <1>18, <2>1
  <2> QED
    BY <1>1, <2>2, <2>3, <2>4, <2>5, <2>6 DEF OpWell, Carriers
<1>22. WireWell(L, N, pc, item)
  <2>1. ASSUME NEW m \in DOMAIN L, NEW n \in DOMAIN L, m # n
        PROVE  OpsApart(L[m], L[n])
    <3>1. Kids[d][m] # Kids[d][n]
      BY <1>1, <1>2, <1>18, <2>1, KidsAreApart
    <3>a. L[m] = [op |-> "update", req |-> r, at |-> d, rec |-> Counted(m), doc |-> Kids[d][m]]
      BY <1>18
    <3>b. L[n] = [op |-> "update", req |-> r, at |-> d, rec |-> Counted(n), doc |-> Kids[d][n]]
      BY <1>18
    <3>2. L[m].op = "update" /\ L[n].op = "update"
      BY <3>a, <3>b
    <3>3. L[m].doc = Kids[d][m] /\ L[n].doc = Kids[d][n]
      BY <3>a, <3>b
    <3> QED
      BY <3>1, <3>2, <3>3 DEF OpsApart, Carriers
  <2> QED
    BY <1>21, <2>1 DEF WireWell
<1>23. ASSUME NEW j \in DOMAIN Rest(k), NEW n \in DOMAIN L
       PROVE  OpsApart(Rest(k)[j], L[n])
  <2>1. PICK op \in Ops : op = Rest(k)[j]
    BY <1>15
  <2>2. OpWell(op, M, pc, item) /\ OpsApart(op, wire[k])
    BY <1>15, <2>1 DEF WireWell
  <2>3. L[n] = [op |-> "update", req |-> r, at |-> d, rec |-> Counted(n), doc |-> Kids[d][n]]
    BY <1>18
  <2>4. n \in DOMAIN Kids[d]
    BY <1>2, <1>18
  <2>5. ASSUME op.op \in Carriers
        PROVE  op.doc # Kids[d][n]
    <3>1. CASE op.op = "count"
      <4>1. op.req \in Requests /\ item[op.req] \in DOMAIN Items[op.req]
            /\ op.doc = Items[op.req][item[op.req]]
        BY <2>2, <3>1, Known DEF OpWell, Ops
      <4> QED
        BY <1>1, <2>4, <4>1, ItemsAreNoKids
    <3>2. CASE op.op \in {"update", "insert"}
      BY <1>4, <2>2, <2>4, <3>2 DEF OpWell
    <3> QED
      BY <2>5, <3>1, <3>2 DEF Carriers
  <2>6. op.op \notin Carriers => op.req # r
    BY <2>2 DEF OpsApart
  <2> QED
    BY <2>1, <2>3, <2>5, <2>6 DEF OpsApart, Carriers
<1>24. Rest(k) \o L \in Seq(Ops) /\ WireWell(Rest(k) \o L, N, pc, item)
  BY <1>15, <1>17, <1>20, <1>22, <1>23, AllSentWell
<1> QED
  BY <1>3, <1>11, <1>13, <1>14, <1>24, <1>b

\* A container is in, or is taken to be.
LEMMA InsertOneKeeps ==
    ASSUME PlacesInv, NEW k \in DOMAIN wire, NEW done \in BOOLEAN, InsertOne(k, done)
    PROVE  PlacesInv' /\ Grows(mem, mem')
<1> DEFINE r == wire[k].req
           d == wire[k].at
           rec == wire[k].rec
<1>1. /\ wire[k].op = "insert"
      /\ db' = IF done THEN [db EXCEPT ![d] = rec] ELSE db
      /\ stored' = IF done THEN stored \cup {d} ELSE stored
      /\ UNCHANGED <<target, granted>>
  BY DEF InsertOne, Does
<1>2. /\ r \in Requests /\ pc[r] = "appending" /\ d \in Docs /\ d = wire[k].doc
      /\ InPlace(rec, mem[d])
  BY <1>1, Under DEF OpWell, Carriers
<1>3. rec \in Records
  BY Under DEF Ops
<1>4. db' \in [Docs -> Records] /\ StoredWell(db', mem) /\ stored' \subseteq Docs
  BY <1>1, <1>2, <1>3, Known DEF StoredWell, TypeOK
<1>5. RequestWell(r, mem, held, target, pc, item) /\ IsAppend(r) /\ item[r] \in DOMAIN Items[r]
  BY <1>2, Under DEF RequestWell
<1>6. target' \in [Requests -> Docs \cup {NoDoc}] /\ target' = target /\ granted' \in Grants
  BY <1>1, Known DEF TypeOK
<1>7. CASE /\ mem' = Numbered(d, mem)
           /\ wire' = Rest(k) \o KidUpdates(r, d, mem)
           /\ UNCHANGED <<held, pc, item>>
  <2>1. /\ mem' \in [Docs -> Records] /\ wire' \in Seq(Ops)
        /\ Grows(mem, mem') /\ MemoryWell(mem')
        /\ \A q \in Requests : RequestWell(q, mem', held, target, pc, item)
        /\ WireWell(wire', mem', pc, item)
    BY <1>1, <1>6, <1>7, KidsSent
  <2>2. StoredWell(db', mem')
    <3>1. PICK M, N, D : M = mem /\ N = mem' /\ D = db'
      OBVIOUS
    <3>2. Grows(M, N) /\ StoredWell(D, M)
      BY <1>4, <2>1, <3>1
    <3>3. StoredWell(D, N)
      BY <3>2, StoredStays
    <3> QED
      BY <3>1, <3>3
  <2> QED
    BY <1>4, <1>6, <1>7, <2>1, <2>2, Known DEF PlacesInv, TypeOK
<1>8. CASE wire' = Rest(k) /\ UNCHANGED <<mem, held, pc, item>>
  BY <1>4, <1>6, <1>8, Known, Under DEF PlacesInv, TypeOK, Grows
<1>9. ASSUME ItemIsOver(r, Rest(k))
      PROVE  \A j \in DOMAIN Rest(k) : Rest(k)[j].req # r
  BY <1>9 DEF ItemIsOver
<1>10. CASE /\ ItemIsOver(r, Rest(k))
            /\ wire' = Rest(k)
            /\ pc' = [pc EXCEPT ![r] = "done"]
            /\ UNCHANGED <<mem, held, item>>
  <2>1. /\ pc' \in [Requests -> Phases] /\ pc'[r] = "done"
        /\ \A q \in Requests : q # r => pc'[q] = pc[q]
    BY <1>2, <1>10, Known DEF TypeOK, Phases
  <2>2. WireWell(Rest(k), mem, pc', item)
    <3>1. \A j \in DOMAIN Rest(k) : pc'[Rest(k)[j].req] = pc[Rest(k)[j].req]
      BY <1>9, <1>10, <2>1, Under
    <3> QED
      BY <3>1, Under, WireStays
  <2>3. ASSUME NEW q \in Requests
        PROVE  RequestWell(q, mem, held, target, pc', item)
    <3>1. RequestWell(q, mem, held, target, pc, item)
      BY Known
    <3>2. CASE q # r
      BY <2>1, <3>1, <3>2 DEF RequestWell
    <3>3. CASE q = r
      BY <1>2, <2>1, <3>1, <3>3 DEF RequestWell, Unbegun
    <3> QED
      BY <3>2, <3>3
  <2> QED
    BY <1>4, <1>6, <1>10, <2>1, <2>2, <2>3, Known, Under DEF PlacesInv, TypeOK, Grows
<1>11. CASE /\ ItemIsOver(r, Rest(k))
            /\ item[r] < Len(Items[r])
            /\ StartItem(r, item[r] + 1, target[r], held[r], Rest(k))
  <2>1. PICK n : n = item[r] + 1
    OBVIOUS
  <2>2. n \in DOMAIN Items[r]
    BY <1>2, <1>5, <1>11, <2>1, BodiesAre
  <2>3. \A m \in DOMAIN Items[r] : m >= n => mem[Items[r][m]] = Absent
    <3>1. \A m \in DOMAIN Items[r] : m >= n => m > item[r]
      BY <1>2, <1>5, <2>1, BodiesAre
    <3> QED
      BY <1>5, <3>1 DEF RequestWell, Unbegun
  <2>4. held[r] \in Records
    BY <1>2, Known DEF TypeOK
  <2>5. held[r] # Absent => target[r] \in Docs /\ InPlace(held[r], mem[target[r]])
    BY <1>5 DEF RequestWell
  <2>6. Rest(k) \in Seq(Ops) /\ WireWell(Rest(k), mem, pc, item)
    BY Under
  <2>7. /\ mem' \in [Docs -> Records] /\ held' \in [Requests -> Records]
        /\ pc' \in [Requests -> Phases] /\ item' \in [Requests -> Nat \ {0}]
        /\ wire' \in Seq(Ops)
        /\ Grows(mem, mem') /\ MemoryWell(mem')
        /\ \A q \in Requests : RequestWell(q, mem', held', target, pc', item')
        /\ WireWell(wire', mem', pc', item')
    BY <1>2, <1>9, <1>11, <2>1, <2>2, <2>3, <2>4, <2>5, <2>6, Known, StartItemWell
  <2>8. StoredWell(db', mem')
    <3>1. PICK M, N, D : M = mem /\ N = mem' /\ D = db'
      OBVIOUS
    <3>2. Grows(M, N) /\ StoredWell(D, M)
      BY <1>4, <2>7, <3>1
    <3>3. StoredWell(D, N)
      BY <3>2, StoredStays
    <3> QED
      BY <3>1, <3>3
  <2> QED
    BY <1>4, <1>6, <2>7, <2>8 DEF PlacesInv, TypeOK
<1>12. \/ /\ mem' = Numbered(d, mem)
          /\ wire' = Rest(k) \o KidUpdates(r, d, mem)
          /\ UNCHANGED <<held, pc, item>>
       \/ wire' = Rest(k) /\ UNCHANGED <<mem, held, pc, item>>
       \/ /\ ItemIsOver(r, Rest(k))
          /\ wire' = Rest(k)
          /\ pc' = [pc EXCEPT ![r] = "done"]
          /\ UNCHANGED <<mem, held, item>>
       \/ /\ ItemIsOver(r, Rest(k))
          /\ item[r] < Len(Items[r])
          /\ StartItem(r, item[r] + 1, target[r], held[r], Rest(k))
  BY DEF InsertOne, Numbered, KidUpdates, Turn
<1> QED
  BY <1>7, <1>8, <1>10, <1>11, <1>12

-----------------------------------------------------------------------------
(* Theorems.                                                                 *)

\* Nothing has a place at first.
LEMMA PlacesInit == Init => PlacesInv
<1> SUFFICES ASSUME Init
             PROVE  PlacesInv
  OBVIOUS
<1>1. /\ \A d \in Docs : db[d] = Absent /\ mem[d] = Absent
      /\ \A r \in Requests : /\ held[r] = Absent /\ target[r] = NoDoc
                             /\ pc[r] = "idle" /\ item[r] = 1
      /\ wire = <<>>
  BY DEF Init
<1>2. TypeOK
  BY AbsentIs DEF Init, TypeOK, Phases
<1>3. MemoryWell(mem) /\ StoredWell(db, mem)
  BY <1>1, BodiesAre DEF MemoryWell, StoredWell
<1>4. ASSUME NEW r \in Requests
      PROVE  RequestWell(r, mem, held, target, pc, item)
  <2>1. IsAppend(r) => 1 \in DOMAIN Items[r]
    <3>1. Items[r] \in Seq(Docs) /\ DOMAIN Items[r] = 1..Len(Items[r]) /\ Len(Items[r]) \in Nat
      BY BodiesAre
    <3>2. Items[r] # <<>> => Len(Items[r]) # 0
      BY <3>1, EmptySeq
    <3> QED
      BY <3>1, <3>2 DEF IsAppend
  <2>2. \A n \in DOMAIN Items[r] : Items[r][n] \in Docs
    BY BodiesAre
  <2> QED
    BY <1>1, <2>1, <2>2 DEF RequestWell
<1>5. WireWell(wire, mem, pc, item)
  BY <1>1 DEF WireWell
<1> QED
  BY <1>2, <1>3, <1>4, <1>5 DEF PlacesInv

\* Every step keeps the invariant, and no step takes a place away.
LEMMA PlacesStep == PlacesInv /\ [Next]_vars => PlacesInv' /\ Grows(mem, mem')
<1> SUFFICES ASSUME PlacesInv, [Next]_vars
             PROVE  PlacesInv' /\ Grows(mem, mem')
  OBVIOUS
<1>1. ASSUME NEW r \in Requests, Arrive(r)
      PROVE  PlacesInv' /\ Grows(mem, mem')
  BY <1>1, AppendTopKeeps, AppendToKeeps, SaveKeeps, DeleteKeeps DEF Arrive
<1>2. ASSUME NEW r \in Requests, Timer(r)
      PROVE  PlacesInv' /\ Grows(mem, mem')
  BY <1>2, TimerKeeps
<1>3. ASSUME NEW k \in DOMAIN wire, Mongo(k)
      PROVE  PlacesInv' /\ Grows(mem, mem')
  <2>1. CASE LoadTarget(k) \/ LoadSaved(k) \/ LoadSkeleton(k) \/ LoadFails(k)
    BY <2>1, LoadTargetKeeps, LoadSavedKeeps, LoadSkeletonKeeps, FailKeeps
  <2>2. ASSUME NEW done \in Done, CountRoots(k, done) \/ UpdateParent(k, done) \/ InsertOne(k, done)
        PROVE  PlacesInv' /\ Grows(mem, mem')
    <3>1. done \in BOOLEAN
      BY DEF Done
    <3> QED
      BY <2>2, <3>1, CountRootsKeeps, UpdateParentKeeps, InsertOneKeeps
  <2>3. CASE WriteSaved(k) \/ RemoveTree(k) \/ WriteFails(k)
    BY <2>3, WriteSavedKeeps, RemoveTreeKeeps, FailKeeps
  <2> QED
    BY <1>3, <2>1, <2>2, <2>3 DEF Mongo
<1>4. CASE UNCHANGED vars
  BY <1>4 DEF vars, PlacesInv, TypeOK, Grows
<1> QED
  BY <1>1, <1>2, <1>3, <1>4 DEF Next, Step

\* The inductive invariant holds always: a place is given once, in memory, and
\* every record in the collection, on the way to it or held by a request has it.
THEOREM PlacesInvariance == Spec => []PlacesInv
<1>1. Init => PlacesInv
  BY PlacesInit
<1>2. PlacesInv /\ [Next]_vars => PlacesInv'
  BY PlacesStep
<1> QED
  BY <1>1, <1>2, PTL DEF Spec

\* The parent link and the portal of a stored container say the same, whatever
\* requests meet and whatever mongo reorders or fails (append.js, delete.js).
THEOREM LinksAlwaysAgree == Spec => []LinksAgree
<1>1. PlacesInv => LinksAgree
  <2> SUFFICES ASSUME PlacesInv, NEW d \in InDb
               PROVE  /\ db[d].parent = NoDoc <=> Len(db[d].portal) = 1
                      /\ db[d].parent \in InDb => Front(db[d].portal) = db[db[d].parent].portal
    BY Known DEF LinksAgree
  <2>1. d \in Docs /\ db[d] # Absent /\ InPlace(db[d], mem[d])
    BY Known DEF InDb, Present, StoredWell
  <2>2. LinkWell(mem[d], mem)
    BY <2>1, Known DEF MemoryWell, InPlace, Absent, Record
  <2>3. Len(db[d].portal) > 1 => Len(db[d].portal) # 1
    <3>1. db[d].portal \in Seq(Nat \ {0})
      BY <2>1, Known DEF Records
    <3>2. PICK n \in Nat : n = Len(db[d].portal)
      BY <3>1
    <3>3. n > 1 => n # 1
      OBVIOUS
    <3> QED
      BY <3>2, <3>3
  <2>4. ASSUME db[d].parent \in InDb
        PROVE  Front(db[d].portal) = db[db[d].parent].portal
    <3>1. db[d].parent \in Docs /\ InPlace(db[db[d].parent], mem[db[d].parent])
      BY <2>4, Known DEF InDb, Present, StoredWell
    <3>2. db[d].parent # NoDoc
      BY <3>1, ConstantsAssumption
    <3> QED
      BY <2>1, <2>2, <3>1, <3>2 DEF LinkWell, InPlace
  <2> QED
    BY <2>1, <2>2, <2>3, <2>4 DEF LinkWell, InPlace
<1> QED
  BY <1>1, PlacesInvariance, PTL

\* A container that is written again, as a parent (append.js, updateContainer)
\* or by a save (save.js), stays where it is.
THEOREM PlacesAreFinal == Spec => PlaceIsFinal
<1> DEFINE A == \A d \in Docs : Present(db[d]) /\ Present(db'[d]) =>
                    /\ db'[d].portal = db[d].portal
                    /\ db'[d].parent = db[d].parent
<1>1. PlacesInv /\ [Next]_vars => [A]_vars
  <2> SUFFICES ASSUME PlacesInv, [Next]_vars, NEW d \in Docs,
                      Present(db[d]), Present(db'[d])
               PROVE  db'[d].portal = db[d].portal /\ db'[d].parent = db[d].parent
    OBVIOUS
  <2>1. PlacesInv' /\ Grows(mem, mem')
    BY PlacesStep
  <2>2. InPlace(db[d], mem[d]) /\ InPlace(db'[d], mem'[d])
    BY <2>1 DEF PlacesInv, StoredWell, Present
  <2>3. mem[d] # Absent
    BY <2>2 DEF InPlace, Absent, Record
  <2> QED
    BY <2>1, <2>2, <2>3 DEF Grows, InPlace
<1> QED
  BY <1>1, PlacesInvariance, PTL DEF Spec, PlaceIsFinal

-----------------------------------------------------------------------------
(* What becomes of a body: the second inductive invariant.                   *)

\* The operations under way, as a set: no two are the same.
OnWire(W) == {W[k] : k \in DOMAIN W}

\* A container is on its way to the collection.
Carried(x, O) == \E a \in O : a.op \in {"update", "insert"} /\ a.doc = x

\* An operation that brings a container of the body, for the first time.
CarrierWell(a, O, M, H, S) ==
    /\ a.doc \in SentBy(a.req)
    /\ a.doc \notin S
    /\ M[a.doc].npos = 0
    /\ a.op = "count" =>
           /\ H[a.req] = Absent
           /\ \A b \in O : b.op \in Carriers /\ b.req = a.req => b = a
    /\ a.op = "update" =>
           /\ M[a.doc].portal = Append(a.rec.portal, a.rec.npos)
           /\ M[a.doc].parent = a.at
           /\ a.rec.npos > 0
    /\ a.op = "insert" => a.rec.npos = 0

\* A container with a place is on its way, or in, and so are its children.
BranchWell(x, O, M, S, g) ==
    M[x] # Absent =>
        \/ Carried(x, O)
        \/ /\ \A n \in DOMAIN Kids[x] : M[Kids[x][n]] # Absent
           /\ "sound" \in g => x \in S

\* The children of the body are in its order.
KidsInLine(M) ==
    \A d \in Docs : \A n \in DOMAIN Kids[d] :
        M[Kids[d][n]] # Absent => M[Kids[d][n]].portal = Append(M[d].portal, n)

\* The items of a body that was appended to a container are side by side.
ItemsInLine(r, M, H) ==
    H[r] # Absent =>
        \A n \in DOMAIN Items[r] : M[Items[r][n]] # Absent =>
            /\ \E p \in 1..H[r].npos : M[Items[r][n]].portal = Append(H[r].portal, p)
            /\ \A m \in DOMAIN Items[r] : m # n =>
                   M[Items[r][m]].portal # M[Items[r][n]].portal

\* The items that were appended have places.
Begun(r, n, O, P, I) ==
    \/ P[r] \in {"waiting", "appending"} /\ n < I[r]
    \/ /\ P[r] = "appending" /\ n = I[r]
       /\ \A a \in O : a.op = "count" => a.req # r
    \/ P[r] = "done"

\* An append, and how far it is with its items.
AppendWell(r, O, M, H, P, I) ==
    /\ P[r] \in {"idle", "loading", "waiting"} => H[r] = Absent
    /\ ItemsInLine(r, M, H)
    /\ \A n \in DOMAIN Items[r] : Begun(r, n, O, P, I) => M[Items[r][n]] # Absent

\* Bodies: what brings them, their branches, and the appends they are of.
BodyWell(O, M, H, P, I, S, g) ==
    /\ \A a \in O : a.op \in Carriers => CarrierWell(a, O, M, H, S)
    /\ \A x \in Docs : BranchWell(x, O, M, S, g)
    /\ KidsInLine(M)
    /\ \A r \in Requests : IsAppend(r) => AppendWell(r, O, M, H, P, I)

\* What was inserted has a place, and only that is in the collection.
StoredOnce(D, S, M) ==
    /\ \A x \in Docs : D[x] # Absent => x \in S
    /\ \A x \in S : M[x] # Absent

\* All of it.
BodyInv ==
    /\ BodyWell(OnWire(wire), mem, held, pc, item, stored, granted)
    /\ StoredOnce(db, stored, mem)

-----------------------------------------------------------------------------
(* The operations under way.                                                 *)

\* What the first invariant says of them.
LEMMA WireKnown ==
    ASSUME PlacesInv
    PROVE  \A a \in OnWire(wire) :
               /\ a \in Ops /\ a.req \in Requests /\ OpWell(a, mem, pc, item)
               /\ a.op \in Carriers => a.doc \in Docs /\ pc[a.req] = "appending"
               /\ \A b \in OnWire(wire) : a # b => OpsApart(a, b)
<1>1. wire \in Seq(Ops) /\ WireWell(wire, mem, pc, item)
  BY Known
<1>2. \A a \in Ops : a.req \in Requests
  BY DEF Ops
<1> SUFFICES ASSUME NEW a \in OnWire(wire)
             PROVE  /\ a \in Ops /\ OpWell(a, mem, pc, item)
                    /\ \A b \in OnWire(wire) : a # b => OpsApart(a, b)
  BY <1>2 DEF OpWell
<1>3. PICK k \in DOMAIN wire : a = wire[k]
  BY DEF OnWire
<1>4. a \in Ops
  BY <1>1, <1>3
<1>5. ASSUME NEW b \in OnWire(wire), a # b
      PROVE  OpsApart(a, b)
  <2>1. PICK j \in DOMAIN wire : b = wire[j]
    BY DEF OnWire
  <2>2. j # k
    BY <1>3, <1>5, <2>1
  <2> QED
    BY <1>1, <1>3, <2>1, <2>2, Zenon DEF WireWell
<1> QED
  BY <1>1, <1>3, <1>4, <1>5, Zenon DEF WireWell

\* One is done: the others are left.
LEMMA RestWire ==
    ASSUME PlacesInv, NEW k \in DOMAIN wire
    PROVE  /\ wire[k] \in OnWire(wire)
           /\ OnWire(Rest(k)) = OnWire(wire) \ {wire[k]}
           /\ Rest(k) \in Seq(Ops)
<1>1. wire \in Seq(Ops) /\ WireWell(wire, mem, pc, item) /\ Rest(k) \in Seq(Ops)
  BY Known, Under
<1>2. k \in 1..Len(wire) /\ Len(wire) \in Nat
  BY <1>1
<1> DEFINE R == RemoveAt(wire, k)
<1>3. \A j \in DOMAIN R :
          LET i == IF j < k THEN j ELSE j + 1
          IN  i \in DOMAIN wire /\ i # k /\ R[j] = wire[i]
  BY <1>1, RestIs
<1>4. \A j \in DOMAIN R : \E i \in DOMAIN wire : i # k /\ R[j] = wire[i]
  BY <1>3
<1>5. \A i \in DOMAIN wire : i # k => \E j \in DOMAIN R : R[j] = wire[i]
  <2> SUFFICES ASSUME NEW i \in DOMAIN wire, i # k
               PROVE  \E j \in DOMAIN R : R[j] = wire[i]
    OBVIOUS
  <2>1. i \in 1..Len(wire)
    BY <1>1
  <2>2. Len(R) = Len(wire) - 1 /\ R \in Seq(Ops)
    <3> DEFINE A == SubSeq(wire, 1, k - 1)
               B == SubSeq(wire, k + 1, Len(wire))
    <3>1. R = A \o B
      BY DEF RemoveAt
    <3>2. A \in Seq(Ops) /\ Len(A) = k - 1 /\ B \in Seq(Ops) /\ Len(B) = Len(wire) - k
      BY <1>1, <1>2, SubSeqProperties
    <3> HIDE DEF A, B, R
    <3>3. R \in Seq(Ops) /\ Len(R) = Len(A) + Len(B)
      BY <3>1, <3>2, ConcatProperties
    <3> QED
      BY <1>2, <3>2, <3>3
  <2>3. CASE i < k
    <3>1. i \in DOMAIN R
      BY <1>2, <2>1, <2>2, <2>3
    <3> QED
      BY <1>3, <2>3, <3>1
  <2>4. CASE i > k
    <3>1. i - 1 \in DOMAIN R /\ ~ (i - 1 < k) /\ i - 1 + 1 = i
      BY <1>2, <2>1, <2>2, <2>4
    <3> QED
      BY <1>3, <3>1
  <2> QED
    BY <1>2, <2>1, <2>3, <2>4
<1>6. \A i \in DOMAIN wire : i # k => wire[i] # wire[k]
  <2> SUFFICES ASSUME NEW i \in DOMAIN wire, i # k, wire[i] = wire[k]
               PROVE  FALSE
    OBVIOUS
  <2>1. OpsApart(wire[i], wire[k])
    BY <1>1 DEF WireWell
  <2> QED
    BY <2>1 DEF OpsApart
<1>7. OnWire(R) = OnWire(wire) \ {wire[k]}
  <2> HIDE DEF R
  <2>1. ASSUME NEW a \in OnWire(R)
        PROVE  a \in OnWire(wire) \ {wire[k]}
    <3>1. PICK j \in DOMAIN R : a = R[j]
      BY DEF OnWire
    <3>2. PICK i \in DOMAIN wire : i # k /\ a = wire[i]
      BY <1>4, <3>1
    <3> QED
      BY <1>6, <3>2 DEF OnWire
  <2>2. ASSUME NEW a \in OnWire(wire) \ {wire[k]}
        PROVE  a \in OnWire(R)
    <3>1. PICK i \in DOMAIN wire : a = wire[i]
      BY DEF OnWire
    <3>2. PICK j \in DOMAIN R : R[j] = a
      BY <1>5, <3>1
    <3> QED
      BY <3>2 DEF OnWire
  <2> QED
    BY <2>1, <2>2
<1> QED
  BY <1>1, <1>7 DEF Rest, OnWire

\* One is sent.
LEMMA AppendWire ==
    ASSUME NEW W \in Seq(Ops), NEW op
    PROVE  OnWire(Append(W, op)) = OnWire(W) \cup {op}
<1> DEFINE A == Append(W, op)
<1>1. /\ Len(W) \in Nat /\ DOMAIN W = 1..Len(W) /\ DOMAIN A = 1..(Len(W) + 1)
      /\ A[Len(W) + 1] = op /\ \A j \in 1..Len(W) : A[j] = W[j]
  OBVIOUS
<1>2. \A j \in DOMAIN A : j \in DOMAIN W \/ j = Len(W) + 1
  BY <1>1
<1>3. \A j \in DOMAIN W : j \in DOMAIN A
  BY <1>1
<1>4. Len(W) + 1 \in DOMAIN A
  BY <1>1
<1> HIDE DEF A
<1> QED
  BY <1>1, <1>2, <1>3, <1>4, Zenon DEF OnWire, A

\* Several are.
LEMMA ConcatWire ==
    ASSUME NEW W \in Seq(Ops), NEW L \in Seq(Ops)
    PROVE  OnWire(W \o L) = OnWire(W) \cup OnWire(L)
<1> DEFINE A == W \o L
<1>1. /\ Len(W) \in Nat /\ Len(L) \in Nat /\ DOMAIN W = 1..Len(W) /\ DOMAIN L = 1..Len(L)
      /\ DOMAIN A = 1..(Len(W) + Len(L))
      /\ \A j \in 1..Len(W) : A[j] = W[j]
      /\ \A j \in 1..Len(L) : A[Len(W) + j] = L[j]
  BY ConcatProperties
<1>2. \A j \in DOMAIN A : (j \in DOMAIN W /\ A[j] = W[j]) \/ (\E i \in DOMAIN L : A[j] = L[i])
  <2> SUFFICES ASSUME NEW j \in DOMAIN A, j \notin DOMAIN W
               PROVE  \E i \in DOMAIN L : A[j] = L[i]
    BY <1>1
  <2>1. j - Len(W) \in 1..Len(L) /\ Len(W) + (j - Len(W)) = j
    BY <1>1
  <2> QED
    BY <1>1, <2>1
<1>3. \A j \in DOMAIN W : j \in DOMAIN A
  BY <1>1
<1>4. \A j \in DOMAIN L : Len(W) + j \in DOMAIN A
  BY <1>1
<1> HIDE DEF A
<1>5. OnWire(A) \subseteq OnWire(W) \cup OnWire(L)
  BY <1>2, Zenon DEF OnWire
<1>6. OnWire(W) \subseteq OnWire(A)
  BY <1>1, <1>3, Zenon DEF OnWire
<1>7. OnWire(L) \subseteq OnWire(A)
  BY <1>1, <1>4, Zenon DEF OnWire
<1> QED
  BY <1>5, <1>6, <1>7 DEF A

-----------------------------------------------------------------------------
(* The containers of a body.                                                 *)

\* They have the children of their own.
LEMMA WithKidsIs ==
    ASSUME NEW J \in SUBSET Docs
    PROVE  /\ J \subseteq WithKids(J)
           /\ WithKids(J) \subseteq Docs
           /\ \A d \in WithKids(J) : \A n \in DOMAIN Kids[d] : Kids[d][n] \in WithKids(J)
<1>1. ASSUME NEW d \in WithKids(J), NEW n \in DOMAIN Kids[d]
      PROVE  Kids[d][n] \in WithKids(J)
  <2>1. d \in Docs /\ Kids[d][n] \in Docs
    BY BodiesAre DEF WithKids
  <2>2. ASSUME NEW S \in Families, J \subseteq S
        PROVE  Kids[d][n] \in S
    <3>1. d \in S
      BY <2>2 DEF WithKids
    <3> QED
      BY <3>1 DEF Families, ToSet
  <2> QED
    BY <2>1, <2>2 DEF WithKids
<1> QED
  BY <1>1 DEF WithKids

\* And they are no more than those.
LEMMA WithKidsLeast ==
    ASSUME NEW J \in SUBSET Docs, NEW S \in SUBSET Docs, J \subseteq S,
           \A d \in S : \A n \in DOMAIN Kids[d] : Kids[d][n] \in S
    PROVE  WithKids(J) \subseteq S
<1>1. S \in Families
  BY DEF Families, ToSet
<1> QED
  BY <1>1 DEF WithKids

\* One that was not among the first is the child of another.
LEMMA WithKidsFrom ==
    ASSUME NEW J \in SUBSET Docs, NEW x \in WithKids(J), x \notin J
    PROVE  \E d \in WithKids(J) : \E n \in DOMAIN Kids[d] : x = Kids[d][n]
<1> SUFFICES ASSUME \A d \in WithKids(J) : \A n \in DOMAIN Kids[d] : x # Kids[d][n]
             PROVE  FALSE
  OBVIOUS
<1> DEFINE S == WithKids(J) \ {x}
<1>1. S \in SUBSET Docs /\ J \subseteq S
  BY WithKidsIs
<1>2. \A d \in S : \A n \in DOMAIN Kids[d] : Kids[d][n] \in S
  BY WithKidsIs
<1>3. WithKids(J) \subseteq S
  <2> HIDE DEF S
  <2> QED
    BY <1>1, <1>2, WithKidsLeast
<1> QED
  BY <1>3

\* A body has its items, and their children.
LEMMA SentByIs ==
    \A r \in Requests :
        /\ SentBy(r) \subseteq Docs
        /\ \A n \in DOMAIN Items[r] : Items[r][n] \in SentBy(r)
        /\ \A d \in SentBy(r) : \A n \in DOMAIN Kids[d] : Kids[d][n] \in SentBy(r)
<1> SUFFICES ASSUME NEW r \in Requests
             PROVE  /\ SentBy(r) \subseteq Docs
                    /\ \A n \in DOMAIN Items[r] : Items[r][n] \in SentBy(r)
                    /\ \A d \in SentBy(r) : \A n \in DOMAIN Kids[d] : Kids[d][n] \in SentBy(r)
  OBVIOUS
<1>1. PICK J : J = ToSet(Items[r])
  OBVIOUS
<1>2. J \in SUBSET Docs /\ \A n \in DOMAIN Items[r] : Items[r][n] \in J
  BY <1>1, BodiesAre DEF ToSet
<1>3. SentBy(r) = WithKids(J)
  BY <1>1 DEF SentBy
<1> QED
  BY <1>2, <1>3, WithKidsIs

\* Two bodies have no container in common.
LEMMA SentByApart ==
    ASSUME NEW r \in Requests, NEW q \in Requests, r # q
    PROVE  SentBy(r) \cap SentBy(q) = {}
<1>1. PICK J, K : J = ToSet(Items[r]) /\ K = ToSet(Items[q])
  OBVIOUS
<1>2. J \in SUBSET Docs /\ K \in SUBSET Docs
  BY <1>1, BodiesAre DEF ToSet
<1>3. SentBy(r) = WithKids(J) /\ SentBy(q) = WithKids(K)
  BY <1>1 DEF SentBy
<1> DEFINE S == WithKids(J) \ WithKids(K)
<1>4. J \subseteq S
  <2> SUFFICES ASSUME NEW x \in J, x \in WithKids(K)
               PROVE  FALSE
    BY <1>2, WithKidsIs
  <2>1. PICK m \in DOMAIN Items[r] : x = Items[r][m]
    BY <1>1 DEF ToSet
  <2>2. x \notin K
    BY <1>1, <2>1, ConstantsAssumption DEF BodiesApart, ToSet
  <2>3. PICK d \in WithKids(K) : \E n \in DOMAIN Kids[d] : x = Kids[d][n]
    BY <1>2, <2>2, WithKidsFrom
  <2>4. d \in Docs
    BY <1>2, WithKidsIs
  <2> QED
    BY <2>1, <2>3, <2>4, ItemsAreNoKids
<1>5. \A d \in S : \A n \in DOMAIN Kids[d] : Kids[d][n] \in S
  <2> SUFFICES ASSUME NEW d \in S, NEW n \in DOMAIN Kids[d], Kids[d][n] \in WithKids(K)
               PROVE  FALSE
    BY <1>2, WithKidsIs
  <2>1. d \in Docs
    BY <1>2, WithKidsIs
  <2>2. Kids[d][n] \notin K
    BY <1>1, <2>1, ItemsAreNoKids DEF ToSet
  <2>3. PICK e \in WithKids(K) : \E m \in DOMAIN Kids[e] : Kids[d][n] = Kids[e][m]
    BY <1>2, <2>2, WithKidsFrom
  <2>4. e \in Docs
    BY <1>2, WithKidsIs
  <2> QED
    BY <2>1, <2>3, <2>4, KidsAreApart
<1>6. WithKids(J) \subseteq S
  <2>1. S \in SUBSET Docs
    BY <1>2, WithKidsIs
  <2> HIDE DEF S
  <2> QED
    BY <1>2, <1>4, <1>5, <2>1, WithKidsLeast
<1> QED
  BY <1>3, <1>6

-----------------------------------------------------------------------------
(* What steps do to bodies.                                                  *)

\* An operation that brings a container still does when memory has grown
\* elsewhere.
LEMMA CarrierStays ==
    ASSUME NEW a, NEW O, NEW M, NEW H, NEW S, CarrierWell(a, O, M, H, S),
           NEW O2, NEW N, NEW H2, NEW S2,
           N[a.doc] = M[a.doc], a.doc \notin S2,
           a.op = "count" =>
               /\ H2[a.req] = H[a.req]
               /\ \A b \in O2 : b.op \in Carriers /\ b.req = a.req => b = a
    PROVE  CarrierWell(a, O2, N, H2, S2)
BY DEF CarrierWell

\* What nothing was done to is as well as before.
LEMMA AppendStays ==
    ASSUME NEW r \in Requests, NEW O, NEW M, NEW H, NEW P, NEW I,
           AppendWell(r, O, M, H, P, I),
           NEW O2, NEW N, NEW H2, NEW P2, NEW I2,
           H2[r] = H[r], P2[r] = P[r], I2[r] = I[r],
           \A n \in DOMAIN Items[r] :
               /\ M[Items[r][n]] # Absent => N[Items[r][n]] # Absent
               /\ H[r] # Absent =>
                      /\ N[Items[r][n]].portal = M[Items[r][n]].portal
                      /\ N[Items[r][n]] # Absent => M[Items[r][n]] # Absent,
           \A a \in O : a.op = "count" /\ a.req = r => a \in O2
    PROVE  AppendWell(r, O2, N, H2, P2, I2)
<1>1. ItemsInLine(r, N, H2)
  BY DEF AppendWell, ItemsInLine
<1>2. \A n \in DOMAIN Items[r] : Begun(r, n, O2, P2, I2) => Begun(r, n, O, P, I)
  BY DEF Begun
<1> QED
  BY <1>1, <1>2 DEF AppendWell

\* A request that is about to append, or failed to, has no places and holds
\* nothing.
Quiet(r) ==
    \/ held'[r] = held[r] /\ pc'[r] = pc[r] /\ item'[r] = item[r]
    \/ /\ pc[r] \in {"idle", "loading"} /\ held'[r] = Absent
       /\ \/ pc'[r] \in {"loading", "failed"}
          \/ pc'[r] = "waiting" /\ item'[r] = 1

\* A step that places nothing.
LEMMA QuietKeeps ==
    ASSUME PlacesInv, BodyInv,
           mem' = mem, stored' = stored, granted' = granted,
           \A x \in Docs : db'[x] # Absent => db[x] # Absent,
           \A a : a.op \in Carriers => (a \in OnWire(wire') <=> a \in OnWire(wire)),
           \A r \in Requests : IsAppend(r) => Quiet(r)
    PROVE  BodyInv'
<1> DEFINE O == OnWire(wire)
           Q == OnWire(wire')
<1>1. BodyWell(O, mem, held, pc, item, stored, granted) /\ StoredOnce(db, stored, mem)
  BY DEF BodyInv
<1>2. \A a \in O : a.op \in Carriers => a.req \in Requests /\ pc[a.req] = "appending" /\ IsAppend(a.req)
  BY WireKnown, Known DEF RequestWell
<1>3. \A a : a.op \in Carriers => (a \in Q <=> a \in O)
  OBVIOUS
<1> HIDE DEF O, Q
<1>4. ASSUME NEW a \in Q, a.op \in Carriers
      PROVE  CarrierWell(a, Q, mem, held', stored)
  <2>1. a \in O /\ CarrierWell(a, O, mem, held, stored)
    BY <1>1, <1>3, <1>4 DEF BodyWell
  <2>2. held'[a.req] = held[a.req]
    BY <1>2, <1>4, <2>1 DEF Quiet
  <2>3. a.op = "count" => \A b \in Q : b.op \in Carriers /\ b.req = a.req => b = a
    BY <1>3, <2>1 DEF CarrierWell
  <2> QED
    BY <2>1, <2>2, <2>3 DEF CarrierWell
<1>5. ASSUME NEW x \in Docs
      PROVE  BranchWell(x, Q, mem, stored, granted)
  <2>1. Carried(x, O) => Carried(x, Q)
    BY <1>3 DEF Carried, Carriers
  <2> QED
    BY <1>1, <2>1 DEF BodyWell, BranchWell
<1>6. ASSUME NEW r \in Requests, IsAppend(r)
      PROVE  AppendWell(r, Q, mem, held', pc', item')
  <2>1. AppendWell(r, O, mem, held, pc, item)
    BY <1>1, <1>6 DEF BodyWell
  <2>2. CASE held'[r] = held[r] /\ pc'[r] = pc[r] /\ item'[r] = item[r]
    <3>1. \A a \in O : a.op = "count" /\ a.req = r => a \in Q
      BY <1>3 DEF Carriers
    <3>2. \A n \in DOMAIN Items[r] : Begun(r, n, Q, pc', item') => Begun(r, n, O, pc, item)
      BY <2>2, <3>1 DEF Begun
    <3> QED
      BY <2>1, <2>2, <3>2 DEF AppendWell, ItemsInLine
  <2>3. CASE /\ pc[r] \in {"idle", "loading"} /\ held'[r] = Absent
             /\ \/ pc'[r] \in {"loading", "failed"}
                \/ pc'[r] = "waiting" /\ item'[r] = 1
    <3>1. \A n \in DOMAIN Items[r] : ~ (n < 1)
      BY BodiesAre
    <3>2. \A n \in DOMAIN Items[r] : ~ Begun(r, n, Q, pc', item')
      BY <2>3, <3>1 DEF Begun
    <3> QED
      BY <2>3, <3>2 DEF AppendWell, ItemsInLine
  <2> QED
    BY <1>6, <2>2, <2>3 DEF Quiet
<1>7. StoredOnce(db', stored, mem)
  BY <1>1 DEF StoredOnce
<1>8. BodyWell(Q, mem, held', pc', item', stored, granted)
  BY <1>1, <1>4, <1>5, <1>6 DEF BodyWell
<1> QED
  BY <1>7, <1>8 DEF BodyInv, Q

\* A portal with one position more.
LEMMA LongerIs ==
    ASSUME NEW s \in Seq(Nat \ {0}), NEW p \in Nat \ {0}
    PROVE  /\ Append(s, p) \in Seq(Nat \ {0})
           /\ Append(s, p) # <<>>
           /\ Len(Append(s, p)) = Len(s) + 1 /\ Len(s) \in Nat
           /\ Last(Append(s, p)) = p
           /\ Front(Append(s, p)) = s
<1> DEFINE t == Append(s, p)
<1>1. /\ t \in Seq(Nat \ {0})
      /\ Len(t) = Len(s) + 1
      /\ Len(s) \in Nat
      /\ t[Len(s) + 1] = p
      /\ \A j \in 1..Len(s) : t[j] = s[j]
  OBVIOUS
<1> HIDE DEF t
<1>2. t # <<>>
  BY <1>1
<1>3. Last(t) = p
  BY <1>1 DEF Last
<1>4. Front(t) = s
  <2>1. Front(t) = SubSeq(t, 1, Len(s))
    BY <1>1 DEF Front
  <2> QED
    BY <2>1, <1>1
<1> QED
  BY <1>1, <1>2, <1>3, <1>4 DEF t

\* What starting an item changes.
LEMMA StartItemIs ==
    ASSUME TypeOK, NEW r \in Requests, NEW n \in DOMAIN Items[r],
           NEW W \in Seq(Ops), NEW at, NEW parent \in Records,
           StartItem(r, n, at, parent, W),
           NEW d, d = Items[r][n], NEW counted, counted = Claim(parent)
    PROVE  /\ d \in Docs
           /\ item'[r] = n
           /\ \A q \in Requests : q # r =>
                  item'[q] = item[q] /\ pc'[q] = pc[q] /\ held'[q] = held[q]
           /\ counted.portal = parent.portal
           /\ counted.parent = parent.parent
           /\ counted.npos = parent.npos + 1 /\ parent.npos \in Nat
           /\ \/ /\ parent = Absent
                 /\ pc'[r] = "waiting" /\ held'[r] = Absent
                 /\ mem' = mem /\ wire' = W
              \/ /\ parent # Absent
                 /\ pc'[r] = "appending" /\ held'[r] = counted
                 /\ mem'[d] = [portal |-> Append(parent.portal, parent.npos + 1),
                               parent |-> at, npos |-> 0]
                 /\ mem'[d] # Absent
                 /\ \A x \in Docs : x # d => mem'[x] = mem[x]
                 /\ wire' = Append(W, [op |-> "update", req |-> r, at |-> at,
                                       rec |-> counted, doc |-> d])
<1>1. d \in Docs
  BY BodiesAre
<1>2. /\ mem \in [Docs -> Records] /\ held \in [Requests -> Records]
      /\ pc \in [Requests -> Phases] /\ item \in [Requests -> Nat \ {0}]
  BY DEF TypeOK
<1>3. item' = [item EXCEPT ![r] = n]
  BY DEF StartItem
<1>4. /\ counted.portal = parent.portal
      /\ counted.parent = parent.parent
      /\ counted.npos = parent.npos + 1 /\ parent.npos \in Nat
      /\ parent.portal \in Seq(Nat \ {0})
  BY DEF Claim, Records
<1>5. CASE parent = Absent
  <2>1. /\ pc' = [pc EXCEPT ![r] = "waiting"]
        /\ held' = [held EXCEPT ![r] = parent]
        /\ wire' = W /\ mem' = mem
    BY <1>5 DEF StartItem, Present
  <2> QED
    BY <1>1, <1>2, <1>3, <1>4, <1>5, <2>1
<1>6. CASE parent # Absent
  <2>1. /\ pc' = [pc EXCEPT ![r] = "appending"]
        /\ held' = [held EXCEPT ![r] = counted]
        /\ mem' = [mem EXCEPT ![d] = Child(at, counted)]
        /\ wire' = Append(W, Update(r, at, counted, d))
    BY <1>6 DEF StartItem, Present
  <2>2. mem'[d] = Child(at, counted) /\ \A x \in Docs : x # d => mem'[x] = mem[x]
    BY <1>1, <1>2, <2>1
  <2>3. Child(at, counted) = [portal |-> Append(parent.portal, parent.npos + 1),
                              parent |-> at, npos |-> 0]
    BY <1>4 DEF Child, Record
  <2>4. Append(parent.portal, parent.npos + 1) # <<>>
    <3>1. parent.npos + 1 \in Nat \ {0}
      BY <1>4
    <3> QED
      BY <1>4, <3>1, LongerIs
  <2>5. mem'[d] # Absent
    BY <2>2, <2>3, <2>4 DEF Absent, Record
  <2>6. Update(r, at, counted, d) =
            [op |-> "update", req |-> r, at |-> at, rec |-> counted, doc |-> d]
    BY DEF Update, Op
  <2>7. /\ pc'[r] = "appending" /\ held'[r] = counted
        /\ \A q \in Requests : q # r =>
               item'[q] = item[q] /\ pc'[q] = pc[q] /\ held'[q] = held[q]
        /\ item'[r] = n
    BY <1>2, <1>3, <2>1
  <2> QED
    BY <1>1, <1>4, <1>6, <2>1, <2>2, <2>3, <2>5, <2>6, <2>7
<1> QED
  BY <1>5, <1>6

\* An item starts: it waits, or it is placed beside the others.
LEMMA StartItemKeeps ==
    ASSUME PlacesInv, NEW S, NEW g,
           NEW r \in Requests, NEW n \in DOMAIN Items[r],
           NEW W \in Seq(Ops), WireWell(W, mem, pc, item),
           BodyWell(OnWire(W), mem, held, pc, item, S, g),
           \A x \in S : mem[x] # Absent,
           \A a \in OnWire(W) : a.req # r,
           \A m \in DOMAIN Items[r] : m < n => mem[Items[r][m]] # Absent,
           \A m \in DOMAIN Items[r] : m >= n => mem[Items[r][m]] = Absent,
           NEW at, NEW parent \in Records,
           held[r] = parent \/ n = 1,
           StartItem(r, n, at, parent, W)
    PROVE  BodyWell(OnWire(wire'), mem', held', pc', item', S, g)
<1>d. PICK d, counted : d = Items[r][n] /\ counted = Claim(parent)
  OBVIOUS
<1>s. /\ d \in Docs
      /\ item'[r] = n
      /\ \A q \in Requests : q # r =>
             item'[q] = item[q] /\ pc'[q] = pc[q] /\ held'[q] = held[q]
      /\ counted.portal = parent.portal
      /\ counted.parent = parent.parent
      /\ counted.npos = parent.npos + 1 /\ parent.npos \in Nat
      /\ \/ /\ parent = Absent
            /\ pc'[r] = "waiting" /\ held'[r] = Absent
            /\ mem' = mem /\ wire' = W
         \/ /\ parent # Absent
            /\ pc'[r] = "appending" /\ held'[r] = counted
            /\ mem'[d] = [portal |-> Append(parent.portal, parent.npos + 1),
                          parent |-> at, npos |-> 0]
            /\ mem'[d] # Absent
            /\ \A x \in Docs : x # d => mem'[x] = mem[x]
            /\ wire' = Append(W, [op |-> "update", req |-> r, at |-> at,
                                  rec |-> counted, doc |-> d])
  BY <1>d, Known, StartItemIs
<1>1. PICK O : O = OnWire(W)
  OBVIOUS
<1>2. /\ BodyWell(O, mem, held, pc, item, S, g)
      /\ \A a \in O : a.req # r
  BY <1>1
<1>3. /\ d \in Docs
      /\ item'[r] = n
      /\ \A q \in Requests : q # r =>
             item'[q] = item[q] /\ pc'[q] = pc[q] /\ held'[q] = held[q]
  BY <1>s
<1>4. \A a \in O : a.op \in Carriers =>
          a.doc \in Docs /\ a.req \in Requests /\ a.doc # d
  <2> SUFFICES ASSUME NEW a \in O, a.op \in Carriers
               PROVE  a.doc \in Docs /\ a.req \in Requests /\ a.doc # d
    OBVIOUS
  <2>1. PICK k \in DOMAIN W : a = W[k]
    BY <1>1 DEF OnWire
  <2>2. a \in Ops /\ OpWell(a, mem, pc, item)
    BY <2>1 DEF WireWell
  <2>3. \A k2 \in DOMAIN W : W[k2].req # r
    BY DEF OnWire
  <2>4. mem[d] = Absent
    BY <1>3, <1>d, BodiesAre
  <2>5. \A k2 \in DOMAIN W : W[k2].op \in Carriers => W[k2].doc # d
    BY <1>d, <2>3, <2>4, Known, NotOnTheWay
  <2> QED
    BY <2>1, <2>2, <2>5 DEF OpWell, Ops
<1>5. mem[d] = Absent /\ d \notin S
  BY <1>3, <1>d, BodiesAre
<1>6. CASE parent = Absent
  <2>1. /\ pc'[r] = "waiting" /\ held'[r] = Absent
        /\ mem' = mem /\ wire' = W
    BY <1>6, <1>s
  <2>2. OnWire(wire') = O
    BY <1>1, <2>1
  <2>3. ASSUME NEW a \in O, a.op \in Carriers
        PROVE  CarrierWell(a, O, mem', held', S)
    <3>1. CarrierWell(a, O, mem, held, S) /\ a.req # r /\ a.req \in Requests
      BY <1>2, <1>4, <2>3 DEF BodyWell
    <3>2. held'[a.req] = held[a.req]
      BY <1>3, <3>1
    <3> QED
      BY <2>1, <3>1, <3>2 DEF CarrierWell
  <2>4. ASSUME NEW q \in Requests, IsAppend(q)
        PROVE  AppendWell(q, O, mem', held', pc', item')
    <3>1. CASE q # r
      <4>1. AppendWell(q, O, mem, held, pc, item)
        BY <1>2, <2>4 DEF BodyWell
      <4> QED
        BY <1>3, <2>1, <3>1, <4>1, AppendStays
    <3>2. CASE q = r
      BY <1>3, <2>1, <3>2 DEF AppendWell, ItemsInLine, Begun
    <3> QED
      BY <3>1, <3>2
  <2> QED
    BY <1>2, <2>1, <2>2, <2>3, <2>4 DEF BodyWell
<1>7. CASE parent # Absent
  <2> DEFINE c == [op |-> "update", req |-> r, at |-> at, rec |-> counted, doc |-> d]
  <2>1. /\ pc'[r] = "appending" /\ held'[r] = counted
        /\ mem'[d].portal = Append(parent.portal, parent.npos + 1)
        /\ mem'[d].parent = at
        /\ mem'[d].npos = 0
        /\ mem'[d] # Absent
        /\ \A x \in Docs : x # d => mem'[x] = mem[x]
        /\ wire' = Append(W, c)
        /\ counted.portal = parent.portal
        /\ counted.npos = parent.npos + 1 /\ parent.npos \in Nat
    BY <1>7, <1>s
  <2>2. c.op = "update" /\ c.req = r /\ c.at = at /\ c.rec = counted /\ c.doc = d
    OBVIOUS
  <2>3. PICK Q : Q = OnWire(wire')
    OBVIOUS
  <2>4. Q = O \cup {c}
    BY <1>1, <2>1, <2>3, AppendWire
  <2>w. \A x \in Docs : mem[x] # Absent => mem'[x] # Absent
    BY <2>1
  <2> HIDE DEF c
  <2>5. ASSUME NEW a \in Q, a.op \in Carriers
        PROVE  CarrierWell(a, Q, mem', held', S)
    <3>1. CASE a = c
      <4>1. d \in SentBy(r)
        BY <1>d, SentByIs
      <4>2. counted.npos > 0
        BY <2>1
      <4>3. mem'[d].portal = Append(counted.portal, counted.npos)
        BY <2>1
      <4> QED
        BY <1>5, <2>1, <2>2, <3>1, <4>1, <4>2, <4>3 DEF CarrierWell
    <3>2. CASE a \in O
      <4>1. CarrierWell(a, O, mem, held, S) /\ a.req # r /\ a.req \in Requests
            /\ a.doc \in Docs /\ a.doc # d
        BY <1>2, <1>4, <2>5, <3>2 DEF BodyWell
      <4>2. held'[a.req] = held[a.req] /\ mem'[a.doc] = mem[a.doc]
        BY <1>3, <2>1, <4>1
      <4>3. a.op = "count" => \A b \in Q : b.op \in Carriers /\ b.req = a.req => b = a
        BY <2>2, <2>4, <4>1 DEF CarrierWell
      <4>4. a.doc \notin S
        BY <4>1 DEF CarrierWell
      <4> QED
        BY <4>1, <4>2, <4>3, <4>4, CarrierStays
    <3> QED
      BY <2>4, <3>1, <3>2
  <2>6. ASSUME NEW x \in Docs
        PROVE  BranchWell(x, Q, mem', S, g)
    <3>1. Carried(x, O) => Carried(x, Q)
      BY <2>4 DEF Carried
    <3>2. CASE x = d
      BY <2>2, <2>4, <3>2 DEF BranchWell, Carried
    <3>3. CASE x # d
      <4>1. BranchWell(x, O, mem, S, g)
        BY <1>2 DEF BodyWell
      <4>2. \A m \in DOMAIN Kids[x] : Kids[x][m] \in Docs
        BY BodiesAre
      <4> QED
        BY <2>1, <2>w, <3>1, <3>3, <4>1, <4>2 DEF BranchWell
    <3> QED
      BY <3>2, <3>3
  <2>7. KidsInLine(mem')
    <3> SUFFICES ASSUME NEW x \in Docs, NEW m \in DOMAIN Kids[x], mem'[Kids[x][m]] # Absent
                 PROVE  mem'[Kids[x][m]].portal = Append(mem'[x].portal, m)
      BY DEF KidsInLine
    <3>1. Kids[x][m] \in Docs /\ Kids[x][m] # d
      BY <1>d, BodiesAre, ItemsAreNoKids
    <3>2. mem[Kids[x][m]] # Absent /\ mem[Kids[x][m]].portal = Append(mem[x].portal, m)
      BY <1>2, <2>1, <3>1 DEF BodyWell, KidsInLine
    <3>3. x # d
      BY <1>5, <3>2, Known DEF MemoryWell
    <3> QED
      BY <2>1, <3>1, <3>2, <3>3
  <2>8. ASSUME NEW q \in Requests, IsAppend(q), q # r
        PROVE  AppendWell(q, Q, mem', held', pc', item')
    <3>1. AppendWell(q, O, mem, held, pc, item)
      BY <1>2, <2>8 DEF BodyWell
    <3>2. \A m \in DOMAIN Items[q] : Items[q][m] \in Docs /\ Items[q][m] # d
      BY <2>8, BodiesAre, ConstantsAssumption, <1>d DEF BodiesApart
    <3>3. \A m \in DOMAIN Items[q] : mem'[Items[q][m]] = mem[Items[q][m]]
      BY <2>1, <3>2
    <3>4. \A a \in O : a.op = "count" /\ a.req = q => a \in Q
      BY <2>4
    <3>5. held'[q] = held[q] /\ pc'[q] = pc[q] /\ item'[q] = item[q]
      BY <1>3, <2>8
    <3> QED
      BY <3>1, <3>3, <3>4, <3>5, AppendStays
  <2>9. ItemsInLine(r, mem', held')
    <3>1. \A m \in DOMAIN Items[r] : /\ Items[r][m] \in Docs
                                     /\ m # n => Items[r][m] # d
      BY BodiesAre, ConstantsAssumption, <1>d DEF BodiesApart
    <3>2. ASSUME NEW m \in DOMAIN Items[r], m # n, mem'[Items[r][m]] # Absent
          PROVE  /\ n # 1 /\ held[r] # Absent
                 /\ mem[Items[r][m]] # Absent
                 /\ mem'[Items[r][m]] = mem[Items[r][m]]
                 /\ \E p \in 1..parent.npos : mem[Items[r][m]].portal = Append(parent.portal, p)
      <4>1. mem'[Items[r][m]] = mem[Items[r][m]]
        BY <2>1, <3>1, <3>2
      <4>2. m \in Nat \ {0} /\ n \in Nat
        BY BodiesAre
      <4>3. m < n
        BY <3>2, <4>1, <4>2
      <4>4. held[r] = parent
        BY <4>2, <4>3
      <4>5. AppendWell(r, O, mem, held, pc, item)
        BY <1>2 DEF BodyWell, IsAppend
      <4> QED
        BY <1>7, <3>2, <4>1, <4>2, <4>3, <4>4, <4>5 DEF AppendWell, ItemsInLine
    <3>3. parent.portal \in Seq(Nat \ {0})
      BY DEF Records
    <3>4. \A p \in 1..parent.npos :
              /\ p \in 1..(parent.npos + 1)
              /\ Append(parent.portal, p) # Append(parent.portal, parent.npos + 1)
      <4> SUFFICES ASSUME NEW p \in 1..parent.npos
                   PROVE  /\ p \in 1..(parent.npos + 1)
                          /\ Append(parent.portal, p) # Append(parent.portal, parent.npos + 1)
        OBVIOUS
      <4>1. p # parent.npos + 1 /\ p \in Nat /\ parent.npos + 1 \in Nat
        BY <2>1
      <4>2. /\ Append(parent.portal, p)[Len(parent.portal) + 1] = p
            /\ Append(parent.portal, parent.npos + 1)[Len(parent.portal) + 1] = parent.npos + 1
        BY <3>3
      <4> QED
        BY <2>1, <4>1, <4>2
    <3>5. parent.npos + 1 \in 1..(parent.npos + 1)
      BY <2>1
    <3>6. ASSUME NEW m \in DOMAIN Items[r], mem'[Items[r][m]] # Absent
          PROVE  \E p \in 1..(parent.npos + 1) : mem'[Items[r][m]].portal = Append(parent.portal, p)
      <4>1. CASE m = n
        BY <1>d, <2>1, <3>5, <4>1
      <4>2. CASE m # n
        <5>1. PICK p \in 1..parent.npos : mem[Items[r][m]].portal = Append(parent.portal, p)
          BY <3>2, <3>6, <4>2
        <5> QED
          BY <3>2, <3>4, <3>6, <4>2, <5>1
      <4> QED
        BY <4>1, <4>2
    <3>7. ASSUME NEW m \in DOMAIN Items[r], mem'[Items[r][m]] # Absent,
                 NEW i \in DOMAIN Items[r], i # m
          PROVE  mem'[Items[r][i]].portal # mem'[Items[r][m]].portal
      <4>1. mem'[Items[r][m]].portal # <<>>
        <5>1. PICK p \in 1..(parent.npos + 1) : mem'[Items[r][m]].portal = Append(parent.portal, p)
          BY <3>6, <3>7
        <5>2. p \in Nat \ {0}
          BY <2>1
        <5> QED
          BY <3>3, <5>1, <5>2, LongerIs
      <4>2. mem'[Items[r][i]] = Absent => mem'[Items[r][i]].portal = <<>>
        BY AbsentIs
      <4>3. CASE mem'[Items[r][i]] = Absent
        BY <4>1, <4>2, <4>3
      <4>4. CASE mem'[Items[r][i]] # Absent /\ m = n
        <5>1. PICK p \in 1..parent.npos : mem'[Items[r][i]].portal = Append(parent.portal, p)
          BY <3>2, <3>7, <4>4
        <5> QED
          BY <2>1, <3>4, <4>4, <5>1, <1>d
      <4>5. CASE mem'[Items[r][i]] # Absent /\ i = n
        <5>1. PICK p \in 1..parent.npos : mem'[Items[r][m]].portal = Append(parent.portal, p)
          BY <3>2, <3>7, <4>5
        <5> QED
          BY <2>1, <3>4, <4>5, <5>1, <1>d
      <4>6. CASE mem'[Items[r][i]] # Absent /\ i # n /\ m # n
        <5>1. /\ held[r] # Absent
              /\ mem[Items[r][m]] # Absent
              /\ mem'[Items[r][m]] = mem[Items[r][m]]
              /\ mem'[Items[r][i]] = mem[Items[r][i]]
          BY <3>2, <3>7, <4>6
        <5>2. AppendWell(r, O, mem, held, pc, item)
          BY <1>2 DEF BodyWell, IsAppend
        <5> QED
          BY <3>7, <5>1, <5>2 DEF AppendWell, ItemsInLine
      <4> QED
        BY <4>3, <4>4, <4>5, <4>6
    <3> QED
      BY <2>1, <3>6, <3>7 DEF ItemsInLine
  <2>10. AppendWell(r, Q, mem', held', pc', item')
    <3>1. \A m \in DOMAIN Items[r] : Begun(r, m, Q, pc', item') => m < n \/ m = n
      BY <1>3, <2>1 DEF Begun
    <3>2. \A m \in DOMAIN Items[r] : Items[r][m] \in Docs
      BY BodiesAre
    <3>3. \A m \in DOMAIN Items[r] : Begun(r, m, Q, pc', item') => mem'[Items[r][m]] # Absent
      BY <1>d, <2>1, <2>w, <3>1, <3>2
    <3> QED
      BY <2>1, <2>9, <3>3 DEF AppendWell
  <2> QED
    BY <2>3, <2>5, <2>6, <2>7, <2>8, <2>10 DEF BodyWell
<1> QED
  BY <1>6, <1>7

\* A request arrives.
LEMMA ArriveBody ==
    ASSUME PlacesInv, BodyInv, NEW r \in Requests, Arrive(r)
    PROVE  BodyInv'
<1>1. /\ held \in [Requests -> Records] /\ pc \in [Requests -> Phases]
      /\ item \in [Requests -> Nat \ {0}] /\ wire \in Seq(Ops)
  BY DEF PlacesInv, TypeOK
<1>2. \A q \in Requests : IsAppend(q) /\ pc[q] \in {"idle", "loading", "waiting"} =>
          held[q] = Absent
  BY DEF BodyInv, BodyWell, AppendWell
<1>3. CASE AppendTop(r)
  <2>1. /\ pc[r] = "idle" /\ IsAppend(r) /\ StartItem(r, 1, NoDoc, Absent, wire)
        /\ UNCHANGED <<db, stored, granted>>
    BY <1>3 DEF AppendTop, MayStart
  <2>2. /\ item' = [item EXCEPT ![r] = 1]
        /\ pc' = [pc EXCEPT ![r] = "waiting"]
        /\ held' = [held EXCEPT ![r] = Absent]
        /\ wire' = wire /\ mem' = mem
    BY <2>1 DEF StartItem, Present
  <2>3. \A q \in Requests : Quiet(q)
    BY <1>1, <2>1, <2>2 DEF Quiet
  <2> QED
    BY <2>1, <2>2, <2>3, QuietKeeps
<1>4. ASSUME NEW d \in Docs, AppendTo(r, d) \/ Save(r, d) \/ Delete(r, d)
      PROVE  BodyInv'
  <2>1. /\ pc[r] = "idle" /\ wire' = Load(r, d)
        /\ UNCHANGED <<db, mem, item, stored, granted>>
    BY <1>4 DEF AppendTo, Save, Delete, MayStart
  <2>2. OnWire(wire') = OnWire(wire) \cup {Op("load", r, d, Absent, NoDoc)}
    BY <1>1, <2>1, AppendWire DEF Load
  <2>3. Op("load", r, d, Absent, NoDoc).op \notin Carriers
    BY DEF Op, Carriers
  <2>4. ASSUME NEW q \in Requests, IsAppend(q)
        PROVE  Quiet(q)
    <3>1. CASE AppendTo(r, d)
      <4>1. pc' = [pc EXCEPT ![r] = "loading"] /\ held' = held /\ item' = item
        BY <3>1 DEF AppendTo
      <4> QED
        BY <1>1, <1>2, <2>1, <2>4, <4>1 DEF Quiet
    <3>2. CASE Save(r, d) \/ Delete(r, d)
      <4>1. q # r
        BY <2>4, <3>2 DEF Save, Delete
      <4>2. held'[q] = held[q] /\ pc'[q] = pc[q] /\ item'[q] = item[q]
        BY <1>1, <3>2, <4>1 DEF Save, Delete
      <4> QED
        BY <4>2 DEF Quiet
    <3> QED
      BY <1>4, <3>1, <3>2
  <2>5. \A a : a.op \in Carriers => (a \in OnWire(wire') <=> a \in OnWire(wire))
    BY <2>2, <2>3
  <2> QED
    BY <2>1, <2>4, <2>5, QuietKeeps
<1> QED
  BY <1>3, <1>4 DEF Arrive

\* A load, a save or a delete is done, or fails.
LEMMA MongoBody ==
    ASSUME PlacesInv, BodyInv, NEW k \in DOMAIN wire,
           \/ LoadSaved(k) \/ LoadSkeleton(k) \/ LoadFails(k)
           \/ WriteSaved(k) \/ RemoveTree(k) \/ WriteFails(k)
    PROVE  BodyInv'
<1> DEFINE r == wire[k].req
<1>1. /\ held \in [Requests -> Records] /\ pc \in [Requests -> Phases]
      /\ db \in [Docs -> Records]
  BY DEF PlacesInv, TypeOK
<1>2. /\ UNCHANGED <<mem, held, item, stored, granted>>
      /\ wire[k].op \in {"load", "write", "remove"}
  BY DEF LoadSaved, LoadSkeleton, LoadFails, WriteSaved, RemoveTree, WriteFails, Does
<1>3. wire[k].op \notin Carriers
  BY <1>2 DEF Carriers
<1>4. /\ r \in Requests /\ OpWell(wire[k], mem, pc, item)
      /\ RequestWell(r, mem, held, target, pc, item)
      /\ OnWire(Rest(k)) = OnWire(wire) \ {wire[k]} /\ Rest(k) \in Seq(Ops)
  BY RestWire, Under
<1>5. \A q \in Requests : IsAppend(q) /\ pc[q] \in {"idle", "loading", "waiting"} =>
          held[q] = Absent
  BY DEF BodyInv, BodyWell, AppendWell
<1>6. \A a : a.op \in Carriers => (a \in OnWire(wire') <=> a \in OnWire(wire))
  <2>1. CASE wire' = Rest(k)
    BY <1>3, <1>4, <2>1
  <2>2. ASSUME NEW rec, wire' = Append(Rest(k), Op("write", r, wire[k].at, rec, NoDoc))
        PROVE  \A a : a.op \in Carriers => (a \in OnWire(wire') <=> a \in OnWire(wire))
    <3>1. OnWire(wire') = OnWire(Rest(k)) \cup {Op("write", r, wire[k].at, rec, NoDoc)}
      BY <1>4, <2>2, AppendWire
    <3>2. Op("write", r, wire[k].at, rec, NoDoc).op \notin Carriers
      BY DEF Op, Carriers
    <3> QED
      BY <1>3, <1>4, <3>1, <3>2
  <2>3. ASSUME NEW rec, wire' = Append(Rest(k), Op("remove", r, wire[k].at, rec, NoDoc))
        PROVE  \A a : a.op \in Carriers => (a \in OnWire(wire') <=> a \in OnWire(wire))
    <3>1. OnWire(wire') = OnWire(Rest(k)) \cup {Op("remove", r, wire[k].at, rec, NoDoc)}
      BY <1>4, <2>3, AppendWire
    <3>2. Op("remove", r, wire[k].at, rec, NoDoc).op \notin Carriers
      BY DEF Op, Carriers
    <3> QED
      BY <1>3, <1>4, <3>1, <3>2
  <2>4. \/ wire' = Rest(k)
        \/ \E rec : wire' = Append(Rest(k), Op("write", r, wire[k].at, rec, NoDoc))
        \/ \E rec : wire' = Append(Rest(k), Op("remove", r, wire[k].at, rec, NoDoc))
    BY Zenon DEF LoadSaved, LoadSkeleton, LoadFails, WriteSaved, RemoveTree, WriteFails
  <2> QED
    BY <2>1, <2>2, <2>3, <2>4
<1>7. \A x \in Docs : db'[x] # Absent => db[x] # Absent
  <2>1. CASE LoadSaved(k) \/ LoadSkeleton(k) \/ LoadFails(k) \/ WriteFails(k)
    BY <2>1 DEF LoadSaved, LoadSkeleton, LoadFails, WriteFails
  <2>2. CASE WriteSaved(k)
    BY <1>1, <2>2 DEF WriteSaved, Written, Present
  <2>3. CASE RemoveTree(k)
    BY <1>1, <2>3 DEF RemoveTree
  <2> QED
    BY <2>1, <2>2, <2>3
<1>8. ASSUME NEW q \in Requests, IsAppend(q)
      PROVE  Quiet(q)
  <2>1. CASE LoadSaved(k) \/ LoadSkeleton(k) \/ WriteSaved(k) \/ RemoveTree(k)
    <3>1. q # r
      BY <1>2, <1>4, <1>8, <2>1 DEF LoadSaved, LoadSkeleton, WriteSaved, RemoveTree, Does, OpWell, RequestWell
    <3>2. pc'[q] = pc[q]
      BY <1>1, <2>1, <3>1 DEF LoadSaved, LoadSkeleton, WriteSaved, RemoveTree
    <3> QED
      BY <1>2, <3>2 DEF Quiet
  <2>2. CASE LoadFails(k) \/ WriteFails(k)
    <3>1. pc' = [pc EXCEPT ![r] = "failed"]
      BY <2>2 DEF LoadFails, WriteFails
    <3>2. CASE q # r
      BY <1>1, <1>2, <3>1, <3>2 DEF Quiet
    <3>3. CASE q = r
      <4>1. pc[r] \in {"loading", "saving", "deleting"}
        BY <1>2, <1>4 DEF OpWell
      <4>2. pc[r] = "loading"
        BY <1>4, <1>8, <3>3, <4>1 DEF RequestWell
      <4> QED
        BY <1>1, <1>2, <1>4, <1>5, <1>8, <3>1, <3>3, <4>2 DEF Quiet
    <3> QED
      BY <3>2, <3>3
  <2> QED
    BY <2>1, <2>2
<1> QED
  BY <1>2, <1>6, <1>7, <1>8, QuietKeeps

\* The timer: the place of a root is asked for.
LEMMA TimerBody ==
    ASSUME PlacesInv, BodyInv, NEW r \in Requests, Timer(r)
    PROVE  BodyInv'
<1> DEFINE d == Items[r][item[r]]
           c == Op("count", r, NoDoc, Absent, d)
<1>1. /\ pc[r] = "waiting"
      /\ pc' = [pc EXCEPT ![r] = "appending"]
      /\ wire' = Append(wire, c)
      /\ UNCHANGED <<db, mem, held, target, item, stored, granted>>
  BY DEF Timer
<1>2. PICK O : O = OnWire(wire)
  OBVIOUS
<1>3. BodyWell(O, mem, held, pc, item, stored, granted) /\ StoredOnce(db, stored, mem)
  BY <1>2 DEF BodyInv
<1>4. OnWire(wire') = O \cup {c}
  BY <1>1, <1>2, Known, AppendWire
<1>5. c.op = "count" /\ c.req = r /\ c.doc = d
  BY DEF Op
<1>6. /\ RequestWell(r, mem, held, target, pc, item)
      /\ IsAppend(r) /\ item[r] \in DOMAIN Items[r] /\ mem[d] = Absent
  BY <1>1, Known DEF RequestWell, Unbegun
<1>7. pc \in [Requests -> Phases] /\ d \in Docs
  BY <1>6, BodiesAre DEF PlacesInv, TypeOK
<1>8. \A a \in O : a.req # r
  BY <1>1, <1>2, Silent DEF OnWire
<1>9. d \in SentBy(r)
  BY <1>6, SentByIs
<1>10. PICK Q : Q = OnWire(wire')
  OBVIOUS
<1>a. Q = O \cup {c}
  BY <1>4, <1>10
<1>b. \A a \in O : a.op \in Carriers => a.req \in Requests
  BY <1>2, WireKnown
<1> HIDE DEF c, d
<1>11. ASSUME NEW a \in Q, a.op \in Carriers
       PROVE  CarrierWell(a, Q, mem, held, stored)
  <2>1. CASE a = c
    <3>1. held[r] = Absent
      BY <1>1, <1>3, <1>6 DEF BodyWell, AppendWell
    <3>2. d \notin stored
      BY <1>3, <1>6 DEF StoredOnce
    <3> QED
      BY <1>5, <1>6, <1>8, <1>9, <1>a, <2>1, <3>1, <3>2, AbsentIs DEF CarrierWell
  <2>2. CASE a \in O
    <3>1. CarrierWell(a, O, mem, held, stored) /\ a.req # r
      BY <1>3, <1>8, <1>11, <2>2 DEF BodyWell
    <3> QED
      BY <1>5, <1>a, <3>1 DEF CarrierWell
  <2> QED
    BY <1>a, <2>1, <2>2
<1>12. ASSUME NEW x \in Docs
       PROVE  BranchWell(x, Q, mem, stored, granted)
  BY <1>3, <1>a DEF BodyWell, BranchWell, Carried
<1>13. ASSUME NEW q \in Requests, IsAppend(q)
       PROVE  AppendWell(q, Q, mem, held, pc', item)
  <2>1. AppendWell(q, O, mem, held, pc, item)
    BY <1>3, <1>13 DEF BodyWell
  <2>2. CASE q # r
    <3>1. pc'[q] = pc[q]
      BY <1>1, <1>7, <2>2
    <3> QED
      BY <1>a, <2>1, <3>1, AppendStays
  <2>3. CASE q = r
    <3>1. pc'[r] = "appending"
      BY <1>1, <1>7
    <3>2. \A n \in DOMAIN Items[r] : Begun(r, n, Q, pc', item) => Begun(r, n, O, pc, item)
      BY <1>1, <1>5, <1>a, <3>1 DEF Begun
    <3> QED
      BY <2>1, <2>3, <3>1, <3>2 DEF AppendWell
  <2> QED
    BY <2>2, <2>3
<1>14. BodyWell(Q, mem, held, pc', item, stored, granted)
  BY <1>3, <1>11, <1>12, <1>13 DEF BodyWell
<1> QED
  BY <1>1, <1>3, <1>10, <1>14 DEF BodyInv

\* The rest of the operations are as well as before, when the one that is done
\* brought nothing.
LEMMA LoadTargetBody ==
    ASSUME PlacesInv, BodyInv, NEW k \in DOMAIN wire, LoadTarget(k)
    PROVE  BodyInv'
<1> DEFINE r == wire[k].req
           parent == db[target[r]]
<1>1. /\ wire[k].op = "load" /\ pc[r] = "loading"
      /\ StartItem(r, 1, target[r], parent, Rest(k))
      /\ UNCHANGED <<db, target, stored, granted>>
  BY DEF LoadTarget, Does
<1>2. /\ r \in Requests /\ RequestWell(r, mem, held, target, pc, item)
      /\ Rest(k) \in Seq(Ops) /\ WireWell(Rest(k), mem, pc, item)
      /\ OnWire(Rest(k)) = OnWire(wire) \ {wire[k]}
  BY RestWire, Under
<1>3. IsAppend(r) /\ target[r] \in Docs
  BY <1>1, <1>2 DEF RequestWell
<1>4. /\ 1 \in DOMAIN Items[r]
      /\ \A m \in DOMAIN Items[r] : mem[Items[r][m]] = Absent
      /\ \A m \in DOMAIN Items[r] : ~ (m < 1)
  BY <1>1, <1>2, <1>3, NotBegun, BodiesAre
<1>5. parent \in Records
  BY <1>3, Known
<1>6. \A a \in OnWire(Rest(k)) : a.req # r
  <2>1. wire[k].op \notin Carriers
    BY <1>1 DEF Carriers
  <2> QED
    BY <2>1, Under DEF OnWire
<1>7. BodyWell(OnWire(Rest(k)), mem, held, pc, item, stored, granted)
  <2>1. PICK O, Q : O = OnWire(wire) /\ Q = OnWire(Rest(k))
    OBVIOUS
  <2>2. BodyWell(O, mem, held, pc, item, stored, granted)
    BY <2>1 DEF BodyInv
  <2>3. \A a : a.op \in Carriers => (a \in O <=> a \in Q)
    BY <1>1, <1>2, <2>1 DEF Carriers
  <2>4. ASSUME NEW a \in Q, a.op \in Carriers
        PROVE  CarrierWell(a, Q, mem, held, stored)
    <3>1. CarrierWell(a, O, mem, held, stored)
      BY <2>2, <2>3, <2>4 DEF BodyWell
    <3> QED
      BY <2>3, <3>1 DEF CarrierWell
  <2>5. \A x \in Docs : BranchWell(x, Q, mem, stored, granted)
    <3>1. \A x \in Docs : Carried(x, O) => Carried(x, Q)
      BY <2>3 DEF Carried, Carriers
    <3> QED
      BY <2>2, <3>1 DEF BodyWell, BranchWell
  <2>6. ASSUME NEW q \in Requests, IsAppend(q)
        PROVE  AppendWell(q, Q, mem, held, pc, item)
    <3>1. \A a \in O : a.op = "count" /\ a.req = q => a \in Q
      BY <2>3 DEF Carriers
    <3>2. AppendWell(q, O, mem, held, pc, item)
      BY <2>2, <2>6 DEF BodyWell
    <3> QED
      BY <3>1, <3>2, AppendStays
  <2>7. BodyWell(Q, mem, held, pc, item, stored, granted)
    BY <2>2, <2>4, <2>5, <2>6 DEF BodyWell
  <2> QED
    BY <2>1, <2>7
<1>8. StoredOnce(db, stored, mem)
  BY DEF BodyInv
<1> HIDE DEF r, parent
<1>9. BodyWell(OnWire(wire'), mem', held', pc', item', stored, granted)
  BY <1>1, <1>2, <1>4, <1>5, <1>6, <1>7, <1>8, StartItemKeeps DEF StoredOnce
<1>10. Grows(mem, mem')
  BY LoadTargetKeeps
<1>11. StoredOnce(db, stored, mem')
  BY <1>8, <1>10, Known DEF StoredOnce, Grows, StoredWell, PlacesInv, TypeOK
<1> QED
  BY <1>1, <1>9, <1>11 DEF BodyInv

\* A root has its place, or a parent is written: the container goes in next.
LEMMA NextIsInsert ==
    ASSUME PlacesInv, BodyInv, NEW c \in OnWire(wire), c.op \in {"count", "update"},
           NEW i, i.op = "insert", i.req = c.req, i.doc = c.doc, i.rec.npos = 0,
           OnWire(wire') = (OnWire(wire) \ {c}) \cup {i},
           mem'[c.doc].npos = 0, mem'[c.doc] # Absent,
           \A x \in Docs : mem[x] # Absent => mem'[x] # Absent,
           c.op = "update" => mem' = mem,
           \A x \in Docs : x # c.doc => mem'[x] = mem[x],
           \A x \in Docs : db'[x] # Absent => db[x] # Absent,
           UNCHANGED <<held, target, pc, item, stored, granted>>
    PROVE  BodyInv'
<1>1. PICK O, Q : O = OnWire(wire) /\ Q = OnWire(wire')
  OBVIOUS
<1>2. PICK r, d : r = c.req /\ d = c.doc
  OBVIOUS
<1>3. BodyWell(O, mem, held, pc, item, stored, granted) /\ StoredOnce(db, stored, mem)
  BY <1>1 DEF BodyInv
<1>4. Q = (O \ {c}) \cup {i}
  BY <1>1
<1>5. /\ c.op \in Carriers /\ r \in Requests /\ d \in Docs
      /\ \A n \in DOMAIN Kids[d] : mem[Kids[d][n]] = Absent
      /\ \A a \in O : a.op \in Carriers => a.req \in Requests /\ a.doc \in Docs
      /\ \A a \in O : a.op \in Carriers /\ a # c => a.doc # d
      /\ OpWell(c, mem, pc, item)
      /\ CarrierWell(c, O, mem, held, stored)
  <2>1. c.op \in Carriers
    BY DEF Carriers
  <2> QED
    BY <1>1, <1>2, <1>3, <2>1, WireKnown DEF OpsApart, OpWell, BodyWell
<1>6. ASSUME NEW a \in Q, a.op \in Carriers
      PROVE  CarrierWell(a, Q, mem', held, stored)
  <2>1. CASE a = i
    BY <1>2, <1>5, <2>1 DEF CarrierWell
  <2>2. CASE a \in O /\ a # c
    <3>1. CarrierWell(a, O, mem, held, stored) /\ a.doc # d /\ a.doc \in Docs
      BY <1>3, <1>5, <1>6, <2>2 DEF BodyWell
    <3>2. mem'[a.doc] = mem[a.doc]
      BY <1>2, <3>1
    <3>3. a.op = "count" => \A b \in Q : b.op \in Carriers /\ b.req = a.req => b = a
      <4> SUFFICES ASSUME a.op = "count", NEW b \in Q, b.op \in Carriers, b.req = a.req
                   PROVE  b = a
        OBVIOUS
      <4>1. \A e \in O : e.op \in Carriers /\ e.req = a.req => e = a
        BY <3>1 DEF CarrierWell
      <4>2. a.req # r
        BY <1>1, <1>2, <1>5, <2>2, <4>1
      <4>3. b \in O
        BY <1>2, <1>4, <4>2
      <4> QED
        BY <4>1, <4>3
    <3>4. a.doc \notin stored
      BY <3>1 DEF CarrierWell
    <3> QED
      BY <3>1, <3>2, <3>3, <3>4, CarrierStays
  <2> QED
    BY <1>4, <2>1, <2>2
<1>7. ASSUME NEW x \in Docs
      PROVE  BranchWell(x, Q, mem', stored, granted)
  <2>1. CASE x = d
    BY <1>2, <1>4, <2>1 DEF BranchWell, Carried
  <2>2. CASE x # d
    <3>1. Carried(x, O) => Carried(x, Q)
      BY <1>2, <1>4, <2>2 DEF Carried
    <3>2. BranchWell(x, O, mem, stored, granted)
      BY <1>3 DEF BodyWell
    <3>3. \A n \in DOMAIN Kids[x] : Kids[x][n] \in Docs
      BY BodiesAre
    <3> QED
      BY <1>2, <2>2, <3>1, <3>2, <3>3 DEF BranchWell
  <2> QED
    BY <2>1, <2>2
<1>8. KidsInLine(mem')
  <2>1. CASE c.op = "update"
    BY <1>3, <2>1 DEF BodyWell
  <2>2. CASE c.op = "count"
    <3>1. d = Items[r][item[r]] /\ item[r] \in DOMAIN Items[r] /\ mem[d] = Absent
      BY <1>2, <1>5, <2>2, Known DEF OpWell
    <3> SUFFICES ASSUME NEW x \in Docs, NEW n \in DOMAIN Kids[x], mem'[Kids[x][n]] # Absent
                 PROVE  mem'[Kids[x][n]].portal = Append(mem'[x].portal, n)
      BY DEF KidsInLine
    <3>2. Kids[x][n] \in Docs /\ Kids[x][n] # d
      BY <1>5, <3>1, BodiesAre, ItemsAreNoKids
    <3>3. mem'[Kids[x][n]] = mem[Kids[x][n]]
      BY <1>2, <3>2
    <3>4. x # d
      BY <1>5, <3>3
    <3> QED
      BY <1>2, <1>3, <3>3, <3>4 DEF BodyWell, KidsInLine
  <2> QED
    BY <2>1, <2>2
<1>9. ASSUME NEW q \in Requests, IsAppend(q)
      PROVE  AppendWell(q, Q, mem', held, pc, item)
  <2>1. AppendWell(q, O, mem, held, pc, item)
    BY <1>3, <1>9 DEF BodyWell
  <2>2. \A n \in DOMAIN Items[q] : Items[q][n] \in Docs
    BY BodiesAre
  <2>3. CASE c.op = "update"
    <3>1. \A a \in O : a.op = "count" /\ a.req = q => a \in Q
      BY <1>4, <2>3
    <3> QED
      BY <2>1, <2>3, <3>1, AppendStays
  <2>4. CASE c.op = "count"
    <3>1. d = Items[r][item[r]] /\ item[r] \in DOMAIN Items[r] /\ held[r] = Absent
      BY <1>2, <1>5, <2>4, Known DEF OpWell, CarrierWell
    <3>2. CASE q # r
      <4>1. \A n \in DOMAIN Items[q] : Items[q][n] # d
        BY <1>5, <3>1, <3>2, ConstantsAssumption DEF BodiesApart
      <4>2. \A n \in DOMAIN Items[q] : mem'[Items[q][n]] = mem[Items[q][n]]
        BY <1>2, <2>2, <4>1
      <4>3. \A a \in O : a.op = "count" /\ a.req = q => a \in Q
        BY <1>2, <1>4, <3>2
      <4> QED
        BY <2>1, <4>2, <4>3, AppendStays
    <3>3. CASE q = r
      <4>1. \A n \in DOMAIN Items[r] : Begun(r, n, Q, pc, item) => n = item[r] \/ Begun(r, n, O, pc, item)
        BY DEF Begun
      <4>2. \A n \in DOMAIN Items[r] : Begun(r, n, Q, pc, item) => mem'[Items[r][n]] # Absent
        BY <1>2, <2>1, <2>2, <3>1, <3>3, <4>1 DEF AppendWell
      <4> QED
        BY <2>1, <3>1, <3>3, <4>2 DEF AppendWell, ItemsInLine
    <3> QED
      BY <3>2, <3>3
  <2> QED
    BY <2>3, <2>4
<1>10. StoredOnce(db', stored, mem')
  <2>1. \A x \in stored : x \in Docs
    BY DEF PlacesInv, TypeOK
  <2> QED
    BY <1>3, <2>1 DEF StoredOnce
<1>11. BodyWell(Q, mem', held, pc, item, stored, granted)
  BY <1>3, <1>6, <1>7, <1>8, <1>9 DEF BodyWell
<1> QED
  BY <1>1, <1>10, <1>11 DEF BodyInv

\* The mapreduce is over.
LEMMA CountRootsBody ==
    ASSUME PlacesInv, BodyInv, NEW k \in DOMAIN wire, NEW done \in BOOLEAN, CountRoots(k, done)
    PROVE  BodyInv'
<1> DEFINE r == wire[k].req
           d == wire[k].doc
           rec == Record(<<IF done THEN NextRootPosition ELSE 1>>, NoDoc, 0)
           i == Insert(r, d, rec)
<1>1. /\ wire[k].op = "count"
      /\ mem' = [mem EXCEPT ![d] = rec]
      /\ wire' = Append(Rest(k), i)
      /\ UNCHANGED <<db, held, target, pc, item, stored, granted>>
  BY DEF CountRoots, Does
<1>2. /\ d \in Docs /\ mem[d] = Absent /\ mem \in [Docs -> Records]
      /\ Rest(k) \in Seq(Ops) /\ wire[k] \in OnWire(wire)
      /\ OnWire(Rest(k)) = OnWire(wire) \ {wire[k]}
  BY <1>1, Under, Known, RestWire DEF OpWell, Carriers
<1>3. OnWire(wire') = (OnWire(wire) \ {wire[k]}) \cup {i}
  BY <1>1, <1>2, AppendWire
<1>4. rec.npos = 0 /\ rec # Absent
  BY DEF Record, Absent
<1>5. mem'[d] = rec /\ \A x \in Docs : x # d => mem'[x] = mem[x]
  BY <1>1, <1>2
<1>6. i.op = "insert" /\ i.req = r /\ i.doc = d /\ i.rec = rec
  BY DEF Insert, Op
<1> HIDE DEF i, rec
<1> QED
  BY <1>1, <1>2, <1>3, <1>4, <1>5, <1>6, NextIsInsert

\* A parent is written, or is gone, or the update fails.
LEMMA UpdateParentBody ==
    ASSUME PlacesInv, BodyInv, NEW k \in DOMAIN wire, NEW done \in BOOLEAN, UpdateParent(k, done)
    PROVE  BodyInv'
<1> DEFINE r == wire[k].req
           d == wire[k].doc
           i == Insert(r, d, mem[d])
<1>1. /\ wire[k].op = "update"
      /\ db' = IF done THEN Written(wire[k].at, wire[k].rec) ELSE db
      /\ wire' = Append(Rest(k), i)
      /\ UNCHANGED <<mem, held, target, pc, item, stored, granted>>
  BY DEF UpdateParent, Does
<1>2. /\ d \in Docs /\ mem[d] # Absent
      /\ Rest(k) \in Seq(Ops) /\ wire[k] \in OnWire(wire)
      /\ OnWire(Rest(k)) = OnWire(wire) \ {wire[k]}
  BY <1>1, Under, RestWire DEF OpWell, Carriers
<1>3. OnWire(wire') = (OnWire(wire) \ {wire[k]}) \cup {i}
  BY <1>1, <1>2, AppendWire
<1>4. mem[d].npos = 0
  BY <1>1, <1>2 DEF BodyInv, BodyWell, CarrierWell, Carriers
<1>5. \A x \in Docs : db'[x] # Absent => db[x] # Absent
  BY <1>1, Known DEF Written, Present
<1>6. i.op = "insert" /\ i.req = r /\ i.doc = d /\ i.rec = mem[d]
  BY DEF Insert, Op
<1> HIDE DEF i
<1> QED
  BY <1>1, <1>2, <1>3, <1>4, <1>5, <1>6, NextIsInsert

\* A container without children is in, or is taken to be.
LEMMA LeafBody ==
    ASSUME PlacesInv, BodyInv, NEW c \in OnWire(wire), c.op = "insert",
           Kids[c.doc] = <<>>,
           NEW S, S = stored \/ S = stored \cup {c.doc},
           "sound" \in granted => c.doc \in S,
           NEW D, \A x \in Docs : D[x] # Absent => db[x] # Absent \/ x \in S
    PROVE  /\ BodyWell(OnWire(wire) \ {c}, mem, held, pc, item, S, granted)
           /\ StoredOnce(D, S, mem)
<1>1. PICK O, Q : O = OnWire(wire) /\ Q = OnWire(wire) \ {c}
  OBVIOUS
<1>2. BodyWell(O, mem, held, pc, item, stored, granted) /\ StoredOnce(db, stored, mem)
  BY <1>1 DEF BodyInv
<1>3. PICK d : d = c.doc
  OBVIOUS
<1>4. /\ d \in Docs /\ mem[d] # Absent
      /\ \A a \in O : a.op \in Carriers /\ a # c => a.doc # d
  <2>1. c.op \in Carriers
    BY DEF Carriers
  <2> QED
    BY <1>1, <1>3, <2>1, WireKnown DEF OpsApart, OpWell
<1>5. ASSUME NEW a \in Q, a.op \in Carriers
      PROVE  CarrierWell(a, Q, mem, held, S)
  <2>1. CarrierWell(a, O, mem, held, stored) /\ a.doc # d
    BY <1>1, <1>2, <1>4, <1>5 DEF BodyWell
  <2> QED
    BY <1>1, <1>3, <2>1 DEF CarrierWell
<1>6. ASSUME NEW x \in Docs
      PROVE  BranchWell(x, Q, mem, S, granted)
  <2>1. CASE x = d
    <3>1. DOMAIN Kids[d] = {}
      BY <1>3
    <3> QED
      BY <1>3, <2>1, <3>1 DEF BranchWell
  <2>2. CASE x # d
    <3>1. Carried(x, O) => Carried(x, Q)
      BY <1>1, <1>3, <2>2 DEF Carried
    <3> QED
      BY <1>2, <3>1 DEF BodyWell, BranchWell
  <2> QED
    BY <2>1, <2>2
<1>7. ASSUME NEW q \in Requests, IsAppend(q)
      PROVE  AppendWell(q, Q, mem, held, pc, item)
  <2>1. \A a \in O : a.op = "count" /\ a.req = q => a \in Q
    BY <1>1
  <2>2. AppendWell(q, O, mem, held, pc, item)
    BY <1>2, <1>7 DEF BodyWell
  <2> QED
    BY <2>1, <2>2, AppendStays
<1>8. BodyWell(Q, mem, held, pc, item, S, granted)
  BY <1>2, <1>5, <1>6, <1>7 DEF BodyWell
<1>9. StoredOnce(D, S, mem)
  BY <1>2, <1>3, <1>4 DEF StoredOnce
<1> QED
  BY <1>1, <1>8, <1>9

\* What is sent for the children of a container.
LEMMA KidUpdatesAre ==
    ASSUME NEW r \in Requests, NEW d \in Docs, NEW M \in [Docs -> Records]
    PROVE  /\ KidUpdates(r, d, M) \in Seq(Ops)
           /\ \A u \in OnWire(KidUpdates(r, d, M)) :
                  \E n \in DOMAIN Kids[d] :
                      /\ u.op = "update" /\ u.req = r /\ u.at = d /\ u.doc = Kids[d][n]
                      /\ u.rec.portal = M[d].portal /\ u.rec.parent = M[d].parent
                      /\ u.rec.npos = n
           /\ \A n \in DOMAIN Kids[d] :
                  \E u \in OnWire(KidUpdates(r, d, M)) : u.op = "update" /\ u.doc = Kids[d][n]
<1> DEFINE L == KidUpdates(r, d, M)
           Counted(n) == [M[d] EXCEPT !.npos = n]
<1>1. PICK K : K = Len(Kids[d]) /\ K \in Nat /\ DOMAIN Kids[d] = 1..K
  BY BodiesAre
<1>2. \A n \in 1..K : Kids[d][n] \in Docs
  BY <1>1, BodiesAre
<1>3. \A n \in Nat : /\ Counted(n) \in Records /\ Counted(n).npos = n
                     /\ Counted(n).portal = M[d].portal /\ Counted(n).parent = M[d].parent
  <2>1. M[d] \in Records
    OBVIOUS
  <2> QED
    BY <2>1 DEF Records
<1>4. /\ DOMAIN L = 1..K /\ L = [n \in 1..K |-> L[n]]
      /\ \A n \in 1..K : L[n] = Update(r, d, Counted(n), Kids[d][n])
  BY <1>1 DEF KidUpdates
<1> HIDE DEF L, Counted
<1>5. \A n \in 1..K :
          L[n] = [op |-> "update", req |-> r, at |-> d, rec |-> Counted(n), doc |-> Kids[d][n]]
  BY <1>4 DEF Update, Op
<1>6. \A n \in 1..K : L[n] \in Ops
  <2> SUFFICES ASSUME NEW n \in 1..K
               PROVE  L[n] \in Ops
    OBVIOUS
  <2>1. Counted(n) \in Records /\ Kids[d][n] \in Docs
    BY <1>2, <1>3
  <2>2. L[n] = [op |-> "update", req |-> r, at |-> d, rec |-> Counted(n), doc |-> Kids[d][n]]
    BY <1>5
  <2> QED
    BY <2>1, <2>2 DEF Ops
<1>7. L \in Seq(Ops)
  <2>1. L \in [1..K -> Ops]
    BY <1>4, <1>6
  <2> QED
    BY <1>1, <2>1, SeqDef
<1>8. ASSUME NEW u \in OnWire(L)
      PROVE  \E n \in DOMAIN Kids[d] :
                 /\ u.op = "update" /\ u.req = r /\ u.at = d /\ u.doc = Kids[d][n]
                 /\ u.rec.portal = M[d].portal /\ u.rec.parent = M[d].parent
                 /\ u.rec.npos = n
  <2>1. PICK n \in 1..K : u = L[n]
    BY <1>4 DEF OnWire
  <2>2. L[n] = [op |-> "update", req |-> r, at |-> d, rec |-> Counted(n), doc |-> Kids[d][n]]
    BY <1>5
  <2>3. /\ u.op = "update" /\ u.req = r /\ u.at = d /\ u.doc = Kids[d][n] /\ u.rec = Counted(n)
    BY <2>1, <2>2
  <2> QED
    BY <1>1, <1>3, <2>3
<1>9. ASSUME NEW n \in DOMAIN Kids[d]
      PROVE  \E u \in OnWire(L) : u.op = "update" /\ u.doc = Kids[d][n]
  <2>1. L[n] \in OnWire(L)
    BY <1>1, <1>4 DEF OnWire
  <2>2. L[n] = [op |-> "update", req |-> r, at |-> d, rec |-> Counted(n), doc |-> Kids[d][n]]
    BY <1>1, <1>5
  <2>3. L[n].op = "update" /\ L[n].doc = Kids[d][n]
    BY <2>2
  <2> QED
    BY <2>1, <2>3
<1> QED
  BY <1>7, <1>8, <1>9 DEF L

\* N is the memory M with the children of a container numbered.
NumberedWell(d, M, N) ==
    /\ N[d].portal = M[d].portal /\ N[d].parent = M[d].parent
    /\ N[d] # Absent
    /\ N[d].npos = Len(Kids[d])
    /\ \A n \in DOMAIN Kids[d] :
           /\ N[Kids[d][n]].portal = Append(M[d].portal, n)
           /\ N[Kids[d][n]].parent = d
           /\ N[Kids[d][n]].npos = 0
           /\ N[Kids[d][n]] # Absent
    /\ \A x \in Docs : x # d /\ ~ IsKid(d, x) => N[x] = M[x]

\* What becomes of memory.
LEMMA NumberedIs ==
    ASSUME NEW d \in Docs, NEW M \in [Docs -> Records], MemoryWell(M), M[d] # Absent,
           \A n \in DOMAIN Kids[d] : M[Kids[d][n]] = Absent,
           NEW N, N = Numbered(d, M)
    PROVE  NumberedWell(d, M, N)
<1> DEFINE Counted(n) == [M[d] EXCEPT !.npos = n]
<1>1. \A n \in Nat : /\ Counted(n) \in Records /\ Counted(n).npos = n
                     /\ Counted(n).portal = M[d].portal /\ Counted(n).parent = M[d].parent
  <2>1. M[d] \in Records
    OBVIOUS
  <2> QED
    BY <2>1 DEF Records
<1>2. M[d].portal # <<>> /\ M[d].portal \in Seq(Nat \ {0})
  BY DEF MemoryWell, LinkWell, Records
<1>3. Len(Kids[d]) \in Nat /\ \A n \in DOMAIN Kids[d] : n \in Nat \ {0} /\ Kids[d][n] \in Docs
  BY BodiesAre
<1>4. N[d] = Counted(Len(Kids[d]))
  BY DEF Numbered
<1>5. ASSUME NEW n \in DOMAIN Kids[d]
      PROVE  N[Kids[d][n]] = [portal |-> Append(M[d].portal, n), parent |-> d, npos |-> 0]
  <2>1. PICK x : x = Kids[d][n]
    OBVIOUS
  <2>2. x \in Docs /\ x # d
    BY <1>3, <2>1
  <2>3. Turn(d, x) = n
    BY <2>1, KidsAreApart DEF Turn
  <2>4. N[x] = Child(d, Counted(n))
    BY <2>1, <2>2, <2>3 DEF Numbered
  <2>5. Counted(n).portal = M[d].portal /\ Counted(n).npos = n
    BY <1>1, <1>3
  <2> HIDE DEF Counted
  <2> QED
    BY <2>1, <2>4, <2>5 DEF Child, Record
<1>6. ASSUME NEW n \in DOMAIN Kids[d]
      PROVE  /\ N[Kids[d][n]].portal = Append(M[d].portal, n)
             /\ N[Kids[d][n]].parent = d
             /\ N[Kids[d][n]].npos = 0
             /\ N[Kids[d][n]] # Absent
  <2>1. PICK s : s = Append(M[d].portal, n)
    OBVIOUS
  <2>2. s # <<>>
    BY <1>2, <1>3, <2>1, LongerIs
  <2>3. N[Kids[d][n]] = [portal |-> s, parent |-> d, npos |-> 0]
    BY <1>5, <2>1
  <2> QED
    BY <2>1, <2>2, <2>3 DEF Absent, Record
<1>7. \A x \in Docs : x # d /\ ~ IsKid(d, x) => N[x] = M[x]
  BY DEF IsKid, Numbered
<1>8. /\ N[d].portal = M[d].portal /\ N[d].parent = M[d].parent
      /\ N[d] # Absent
      /\ N[d].npos = Len(Kids[d])
  <2>1. PICK rec, K : rec = Counted(Len(Kids[d])) /\ K = Len(Kids[d])
    OBVIOUS
  <2>2. rec.portal = M[d].portal /\ rec.parent = M[d].parent /\ rec.npos = K
    BY <1>1, <1>3, <2>1
  <2> HIDE DEF Counted
  <2> QED
    BY <1>2, <1>4, <2>1, <2>2, AbsentIs
<1> QED
  BY <1>6, <1>7, <1>8 DEF NumberedWell

\* A container with children is in, or is taken to be: they are numbered.
LEMMA KidsBody ==
    ASSUME PlacesInv, BodyInv, NEW c \in OnWire(wire), c.op = "insert",
           NEW d, d = c.doc, mem' = Numbered(d, mem),
           OnWire(wire') = (OnWire(wire) \ {c}) \cup OnWire(KidUpdates(c.req, d, mem)),
           NEW S, S = stored \/ S = stored \cup {d},
           "sound" \in granted => d \in S,
           NEW D, \A x \in Docs : D[x] # Absent => db[x] # Absent \/ x \in S
    PROVE  /\ BodyWell(OnWire(wire'), mem', held, pc, item, S, granted)
           /\ StoredOnce(D, S, mem')
<1> DEFINE r == c.req
<1>1. PICK O, Q, L : O = OnWire(wire) /\ Q = OnWire(wire') /\ L = OnWire(KidUpdates(r, d, mem))
  OBVIOUS
<1>2. BodyWell(O, mem, held, pc, item, stored, granted) /\ StoredOnce(db, stored, mem)
  BY <1>1 DEF BodyInv
<1>3. Q = (O \ {c}) \cup L
  BY <1>1
<1>4. /\ d \in Docs /\ r \in Requests /\ mem[d] # Absent
      /\ \A n \in DOMAIN Kids[d] : mem[Kids[d][n]] = Absent
      /\ \A a \in O : a.op \in Carriers => a.req \in Requests /\ a.doc \in Docs
      /\ \A a \in O : a.op \in Carriers /\ a # c => a.doc # d
      /\ CarrierWell(c, O, mem, held, stored) /\ c.op \in Carriers
  <2>1. c.op \in Carriers
    BY DEF Carriers
  <2> QED
    BY <1>1, <1>2, <2>1, WireKnown DEF OpsApart, OpWell, BodyWell
<1>5. PICK M, N : M = mem /\ N = mem'
  OBVIOUS
<1>6. M \in [Docs -> Records] /\ MemoryWell(M) /\ N = Numbered(d, M)
  BY <1>5, Known
<1>7. /\ N[d].portal = M[d].portal /\ N[d].parent = M[d].parent
      /\ N[d] # Absent
      /\ N[d].npos = Len(Kids[d])
      /\ \A n \in DOMAIN Kids[d] :
             /\ N[Kids[d][n]].portal = Append(M[d].portal, n)
             /\ N[Kids[d][n]].parent = d
             /\ N[Kids[d][n]].npos = 0
             /\ N[Kids[d][n]] # Absent
      /\ \A x \in Docs : x # d /\ ~ IsKid(d, x) => N[x] = M[x]
  <2>1. M[d] # Absent /\ \A n \in DOMAIN Kids[d] : M[Kids[d][n]] = Absent
    BY <1>4, <1>5
  <2>2. d \in Docs
    BY <1>4
  <2>3. M \in [Docs -> Records]
    BY <1>6
  <2>4. MemoryWell(M)
    BY <1>6
  <2>5. M[d] # Absent
    BY <2>1
  <2>6. \A n \in DOMAIN Kids[d] : M[Kids[d][n]] = Absent
    BY <2>1
  <2>7. N = Numbered(d, M)
    BY <1>6
  <2>8. NumberedWell(d, M, N)
    BY <2>2, <2>3, <2>4, <2>5, <2>6, <2>7, NumberedIs
  <2> QED
    BY <2>8 DEF NumberedWell
<1>8. /\ \A u \in L :
             \E n \in DOMAIN Kids[d] :
                 /\ u.op = "update" /\ u.req = r /\ u.at = d /\ u.doc = Kids[d][n]
                 /\ u.rec.portal = M[d].portal /\ u.rec.npos = n
      /\ \A n \in DOMAIN Kids[d] : \E u \in L : u.op = "update" /\ u.doc = Kids[d][n]
  BY <1>1, <1>4, <1>5, <1>6, KidUpdatesAre
<1>9. \A n \in DOMAIN Kids[d] : n > 0 /\ Kids[d][n] \in Docs /\ Kids[d][n] \in SentBy(r)
                                /\ Kids[d][n] \notin S
  <2>1. d \in SentBy(r)
    BY <1>4 DEF CarrierWell
  <2>2. \A x \in S : M[x] # Absent
    BY <1>2, <1>4, <1>5 DEF StoredOnce
  <2> QED
    BY <1>4, <1>5, <2>1, <2>2, BodiesAre, SentByIs
<1>w. \A x \in Docs : M[x] # Absent => N[x] # Absent /\ N[x].portal = M[x].portal
  BY <1>4, <1>5, <1>7 DEF IsKid
<1> HIDE DEF r
<1>10. ASSUME NEW a \in Q, a.op \in Carriers
       PROVE  CarrierWell(a, Q, N, held, S)
  <2>1. CASE a \in L
    <3>1. PICK n \in DOMAIN Kids[d] :
              /\ a.op = "update" /\ a.req = r /\ a.at = d /\ a.doc = Kids[d][n]
              /\ a.rec.portal = M[d].portal /\ a.rec.npos = n
      BY <1>8, <2>1
    <3> QED
      BY <1>7, <1>9, <3>1 DEF CarrierWell
  <2>2. CASE a \in O /\ a # c
    <3>1. CarrierWell(a, O, M, held, stored) /\ a.doc # d /\ a.doc \in Docs
      BY <1>2, <1>4, <1>5, <1>10, <2>2 DEF BodyWell
    <3>2. ~ IsKid(d, a.doc)
      <4> SUFFICES ASSUME NEW n \in DOMAIN Kids[d], a.doc = Kids[d][n]
                   PROVE  FALSE
        BY DEF IsKid
      <4>1. a.op = "count" /\ OpWell(a, mem, pc, item) /\ a.req \in Requests
        BY <1>1, <1>4, <1>10, <2>2, WireKnown DEF OpWell, Carriers
      <4>2. a.doc = Items[a.req][item[a.req]] /\ item[a.req] \in DOMAIN Items[a.req]
        BY <4>1, Known DEF OpWell
      <4> QED
        BY <1>4, <4>1, <4>2, ItemsAreNoKids
    <3>3. N[a.doc] = M[a.doc]
      BY <1>7, <3>1, <3>2
    <3>4. a.op = "count" => \A b \in Q : b.op \in Carriers /\ b.req = a.req => b = a
      <4> SUFFICES ASSUME a.op = "count", NEW b \in Q, b.op \in Carriers, b.req = a.req
                   PROVE  b = a
        OBVIOUS
      <4>1. \A e \in O : e.op \in Carriers /\ e.req = a.req => e = a
        BY <3>1 DEF CarrierWell
      <4>2. a.req # r
        BY <1>1, <1>4, <2>2, <4>1 DEF r
      <4>3. b \in O
        BY <1>3, <1>8, <4>2
      <4> QED
        BY <4>1, <4>3
    <3>5. a.doc \notin S
      BY <3>1 DEF CarrierWell
    <3> QED
      BY <3>1, <3>3, <3>4, <3>5, CarrierStays
  <2> QED
    BY <1>3, <2>1, <2>2
<1>11. ASSUME NEW x \in Docs
       PROVE  BranchWell(x, Q, N, S, granted)
  <2>1. CASE x = d
    BY <1>7, <2>1 DEF BranchWell
  <2>2. CASE IsKid(d, x)
    <3>1. PICK n \in DOMAIN Kids[d] : x = Kids[d][n]
      BY <2>2 DEF IsKid
    <3>2. PICK u \in L : u.op = "update" /\ u.doc = x
      BY <1>8, <3>1
    <3> QED
      BY <1>3, <3>2 DEF BranchWell, Carried
  <2>3. CASE x # d /\ ~ IsKid(d, x)
    <3>1. Carried(x, O) => Carried(x, Q)
      BY <1>3, <2>3 DEF Carried
    <3>2. BranchWell(x, O, M, stored, granted)
      BY <1>2, <1>5 DEF BodyWell
    <3>3. \A n \in DOMAIN Kids[x] : Kids[x][n] \in Docs
      BY BodiesAre
    <3> QED
      BY <1>7, <1>w, <2>3, <3>1, <3>2, <3>3 DEF BranchWell
  <2> QED
    BY <2>1, <2>2, <2>3
<1>12. KidsInLine(N)
  <2> SUFFICES ASSUME NEW x \in Docs, NEW n \in DOMAIN Kids[x], N[Kids[x][n]] # Absent
               PROVE  N[Kids[x][n]].portal = Append(N[x].portal, n)
    BY DEF KidsInLine
  <2>1. CASE x = d
    BY <1>7, <2>1
  <2>2. CASE x # d
    <3>1. Kids[x][n] \in Docs /\ ~ IsKid(d, Kids[x][n])
      BY <1>4, <2>2, BodiesAre, KidsAreApart DEF IsKid
    <3>2. M[Kids[x][n]] # Absent /\ N[Kids[x][n]].portal = M[Kids[x][n]].portal
      BY <1>4, <1>5, <1>7, <3>1
    <3>3. M[x] # Absent
      BY <1>6, <3>2 DEF MemoryWell
    <3>4. M[Kids[x][n]].portal = Append(M[x].portal, n)
      BY <1>2, <1>5, <3>2 DEF BodyWell, KidsInLine
    <3> QED
      BY <1>w, <3>2, <3>3, <3>4
  <2> QED
    BY <2>1, <2>2
<1>13. ASSUME NEW q \in Requests, IsAppend(q)
       PROVE  AppendWell(q, Q, N, held, pc, item)
  <2>1. AppendWell(q, O, M, held, pc, item)
    BY <1>2, <1>5, <1>13 DEF BodyWell
  <2>2. ASSUME NEW n \in DOMAIN Items[q]
        PROVE  /\ M[Items[q][n]] # Absent => N[Items[q][n]] # Absent
               /\ N[Items[q][n]].portal = M[Items[q][n]].portal
               /\ N[Items[q][n]] # Absent => M[Items[q][n]] # Absent
    <3>1. Items[q][n] \in Docs /\ ~ IsKid(d, Items[q][n])
      BY <1>4, BodiesAre, ItemsAreNoKids DEF IsKid
    <3> QED
      BY <1>4, <1>5, <1>7, <1>w, <3>1
  <2>3. \A a \in O : a.op = "count" /\ a.req = q => a \in Q
    BY <1>3
  <2> QED
    BY <2>1, <2>2, <2>3, AppendStays
<1>14. BodyWell(Q, N, held, pc, item, S, granted)
  BY <1>10, <1>11, <1>12, <1>13 DEF BodyWell
<1>15. StoredOnce(D, S, N)
  <2>1. S \subseteq Docs
    BY <1>4 DEF PlacesInv, TypeOK
  <2> QED
    BY <1>2, <1>5, <1>7, <1>w, <2>1 DEF StoredOnce
<1> QED
  BY <1>1, <1>5, <1>14, <1>15

\* A container is in, or is taken to be.
LEMMA InsertOneBody ==
    ASSUME PlacesInv, BodyInv, NEW k \in DOMAIN wire, NEW done \in Done, InsertOne(k, done)
    PROVE  BodyInv'
<1> DEFINE c == wire[k]
           r == c.req
           d == c.at
<1>1. /\ c.op = "insert"
      /\ db' = IF done THEN [db EXCEPT ![d] = c.rec] ELSE db
      /\ stored' = IF done THEN stored \cup {d} ELSE stored
      /\ UNCHANGED <<target, granted>>
  BY DEF InsertOne, Does
<1>2. /\ c \in OnWire(wire) /\ OnWire(Rest(k)) = OnWire(wire) \ {c} /\ Rest(k) \in Seq(Ops)
      /\ r \in Requests /\ pc[r] = "appending" /\ d \in Docs /\ d = c.doc
      /\ RequestWell(r, mem, held, target, pc, item) /\ WireWell(Rest(k), mem, pc, item)
  BY <1>1, Under, RestWire DEF OpWell, Carriers
<1>3. IsAppend(r) /\ item[r] \in DOMAIN Items[r]
  BY <1>2 DEF RequestWell
<1>4. /\ stored' = stored \/ stored' = stored \cup {c.doc}
      /\ "sound" \in granted => c.doc \in stored'
      /\ \A x \in Docs : db'[x] # Absent => db[x] # Absent \/ x \in stored'
  <2>1. "sound" \in granted => done
    BY DEF Done
  <2>2. done \in BOOLEAN
    BY DEF Done
  <2> QED
    BY <1>1, <1>2, <2>1, <2>2, Known
<1>5. PICK S, D : S = stored' /\ D = db'
  OBVIOUS
<1>6. /\ S = stored \/ S = stored \cup {c.doc}
      /\ "sound" \in granted => c.doc \in S
      /\ \A x \in Docs : D[x] # Absent => db[x] # Absent \/ x \in S
  BY <1>4, <1>5
<1>7. CASE /\ mem' = Numbered(d, mem)
           /\ wire' = Rest(k) \o KidUpdates(r, d, mem)
           /\ UNCHANGED <<held, pc, item>>
  <2>1. KidUpdates(r, d, mem) \in Seq(Ops)
    BY <1>2, Known, KidUpdatesAre
  <2>2. OnWire(wire') = (OnWire(wire) \ {c}) \cup OnWire(KidUpdates(r, d, mem))
    BY <1>2, <1>7, <2>1, ConcatWire
  <2>3. /\ BodyWell(OnWire(wire'), mem', held, pc, item, S, granted)
        /\ StoredOnce(D, S, mem')
    BY <1>1, <1>2, <1>6, <1>7, <2>2, KidsBody
  <2> QED
    BY <1>1, <1>5, <1>7, <2>3 DEF BodyInv
<1>8. ASSUME Kids[d] = <<>>
      PROVE  /\ BodyWell(OnWire(Rest(k)), mem, held, pc, item, S, granted)
             /\ StoredOnce(D, S, mem)
  BY <1>1, <1>2, <1>6, <1>8, LeafBody
<1>9. CASE Kids[d] = <<>> /\ wire' = Rest(k) /\ UNCHANGED <<mem, held, pc, item>>
  BY <1>1, <1>5, <1>8, <1>9 DEF BodyInv
<1>10. ASSUME ItemIsOver(r, Rest(k))
       PROVE  \A a \in OnWire(Rest(k)) : a.req # r
  BY <1>10 DEF ItemIsOver, OnWire
<1>11. ASSUME ItemIsOver(r, Rest(k)), Kids[d] = <<>>
       PROVE  \A m \in DOMAIN Items[r] : m <= item[r] => mem[Items[r][m]] # Absent
  <2>1. PICK O : O = OnWire(Rest(k))
    OBVIOUS
  <2>2. AppendWell(r, O, mem, held, pc, item)
    BY <1>2, <1>3, <1>8, <1>11, <2>1 DEF BodyWell
  <2>3. \A a \in O : a.req # r
    BY <1>10, <1>11, <2>1
  <2>4. \A m \in DOMAIN Items[r] : m \in Nat
    BY <1>2, BodiesAre
  <2>5. \A m \in DOMAIN Items[r] : m <= item[r] => m < item[r] \/ m = item[r]
    BY <1>3, <2>4
  <2> QED
    BY <1>2, <2>2, <2>3, <2>5 DEF AppendWell, Begun
<1>12. CASE /\ Kids[d] = <<>> /\ ItemIsOver(r, Rest(k))
            /\ item[r] = Len(Items[r])
            /\ wire' = Rest(k)
            /\ pc' = [pc EXCEPT ![r] = "done"]
            /\ UNCHANGED <<mem, held, item>>
  <2>1. pc'[r] = "done" /\ \A q \in Requests : q # r => pc'[q] = pc[q]
    BY <1>2, <1>12 DEF PlacesInv, TypeOK
  <2>2. PICK O : O = OnWire(Rest(k))
    OBVIOUS
  <2>3. BodyWell(O, mem, held, pc, item, S, granted) /\ StoredOnce(D, S, mem)
    BY <1>8, <1>12, <2>2
  <2>4. ASSUME NEW q \in Requests, IsAppend(q)
        PROVE  AppendWell(q, O, mem, held, pc', item)
    <3>1. AppendWell(q, O, mem, held, pc, item)
      BY <2>3, <2>4 DEF BodyWell
    <3>2. CASE q # r
      BY <2>1, <3>1, <3>2, AppendStays
    <3>3. CASE q = r
      <4>1. \A m \in DOMAIN Items[r] : m <= item[r]
        BY <1>2, <1>12, BodiesAre
      <4>2. \A m \in DOMAIN Items[r] : mem[Items[r][m]] # Absent
        BY <1>11, <1>12, <4>1
      <4> QED
        BY <2>1, <3>1, <3>3, <4>2 DEF AppendWell
    <3> QED
      BY <3>2, <3>3
  <2>5. BodyWell(O, mem, held, pc', item, S, granted)
    BY <2>3, <2>4 DEF BodyWell
  <2> QED
    BY <1>1, <1>5, <1>12, <2>2, <2>3, <2>5 DEF BodyInv
<1>13. CASE /\ Kids[d] = <<>> /\ ItemIsOver(r, Rest(k))
            /\ item[r] < Len(Items[r])
            /\ StartItem(r, item[r] + 1, target[r], held[r], Rest(k))
  <2>1. PICK n, parent : n = item[r] + 1 /\ parent = held[r]
    OBVIOUS
  <2>2. n \in DOMAIN Items[r] /\ item[r] \in Nat
    BY <1>2, <1>3, <1>13, <2>1, BodiesAre
  <2>3. \A m \in DOMAIN Items[r] : m \in Nat
    BY <1>2, BodiesAre
  <2>4. \A m \in DOMAIN Items[r] : m < n => mem[Items[r][m]] # Absent
    <3>1. \A m \in DOMAIN Items[r] : m < n => m <= item[r]
      BY <2>1, <2>2, <2>3
    <3> QED
      BY <1>11, <1>13, <3>1
  <2>5. \A m \in DOMAIN Items[r] : m >= n => mem[Items[r][m]] = Absent
    <3>1. \A m \in DOMAIN Items[r] : m >= n => m > item[r]
      BY <2>1, <2>2, <2>3
    <3> QED
      BY <1>2, <1>3, <3>1 DEF RequestWell, Unbegun
  <2>6. parent \in Records
    BY <1>2, <2>1 DEF PlacesInv, TypeOK
  <2>7. \A x \in S : mem[x] # Absent
    BY <1>8, <1>13 DEF StoredOnce
  <2>8. /\ BodyWell(OnWire(Rest(k)), mem, held, pc, item, S, granted)
        /\ \A a \in OnWire(Rest(k)) : a.req # r
    BY <1>8, <1>10, <1>13
  <2>9. StartItem(r, n, target[r], parent, Rest(k))
    BY <1>13, <2>1
  <2>10. held[r] = parent
    BY <2>1
  <2>11. BodyWell(OnWire(wire'), mem', held', pc', item', S, granted)
    <3> HIDE DEF c, r, d
    <3> QED
      BY <1>2, <2>2, <2>4, <2>5, <2>6, <2>7, <2>8, <2>9, <2>10, StartItemKeeps
  <2>12. Grows(mem, mem')
    BY InsertOneKeeps DEF Done
  <2>13. StoredOnce(D, S, mem')
    <3>1. S \subseteq Docs
      BY <1>2, <1>6 DEF PlacesInv, TypeOK
    <3> QED
      BY <1>8, <1>13, <2>12, <3>1 DEF StoredOnce, Grows
  <2> QED
    BY <1>1, <1>5, <2>11, <2>13 DEF BodyInv
<1>14. \/ /\ mem' = Numbered(d, mem)
          /\ wire' = Rest(k) \o KidUpdates(r, d, mem)
          /\ UNCHANGED <<held, pc, item>>
       \/ Kids[d] = <<>> /\ wire' = Rest(k) /\ UNCHANGED <<mem, held, pc, item>>
       \/ /\ Kids[d] = <<>> /\ ItemIsOver(r, Rest(k))
          /\ item[r] = Len(Items[r])
          /\ wire' = Rest(k)
          /\ pc' = [pc EXCEPT ![r] = "done"]
          /\ UNCHANGED <<mem, held, item>>
       \/ /\ Kids[d] = <<>> /\ ItemIsOver(r, Rest(k))
          /\ item[r] < Len(Items[r])
          /\ StartItem(r, item[r] + 1, target[r], held[r], Rest(k))
  BY DEF InsertOne, Numbered, KidUpdates, Turn
<1> QED
  BY <1>7, <1>9, <1>12, <1>13, <1>14

\* Nothing was begun at first.
LEMMA BodyInit == Init => BodyInv
<1> SUFFICES ASSUME Init
             PROVE  BodyInv
  OBVIOUS
<1>1. /\ \A d \in Docs : db[d] = Absent /\ mem[d] = Absent
      /\ \A r \in Requests : held[r] = Absent /\ pc[r] = "idle"
      /\ wire = <<>> /\ stored = {}
  BY DEF Init
<1>2. OnWire(wire) = {}
  BY <1>1 DEF OnWire
<1>3. KidsInLine(mem)
  <2>1. \A d \in Docs : \A n \in DOMAIN Kids[d] : Kids[d][n] \in Docs
    BY BodiesAre
  <2> QED
    BY <1>1, <2>1 DEF KidsInLine
<1>4. \A r \in Requests : AppendWell(r, {}, mem, held, pc, item)
  BY <1>1 DEF AppendWell, ItemsInLine, Begun
<1>5. \A x \in Docs : BranchWell(x, {}, mem, stored, granted)
  BY <1>1 DEF BranchWell
<1>6. StoredOnce(db, stored, mem)
  BY <1>1 DEF StoredOnce
<1> QED
  BY <1>2, <1>3, <1>4, <1>5, <1>6 DEF BodyInv, BodyWell

\* Every step keeps the second invariant.
LEMMA BodyStep == PlacesInv /\ BodyInv /\ [Next]_vars => BodyInv'
<1> SUFFICES ASSUME PlacesInv, BodyInv, [Next]_vars
             PROVE  BodyInv'
  OBVIOUS
<1>1. ASSUME NEW r \in Requests, Arrive(r) \/ Timer(r)
      PROVE  BodyInv'
  BY <1>1, ArriveBody, TimerBody
<1>2. ASSUME NEW k \in DOMAIN wire, Mongo(k)
      PROVE  BodyInv'
  <2>1. CASE \/ LoadSaved(k) \/ LoadSkeleton(k) \/ LoadFails(k)
             \/ WriteSaved(k) \/ RemoveTree(k) \/ WriteFails(k)
    BY <2>1, MongoBody
  <2>2. CASE LoadTarget(k)
    BY <2>2, LoadTargetBody
  <2>3. ASSUME NEW done \in Done, CountRoots(k, done) \/ UpdateParent(k, done) \/ InsertOne(k, done)
        PROVE  BodyInv'
    <3>1. done \in BOOLEAN
      BY DEF Done
    <3> QED
      BY <2>3, <3>1, CountRootsBody, UpdateParentBody, InsertOneBody
  <2> QED
    BY <1>2, <2>1, <2>2, <2>3 DEF Mongo
<1>3. CASE UNCHANGED vars
  BY <1>3 DEF vars, BodyInv
<1> QED
  BY <1>1, <1>2, <1>3 DEF Next, Step

\* The second inductive invariant holds always: a body is on its way, or in, and
\* its containers are in line.
THEOREM BodyInvariance == Spec => []BodyInv
<1>1. Init => BodyInv
  BY BodyInit
<1>2. PlacesInv /\ BodyInv /\ [Next]_vars => BodyInv'
  BY BodyStep
<1> QED
  BY <1>1, <1>2, PlacesInvariance, PTL DEF Spec

\* When an append is answered all of its body was sent, nothing of it is on the
\* way, and if mongo fails nothing all of it was stored: the callbacks of the
\* branches are counted right (append.js).
THEOREM AnswersAreStored == Spec => []AnsweredIsStored
<1>1. PlacesInv /\ BodyInv => AnsweredIsStored
  <2> SUFFICES ASSUME PlacesInv, BodyInv, NEW r \in Requests, IsAppend(r), pc[r] = "done"
               PROVE  /\ \A d \in SentBy(r) : Present(mem[d])
                      /\ \A k \in DOMAIN wire : wire[k].req # r
                      /\ "sound" \in granted => SentBy(r) \subseteq stored
    BY DEF AnsweredIsStored
  <2>1. \A k \in DOMAIN wire : wire[k].req # r
    BY Silent
  <2>2. PICK O : O = OnWire(wire)
    OBVIOUS
  <2>3. \A a \in O : a.req # r
    BY <2>1, <2>2 DEF OnWire
  <2>4. \A a \in O : a.op \in Carriers => a.doc \in SentBy(a.req) /\ a.req \in Requests
    BY <2>2, WireKnown DEF BodyInv, BodyWell, CarrierWell
  <2>5. \A x \in SentBy(r) : ~ Carried(x, O)
    <3> SUFFICES ASSUME NEW x \in SentBy(r), Carried(x, O)
                 PROVE  FALSE
      OBVIOUS
    <3>1. PICK a \in O : a.op \in Carriers /\ a.doc = x
      BY DEF Carried, Carriers
    <3> QED
      BY <2>3, <2>4, <3>1, SentByApart
  <2>6. \A x \in SentBy(r) : mem[x] # Absent =>
            /\ \A n \in DOMAIN Kids[x] : mem[Kids[x][n]] # Absent
            /\ "sound" \in granted => x \in stored
    <3>1. \A x \in Docs : BranchWell(x, O, mem, stored, granted)
      BY <2>2 DEF BodyInv, BodyWell
    <3> QED
      BY <2>5, <3>1, SentByIs DEF BranchWell
  <2>7. \A n \in DOMAIN Items[r] : mem[Items[r][n]] # Absent
    <3>1. AppendWell(r, O, mem, held, pc, item)
      BY <2>2 DEF BodyInv, BodyWell
    <3> QED
      BY <3>1 DEF AppendWell, Begun
  <2> DEFINE S == {x \in SentBy(r) : mem[x] # Absent}
  <2>8. PICK J : J = ToSet(Items[r])
    OBVIOUS
  <2>9. J \in SUBSET Docs /\ J \subseteq S /\ SentBy(r) = WithKids(J) /\ S \in SUBSET Docs
    BY <2>7, <2>8, BodiesAre, SentByIs DEF ToSet, SentBy
  <2>10. \A d \in S : \A n \in DOMAIN Kids[d] : Kids[d][n] \in S
    BY <2>6, SentByIs
  <2>11. SentBy(r) \subseteq S
    <3> HIDE DEF S
    <3> QED
      BY <2>9, <2>10, WithKidsLeast
  <2> QED
    BY <2>1, <2>6, <2>11 DEF Present
<1> QED
  BY <1>1, PlacesInvariance, BodyInvariance, PTL

-----------------------------------------------------------------------------
(* The trees of a body do not meet.                                          *)

\* A place one further down says which it is.
LEMMA SameStep ==
    ASSUME NEW s \in Seq(Nat \ {0}), NEW t \in Seq(Nat \ {0}),
           NEW m \in Nat \ {0}, NEW n \in Nat \ {0}, Append(s, m) = Append(t, n)
    PROVE  s = t /\ m = n
<1>1. Front(Append(s, m)) = s /\ Last(Append(s, m)) = m
  BY LongerIs
<1>2. Front(Append(t, n)) = t /\ Last(Append(t, n)) = n
  BY LongerIs
<1> QED
  BY <1>1, <1>2

\* Containers side by side, and apart, have all that is below them apart.
LEMMA TreesApart ==
    ASSUME NEW M \in [Docs -> Records], MemoryWell(M), KidsInLine(M),
           NEW J \in SUBSET Docs, NEW k \in Nat,
           \A d \in J : M[d] # Absent => Len(M[d].portal) = k,
           \A d, x \in J : d # x /\ M[d] # Absent /\ M[x] # Absent => M[d].portal # M[x].portal
    PROVE  \A d, x \in WithKids(J) :
               d # x /\ M[d] # Absent /\ M[x] # Absent => M[d].portal # M[x].portal
<1>1. \A d \in Docs : /\ M[d].portal \in Seq(Nat \ {0})
                      /\ Len(M[d].portal) \in Nat
                      /\ \A n \in DOMAIN Kids[d] : Kids[d][n] \in Docs /\ n \in Nat \ {0}
  <2>1. \A rec \in Records : rec.portal \in Seq(Nat \ {0}) /\ Len(rec.portal) \in Nat
    BY DEF Records
  <2> QED
    BY <2>1, BodiesAre
<1>2. ASSUME NEW d \in Docs, NEW n \in DOMAIN Kids[d], M[Kids[d][n]] # Absent
      PROVE  /\ M[d] # Absent
             /\ M[Kids[d][n]].portal = Append(M[d].portal, n)
             /\ Len(M[Kids[d][n]].portal) = Len(M[d].portal) + 1
  <2>1. M[d] # Absent
    BY <1>2 DEF MemoryWell
  <2>2. M[Kids[d][n]].portal = Append(M[d].portal, n)
    BY <1>2 DEF KidsInLine
  <2> QED
    BY <1>1, <2>1, <2>2, LongerIs
<1> DEFINE Deep == {d \in Docs : M[d] # Absent => Len(M[d].portal) >= k}
           Alone == {d \in WithKids(J) : \A x \in WithKids(J) :
                        d # x /\ M[d] # Absent /\ M[x] # Absent => M[d].portal # M[x].portal}
<1>3. WithKids(J) \subseteq Deep
  <2>1. J \subseteq Deep /\ Deep \in SUBSET Docs
    BY <1>1
  <2>2. \A d \in Deep : \A n \in DOMAIN Kids[d] : Kids[d][n] \in Deep
    <3> SUFFICES ASSUME NEW d \in Deep, NEW n \in DOMAIN Kids[d], M[Kids[d][n]] # Absent
                 PROVE  Len(M[Kids[d][n]].portal) >= k
      BY <1>1
    <3>1. M[d] # Absent /\ Len(M[Kids[d][n]].portal) = Len(M[d].portal) + 1
      BY <1>2
    <3>2. Len(M[d].portal) >= k /\ Len(M[d].portal) \in Nat
      BY <1>1, <3>1
    <3> QED
      BY <3>1, <3>2
  <2> HIDE DEF Deep
  <2> QED
    BY <2>1, <2>2, WithKidsLeast
<1>4. ASSUME NEW x \in WithKids(J), x \notin J, M[x] # Absent
      PROVE  \E y \in WithKids(J) : \E m \in DOMAIN Kids[y] :
                 /\ x = Kids[y][m] /\ M[y] # Absent
                 /\ M[x].portal = Append(M[y].portal, m)
                 /\ Len(M[x].portal) > k
  <2>1. PICK y \in WithKids(J) : \E m \in DOMAIN Kids[y] : x = Kids[y][m]
    BY <1>4, WithKidsFrom
  <2>2. PICK m \in DOMAIN Kids[y] : x = Kids[y][m]
    BY <2>1
  <2>3. y \in Docs
    BY <2>1, WithKidsIs
  <2>4. M[y] # Absent /\ M[x].portal = Append(M[y].portal, m)
        /\ Len(M[x].portal) = Len(M[y].portal) + 1
    BY <1>2, <1>4, <2>2, <2>3
  <2>5. Len(M[y].portal) >= k
    BY <1>3, <2>1, <2>4
  <2>6. Len(M[x].portal) > k
    BY <1>1, <2>3, <2>4, <2>5
  <2> QED
    BY <2>2, <2>4, <2>6
<1>5. WithKids(J) \subseteq Docs
  BY WithKidsIs
<1>6. J \subseteq Alone
  <2> SUFFICES ASSUME NEW d \in J, NEW x \in WithKids(J), d # x, M[d] # Absent, M[x] # Absent
               PROVE  M[d].portal # M[x].portal
    BY WithKidsIs
  <2>1. CASE x \in J
    BY <2>1
  <2>2. CASE x \notin J
    <3>1. Len(M[x].portal) > k /\ Len(M[d].portal) = k
      BY <1>4, <2>2
    <3> QED
      BY <3>1
  <2> QED
    BY <2>1, <2>2
<1>7. ASSUME NEW d \in Alone, NEW n \in DOMAIN Kids[d]
      PROVE  Kids[d][n] \in Alone
  <2>1. d \in WithKids(J) /\ d \in Docs /\ Kids[d][n] \in WithKids(J)
    BY <1>5, WithKidsIs
  <2> SUFFICES ASSUME NEW x \in WithKids(J), Kids[d][n] # x, M[Kids[d][n]] # Absent, M[x] # Absent,
                      M[Kids[d][n]].portal = M[x].portal
               PROVE  FALSE
    BY <2>1
  <2>2. /\ M[d] # Absent
        /\ M[x].portal = Append(M[d].portal, n)
        /\ Len(M[x].portal) = Len(M[d].portal) + 1
    BY <1>2, <2>1
  <2>3. x \notin J
    <3>1. Len(M[d].portal) >= k /\ Len(M[d].portal) \in Nat
      BY <1>1, <1>3, <2>1, <2>2
    <3> QED
      BY <2>2, <3>1
  <2>p. PICK y \in WithKids(J) : \E m \in DOMAIN Kids[y] :
            x = Kids[y][m] /\ M[y] # Absent /\ M[x].portal = Append(M[y].portal, m)
    BY <1>4, <2>3
  <2>4. PICK m \in DOMAIN Kids[y] :
            x = Kids[y][m] /\ M[y] # Absent /\ M[x].portal = Append(M[y].portal, m)
    BY <2>p
  <2>5. y \in Docs /\ m \in Nat \ {0} /\ n \in Nat \ {0}
    BY <1>1, <1>5, <2>1, <2>4
  <2>q. Append(M[d].portal, n) = Append(M[y].portal, m)
    BY <2>2, <2>4
  <2>u. PICK s \in Seq(Nat \ {0}), t \in Seq(Nat \ {0}) : s = M[d].portal /\ t = M[y].portal
    BY <1>1, <2>1, <2>5
  <2>v. Append(s, n) = Append(t, m)
    BY <2>q, <2>u
  <2>w. s = t /\ n = m
    BY <2>v, <2>5, SameStep
  <2>6. M[d].portal = M[y].portal /\ n = m
    BY <2>u, <2>w
  <2>7. d # y
    BY <2>4, <2>6
  <2> QED
    BY <2>2, <2>4, <2>6, <2>7
<1>8. WithKids(J) \subseteq Alone
  <2>1. Alone \in SUBSET Docs
    BY <1>5
  <2> HIDE DEF Alone
  <2> QED
    BY <1>6, <1>7, <2>1, WithKidsLeast
<1> QED
  BY <1>8

\* So it is with an item of a body, and, when its target was found, with all of it.
LEMMA BodiesStayApart ==
    ASSUME PlacesInv, BodyInv, NEW r \in Requests
    PROVE  /\ \A n \in DOMAIN Items[r] : Apart(WithKids({Items[r][n]}) \cap InDb)
           /\ Present(held[r]) => Apart(SentBy(r) \cap InDb)
<1>1. /\ mem \in [Docs -> Records] /\ MemoryWell(mem) /\ KidsInLine(mem)
      /\ \A d \in InDb : mem[d] # Absent /\ db[d].portal = mem[d].portal
  <2>1. StoredWell(db, mem) /\ mem \in [Docs -> Records] /\ MemoryWell(mem)
    BY Known
  <2>2. KidsInLine(mem)
    BY DEF BodyInv, BodyWell
  <2>3. \A d \in InDb : mem[d] # Absent /\ db[d].portal = mem[d].portal
    BY <2>1, AbsentIs DEF InDb, Present, StoredWell, InPlace
  <2> QED
    BY <2>1, <2>2, <2>3
<1>2. \A rec \in Records : rec.portal \in Seq(Nat \ {0}) /\ Len(rec.portal) \in Nat
  BY DEF Records
<1>3. ASSUME NEW J \in SUBSET Docs,
             \A d, x \in WithKids(J) :
                 d # x /\ mem[d] # Absent /\ mem[x] # Absent => mem[d].portal # mem[x].portal
      PROVE  Apart(WithKids(J) \cap InDb)
  BY <1>1, <1>3 DEF Apart
<1>4. ASSUME NEW n \in DOMAIN Items[r]
      PROVE  Apart(WithKids({Items[r][n]}) \cap InDb)
  <2>1. PICK d \in Docs : d = Items[r][n]
    BY BodiesAre
  <2>2. PICK k \in Nat : k = Len(mem[d].portal)
    BY <1>1, <1>2
  <2>3. PICK J \in SUBSET Docs : J = {d}
    OBVIOUS
  <2>4. \A x \in J : mem[x] # Absent => Len(mem[x].portal) = k
    BY <2>2, <2>3
  <2>5. \A x, y \in J : x # y /\ mem[x] # Absent /\ mem[y] # Absent =>
            mem[x].portal # mem[y].portal
    BY <2>3
  <2>6. \A x, y \in WithKids(J) :
            x # y /\ mem[x] # Absent /\ mem[y] # Absent => mem[x].portal # mem[y].portal
    BY <1>1, <2>4, <2>5, TreesApart
  <2> QED
    BY <1>3, <2>1, <2>3, <2>6
<1>5. ASSUME Present(held[r])
      PROVE  Apart(SentBy(r) \cap InDb)
  <2>1. PICK J \in SUBSET Docs : J = ToSet(Items[r])
    BY BodiesAre DEF ToSet
  <2>2. \A d \in J : \E n \in DOMAIN Items[r] : d = Items[r][n]
    BY <2>1 DEF ToSet
  <2>3. CASE ~ IsAppend(r)
    <3>1. J = {}
      BY <2>1, <2>3 DEF IsAppend, ToSet
    <3>2. \A x, y \in WithKids(J) :
              x # y /\ mem[x] # Absent /\ mem[y] # Absent => mem[x].portal # mem[y].portal
      <4>1. 0 \in Nat
        OBVIOUS
      <4> QED
        BY <1>1, <3>1, <4>1, TreesApart
    <3> QED
      BY <1>3, <2>1, <3>2 DEF SentBy
  <2>4. CASE IsAppend(r)
    <3>1. ItemsInLine(r, mem, held) /\ held[r] # Absent
      BY <1>5, <2>4 DEF BodyInv, BodyWell, AppendWell, Present
    <3>2. held[r] \in Records
      BY Known DEF TypeOK
    <3>3. PICK k \in Nat : k = Len(held[r].portal) + 1
      BY <1>2, <3>2
    <3>4. \A d \in J : mem[d] # Absent => Len(mem[d].portal) = k
      <4> SUFFICES ASSUME NEW d \in J, mem[d] # Absent
                   PROVE  Len(mem[d].portal) = k
        OBVIOUS
      <4>1. PICK n \in DOMAIN Items[r] : d = Items[r][n]
        BY <2>2
      <4>2. PICK p \in 1..held[r].npos : mem[d].portal = Append(held[r].portal, p)
        BY <3>1, <4>1 DEF ItemsInLine
      <4>3. held[r].npos \in Nat
        BY <3>2 DEF Records
      <4>4. p \in Nat \ {0} /\ held[r].portal \in Seq(Nat \ {0})
        BY <1>2, <3>2, <4>3
      <4> QED
        BY <3>3, <4>2, <4>4, LongerIs
    <3>5. \A d, x \in J : d # x /\ mem[d] # Absent /\ mem[x] # Absent =>
              mem[d].portal # mem[x].portal
      BY <2>2, <3>1 DEF ItemsInLine
    <3>6. \A x, y \in WithKids(J) :
              x # y /\ mem[x] # Absent /\ mem[y] # Absent => mem[x].portal # mem[y].portal
      BY <1>1, <3>4, <3>5, TreesApart
    <3> QED
      BY <1>3, <2>1, <3>6 DEF SentBy
  <2> QED
    BY <2>3, <2>4
<1> QED
  BY <1>4, <1>5

-----------------------------------------------------------------------------
(* One request at a time, none of whose operations fails: the third          *)
(* inductive invariant.                                                      *)

\* A request is under way.
Busy(phase) == phase \notin Ended \cup {"idle"}

\* One at most is.
OneAtATime(P) == \A r, q \in Requests : Busy(P[r]) /\ Busy(P[q]) => r = q

\* There is something to hang from.
Rooted(parent, D) == parent = NoDoc \/ D[parent] # Absent

\* What is stored, or about to be, hangs from what is stored, and so will the
\* items to come.
Linked(O, D, M, H, T, P) ==
    /\ \A d \in Docs : D[d] # Absent => Rooted(M[d].parent, D)
    /\ \A a \in O : a.op \in {"update", "insert"} => Rooted(M[a.doc].parent, D)
    /\ \A r \in Requests : IsAppend(r) /\ P[r] = "appending" /\ H[r] # Absent => D[T[r]] # Absent

\* All of it.
LinkedInv ==
    {"serial", "sound"} \subseteq granted =>
        OneAtATime(pc) /\ Linked(OnWire(wire), db, mem, held, target, pc)

-----------------------------------------------------------------------------
(* Everything granted: the fourth.                                           *)

\* A container is stored, or about to be.
Live(x, O, D) == D[x] # Absent \/ Carried(x, O)

\* Those are apart.
LiveApart(O, D, M) ==
    \A d, x \in Docs : d # x /\ Live(d, O, D) /\ Live(x, O, D) => M[d].portal # M[x].portal

\* A container was written with as many children as were stored, or are about
\* to be, a parent with no more than its updates say, and what an append holds
\* says no less than any.
CountsWell(O, D, M, H, T, P) ==
    /\ \A x \in Docs :
           /\ D[x] # Absent \/ \E a \in O : a.op = "insert" /\ a.doc = x
           /\ M[x].parent # NoDoc
           => Last(M[x].portal) <= D[M[x].parent].npos
    /\ \A a \in O : a.op = "update" => D[a.at].npos <= a.rec.npos
    /\ \A r \in Requests : IsAppend(r) /\ P[r] = "appending" /\ H[r] # Absent =>
           /\ D[T[r]].npos <= H[r].npos
           /\ \A a \in O : a.op = "update" /\ a.at = T[r] => a.rec.npos <= H[r].npos

\* The updates of a container count up.
CountUp(W) ==
    \A j, k \in DOMAIN W :
        W[j].op = "update" /\ W[k].op = "update" /\ W[j].at = W[k].at /\ j < k =>
            W[j].rec.npos <= W[k].rec.npos

\* A save or a delete has what is stored.
FreshWell(O, D, H, T, P) ==
    \A a \in O :
        /\ a.op \in {"load", "remove"} => a.at = T[a.req]
        /\ a.op = "load" /\ P[a.req] = "saving" => H[a.req].npos = D[a.at].npos
        /\ a.op = "write" => a.rec.npos = D[a.at].npos
        /\ a.op = "remove" => a.at \in Docs /\ D[a.at] # Absent /\ a.rec = D[a.at]

\* All that counts, but for the order of the updates.
CountedWell(O, D, M, H, T, P) ==
    LiveApart(O, D, M) /\ CountsWell(O, D, M, H, T, P) /\ FreshWell(O, D, H, T, P)

\* All of it.
CountedInv ==
    granted = Favours =>
        CountedWell(OnWire(wire), db, mem, held, target, pc) /\ CountUp(wire)

-----------------------------------------------------------------------------
(* What a step does, one request at a time and without failures.             *)

\* All that is under way is of one request, and all of it brings containers, or
\* it is one operation.
LEMMA OnlyOne ==
    ASSUME PlacesInv, OneAtATime(pc), NEW c \in OnWire(wire)
    PROVE  /\ c.req \in Requests /\ Busy(pc[c.req])
           /\ \A q \in Requests : q # c.req => ~ Busy(pc[q])
           /\ \A b \in OnWire(wire) : b.req = c.req /\ (c.op \in Carriers => b.op \in Carriers)
           /\ c.op \notin Carriers => OnWire(wire) = {c}
<1>1. ASSUME NEW b \in OnWire(wire)
      PROVE  b.req \in Requests /\ Busy(pc[b.req])
  <2>1. b \in Ops /\ b.req \in Requests /\ OpWell(b, mem, pc, item)
    BY WireKnown
  <2>2. b.op \in {"load", "count", "update", "insert", "write", "remove"}
    BY <2>1 DEF Ops
  <2> QED
    BY <2>1, <2>2 DEF OpWell, Carriers, Busy, Ended
<1>2. \A b \in OnWire(wire) : b.req = c.req
  BY <1>1 DEF OneAtATime
<1>3. \A b \in OnWire(wire) : b # c => OpsApart(b, c)
  BY WireKnown
<1>4. \A b \in OnWire(wire) : b # c => b.op \in Carriers /\ c.op \in Carriers
  BY <1>2, <1>3 DEF OpsApart
<1> QED
  BY <1>1, <1>2, <1>4 DEF OneAtATime

\* Nothing is when no request is past its wait.
LEMMA NoneYet ==
    ASSUME PlacesInv, \A q \in Requests : Busy(pc[q]) => pc[q] = "waiting"
    PROVE  OnWire(wire) = {}
<1> SUFFICES ASSUME NEW b \in OnWire(wire)
             PROVE  FALSE
  OBVIOUS
<1>1. b \in Ops /\ b.req \in Requests /\ OpWell(b, mem, pc, item)
  BY WireKnown
<1>2. b.op \in {"load", "count", "update", "insert", "write", "remove"}
  BY <1>1 DEF Ops
<1> QED
  BY <1>1, <1>2 DEF OpWell, Carriers, Busy, Ended

\* There is still one when another comes after all, or one goes on.
LEMMA StillOne ==
    ASSUME OneAtATime(pc), NEW r \in Requests,
           \A q \in Requests : q # r => pc'[q] = pc[q],
           Busy(pc'[r]) => Busy(pc[r]) \/ \A q \in Requests : q # r => ~ Busy(pc[q])
    PROVE  OneAtATime(pc')
<1> SUFFICES ASSUME NEW p \in Requests, NEW q \in Requests, Busy(pc'[p]), Busy(pc'[q]), p # q
             PROVE  FALSE
  BY DEF OneAtATime
<1> QED
  BY DEF OneAtATime

\* A request comes to an empty wire.
LEMMA ArriveIs ==
    ASSUME PlacesInv, "serial" \in granted, NEW r \in Requests, Arrive(r)
    PROVE  /\ OnWire(wire) = {}
           /\ UNCHANGED <<db, mem, stored, granted>>
           /\ \A q \in Requests : q # r => pc'[q] = pc[q] /\ ~ Busy(pc[q])
           /\ pc'[r] \in {"waiting", "loading", "saving", "deleting"}
           /\ \/ wire' = wire
              \/ \E l \in Ops :
                     /\ wire' = Append(wire, l)
                     /\ l.op = "load" /\ l.req = r /\ l.at = target'[r]
                     /\ pc'[r] = "saving" /\ "fresh" \in granted => held'[r].npos = db[l.at].npos
<1>1. /\ held \in [Requests -> Records] /\ pc \in [Requests -> Phases]
      /\ target \in [Requests -> Docs \cup {NoDoc}] /\ wire \in Seq(Ops)
  BY DEF PlacesInv, TypeOK
<1>2. ASSUME MayStart(r)
      PROVE  OnWire(wire) = {} /\ \A q \in Requests : q # r => ~ Busy(pc[q])
  <2>1. pc[r] = "idle" /\ \A q \in Requests \ {r} : pc[q] \in Ended \cup {"idle"}
    BY <1>2 DEF MayStart
  <2>2. \A q \in Requests : ~ Busy(pc[q])
    BY <2>1 DEF Busy
  <2> QED
    BY <2>2, NoneYet
<1>3. CASE AppendTop(r)
  <2>1. /\ MayStart(r)
        /\ pc' = [pc EXCEPT ![r] = "waiting"]
        /\ wire' = wire /\ mem' = mem
        /\ UNCHANGED <<db, stored, granted>>
    BY <1>3 DEF AppendTop, StartItem, Present
  <2> QED
    BY <1>1, <1>2, <2>1
<1>4. ASSUME NEW d \in Docs, MayStart(r), NEW phase \in {"loading", "saving", "deleting"},
             pc' = [pc EXCEPT ![r] = phase],
             target' = [target EXCEPT ![r] = d],
             wire' = Load(r, d),
             phase = "saving" /\ "fresh" \in granted => held'[r].npos = db[d].npos,
             UNCHANGED <<db, mem, stored, granted>>
      PROVE  /\ OnWire(wire) = {}
             /\ UNCHANGED <<db, mem, stored, granted>>
             /\ \A q \in Requests : q # r => pc'[q] = pc[q] /\ ~ Busy(pc[q])
             /\ pc'[r] \in {"waiting", "loading", "saving", "deleting"}
             /\ \E l \in Ops :
                    /\ wire' = Append(wire, l)
                    /\ l.op = "load" /\ l.req = r /\ l.at = target'[r]
                    /\ pc'[r] = "saving" /\ "fresh" \in granted =>
                           held'[r].npos = db[l.at].npos
  <2>1. PICK l : l = Op("load", r, d, Absent, NoDoc)
    OBVIOUS
  <2>2. l \in Ops /\ l.op = "load" /\ l.req = r /\ l.at = d
    BY <2>1, AbsentIs DEF Op, Ops
  <2>3. wire' = Append(wire, l)
    BY <1>4, <2>1 DEF Load
  <2>4. target'[r] = d /\ pc'[r] = phase /\ \A q \in Requests : q # r => pc'[q] = pc[q]
    BY <1>1, <1>4
  <2> QED
    BY <1>2, <1>4, <2>2, <2>3, <2>4
<1>5. CASE \E d \in Docs : AppendTo(r, d) \/ Save(r, d) \/ Delete(r, d)
  <2>1. PICK d \in Docs : AppendTo(r, d) \/ Save(r, d) \/ Delete(r, d)
    BY <1>5
  <2>2. CASE AppendTo(r, d)
    BY <1>4, <2>2 DEF AppendTo
  <2>3. CASE Save(r, d)
    <3>1. PICK n \in 0..db[d].npos :
              /\ "fresh" \in granted => n = db[d].npos
              /\ held' = [held EXCEPT ![r].npos = n]
      BY <2>3 DEF Save
    <3>2. held'[r].npos = n
      BY <1>1, <3>1 DEF Records
    <3> QED
      BY <1>4, <2>3, <3>1, <3>2 DEF Save
  <2>4. CASE Delete(r, d)
    BY <1>4, <2>4 DEF Delete
  <2> QED
    BY <2>1, <2>2, <2>3, <2>4
<1> QED
  BY <1>3, <1>5 DEF Arrive

\* An item starts when the wire is empty.
LEMMA StartAlone ==
    ASSUME PlacesInv, NEW r \in Requests, NEW n \in DOMAIN Items[r],
           NEW W \in Seq(Ops), OnWire(W) = {}, NEW at, NEW parent \in Records,
           StartItem(r, n, at, parent, W), NEW d, d = Items[r][n]
    PROVE  /\ d \in Docs
           /\ \A q \in Requests : q # r => pc'[q] = pc[q] /\ held'[q] = held[q]
           /\ \/ /\ pc'[r] = "waiting" /\ mem' = mem /\ OnWire(wire') = {}
              \/ /\ parent # Absent /\ parent.npos \in Nat
                 /\ pc'[r] = "appending" /\ held'[r].npos = parent.npos + 1
                 /\ mem'[d].portal = Append(parent.portal, parent.npos + 1)
                 /\ mem'[d].parent = at
                 /\ \A x \in Docs : x # d => mem'[x] = mem[x]
                 /\ \E u : /\ OnWire(wire') = {u}
                           /\ u.op = "update" /\ u.at = at /\ u.doc = d
                           /\ u.rec.npos = parent.npos + 1
<1>1. PICK counted : counted = Claim(parent)
  OBVIOUS
<1>2. TypeOK
  BY Known
<1>3. /\ d \in Docs
      /\ \A q \in Requests : q # r =>
             item'[q] = item[q] /\ pc'[q] = pc[q] /\ held'[q] = held[q]
      /\ counted.npos = parent.npos + 1 /\ parent.npos \in Nat
      /\ \/ /\ parent = Absent
            /\ pc'[r] = "waiting" /\ held'[r] = Absent
            /\ mem' = mem /\ wire' = W
         \/ /\ parent # Absent
            /\ pc'[r] = "appending" /\ held'[r] = counted
            /\ mem'[d] = [portal |-> Append(parent.portal, parent.npos + 1),
                          parent |-> at, npos |-> 0]
            /\ mem'[d] # Absent
            /\ \A x \in Docs : x # d => mem'[x] = mem[x]
            /\ wire' = Append(W, [op |-> "update", req |-> r, at |-> at,
                                  rec |-> counted, doc |-> d])
  BY <1>1, <1>2, StartItemIs
<1>4. CASE /\ parent # Absent
           /\ pc'[r] = "appending" /\ held'[r] = counted
           /\ mem'[d] = [portal |-> Append(parent.portal, parent.npos + 1),
                         parent |-> at, npos |-> 0]
           /\ mem'[d] # Absent
           /\ \A x \in Docs : x # d => mem'[x] = mem[x]
           /\ wire' = Append(W, [op |-> "update", req |-> r, at |-> at,
                                 rec |-> counted, doc |-> d])
  <2>1. PICK u : u = [op |-> "update", req |-> r, at |-> at, rec |-> counted, doc |-> d]
    OBVIOUS
  <2>2. u.op = "update" /\ u.at = at /\ u.doc = d /\ u.rec = counted
    BY <2>1
  <2>3. wire' = Append(W, u)
    BY <1>4, <2>1
  <2>4. OnWire(wire') = {u}
    BY <2>3, AppendWire
  <2>5. /\ mem'[d].portal = Append(parent.portal, parent.npos + 1)
        /\ mem'[d].parent = at
    BY <1>4
  <2> QED
    BY <1>3, <1>4, <2>2, <2>4, <2>5
<1> QED
  BY <1>3, <1>4

\* A target is looked up: its load was all there was.
LEMMA LoadTargetIs ==
    ASSUME PlacesInv, BodyInv, OneAtATime(pc), NEW k \in DOMAIN wire, LoadTarget(k),
           NEW r, r = wire[k].req
    PROVE  /\ r \in Requests /\ IsAppend(r) /\ Busy(pc[r])
           /\ \A q \in Requests : q # r => ~ Busy(pc[q])
           /\ 1 \in DOMAIN Items[r] /\ mem[Items[r][1]] = Absent
           /\ OnWire(wire) = {wire[k]} /\ Rest(k) \in Seq(Ops) /\ OnWire(Rest(k)) = {}
           /\ target[r] \in Docs /\ db[target[r]] \in Records
           /\ StartItem(r, 1, target[r], db[target[r]], Rest(k))
           /\ UNCHANGED <<db, target, stored, granted>>
<1>1. /\ wire[k].op = "load" /\ pc[r] = "loading"
      /\ StartItem(r, 1, target[r], db[target[r]], Rest(k))
      /\ UNCHANGED <<db, target, stored, granted>>
  BY DEF LoadTarget, Does
<1>2. /\ r \in Requests /\ RequestWell(r, mem, held, target, pc, item)
      /\ Rest(k) \in Seq(Ops) /\ wire[k] \in OnWire(wire)
      /\ OnWire(Rest(k)) = OnWire(wire) \ {wire[k]}
  BY RestWire, Under
<1>3. IsAppend(r) /\ target[r] \in Docs
  BY <1>1, <1>2 DEF RequestWell
<1>4. 1 \in DOMAIN Items[r] /\ mem[Items[r][1]] = Absent
  BY <1>1, <1>2, <1>3, NotBegun
<1>5. /\ OnWire(wire) = {wire[k]} /\ Busy(pc[r])
      /\ \A q \in Requests : q # r => ~ Busy(pc[q])
  BY <1>1, <1>2, OnlyOne DEF Carriers
<1> QED
  BY <1>1, <1>2, <1>3, <1>4, <1>5, Known

\* What follows the insert of a container, when W is left of the wire.
InsertEffect(r, d, W) ==
    \/ /\ mem' = Numbered(d, mem)
       /\ wire' = W \o KidUpdates(r, d, mem)
       /\ UNCHANGED <<held, pc, item>>
    \/ wire' = W /\ UNCHANGED <<mem, held, pc, item>>
    \/ /\ OnWire(W) = {}
       /\ wire' = W
       /\ pc' = [pc EXCEPT ![r] = "done"]
       /\ UNCHANGED <<mem, held, item>>
    \/ /\ OnWire(W) = {}
       /\ item[r] + 1 \in DOMAIN Items[r]
       /\ mem[Items[r][item[r] + 1]] = Absent
       /\ held[r] \in Records
       /\ StartItem(r, item[r] + 1, target[r], held[r], W)

\* A container goes in for the first time.
LEMMA InsertOneIs ==
    ASSUME PlacesInv, BodyInv, "sound" \in granted, OneAtATime(pc),
           NEW k \in DOMAIN wire, NEW done \in Done, InsertOne(k, done),
           NEW c, c = wire[k], NEW r, r = c.req, NEW d, d = c.doc
    PROVE  /\ c \in OnWire(wire) /\ c.op = "insert" /\ r \in Requests /\ d \in Docs
           /\ IsAppend(r) /\ pc[r] = "appending"
           /\ \A q \in Requests : q # r => ~ Busy(pc[q])
           /\ \A b \in OnWire(wire) : b.op \in Carriers
           /\ \A b \in OnWire(wire) : b # c => b.doc # d
           /\ Rest(k) \in Seq(Ops) /\ OnWire(Rest(k)) = OnWire(wire) \ {c}
           /\ db[d] = Absent /\ mem[d] # Absent
           /\ db'[d] # Absent /\ db'[d].npos = 0
           /\ \A x \in Docs : x # d => db'[x] = db[x]
           /\ UNCHANGED <<target, granted>>
           /\ InsertEffect(r, d, Rest(k))
<1>1. /\ c.op = "insert" /\ done
      /\ db' = [db EXCEPT ![c.at] = c.rec]
      /\ UNCHANGED <<target, granted>>
  BY DEF InsertOne, Does, Done
<1>2. /\ c \in OnWire(wire) /\ OnWire(Rest(k)) = OnWire(wire) \ {c} /\ Rest(k) \in Seq(Ops)
      /\ r \in Requests /\ pc[r] = "appending" /\ d \in Docs /\ d = c.at
      /\ mem[d] # Absent /\ InPlace(c.rec, mem[d])
      /\ RequestWell(r, mem, held, target, pc, item)
  BY <1>1, Under, RestWire DEF OpWell, Carriers
<1>3. IsAppend(r) /\ item[r] \in DOMAIN Items[r]
  BY <1>2 DEF RequestWell
<1>4. /\ \A q \in Requests : q # r => ~ Busy(pc[q])
      /\ \A b \in OnWire(wire) : b.req = r /\ b.op \in Carriers
  BY <1>1, <1>2, OnlyOne DEF Carriers
<1>5. \A b \in OnWire(wire) : b # c => b.doc # d
  BY <1>1, <1>2, <1>4, WireKnown DEF OpsApart, Carriers
<1>6. d \notin stored /\ c.rec.npos = 0
  BY <1>1, <1>2 DEF BodyInv, BodyWell, CarrierWell, Carriers
<1>7. db[d] = Absent
  BY <1>2, <1>6 DEF BodyInv, StoredOnce
<1>8. db'[d] = c.rec /\ \A x \in Docs : x # d => db'[x] = db[x]
  BY <1>1, <1>2, Known
<1>9. c.rec # Absent
  BY <1>2, AbsentIs DEF InPlace
<1>10. ASSUME ItemIsOver(r, Rest(k))
       PROVE  OnWire(Rest(k)) = {}
  <2>1. \A a \in OnWire(Rest(k)) : a.req # r
    BY <1>10 DEF ItemIsOver, OnWire
  <2> QED
    BY <1>2, <1>4, <2>1
<1>11. ASSUME item[r] < Len(Items[r])
       PROVE  item[r] + 1 \in DOMAIN Items[r] /\ mem[Items[r][item[r] + 1]] = Absent
  <2>1. item[r] + 1 \in DOMAIN Items[r] /\ item[r] \in Nat /\ item[r] + 1 > item[r]
    BY <1>2, <1>3, <1>11, BodiesAre
  <2> QED
    BY <1>2, <1>3, <2>1 DEF RequestWell, Unbegun
<1>12. held[r] \in Records
  BY <1>2, Known DEF TypeOK
<1>13. \/ /\ mem' = Numbered(d, mem)
          /\ wire' = Rest(k) \o KidUpdates(r, d, mem)
          /\ UNCHANGED <<held, pc, item>>
       \/ wire' = Rest(k) /\ UNCHANGED <<mem, held, pc, item>>
       \/ /\ ItemIsOver(r, Rest(k))
          /\ wire' = Rest(k)
          /\ pc' = [pc EXCEPT ![r] = "done"]
          /\ UNCHANGED <<mem, held, item>>
       \/ /\ ItemIsOver(r, Rest(k))
          /\ item[r] < Len(Items[r])
          /\ StartItem(r, item[r] + 1, target[r], held[r], Rest(k))
  <2> DEFINE q == wire[k].req
             x == wire[k].at
  <2>1. d = x /\ r = q
    BY <1>2
  <2>2. \/ /\ mem' = Numbered(x, mem)
           /\ wire' = Rest(k) \o KidUpdates(q, x, mem)
           /\ UNCHANGED <<held, pc, item>>
        \/ wire' = Rest(k) /\ UNCHANGED <<mem, held, pc, item>>
        \/ /\ ItemIsOver(q, Rest(k))
           /\ wire' = Rest(k)
           /\ pc' = [pc EXCEPT ![q] = "done"]
           /\ UNCHANGED <<mem, held, item>>
        \/ /\ ItemIsOver(q, Rest(k))
           /\ item[q] < Len(Items[q])
           /\ StartItem(q, item[q] + 1, target[q], held[q], Rest(k))
    BY DEF InsertOne, Numbered, KidUpdates, Turn
  <2> QED
    BY <2>1, <2>2
<1>14. /\ db'[d] # Absent /\ db'[d].npos = 0
  BY <1>6, <1>8, <1>9
<1>15. InsertEffect(r, d, Rest(k))
  BY <1>10, <1>11, <1>12, <1>13 DEF InsertEffect
<1> QED
  BY <1>1, <1>2, <1>3, <1>4, <1>5, <1>7, <1>8, <1>14, <1>15

\* What is written is there, and stays where it is.
LEMMA WrittenIs ==
    ASSUME PlacesInv, NEW c \in OnWire(wire), c.op \in {"update", "write"},
           db' = Written(c.at, c.rec)
    PROVE  /\ c.at \in Docs
           /\ db[c.at] # Absent => db'[c.at] = c.rec
           /\ \A x \in Docs : x # c.at => db'[x] = db[x]
           /\ \A x \in Docs : db'[x] # Absent <=> db[x] # Absent
<1>1. c.at \in Docs /\ InPlace(c.rec, mem[c.at])
  BY WireKnown DEF OpWell
<1>2. c.rec # Absent
  BY <1>1, AbsentIs DEF InPlace
<1>3. CASE db[c.at] # Absent
  <2>1. db' = [db EXCEPT ![c.at] = c.rec]
    BY <1>3 DEF Written, Present
  <2> QED
    BY <1>1, <1>2, <1>3, <2>1, Known
<1>4. CASE db[c.at] = Absent
  <2>1. db' = db
    BY <1>4 DEF Written, Present
  <2> QED
    BY <1>1, <1>4, <2>1
<1> QED
  BY <1>3, <1>4

\* The update of a parent, and what follows.
LEMMA UpdateParentIs ==
    ASSUME PlacesInv, BodyInv, "sound" \in granted, OneAtATime(pc),
           NEW k \in DOMAIN wire, NEW done \in Done, UpdateParent(k, done),
           NEW c, c = wire[k]
    PROVE  /\ c \in OnWire(wire) /\ c.op = "update" /\ c.doc \in Docs /\ c.at \in Docs
           /\ db' = Written(c.at, c.rec)
           /\ mem[c.doc].portal = Append(c.rec.portal, c.rec.npos)
           /\ mem[c.doc].parent = c.at
           /\ c.rec.portal \in Seq(Nat \ {0}) /\ c.rec.npos \in Nat \ {0}
           /\ \A b \in OnWire(wire) : b.op \in Carriers
           /\ Rest(k) \in Seq(Ops)
           /\ \E i \in Ops : /\ i.op = "insert" /\ i.doc = c.doc
                             /\ wire' = Append(Rest(k), i)
                             /\ OnWire(wire') = (OnWire(wire) \ {c}) \cup {i}
           /\ UNCHANGED <<mem, held, target, pc, item, granted>>
<1>1. /\ c.op = "update" /\ done
      /\ db' = Written(c.at, c.rec)
      /\ wire' = Append(Rest(k), Insert(c.req, c.doc, mem[c.doc]))
      /\ UNCHANGED <<mem, held, target, pc, item, granted>>
  BY DEF UpdateParent, Does, Done
<1>2. /\ c.doc \in Docs /\ c.at \in Docs /\ c \in Ops /\ c.req \in Requests
      /\ Rest(k) \in Seq(Ops) /\ c \in OnWire(wire)
      /\ OnWire(Rest(k)) = OnWire(wire) \ {c}
  BY <1>1, Under, RestWire DEF OpWell, Carriers
<1>3. /\ mem[c.doc].portal = Append(c.rec.portal, c.rec.npos)
      /\ mem[c.doc].parent = c.at
      /\ c.rec.npos > 0
  BY <1>1, <1>2 DEF BodyInv, BodyWell, CarrierWell, Carriers
<1>4. c.rec.portal \in Seq(Nat \ {0}) /\ c.rec.npos \in Nat \ {0}
  BY <1>2, <1>3 DEF Ops, Records
<1>5. \A b \in OnWire(wire) : b.op \in Carriers
  BY <1>1, <1>2, OnlyOne DEF Carriers
<1>6. PICK i : i = Insert(c.req, c.doc, mem[c.doc])
  OBVIOUS
<1>7. i \in Ops /\ i.op = "insert" /\ i.doc = c.doc
  <2>1. mem[c.doc] \in Records
    BY <1>2, Known
  <2> QED
    BY <1>2, <1>6, <2>1 DEF Insert, Op, Ops
<1>8. wire' = Append(Rest(k), i) /\ OnWire(wire') = (OnWire(wire) \ {c}) \cup {i}
  BY <1>1, <1>2, <1>6, AppendWire
<1> QED
  BY <1>1, <1>2, <1>3, <1>4, <1>5, <1>7, <1>8

\* The count of the roots, and what follows.
LEMMA CountRootsIs ==
    ASSUME PlacesInv, BodyInv, "sound" \in granted, OneAtATime(pc),
           NEW k \in DOMAIN wire, NEW done \in Done, CountRoots(k, done),
           NEW c, c = wire[k], NEW d, d = c.doc
    PROVE  /\ c \in OnWire(wire) /\ c.op = "count" /\ d \in Docs /\ mem[d] = Absent
           /\ OnWire(wire) = {c} /\ c.req \in Requests /\ held[c.req] = Absent
           /\ \A q \in Requests : q # c.req => ~ Busy(pc[q])
           /\ mem'[d].portal = <<NextRootPosition>> /\ mem'[d].parent = NoDoc
           /\ \A x \in Docs : x # d => mem'[x] = mem[x]
           /\ \E i : i.op = "insert" /\ i.doc = d /\ OnWire(wire') = {i}
           /\ UNCHANGED <<db, held, target, pc, item, granted>>
<1>1. PICK rec : rec = Record(<<NextRootPosition>>, NoDoc, 0)
  OBVIOUS
<1>2. /\ c.op = "count" /\ done
      /\ mem' = [mem EXCEPT ![d] = rec]
      /\ wire' = Append(Rest(k), Insert(c.req, d, rec))
      /\ UNCHANGED <<db, held, target, pc, item, granted>>
  BY <1>1 DEF CountRoots, Does, Done
<1>3. /\ d \in Docs /\ mem[d] = Absent /\ mem \in [Docs -> Records]
      /\ Rest(k) \in Seq(Ops) /\ c \in OnWire(wire) /\ c.req \in Requests
      /\ OnWire(Rest(k)) = OnWire(wire) \ {c}
  BY <1>2, Under, Known, RestWire DEF OpWell, Carriers
<1>4. /\ \A q \in Requests : q # c.req => ~ Busy(pc[q])
      /\ \A b \in OnWire(wire) : b.req = c.req /\ b.op \in Carriers
  BY <1>2, <1>3, OnlyOne DEF Carriers
<1>5. /\ held[c.req] = Absent
      /\ \A b \in OnWire(wire) : b.op \in Carriers /\ b.req = c.req => b = c
  <2>1. CarrierWell(c, OnWire(wire), mem, held, stored)
    BY <1>2, <1>3 DEF BodyInv, BodyWell, Carriers
  <2> QED
    BY <1>2, <2>1 DEF CarrierWell
<1>6. OnWire(wire) = {c}
  BY <1>3, <1>4, <1>5
<1>7. PICK i : i = Insert(c.req, d, rec)
  OBVIOUS
<1>8. i.op = "insert" /\ i.doc = d
  BY <1>7 DEF Insert, Op
<1>9. OnWire(wire') = {i}
  <2>1. OnWire(wire') = OnWire(Rest(k)) \cup {i}
    BY <1>2, <1>3, <1>7, AppendWire
  <2> QED
    BY <1>3, <1>6, <2>1
<1>10. rec.portal = <<NextRootPosition>> /\ rec.parent = NoDoc
  BY <1>1 DEF Record
<1>11. mem'[d] = rec /\ \A x \in Docs : x # d => mem'[x] = mem[x]
  BY <1>2, <1>3
<1> QED
  BY <1>2, <1>3, <1>4, <1>5, <1>6, <1>8, <1>9, <1>10, <1>11

-----------------------------------------------------------------------------
(* Links, one request at a time and without failures.                        *)

\* What is stored has a place, and parents are containers or none.
LEMMA StoredHasPlace ==
    ASSUME PlacesInv
    PROVE  \A x \in Docs : /\ db[x] # Absent => mem[x] # Absent
                           /\ mem[x].parent \in Docs \cup {NoDoc}
<1>1. StoredWell(db, mem) /\ mem \in [Docs -> Records]
  BY Known
<1> QED
  BY <1>1, AbsentIs DEF StoredWell, InPlace, Records

\* A step that stores nothing and brings nothing new.
LEMMA LinkedQuiet ==
    ASSUME NEW O, NEW D, NEW M, NEW H, NEW T, NEW P, Linked(O, D, M, H, T, P),
           NEW O2, NEW D2, NEW H2, NEW T2, NEW P2,
           \A x \in Docs : M[x].parent \in Docs \cup {NoDoc},
           \A x \in Docs : D2[x] # Absent <=> D[x] # Absent,
           \A a \in O2 : a.op \in {"update", "insert"} =>
               a.doc \in Docs /\ \E b \in O : b.op \in {"update", "insert"} /\ b.doc = a.doc,
           \A r \in Requests : IsAppend(r) /\ P2[r] = "appending" /\ H2[r] # Absent =>
               /\ T2[r] \in Docs
               /\ P[r] = "appending" /\ H2[r] = H[r] /\ T2[r] = T[r]
    PROVE  Linked(O2, D2, M, H2, T2, P2)
<1>1. \A x \in Docs : Rooted(M[x].parent, D) => Rooted(M[x].parent, D2)
  BY DEF Rooted
<1> QED
  BY <1>1 DEF Linked

\* A request comes.
LEMMA ArriveLinked ==
    ASSUME PlacesInv, BodyInv, "serial" \in granted, OneAtATime(pc),
           Linked(OnWire(wire), db, mem, held, target, pc),
           NEW r \in Requests, Arrive(r)
    PROVE  OneAtATime(pc') /\ Linked(OnWire(wire'), db', mem', held', target', pc')
<1>1. /\ OnWire(wire) = {}
      /\ UNCHANGED <<db, mem>>
      /\ \A q \in Requests : q # r => pc'[q] = pc[q] /\ ~ Busy(pc[q])
      /\ pc'[r] \in {"waiting", "loading", "saving", "deleting"}
      /\ \/ wire' = wire
         \/ \E l \in Ops : wire' = Append(wire, l) /\ l.op = "load"
  BY ArriveIs
<1>2. \A q \in Requests : pc'[q] # "appending"
  BY <1>1 DEF Busy, Ended
<1>3. \A a \in OnWire(wire') : a.op \notin {"update", "insert"}
  <2>1. ASSUME NEW l \in Ops, wire' = Append(wire, l), l.op = "load"
        PROVE  \A a \in OnWire(wire') : a.op \notin {"update", "insert"}
    <3>1. OnWire(wire') = {l}
      BY <1>1, <2>1, Known, AppendWire
    <3> QED
      BY <2>1, <3>1
  <2> QED
    BY <1>1, <2>1
<1>4. OneAtATime(pc')
  BY <1>1, StillOne
<1> QED
  BY <1>1, <1>2, <1>3, <1>4 DEF Linked

\* The wait is over.
LEMMA TimerIs ==
    ASSUME PlacesInv, BodyInv, OneAtATime(pc), NEW r \in Requests, Timer(r)
    PROVE  /\ OnWire(wire) = {} /\ held[r] = Absent
           /\ pc[r] = "waiting" /\ pc'[r] = "appending"
           /\ \A q \in Requests : q # r => pc'[q] = pc[q] /\ ~ Busy(pc[q])
           /\ \E c \in Ops : /\ c.op = "count" /\ OnWire(wire') = {c}
           /\ UNCHANGED <<db, mem, held, target, granted>>
<1>1. /\ pc[r] = "waiting" /\ pc' = [pc EXCEPT ![r] = "appending"]
      /\ wire' = Append(wire, Op("count", r, NoDoc, Absent, Items[r][item[r]]))
      /\ UNCHANGED <<db, mem, held, target, granted>>
  BY DEF Timer
<1>2. \A q \in Requests : q # r => ~ Busy(pc[q])
  BY <1>1 DEF OneAtATime, Busy, Ended
<1>3. OnWire(wire) = {}
  BY <1>1, <1>2, NoneYet
<1>4. IsAppend(r) /\ item[r] \in DOMAIN Items[r]
  BY <1>1, Known DEF RequestWell
<1>5. held[r] = Absent
  BY <1>1, <1>4 DEF BodyInv, BodyWell, AppendWell
<1>6. PICK c : c = Op("count", r, NoDoc, Absent, Items[r][item[r]])
  OBVIOUS
<1>7. c \in Ops /\ c.op = "count"
  BY <1>4, <1>6, BodiesAre, AbsentIs DEF Op, Ops
<1>8. OnWire(wire') = {c}
  BY <1>1, <1>3, <1>6, Known, AppendWire
<1>9. pc'[r] = "appending" /\ \A q \in Requests : q # r => pc'[q] = pc[q]
  BY <1>1, Known DEF TypeOK
<1> QED
  BY <1>1, <1>2, <1>3, <1>5, <1>7, <1>8, <1>9

\* The item that waited hangs from nothing.
LEMMA TimerLinked ==
    ASSUME PlacesInv, BodyInv, OneAtATime(pc),
           Linked(OnWire(wire), db, mem, held, target, pc),
           NEW r \in Requests, Timer(r)
    PROVE  OneAtATime(pc') /\ Linked(OnWire(wire'), db', mem', held', target', pc')
<1>1. /\ held[r] = Absent
      /\ pc[r] = "waiting" /\ pc'[r] = "appending"
      /\ \A q \in Requests : q # r => pc'[q] = pc[q] /\ ~ Busy(pc[q])
      /\ \E c \in Ops : /\ c.op = "count" /\ OnWire(wire') = {c}
      /\ UNCHANGED <<db, mem, held, target>>
  BY TimerIs
<1>2. OneAtATime(pc')
  BY <1>1, StillOne
<1>3. \A a \in OnWire(wire') : a.op \notin {"update", "insert"}
  BY <1>1
<1>4. \A q \in Requests : pc'[q] = "appending" => held'[q] = Absent
  BY <1>1 DEF Busy, Ended
<1> QED
  BY <1>1, <1>2, <1>3, <1>4 DEF Linked

\* What the operations of a save and of a delete do to the collection, and what
\* is sent next.
OtherEffect(c, r) ==
    \/ /\ c.op = "load" /\ db[c.at] # Absent /\ pc[r] = "saving"
       /\ \E w : /\ OnWire(wire') = {w}
                 /\ w.op = "write" /\ w.at = c.at
                 /\ w.rec = [db[c.at] EXCEPT
                        !.npos = IF held[r].npos = 0 THEN @ ELSE held[r].npos]
       /\ db' = db
    \/ /\ c.op = "load" /\ db[c.at] # Absent
       /\ \E w : /\ OnWire(wire') = {w}
                 /\ w.op = "remove" /\ w.at = c.at /\ w.req = r /\ w.rec = db[c.at]
       /\ db' = db
    \/ OnWire(wire') = {} /\ db' = db
    \/ /\ c.op = "write" /\ OnWire(wire') = {}
       /\ db' = Written(c.at, c.rec)
    \/ /\ c.op = "remove" /\ OnWire(wire') = {}
       /\ \A d \in Docs : db'[d] = IF Within(db[d], c.rec) THEN Absent ELSE db[d]

\* A save or a delete is the only one.
LEMMA OthersAre ==
    ASSUME PlacesInv, OneAtATime(pc), "sound" \in granted, NEW k \in DOMAIN wire,
           \/ LoadSaved(k) \/ LoadSkeleton(k) \/ LoadFails(k)
           \/ WriteSaved(k) \/ RemoveTree(k) \/ WriteFails(k),
           NEW c, c = wire[k], NEW r, r = c.req
    PROVE  /\ OnWire(wire) = {c} /\ r \in Requests /\ Busy(pc[r]) /\ c \in Ops
           /\ \A q \in Requests : q # r => pc'[q] = pc[q] /\ ~ Busy(pc[q])
           /\ pc'[r] # "appending"
           /\ UNCHANGED <<mem, held, target, granted>>
           /\ OtherEffect(c, r)
<1>1. c.op \in {"load", "write", "remove"} /\ c.op \notin Carriers
  BY DEF LoadSaved, LoadSkeleton, LoadFails, WriteSaved, RemoveTree, WriteFails, Does, Carriers
<1>2. /\ c \in OnWire(wire) /\ OnWire(Rest(k)) = OnWire(wire) \ {c} /\ Rest(k) \in Seq(Ops)
      /\ r \in Requests /\ c \in Ops
  BY Under, RestWire
<1>3. /\ OnWire(wire) = {c} /\ Busy(pc[r]) /\ \A q \in Requests : q # r => ~ Busy(pc[q])
  BY <1>1, <1>2, OnlyOne
<1>4. OnWire(Rest(k)) = {}
  BY <1>2, <1>3
<1>5. pc \in [Requests -> Phases]
  BY Known DEF TypeOK
<1>6. CASE LoadSaved(k)
  <2>1. /\ c.op = "load" /\ pc[r] = "saving" /\ UNCHANGED <<mem, held, target, granted, db>>
        /\ \/ /\ db[c.at] # Absent /\ UNCHANGED pc
              /\ wire' = Append(Rest(k), Op("write", r, c.at,
                     [db[c.at] EXCEPT !.npos = IF held[r].npos = 0 THEN @ ELSE held[r].npos],
                     NoDoc))
           \/ /\ wire' = Rest(k)
              /\ pc' = [pc EXCEPT ![r] = "failed"]
    BY <1>6 DEF LoadSaved, Does, Present
  <2>2. CASE /\ db[c.at] # Absent /\ UNCHANGED pc
             /\ wire' = Append(Rest(k), Op("write", r, c.at,
                    [db[c.at] EXCEPT !.npos = IF held[r].npos = 0 THEN @ ELSE held[r].npos],
                    NoDoc))
    <3>1. PICK rec : rec = [db[c.at] EXCEPT !.npos = IF held[r].npos = 0 THEN @ ELSE held[r].npos]
      OBVIOUS
    <3>2. PICK w : w = Op("write", r, c.at, rec, NoDoc)
      OBVIOUS
    <3>3. w.op = "write" /\ w.at = c.at /\ w.rec = rec
      BY <3>2 DEF Op
    <3>4. OnWire(wire') = {w}
      BY <1>2, <1>4, <2>2, <3>1, <3>2, AppendWire
    <3> QED
      BY <1>2, <1>3, <1>6, <2>1, <2>2, <3>1, <3>3, <3>4 DEF OtherEffect
  <2>3. CASE wire' = Rest(k) /\ pc' = [pc EXCEPT ![r] = "failed"]
    <3>1. pc'[r] = "failed" /\ \A q \in Requests : q # r => pc'[q] = pc[q]
      BY <1>2, <1>5, <2>3
    <3> QED
      BY <1>2, <1>3, <1>4, <2>1, <2>3, <3>1 DEF OtherEffect
  <2> QED
    BY <2>1, <2>2, <2>3
<1>7. CASE LoadSkeleton(k)
  <2>1. /\ c.op = "load" /\ pc[r] = "deleting" /\ UNCHANGED <<mem, held, target, granted, db>>
        /\ \/ /\ db[c.at] # Absent /\ UNCHANGED pc
              /\ wire' = Append(Rest(k), Op("remove", r, c.at, db[c.at], NoDoc))
           \/ /\ wire' = Rest(k)
              /\ pc' = [pc EXCEPT ![r] = "failed"]
    BY <1>7 DEF LoadSkeleton, Does, Present
  <2>2. CASE /\ db[c.at] # Absent /\ UNCHANGED pc
             /\ wire' = Append(Rest(k), Op("remove", r, c.at, db[c.at], NoDoc))
    <3>1. PICK rec : rec = db[c.at]
      OBVIOUS
    <3>2. PICK w : w = Op("remove", r, c.at, rec, NoDoc)
      OBVIOUS
    <3>3. w.op = "remove" /\ w.at = c.at /\ w.rec = rec /\ w.req = r
      BY <3>2 DEF Op
    <3>4. OnWire(wire') = {w}
      BY <1>2, <1>4, <2>2, <3>1, <3>2, AppendWire
    <3> QED
      BY <1>2, <1>3, <1>7, <2>1, <2>2, <3>1, <3>3, <3>4 DEF OtherEffect
  <2>3. CASE wire' = Rest(k) /\ pc' = [pc EXCEPT ![r] = "failed"]
    <3>1. pc'[r] = "failed" /\ \A q \in Requests : q # r => pc'[q] = pc[q]
      BY <1>2, <1>5, <2>3
    <3> QED
      BY <1>2, <1>3, <1>4, <2>1, <2>3, <3>1 DEF OtherEffect
  <2> QED
    BY <2>1, <2>2, <2>3
<1>8. CASE LoadFails(k) \/ WriteFails(k)
  BY <1>8 DEF LoadFails, WriteFails, Done
<1>9. ASSUME WriteSaved(k) \/ RemoveTree(k)
      PROVE  /\ pc'[r] = "done" /\ \A q \in Requests : q # r => pc'[q] = pc[q]
             /\ UNCHANGED <<mem, held, target, granted>>
             /\ wire' = Rest(k)
  <2>1. pc' = [pc EXCEPT ![r] = "done"]
    BY <1>9 DEF WriteSaved, RemoveTree
  <2> QED
    BY <1>2, <1>5, <1>9, <2>1 DEF WriteSaved, RemoveTree
<1>10. CASE WriteSaved(k)
  <2>1. c.op = "write" /\ db' = Written(c.at, c.rec)
    BY <1>10 DEF WriteSaved, Does
  <2> QED
    BY <1>2, <1>3, <1>4, <1>9, <1>10, <2>1 DEF OtherEffect
<1>11. CASE RemoveTree(k)
  <2>1. /\ c.op = "remove"
        /\ \A d \in Docs : db'[d] = IF Within(db[d], c.rec) THEN Absent ELSE db[d]
    BY <1>11 DEF RemoveTree, Does
  <2> QED
    BY <1>2, <1>3, <1>4, <1>9, <1>11, <2>1 DEF OtherEffect
<1> QED
  BY <1>6, <1>7, <1>8, <1>10, <1>11

\* What is below the front of a place is below the place.
LEMMA PrefixOfFront ==
    ASSUME NEW s \in Seq(Nat \ {0}), NEW t \in Seq(Nat \ {0}), Len(t) > 1
    PROVE  /\ IsPrefix(s, Front(t)) => IsPrefix(s, t)
           /\ IsPrefix(s, t) /\ s # t => IsPrefix(s, Front(t))
           /\ Len(Front(t)) < Len(t) /\ Len(Front(t)) \in Nat /\ Front(t) \in Seq(Nat \ {0})
<1>1. /\ Len(s) \in Nat /\ Len(t) \in Nat
      /\ DOMAIN s = 1..Len(s) /\ DOMAIN t = 1..Len(t)
  OBVIOUS
<1>2. PICK f : f = Front(t)
  OBVIOUS
<1>3. f \in Seq(Nat \ {0}) /\ Len(f) = Len(t) - 1 /\ \A j \in 1..(Len(t) - 1) : f[j] = t[j]
  BY <1>1, <1>2, SubSeqProperties DEF Front
<1>n. Len(s) \in Nat /\ Len(t) \in Nat /\ Len(f) = Len(t) - 1
  BY <1>1, <1>3
<1>4. ASSUME NEW u \in Seq(Nat \ {0})
      PROVE  IsPrefix(s, u) <=> Len(s) <= Len(u) /\ \A j \in 1..Len(s) : s[j] = u[j]
  <2>1. Len(u) \in Nat
    OBVIOUS
  <2>2. ASSUME Len(s) <= Len(u)
        PROVE  SubSeq(s, 1, Len(s)) = SubSeq(u, 1, Len(s)) <=> \A j \in 1..Len(s) : s[j] = u[j]
    <3>1. PICK a, b : a = SubSeq(s, 1, Len(s)) /\ b = SubSeq(u, 1, Len(s))
      OBVIOUS
    <3>2. /\ a \in Seq(Nat \ {0}) /\ Len(a) = Len(s) /\ \A j \in 1..Len(s) : a[j] = s[j]
          /\ b \in Seq(Nat \ {0}) /\ Len(b) = Len(s) /\ \A j \in 1..Len(s) : b[j] = u[j]
      BY <1>1, <2>1, <2>2, <3>1, SubSeqProperties
    <3>3. a = b <=> \A j \in 1..Len(s) : a[j] = b[j]
      BY <3>2, SeqEqual
    <3> QED
      BY <3>1, <3>2, <3>3
  <2> QED
    BY <2>2 DEF IsPrefix
<1>5. ASSUME IsPrefix(s, f)
      PROVE  IsPrefix(s, t)
  <2>1. Len(s) <= Len(f) /\ \A j \in 1..Len(s) : s[j] = f[j]
    BY <1>3, <1>4, <1>5
  <2>2. Len(s) <= Len(t) /\ \A j \in 1..Len(s) : j \in 1..(Len(t) - 1)
    <3>0. Len(s) <= Len(f)
      BY <2>1
    <3>1. PICK ls, lt, lf : /\ ls \in Nat /\ lt \in Nat /\ lf = lt - 1 /\ ls <= lf
                            /\ ls = Len(s) /\ lt = Len(t) /\ lf = Len(f)
      BY <1>n, <3>0
    <3>2. ls <= lt /\ \A j \in 1..ls : j \in 1..(lt - 1)
      BY <3>1
    <3> QED
      BY <3>1, <3>2
  <2>3. \A j \in 1..Len(s) : s[j] = t[j]
    BY <1>3, <2>1, <2>2, Zenon
  <2> QED
    BY <1>4, <2>2, <2>3
<1>6. ASSUME IsPrefix(s, t), s # t
      PROVE  IsPrefix(s, f)
  <2>1. Len(s) <= Len(t) /\ \A j \in 1..Len(s) : s[j] = t[j]
    BY <1>4, <1>6
  <2>2. Len(s) # Len(t)
    BY <1>6, <2>1, SeqEqual
  <2>3. Len(s) <= Len(f) /\ \A j \in 1..Len(s) : j \in 1..(Len(t) - 1)
    <3>0. Len(s) <= Len(t)
      BY <2>1
    <3>1. PICK ls, lt, lf : /\ ls \in Nat /\ lt \in Nat /\ lf = lt - 1 /\ ls <= lt /\ ls # lt
                            /\ ls = Len(s) /\ lt = Len(t) /\ lf = Len(f)
      BY <1>n, <2>2, <3>0
    <3>2. ls <= lf /\ \A j \in 1..ls : j \in 1..(lt - 1)
      BY <3>1
    <3> QED
      BY <3>1, <3>2
  <2>4. \A j \in 1..Len(s) : s[j] = f[j]
    BY <1>3, <2>1, <2>3, Zenon
  <2> QED
    BY <1>3, <1>4, <2>3, <2>4
<1> QED
  BY <1>1, <1>2, <1>3, <1>5, <1>6

\* Where a container hangs from, in the collection.
LEMMA HangsFrom ==
    ASSUME PlacesInv, NEW x \in Docs, db[x] # Absent, NEW p, p = mem[x].parent
    PROVE  /\ db[x].portal = mem[x].portal /\ db[x].parent = p /\ db[x] \in Records
           /\ p \in Docs \cup {NoDoc}
           /\ p = NoDoc => Len(mem[x].portal) = 1
           /\ p # NoDoc /\ db[p] # Absent =>
                  Len(mem[x].portal) > 1 /\ Front(mem[x].portal) = mem[p].portal
                  /\ mem[p].portal = db[p].portal
<1>1. StoredWell(db, mem) /\ MemoryWell(mem) /\ db \in [Docs -> Records]
  BY Known
<1>2. mem[x] # Absent /\ p \in Docs \cup {NoDoc}
  BY StoredHasPlace
<1>3. LinkWell(mem[x], mem)
  BY <1>1, <1>2 DEF MemoryWell
<1> QED
  BY <1>1, <1>2, <1>3 DEF StoredWell, InPlace, LinkWell

\* A delete takes all that hangs from what it takes.
LEMMA RemoveLinked ==
    ASSUME PlacesInv, NEW rec \in Records,
           \A x \in Docs : db[x] # Absent => Rooted(mem[x].parent, db),
           NEW D, \A d \in Docs : D[d] = IF Within(db[d], rec) THEN Absent ELSE db[d]
    PROVE  \A x \in Docs : D[x] # Absent => Rooted(mem[x].parent, D)
<1> SUFFICES ASSUME NEW x \in Docs, D[x] # Absent, mem[x].parent # NoDoc
             PROVE  D[mem[x].parent] # Absent
  BY DEF Rooted
<1>1. PICK p : p = mem[x].parent
  OBVIOUS
<1>2. db[x] # Absent /\ D[x] = db[x] /\ ~ Within(db[x], rec)
  OBVIOUS
<1>3. p \in Docs /\ db[p] # Absent
  BY <1>1, <1>2, HangsFrom DEF Rooted
<1>4. /\ db[x].portal = mem[x].portal /\ Len(mem[x].portal) > 1
      /\ Front(mem[x].portal) = db[p].portal
  BY <1>1, <1>2, <1>3, HangsFrom
<1>5. ~ Within(db[p], rec)
  <2>1. ~ IsPrefix(rec.portal, db[x].portal)
    BY <1>2 DEF Within, Present
  <2>2. rec.portal \in Seq(Nat \ {0}) /\ mem[x].portal \in Seq(Nat \ {0})
    BY Known DEF Records
  <2>3. ~ IsPrefix(rec.portal, Front(mem[x].portal))
    BY <1>4, <2>1, <2>2, PrefixOfFront
  <2> QED
    BY <1>4, <2>3 DEF Within
<1>6. D[p] = db[p]
  BY <1>3, <1>5
<1> QED
  BY <1>1, <1>3, <1>6

\* Saves and deletes.
LEMMA OthersLinked ==
    ASSUME PlacesInv, BodyInv, "sound" \in granted, OneAtATime(pc),
           Linked(OnWire(wire), db, mem, held, target, pc), NEW k \in DOMAIN wire,
           \/ LoadSaved(k) \/ LoadSkeleton(k) \/ LoadFails(k)
           \/ WriteSaved(k) \/ RemoveTree(k) \/ WriteFails(k)
    PROVE  OneAtATime(pc') /\ Linked(OnWire(wire'), db', mem', held', target', pc')
<1>1. PICK c, r : c = wire[k] /\ r = c.req
  OBVIOUS
<1>2. /\ OnWire(wire) = {c} /\ r \in Requests /\ Busy(pc[r]) /\ c \in Ops
      /\ \A q \in Requests : q # r => pc'[q] = pc[q] /\ ~ Busy(pc[q])
      /\ pc'[r] # "appending"
      /\ UNCHANGED <<mem, held, target>>
      /\ OtherEffect(c, r)
  BY <1>1, OthersAre
<1>e. \/ db' = db
      \/ c.op = "write" /\ db' = Written(c.at, c.rec)
      \/ \A d \in Docs : db'[d] = IF Within(db[d], c.rec) THEN Absent ELSE db[d]
  BY <1>2 DEF OtherEffect
<1>3. OneAtATime(pc')
  BY <1>2, StillOne
<1>4. \A q \in Requests : pc'[q] # "appending"
  BY <1>2 DEF Busy, Ended
<1>5. \A a \in OnWire(wire') : a.op \notin {"update", "insert"}
  BY <1>2 DEF OtherEffect
<1>6. \A x \in Docs : mem[x].parent \in Docs \cup {NoDoc}
  BY StoredHasPlace
<1>7. \A x \in Docs : db'[x] # Absent => Rooted(mem[x].parent, db')
  <2>0. \A x \in Docs : db[x] # Absent => Rooted(mem[x].parent, db)
    BY DEF Linked
  <2>1. CASE db' = db
    BY <2>0, <2>1
  <2>2. CASE c.op = "write" /\ db' = Written(c.at, c.rec)
    <3>1. \A x \in Docs : db'[x] # Absent <=> db[x] # Absent
      BY <1>2, <2>2, WrittenIs
    <3> QED
      BY <1>6, <2>0, <3>1 DEF Rooted
  <2>3. CASE \A d \in Docs : db'[d] = IF Within(db[d], c.rec) THEN Absent ELSE db[d]
    <3>1. c.rec \in Records
      BY <1>2 DEF Ops
    <3>2. PICK D, rec : D = db' /\ rec = c.rec
      OBVIOUS
    <3>3. \A x \in Docs : D[x] # Absent => Rooted(mem[x].parent, D)
      BY <2>0, <2>3, <3>1, <3>2, RemoveLinked
    <3> QED
      BY <3>2, <3>3
  <2> QED
    BY <1>e, <2>1, <2>2, <2>3
<1> QED
  BY <1>2, <1>3, <1>4, <1>5, <1>7 DEF Linked

\* An item that starts hangs from what its request is addressed to.
LEMMA StartLinked ==
    ASSUME PlacesInv, NEW D,
           \A x \in Docs : D[x] # Absent => mem[x] # Absent /\ Rooted(mem[x].parent, D),
           NEW r \in Requests, NEW n \in DOMAIN Items[r], mem[Items[r][n]] = Absent,
           \A q \in Requests : q # r => ~ Busy(pc[q]),
           NEW W \in Seq(Ops), OnWire(W) = {}, NEW at, NEW parent \in Records,
           parent # Absent => at \in Docs /\ D[at] # Absent /\ target'[r] = at,
           StartItem(r, n, at, parent, W)
    PROVE  Linked(OnWire(wire'), D, mem', held', target', pc')
<1>1. PICK d : d = Items[r][n]
  OBVIOUS
<1>2. /\ d \in Docs
      /\ \A q \in Requests : q # r => pc'[q] = pc[q]
      /\ \/ pc'[r] = "waiting" /\ mem' = mem /\ OnWire(wire') = {}
         \/ /\ parent # Absent
            /\ mem'[d].parent = at
            /\ \A x \in Docs : x # d => mem'[x] = mem[x]
            /\ \E u : OnWire(wire') = {u} /\ u.doc = d
  BY <1>1, StartAlone
<1>3. \A q \in Requests : q # r => pc'[q] # "appending"
  BY <1>2 DEF Busy, Ended
<1>4. CASE pc'[r] = "waiting" /\ mem' = mem /\ OnWire(wire') = {}
  BY <1>3, <1>4 DEF Linked
<1>5. CASE /\ parent # Absent
           /\ mem'[d].parent = at
           /\ \A x \in Docs : x # d => mem'[x] = mem[x]
           /\ \E u : OnWire(wire') = {u} /\ u.doc = d
  <2>1. D[d] = Absent
    BY <1>1, <1>2
  <2>2. \A x \in Docs : D[x] # Absent => Rooted(mem'[x].parent, D)
    BY <1>5, <2>1
  <2>3. \A a \in OnWire(wire') : Rooted(mem'[a.doc].parent, D)
    BY <1>5 DEF Rooted
  <2>4. \A q \in Requests : pc'[q] = "appending" => D[target'[q]] # Absent
    BY <1>3, <1>5
  <2> QED
    BY <2>2, <2>3, <2>4 DEF Linked
<1> QED
  BY <1>2, <1>4, <1>5

\* An append finds its target, or goes on at the top.
LEMMA LoadTargetLinked ==
    ASSUME PlacesInv, BodyInv, OneAtATime(pc),
           Linked(OnWire(wire), db, mem, held, target, pc), NEW k \in DOMAIN wire, LoadTarget(k)
    PROVE  OneAtATime(pc') /\ Linked(OnWire(wire'), db', mem', held', target', pc')
<1>1. PICK r, W : r = wire[k].req /\ W = Rest(k)
  OBVIOUS
<1>2. /\ r \in Requests /\ IsAppend(r) /\ Busy(pc[r])
      /\ \A q \in Requests : q # r => ~ Busy(pc[q])
      /\ 1 \in DOMAIN Items[r] /\ mem[Items[r][1]] = Absent
      /\ W \in Seq(Ops) /\ OnWire(W) = {}
      /\ target[r] \in Docs /\ db[target[r]] \in Records
      /\ StartItem(r, 1, target[r], db[target[r]], W)
      /\ UNCHANGED <<db, target, stored, granted>>
  BY <1>1, LoadTargetIs
<1>3. \A q \in Requests : q # r => pc'[q] = pc[q]
  BY <1>2, StartAlone
<1>4. OneAtATime(pc')
  BY <1>2, <1>3, StillOne
<1>5. \A x \in Docs : db[x] # Absent => mem[x] # Absent /\ Rooted(mem[x].parent, db)
  BY StoredHasPlace DEF Linked
<1>6. PICK at, parent : at = target[r] /\ parent = db[at]
  OBVIOUS
<1>7. /\ parent \in Records /\ StartItem(r, 1, at, parent, W)
      /\ parent # Absent => at \in Docs /\ db[at] # Absent /\ target'[r] = at
  BY <1>2, <1>6
<1>8. Linked(OnWire(wire'), db, mem', held', target', pc')
  BY <1>2, <1>5, <1>7, StartLinked
<1> QED
  BY <1>2, <1>4, <1>8

\* A root hangs from nothing.
LEMMA CountRootsLinked ==
    ASSUME PlacesInv, BodyInv, "sound" \in granted, OneAtATime(pc),
           Linked(OnWire(wire), db, mem, held, target, pc),
           NEW k \in DOMAIN wire, NEW done \in Done, CountRoots(k, done)
    PROVE  OneAtATime(pc') /\ Linked(OnWire(wire'), db', mem', held', target', pc')
<1>1. PICK c, d : c = wire[k] /\ d = c.doc
  OBVIOUS
<1>2. /\ d \in Docs /\ mem[d] = Absent /\ mem'[d].parent = NoDoc
      /\ \A x \in Docs : x # d => mem'[x] = mem[x]
      /\ \E i : i.op = "insert" /\ i.doc = d /\ OnWire(wire') = {i}
      /\ UNCHANGED <<db, held, target, pc, item, granted>>
  BY <1>1, CountRootsIs
<1>3. \A x \in Docs : db[x] # Absent => x # d
  BY <1>2, StoredHasPlace
<1>4. \A x \in Docs : db[x] # Absent => Rooted(mem'[x].parent, db)
  BY <1>2, <1>3 DEF Linked
<1>5. \A a \in OnWire(wire') : Rooted(mem'[a.doc].parent, db)
  BY <1>2 DEF Rooted
<1> QED
  BY <1>2, <1>4, <1>5 DEF Linked

\* Its parent was written: the container is next.
LEMMA UpdateParentLinked ==
    ASSUME PlacesInv, BodyInv, "sound" \in granted, OneAtATime(pc),
           Linked(OnWire(wire), db, mem, held, target, pc),
           NEW k \in DOMAIN wire, NEW done \in Done, UpdateParent(k, done)
    PROVE  OneAtATime(pc') /\ Linked(OnWire(wire'), db', mem', held', target', pc')
<1>1. PICK c : c = wire[k]
  OBVIOUS
<1>2. /\ c \in OnWire(wire) /\ c.op = "update" /\ c.doc \in Docs
      /\ db' = Written(c.at, c.rec)
      /\ \E i \in Ops : /\ i.op = "insert" /\ i.doc = c.doc
                        /\ OnWire(wire') = (OnWire(wire) \ {c}) \cup {i}
      /\ UNCHANGED <<mem, held, target, pc, item, granted>>
  BY <1>1, UpdateParentIs
<1>3. \A x \in Docs : db'[x] # Absent <=> db[x] # Absent
  BY <1>2, WrittenIs
<1>4. \A a \in OnWire(wire') : a.op \in {"update", "insert"} =>
          a.doc \in Docs /\ \E b \in OnWire(wire) : b.op \in {"update", "insert"} /\ b.doc = a.doc
  BY <1>2, WireKnown DEF Carriers
<1>5. \A q \in Requests : IsAppend(q) /\ held[q] # Absent => target[q] \in Docs
  BY Known DEF RequestWell
<1>6. \A x \in Docs : mem[x].parent \in Docs \cup {NoDoc}
  BY StoredHasPlace
<1>7. PICK O, Q, D : O = OnWire(wire) /\ Q = OnWire(wire') /\ D = db'
  OBVIOUS
<1>8. Linked(O, db, mem, held, target, pc)
  BY <1>7
<1>9. /\ \A a \in Q : a.op \in {"update", "insert"} =>
             a.doc \in Docs /\ \E b \in O : b.op \in {"update", "insert"} /\ b.doc = a.doc
      /\ \A x \in Docs : D[x] # Absent <=> db[x] # Absent
  BY <1>3, <1>4, <1>7
<1>10. Linked(Q, D, mem, held, target, pc)
  BY <1>5, <1>6, <1>8, <1>9, LinkedQuiet
<1> QED
  BY <1>2, <1>7, <1>10

\* The children of a container that goes in are sent, by the operations L.
KidsEffect(c, d, L) ==
    /\ OnWire(wire') = (OnWire(wire) \ {c}) \cup L
    /\ NumberedWell(d, mem, mem')
    /\ \A n \in DOMAIN Kids[d] : Kids[d][n] \in Docs /\ n \in Nat \ {0}
                                 /\ mem[Kids[d][n]] = Absent
    /\ \A u \in L :
           \E n \in DOMAIN Kids[d] :
               u.op = "update" /\ u.at = d /\ u.doc = Kids[d][n] /\ u.rec.npos = n
    /\ \A x \in Docs : mem[x] # Absent =>
           mem'[x].portal = mem[x].portal /\ mem'[x].parent = mem[x].parent /\ mem'[x] # Absent

\* So it is.
LEMMA KidsSentAre ==
    ASSUME PlacesInv, BodyInv, NEW c \in OnWire(wire), c.op = "insert",
           NEW r, r = c.req, NEW d, d = c.doc, NEW W \in Seq(Ops), OnWire(W) = OnWire(wire) \ {c},
           NEW V, V = KidUpdates(r, d, mem), mem' = Numbered(d, mem), wire' = W \o V
    PROVE  KidsEffect(c, d, OnWire(V))
<1>1. /\ d \in Docs /\ r \in Requests /\ mem[d] # Absent
      /\ \A n \in DOMAIN Kids[d] : mem[Kids[d][n]] = Absent
  BY WireKnown DEF OpWell, Carriers
<1>2. PICK M, N : M = mem /\ N = mem'
  OBVIOUS
<1>3. M \in [Docs -> Records] /\ MemoryWell(M) /\ N = Numbered(d, M)
  BY <1>2, Known
<1>4. M[d] # Absent /\ \A n \in DOMAIN Kids[d] : M[Kids[d][n]] = Absent
  BY <1>1, <1>2
<1>5. NumberedWell(d, M, N)
  BY <1>1, <1>3, <1>4, NumberedIs
<1>6. V = KidUpdates(r, d, M)
  BY <1>2
<1>7. /\ V \in Seq(Ops)
      /\ \A u \in OnWire(V) :
             \E n \in DOMAIN Kids[d] :
                 /\ u.op = "update" /\ u.at = d /\ u.doc = Kids[d][n]
                 /\ u.rec.npos = n
  BY <1>1, <1>3, <1>6, KidUpdatesAre
<1>8. OnWire(wire') = (OnWire(wire) \ {c}) \cup OnWire(V)
  BY <1>2, <1>7, ConcatWire
<1>9. \A n \in DOMAIN Kids[d] : Kids[d][n] \in Docs /\ n \in Nat \ {0}
  BY <1>1, BodiesAre
<1>10. \A x \in Docs : M[x] # Absent =>
           N[x].portal = M[x].portal /\ N[x].parent = M[x].parent /\ N[x] # Absent
  BY <1>4, <1>5 DEF NumberedWell, IsKid
<1> QED
  BY <1>1, <1>2, <1>5, <1>7, <1>8, <1>9, <1>10 DEF KidsEffect

\* A container goes in: its children hang from it.
LEMMA InsertOneLinked ==
    ASSUME PlacesInv, BodyInv, "sound" \in granted, OneAtATime(pc),
           Linked(OnWire(wire), db, mem, held, target, pc),
           NEW k \in DOMAIN wire, NEW done \in Done, InsertOne(k, done)
    PROVE  OneAtATime(pc') /\ Linked(OnWire(wire'), db', mem', held', target', pc')
<1>1. PICK c, r, d, W : c = wire[k] /\ r = c.req /\ d = c.doc /\ W = Rest(k)
  OBVIOUS
<1>2. /\ c \in OnWire(wire) /\ c.op = "insert" /\ r \in Requests /\ d \in Docs
      /\ IsAppend(r) /\ pc[r] = "appending"
      /\ \A q \in Requests : q # r => ~ Busy(pc[q])
      /\ W \in Seq(Ops) /\ OnWire(W) = OnWire(wire) \ {c}
      /\ db[d] = Absent /\ mem[d] # Absent
      /\ db'[d] # Absent
      /\ \A x \in Docs : x # d => db'[x] = db[x]
      /\ UNCHANGED target
  BY <1>1, InsertOneIs
<1>3. InsertEffect(r, d, W)
  BY <1>1, InsertOneIs
<1>4. PICK O, D : O = OnWire(wire) /\ D = db'
  OBVIOUS
<1>5. Linked(O, db, mem, held, target, pc)
  BY <1>4
<1>6. \A x \in Docs : db[x] # Absent => D[x] # Absent
  BY <1>2, <1>4
<1>7. \A x \in Docs : Rooted(mem[x].parent, db) => Rooted(mem[x].parent, D)
  BY <1>6, StoredHasPlace DEF Rooted
<1>8. \A x \in Docs : D[x] # Absent => mem[x] # Absent /\ Rooted(mem[x].parent, D)
  <2> SUFFICES ASSUME NEW x \in Docs, D[x] # Absent
               PROVE  mem[x] # Absent /\ Rooted(mem[x].parent, D)
    OBVIOUS
  <2>1. CASE x = d
    <3>1. Rooted(mem[d].parent, db)
      BY <1>1, <1>2, <1>4, <1>5 DEF Linked
    <3> QED
      BY <1>2, <1>7, <2>1, <3>1
  <2>2. CASE x # d
    <3>1. db[x] # Absent
      BY <1>2, <1>4, <2>2
    <3> QED
      BY <1>5, <1>7, <3>1, StoredHasPlace DEF Linked
  <2> QED
    BY <2>1, <2>2
<1>9. /\ \A q \in Requests : IsAppend(q) /\ held[q] # Absent => target[q] \in Docs
      /\ pc \in [Requests -> Phases]
  BY Known DEF RequestWell, TypeOK
<1>10. \A a \in O : a.op \in {"update", "insert"} =>
           a.doc \in Docs /\ mem[a.doc] # Absent /\ Rooted(mem[a.doc].parent, D)
  BY <1>4, <1>5, <1>7, WireKnown DEF Linked, OpWell, Carriers
<1>11. \A q \in Requests : IsAppend(q) /\ pc[q] = "appending" /\ held[q] # Absent =>
           D[target[q]] # Absent
  BY <1>5, <1>6, <1>9 DEF Linked
<1>12. CASE /\ mem' = Numbered(d, mem)
            /\ wire' = W \o KidUpdates(r, d, mem)
            /\ UNCHANGED <<held, pc, item>>
  <2>1. PICK V, L, N, Q : /\ V = KidUpdates(r, d, mem) /\ L = OnWire(V)
                          /\ N = mem' /\ Q = OnWire(wire')
    OBVIOUS
  <2>a. KidsEffect(c, d, OnWire(V))
    BY <1>1, <1>2, <1>12, <2>1, KidsSentAre
  <2>2. /\ Q = (O \ {c}) \cup L
        /\ NumberedWell(d, mem, N)
        /\ \A u \in L : \E n \in DOMAIN Kids[d] : u.doc = Kids[d][n]
        /\ \A x \in Docs : mem[x] # Absent => N[x].parent = mem[x].parent
    BY <1>4, <2>1, <2>a DEF KidsEffect
  <2>3. \A u \in L : N[u.doc].parent = d
    BY <2>2 DEF NumberedWell
  <2>4. \A a \in Q : a.op \in {"update", "insert"} => Rooted(N[a.doc].parent, D)
    <3>1. Rooted(d, D)
      BY <1>2, <1>4 DEF Rooted
    <3> QED
      BY <1>10, <2>2, <2>3, <3>1
  <2>5. \A x \in Docs : D[x] # Absent => Rooted(N[x].parent, D)
    BY <1>8, <2>2
  <2>6. Linked(Q, D, N, held, target, pc)
    BY <1>11, <2>4, <2>5 DEF Linked
  <2> QED
    BY <1>2, <1>4, <1>12, <2>1, <2>6
<1>13. CASE wire' = W /\ UNCHANGED <<mem, held, pc, item>>
  <2>1. PICK Q : Q = OnWire(W)
    OBVIOUS
  <2>2. Linked(Q, D, mem, held, target, pc)
    BY <1>2, <1>4, <1>8, <1>10, <1>11, <2>1 DEF Linked
  <2> QED
    BY <1>2, <1>4, <1>13, <2>1, <2>2
<1>14. CASE /\ OnWire(W) = {}
            /\ wire' = W
            /\ pc' = [pc EXCEPT ![r] = "done"]
            /\ UNCHANGED <<mem, held, item>>
  <2>1. pc'[r] = "done" /\ \A q \in Requests : q # r => pc'[q] = pc[q]
    BY <1>2, <1>9, <1>14
  <2>2. OneAtATime(pc')
    BY <1>2, <2>1, StillOne DEF Busy, Ended
  <2>3. Linked(OnWire(W), D, mem, held, target, pc')
    BY <1>8, <1>11, <1>14, <2>1 DEF Linked
  <2> QED
    BY <1>2, <1>4, <1>14, <2>2, <2>3
<1>15. CASE /\ OnWire(W) = {}
            /\ item[r] + 1 \in DOMAIN Items[r]
            /\ mem[Items[r][item[r] + 1]] = Absent
            /\ held[r] \in Records
            /\ StartItem(r, item[r] + 1, target[r], held[r], W)
  <2>1. PICK n, at, parent : n = item[r] + 1 /\ at = target[r] /\ parent = held[r]
    OBVIOUS
  <2>2. /\ n \in DOMAIN Items[r] /\ mem[Items[r][n]] = Absent /\ parent \in Records
        /\ StartItem(r, n, at, parent, W)
    BY <1>15, <2>1
  <2>3. parent # Absent => at \in Docs /\ D[at] # Absent /\ target'[r] = at
    BY <1>2, <1>9, <1>11, <2>1
  <2>4. Linked(OnWire(wire'), D, mem', held', target', pc')
    BY <1>2, <1>8, <1>15, <2>2, <2>3, StartLinked
  <2>5. \A q \in Requests : q # r => pc'[q] = pc[q]
    BY <1>2, <1>15, <2>2, StartAlone
  <2>6. OneAtATime(pc')
    BY <1>2, <2>5, StillOne
  <2> QED
    BY <1>4, <2>4, <2>6
<1> QED
  BY <1>3, <1>12, <1>13, <1>14, <1>15 DEF InsertEffect

\* There are no links at first.
LEMMA LinkedInit == Init => LinkedInv
<1> SUFFICES ASSUME Init
             PROVE  OneAtATime(pc) /\ Linked(OnWire(wire), db, mem, held, target, pc)
  BY DEF LinkedInv
<1>1. OnWire(wire) = {}
  BY DEF Init, OnWire
<1>2. OneAtATime(pc)
  BY DEF Init, OneAtATime, Busy
<1>3. Linked(OnWire(wire), db, mem, held, target, pc)
  BY <1>1 DEF Init, Linked
<1> QED
  BY <1>2, <1>3

\* Every step keeps them.
LEMMA LinkedStep == PlacesInv /\ BodyInv /\ LinkedInv /\ [Next]_vars => LinkedInv'
<1>1. granted' = granted
    \/ ~ [Next]_vars
  BY DEF Next, Step, Mongo, Arrive, AppendTop, AppendTo, Save, Delete, Timer, LoadTarget,
         LoadSaved, LoadSkeleton, LoadFails, CountRoots, UpdateParent, InsertOne, WriteSaved,
         RemoveTree, WriteFails, vars
<1> SUFFICES ASSUME PlacesInv, BodyInv, LinkedInv, [Next]_vars,
                    "serial" \in granted, "sound" \in granted
             PROVE  OneAtATime(pc') /\ Linked(OnWire(wire'), db', mem', held', target', pc')
  BY <1>1 DEF LinkedInv
<1>2. OneAtATime(pc) /\ Linked(OnWire(wire), db, mem, held, target, pc)
  BY DEF LinkedInv
<1>3. ASSUME NEW r \in Requests, Arrive(r)
      PROVE  OneAtATime(pc') /\ Linked(OnWire(wire'), db', mem', held', target', pc')
  BY <1>2, <1>3, ArriveLinked
<1>4. ASSUME NEW r \in Requests, Timer(r)
      PROVE  OneAtATime(pc') /\ Linked(OnWire(wire'), db', mem', held', target', pc')
  BY <1>2, <1>4, TimerLinked
<1>5. ASSUME NEW k \in DOMAIN wire, Mongo(k)
      PROVE  OneAtATime(pc') /\ Linked(OnWire(wire'), db', mem', held', target', pc')
  <2>1. CASE LoadTarget(k)
    BY <1>2, <2>1, LoadTargetLinked
  <2>2. CASE \/ LoadSaved(k) \/ LoadSkeleton(k) \/ LoadFails(k)
             \/ WriteSaved(k) \/ RemoveTree(k) \/ WriteFails(k)
    BY <1>2, <2>2, OthersLinked
  <2>3. ASSUME NEW done \in Done,
               CountRoots(k, done) \/ UpdateParent(k, done) \/ InsertOne(k, done)
        PROVE  OneAtATime(pc') /\ Linked(OnWire(wire'), db', mem', held', target', pc')
    BY <1>2, <2>3, CountRootsLinked, UpdateParentLinked, InsertOneLinked
  <2> QED
    BY <1>5, <2>1, <2>2, <2>3 DEF Mongo
<1>6. CASE UNCHANGED vars
  <2>1. UNCHANGED <<db, mem, held, target, pc, wire>>
    BY <1>6 DEF vars
  <2> QED
    BY <1>2, <2>1
<1> QED
  BY <1>3, <1>4, <1>5, <1>6 DEF Next, Step

\* One request at a time, none of whose operations fails, goes on as the third
\* invariant says.
THEOREM LinkedInvariance == Spec => []LinkedInv
<1>1. Init => LinkedInv
  BY LinkedInit
<1>2. PlacesInv /\ BodyInv /\ LinkedInv /\ [Next]_vars => LinkedInv'
  BY LinkedStep
<1> QED
  BY <1>1, <1>2, PlacesInvariance, BodyInvariance, PTL DEF Spec

\* A container that is not a root has its parent in the collection, whatever is
\* deleted, when requests come one at a time and mongo fails none of their
\* operations (append.js, delete.js).
THEOREM NoneOrphaned == Spec => []NoOrphans
<1>1. PlacesInv /\ LinkedInv => NoOrphans
  <2> SUFFICES ASSUME PlacesInv, LinkedInv, {"serial", "sound"} \subseteq granted, NEW d \in InDb
               PROVE  db[d].parent \in InDb \cup {NoDoc}
    BY DEF NoOrphans
  <2>1. d \in Docs /\ db[d] # Absent
    BY DEF InDb, Present
  <2>2. Rooted(mem[d].parent, db)
    BY <2>1 DEF LinkedInv, Linked
  <2>3. db[d].parent = mem[d].parent /\ mem[d].parent \in Docs \cup {NoDoc}
    BY <2>1, HangsFrom
  <2> QED
    BY <2>2, <2>3 DEF Rooted, InDb, Present
<1> QED
  BY <1>1, PlacesInvariance, LinkedInvariance, PTL

-----------------------------------------------------------------------------
(* Updates count up.                                                         *)

\* One update does.
LEMMA CountUpFew ==
    ASSUME NEW W,
           \A a, b \in OnWire(W) : a.op = "update" /\ b.op = "update" =>
               a = b /\ a.rec.npos \in Nat
    PROVE  CountUp(W)
<1> SUFFICES ASSUME NEW j \in DOMAIN W, NEW k \in DOMAIN W,
                    W[j].op = "update", W[k].op = "update"
             PROVE  W[j].rec.npos <= W[k].rec.npos
  BY DEF CountUp
<1>1. W[j] = W[k] /\ W[j].rec.npos \in Nat
  BY DEF OnWire
<1> QED
  BY <1>1

\* Those left do.
LEMMA CountUpRest ==
    ASSUME NEW W \in Seq(Ops), NEW k \in DOMAIN W, CountUp(W)
    PROVE  CountUp(RemoveAt(W, k))
<1> DEFINE R == RemoveAt(W, k)
           o(j) == IF j < k THEN j ELSE j + 1
<1>2. R \in Seq(Ops) /\ \A j \in DOMAIN R : o(j) \in DOMAIN W /\ o(j) # k /\ R[j] = W[o(j)]
  BY RestIs, Zenon
<1>3. \A i, j \in DOMAIN R : i < j => o(i) < o(j)
  <2>1. \A j \in DOMAIN R : j \in Nat
    BY <1>2
  <2> QED
    BY <2>1
<1> HIDE DEF R, o
<1>4. CountUp(R)
  BY <1>2, <1>3, Zenon DEF CountUp
<1> QED
  BY <1>4 DEF R

\* The first is the least.
LEMMA CountUpFirst ==
    ASSUME NEW W \in Seq(Ops), 1 \in DOMAIN W, CountUp(W), W[1].op = "update",
           NEW a \in OnWire(W), a # W[1], a.op = "update", a.at = W[1].at
    PROVE  W[1].rec.npos <= a.rec.npos
<1>1. PICK j \in DOMAIN W : a = W[j]
  BY DEF OnWire
<1>2. 1 < j
  BY <1>1
<1> QED
  BY <1>1, <1>2 DEF CountUp

\* Something else is sent.
LEMMA CountUpSent ==
    ASSUME NEW W \in Seq(Ops), NEW op, op.op # "update", CountUp(W)
    PROVE  CountUp(Append(W, op))
<1>1. PICK A : A = Append(W, op)
  OBVIOUS
<1>2. \A j \in DOMAIN A : (j \in DOMAIN W /\ A[j] = W[j]) \/ A[j] = op
  BY <1>1
<1>3. CountUp(A)
  BY <1>2, Zenon DEF CountUp
<1> QED
  BY <1>1, <1>3

\* The updates of another container are sent.
LEMMA CountUpMore ==
    ASSUME NEW W \in Seq(Ops), NEW L \in Seq(Ops), CountUp(W), CountUp(L),
           \A a \in OnWire(W), b \in OnWire(L) :
               a.op = "update" /\ b.op = "update" => a.at # b.at
    PROVE  CountUp(W \o L)
<1>1. PICK A : A = W \o L
  OBVIOUS
<1>2. PICK l \in Nat : l = Len(W)
  OBVIOUS
<1>3. A \in Seq(Ops) /\ Len(A) = l + Len(L) /\ Len(L) \in Nat
  BY <1>1, <1>2, ConcatProperties
<1>4. \A j \in DOMAIN A : \/ j \in DOMAIN W /\ A[j] = W[j] /\ j \in Nat
                          \/ j - l \in DOMAIN L /\ A[j] = L[j - l] /\ j \in Nat
  <2> SUFFICES ASSUME NEW j \in DOMAIN A
               PROVE  \/ j \in DOMAIN W /\ A[j] = W[j] /\ j \in Nat
                      \/ j - l \in DOMAIN L /\ A[j] = L[j - l] /\ j \in Nat
    OBVIOUS
  <2>1. j \in 1..(l + Len(L)) /\ j \in Nat
    BY <1>3
  <2> QED
    BY <1>1, <1>2, <1>3, <2>1, ConcatProperties
<1>5. ASSUME NEW i \in DOMAIN A, NEW j \in DOMAIN A,
             A[i].op = "update", A[j].op = "update", A[i].at = A[j].at, i < j
      PROVE  A[i].rec.npos <= A[j].rec.npos
  <2>1. CASE i \in DOMAIN W /\ A[i] = W[i] /\ j \in DOMAIN W /\ A[j] = W[j]
    BY <1>5, <2>1, Zenon DEF CountUp
  <2>2. CASE i - l \in DOMAIN L /\ A[i] = L[i - l] /\ j - l \in DOMAIN L /\ A[j] = L[j - l]
    <3>1. i - l < j - l
      BY <1>4, <1>5
    <3> QED
      BY <1>5, <2>2, <3>1, Zenon DEF CountUp
  <2>3. ~ (i \in DOMAIN W /\ A[i] = W[i] /\ j - l \in DOMAIN L /\ A[j] = L[j - l])
    BY <1>5, Zenon DEF OnWire
  <2>4. ~ (i - l \in DOMAIN L /\ A[i] = L[i - l] /\ j \in DOMAIN W /\ A[j] = W[j])
    BY <1>5, Zenon DEF OnWire
  <2> QED
    BY <1>4, <2>1, <2>2, <2>3, <2>4, Zenon
<1>6. CountUp(A)
  BY <1>5, Zenon DEF CountUp
<1> QED
  BY <1>1, <1>6

\* So do the updates that number children.
LEMMA KidUpdatesCountUp ==
    ASSUME NEW r \in Requests, NEW d \in Docs, NEW M \in [Docs -> Records]
    PROVE  CountUp(KidUpdates(r, d, M))
<1>1. PICK L : L = KidUpdates(r, d, M)
  OBVIOUS
<1>2. DOMAIN L = DOMAIN Kids[d]
  BY <1>1 DEF KidUpdates
<1>3. \A n \in DOMAIN Kids[d] : n \in Nat
  BY BodiesAre
<1>4. \A n \in DOMAIN Kids[d] : L[n].rec.npos = n
  <2> SUFFICES ASSUME NEW n \in DOMAIN Kids[d]
               PROVE  L[n].rec.npos = n
    OBVIOUS
  <2>1. PICK rec : rec = [M[d] EXCEPT !.npos = n]
    OBVIOUS
  <2>2. rec.npos = n
    BY <1>3, <2>1 DEF Records
  <2>3. L[n] = Update(r, d, rec, Kids[d][n])
    BY <1>1, <2>1 DEF KidUpdates
  <2>4. L[n].rec = rec
    BY <2>3 DEF Update, Op
  <2> QED
    BY <2>2, <2>4
<1>5. CountUp(L)
  BY <1>2, <1>3, <1>4 DEF CountUp
<1> QED
  BY <1>1, <1>5

-----------------------------------------------------------------------------
(* Counts, with everything granted.                                          *)

\* A position is a number.
LEMMA LastIs ==
    ASSUME NEW s \in Seq(Nat \ {0}), s # <<>>
    PROVE  Last(s) \in Nat \ {0}
<1>1. Len(s) \in 1..Len(s)
  OBVIOUS
<1> QED
  BY <1>1 DEF Last

\* The containers L are all that the collection D holds and more, hang from
\* what it holds, and are apart.
AllPlaced(L, M, D) ==
    /\ \A x \in L : M[x] # Absent /\ Rooted(M[x].parent, D)
    /\ \A x \in Docs : D[x] # Absent => x \in L
    /\ \A d, x \in L : d # x => M[d].portal # M[x].portal

\* A position that no child has is not the place of anything live.
LEMMA NewPlace ==
    ASSUME NEW M \in [Docs -> Records], MemoryWell(M), NEW D, NEW L \in SUBSET Docs,
           AllPlaced(L, M, D),
           NEW at \in L, NEW p \in Nat \ {0},
           \A x \in L : M[x].parent = at => Last(M[x].portal) < p
    PROVE  \A x \in L : M[x].portal # Append(M[at].portal, p)
<1> SUFFICES ASSUME NEW x \in L, M[x].portal = Append(M[at].portal, p)
             PROVE  FALSE
  OBVIOUS
<1>1. PICK s \in Seq(Nat \ {0}) : s = M[at].portal
  BY DEF Records
<1>2. s # <<>>
  BY <1>1 DEF MemoryWell, LinkWell, AllPlaced
<1>3. /\ Len(M[x].portal) = Len(s) + 1 /\ Len(s) \in Nat
      /\ Last(M[x].portal) = p /\ Front(M[x].portal) = s
  BY <1>1, LongerIs
<1>4. Len(M[x].portal) # 1
  BY <1>1, <1>2, <1>3
<1>5. PICK y : y = M[x].parent
  OBVIOUS
<1>6. y # NoDoc /\ Front(M[x].portal) = M[y].portal
  BY <1>4, <1>5 DEF MemoryWell, LinkWell, AllPlaced
<1>7. y \in Docs
  BY <1>5, <1>6 DEF Records
<1>8. y \in L
  BY <1>5, <1>6, <1>7 DEF Rooted, AllPlaced
<1>9. y = at
  BY <1>1, <1>3, <1>6, <1>8 DEF AllPlaced
<1>10. Last(M[x].portal) < p
  BY <1>5, <1>9
<1>11. p < p
  BY <1>3, <1>10
<1> QED
  BY <1>11

\* What is live has a place.
LEMMA LiveHasPlace ==
    ASSUME PlacesInv, Linked(OnWire(wire), db, mem, held, target, pc),
           NEW x \in Docs, Live(x, OnWire(wire), db)
    PROVE  /\ mem[x] # Absent /\ Rooted(mem[x].parent, db)
           /\ Last(mem[x].portal) \in Nat \ {0}
<1>1. CASE db[x] # Absent
  <2>1. mem[x] # Absent /\ Rooted(mem[x].parent, db)
    BY <1>1, StoredHasPlace DEF Linked
  <2> QED
    BY <2>1, Known, LastIs DEF Records, MemoryWell, LinkWell
<1>2. CASE Carried(x, OnWire(wire))
  <2>1. PICK a \in OnWire(wire) : a.op \in {"update", "insert"} /\ a.doc = x
    BY <1>2 DEF Carried
  <2>2. mem[x] # Absent /\ Rooted(mem[x].parent, db)
    BY <2>1, WireKnown DEF Linked, OpWell
  <2> QED
    BY <2>2, Known, LastIs DEF Records, MemoryWell, LinkWell
<1> QED
  BY <1>1, <1>2 DEF Live

\* An item that starts has a place of its own.
LEMMA StartCounted ==
    ASSUME PlacesInv, NEW D \in [Docs -> Records],
           \A x \in Docs : D[x] # Absent => mem[x] # Absent /\ Rooted(mem[x].parent, D),
           LiveApart({}, D, mem),
           \A x \in Docs : D[x] # Absent /\ mem[x].parent # NoDoc =>
               Last(mem[x].portal) <= D[mem[x].parent].npos,
           NEW r \in Requests, NEW n \in DOMAIN Items[r], mem[Items[r][n]] = Absent,
           \A q \in Requests : q # r => ~ Busy(pc[q]),
           NEW W \in Seq(Ops), OnWire(W) = {}, NEW at, NEW parent \in Records,
           parent # Absent => /\ at \in Docs /\ D[at] # Absent /\ target'[r] = at
                              /\ parent.portal = mem[at].portal /\ D[at].npos <= parent.npos,
           StartItem(r, n, at, parent, W)
    PROVE  CountedWell(OnWire(wire'), D, mem', held', target', pc') /\ CountUp(wire')
<1>1. PICK d : d = Items[r][n]
  OBVIOUS
<1>2. /\ d \in Docs
      /\ \A q \in Requests : q # r => pc'[q] = pc[q] /\ held'[q] = held[q]
      /\ \/ /\ pc'[r] = "waiting" /\ mem' = mem /\ OnWire(wire') = {}
         \/ /\ parent # Absent /\ parent.npos \in Nat
            /\ pc'[r] = "appending" /\ held'[r].npos = parent.npos + 1
            /\ mem'[d].portal = Append(parent.portal, parent.npos + 1)
            /\ mem'[d].parent = at
            /\ \A x \in Docs : x # d => mem'[x] = mem[x]
            /\ \E u : /\ OnWire(wire') = {u}
                      /\ u.op = "update" /\ u.at = at /\ u.doc = d
                      /\ u.rec.npos = parent.npos + 1
  BY <1>1, StartAlone
<1>3. \A q \in Requests : q # r => pc'[q] # "appending"
  BY <1>2 DEF Busy, Ended
<1>4. CASE pc'[r] = "waiting" /\ mem' = mem /\ OnWire(wire') = {}
  <2>1. CountUp(wire')
    BY <1>4, CountUpFew
  <2>2. CountsWell({}, D, mem, held', target', pc')
    BY <1>3, <1>4 DEF CountsWell
  <2>3. FreshWell({}, D, held', target', pc')
    BY DEF FreshWell
  <2> QED
    BY <1>4, <2>1, <2>2, <2>3 DEF CountedWell
<1>5. CASE /\ parent # Absent /\ parent.npos \in Nat
           /\ pc'[r] = "appending" /\ held'[r].npos = parent.npos + 1
           /\ mem'[d].portal = Append(parent.portal, parent.npos + 1)
           /\ mem'[d].parent = at
           /\ \A x \in Docs : x # d => mem'[x] = mem[x]
           /\ \E u : /\ OnWire(wire') = {u}
                     /\ u.op = "update" /\ u.at = at /\ u.doc = d
                     /\ u.rec.npos = parent.npos + 1
  <2>1. PICK u : /\ OnWire(wire') = {u}
                 /\ u.op = "update" /\ u.at = at /\ u.doc = d
                 /\ u.rec.npos = parent.npos + 1
    BY <1>5
  <2>2. PICK p \in Nat \ {0} : p = parent.npos + 1
    BY <1>5
  <2>3. CountUp(wire')
    BY <2>1, <2>2, CountUpFew
  <2>4. FreshWell({u}, D, held', target', pc')
    BY <2>1 DEF FreshWell
  <2>5. D[d] = Absent /\ \A x \in Docs : D[x] # Absent => mem'[x] = mem[x]
    BY <1>1, <1>2, <1>5
  <2>6. at \in Docs /\ D[at] # Absent /\ target'[r] = at
        /\ parent.portal = mem[at].portal /\ D[at].npos <= parent.npos
    BY <1>5
  <2>7. D[at].npos \in Nat /\ D[at].npos < p
    <3>1. D[at].npos \in Nat
      BY <2>6 DEF Records
    <3> QED
      BY <1>5, <2>2, <2>6, <3>1
  <2>8. PICK L \in SUBSET Docs : L = {x \in Docs : D[x] # Absent}
    OBVIOUS
  <2>9. \A x, y \in L : x # y => mem[x].portal # mem[y].portal
    BY <2>8 DEF LiveApart, Live
  <2>10. \A x \in L : mem[x].parent = at => Last(mem[x].portal) < p
    <3> SUFFICES ASSUME NEW x \in L, mem[x].parent = at
                 PROVE  Last(mem[x].portal) < p
      OBVIOUS
    <3>1. x \in Docs /\ mem[x] # Absent /\ D[x] # Absent /\ at # NoDoc
      BY <2>6, <2>8, ConstantsAssumption
    <3>2. Last(mem[x].portal) <= D[at].npos
      BY <3>1
    <3>3. Last(mem[x].portal) \in Nat
      BY <3>1, Known, LastIs DEF Records, MemoryWell, LinkWell
    <3> QED
      BY <2>7, <3>2, <3>3
  <2>11. \A x \in L : mem[x].portal # Append(mem[at].portal, p)
    <3>1. at \in L
      BY <2>6, <2>8
    <3>2. \A x \in L : mem[x] # Absent /\ Rooted(mem[x].parent, D)
      BY <2>8
    <3>3. \A x \in Docs : D[x] # Absent => x \in L
      BY <2>8
    <3>4. mem \in [Docs -> Records] /\ MemoryWell(mem)
      BY Known
    <3>5. AllPlaced(L, mem, D)
      BY <2>9, <3>2, <3>3 DEF AllPlaced
    <3> QED
      BY <2>10, <3>1, <3>4, <3>5, NewPlace
  <2>12. LiveApart({u}, D, mem')
    <3> SUFFICES ASSUME NEW x \in Docs, NEW y \in Docs, x # y,
                        Live(x, {u}, D), Live(y, {u}, D), mem'[x].portal = mem'[y].portal
                 PROVE  FALSE
      BY DEF LiveApart
    <3>1. /\ x = d \/ (x \in L /\ mem'[x] = mem[x])
          /\ y = d \/ (y \in L /\ mem'[y] = mem[y])
      BY <2>1, <2>5, <2>8 DEF Live, Carried
    <3>2. mem'[d].portal = Append(mem[at].portal, p)
      BY <1>5, <2>2, <2>6
    <3> QED
      BY <2>9, <2>11, <3>1, <3>2
  <2>13. CountsWell({u}, D, mem', held', target', pc')
    <3>1. \A x \in Docs :
              /\ D[x] # Absent \/ \E a \in {u} : a.op = "insert" /\ a.doc = x
              /\ mem'[x].parent # NoDoc
              => Last(mem'[x].portal) <= D[mem'[x].parent].npos
      BY <2>1, <2>5
    <3>2. D[u.at].npos <= u.rec.npos
      BY <2>1, <2>2, <2>7
    <3>3. held'[r].npos = p /\ u.rec.npos = p /\ p <= p
      BY <1>5, <2>1, <2>2
    <3>4. D[target'[r]].npos <= held'[r].npos
      BY <2>6, <2>7, <3>3
    <3> QED
      BY <1>3, <3>1, <3>2, <3>3, <3>4 DEF CountsWell
  <2> QED
    BY <2>1, <2>3, <2>4, <2>12, <2>13 DEF CountedWell
<1> QED
  BY <1>2, <1>4, <1>5

\* When nothing is on its way to the collection, what counts is what is stored.
LEMMA CountedStored ==
    ASSUME NEW O, NEW D, NEW M, NEW H, NEW T, NEW P,
           \A a \in O : a.op \notin {"update", "insert"},
           \A r \in Requests : P[r] = "appending" => H[r] = Absent,
           \A d, x \in Docs : d # x /\ D[d] # Absent /\ D[x] # Absent => M[d].portal # M[x].portal,
           \A x \in Docs : D[x] # Absent /\ M[x].parent # NoDoc =>
               Last(M[x].portal) <= D[M[x].parent].npos,
           FreshWell(O, D, H, T, P)
    PROVE  CountedWell(O, D, M, H, T, P)
<1>1. LiveApart(O, D, M)
  BY DEF LiveApart, Live, Carried
<1>2. CountsWell(O, D, M, H, T, P)
  BY DEF CountsWell
<1> QED
  BY <1>1, <1>2 DEF CountedWell

\* What is stored counts, whatever is on the way.
LEMMA StoredCounted ==
    ASSUME NEW O, NEW D, NEW M, NEW H, NEW T, NEW P, CountedWell(O, D, M, H, T, P)
    PROVE  /\ \A d, x \in Docs : d # x /\ D[d] # Absent /\ D[x] # Absent =>
                  M[d].portal # M[x].portal
           /\ \A x \in Docs : D[x] # Absent /\ M[x].parent # NoDoc =>
                  Last(M[x].portal) <= D[M[x].parent].npos
BY DEF CountedWell, LiveApart, Live, CountsWell

\* A request comes.
LEMMA ArriveCounted ==
    ASSUME PlacesInv, "serial" \in granted, "fresh" \in granted,
           CountedWell(OnWire(wire), db, mem, held, target, pc),
           NEW r \in Requests, Arrive(r)
    PROVE  CountedWell(OnWire(wire'), db', mem', held', target', pc') /\ CountUp(wire')
<1>1. /\ OnWire(wire) = {}
      /\ UNCHANGED <<db, mem>>
      /\ \A q \in Requests : q # r => pc'[q] = pc[q] /\ ~ Busy(pc[q])
      /\ pc'[r] \in {"waiting", "loading", "saving", "deleting"}
      /\ \/ wire' = wire
         \/ \E l \in Ops :
                /\ wire' = Append(wire, l)
                /\ l.op = "load" /\ l.req = r /\ l.at = target'[r]
                /\ pc'[r] = "saving" /\ "fresh" \in granted => held'[r].npos = db[l.at].npos
  BY ArriveIs
<1>2. \A q \in Requests : pc'[q] # "appending"
  BY <1>1 DEF Busy, Ended
<1>3. \A a \in OnWire(wire') :
          /\ a.op = "load" /\ a.at = target'[a.req]
          /\ pc'[a.req] = "saving" => held'[a.req].npos = db[a.at].npos
  <2>1. CASE wire' = wire
    BY <1>1, <2>1
  <2>2. ASSUME NEW l \in Ops, wire' = Append(wire, l), l.op = "load", l.req = r,
               l.at = target'[r],
               pc'[r] = "saving" /\ "fresh" \in granted => held'[r].npos = db[l.at].npos
        PROVE  \A a \in OnWire(wire') :
                   /\ a.op = "load" /\ a.at = target'[a.req]
                   /\ pc'[a.req] = "saving" => held'[a.req].npos = db[a.at].npos
    <3>1. OnWire(wire') = {l}
      BY <1>1, <2>2, Known, AppendWire
    <3> QED
      BY <2>2, <3>1
  <2> QED
    BY <1>1, <2>1, <2>2
<1>4. FreshWell(OnWire(wire'), db, held', target', pc')
  BY <1>3 DEF FreshWell
<1>5. CountUp(wire')
  BY <1>3, CountUpFew
<1>6. CountedWell(OnWire(wire'), db, mem, held', target', pc')
  BY <1>2, <1>3, <1>4, StoredCounted, CountedStored
<1> QED
  BY <1>1, <1>5, <1>6

\* The wait is over.
LEMMA TimerCounted ==
    ASSUME PlacesInv, BodyInv, OneAtATime(pc),
           CountedWell(OnWire(wire), db, mem, held, target, pc),
           NEW r \in Requests, Timer(r)
    PROVE  CountedWell(OnWire(wire'), db', mem', held', target', pc') /\ CountUp(wire')
<1>1. /\ held[r] = Absent
      /\ \A q \in Requests : q # r => pc'[q] = pc[q] /\ ~ Busy(pc[q])
      /\ \E c \in Ops : /\ c.op = "count" /\ OnWire(wire') = {c}
      /\ UNCHANGED <<db, mem, held, target>>
  BY TimerIs
<1>2. \A a \in OnWire(wire') : a.op = "count"
  BY <1>1
<1>3. \A q \in Requests : pc'[q] = "appending" => held'[q] = Absent
  BY <1>1 DEF Busy, Ended
<1>4. FreshWell(OnWire(wire'), db, held', target', pc')
  BY <1>2 DEF FreshWell
<1>5. CountUp(wire')
  BY <1>2, CountUpFew
<1>6. CountedWell(OnWire(wire'), db, mem, held', target', pc')
  BY <1>2, <1>3, <1>4, StoredCounted, CountedStored
<1> QED
  BY <1>1, <1>5, <1>6

\* A save writes the count that is stored; a delete takes only whole trees.
LEMMA OthersCounted ==
    ASSUME PlacesInv, BodyInv, "sound" \in granted, OneAtATime(pc),
           Linked(OnWire(wire), db, mem, held, target, pc),
           CountedWell(OnWire(wire), db, mem, held, target, pc), NEW k \in DOMAIN wire,
           \/ LoadSaved(k) \/ LoadSkeleton(k) \/ LoadFails(k)
           \/ WriteSaved(k) \/ RemoveTree(k) \/ WriteFails(k)
    PROVE  CountedWell(OnWire(wire'), db', mem', held', target', pc') /\ CountUp(wire')
<1>1. PICK c, r : c = wire[k] /\ r = c.req
  OBVIOUS
<1>2. /\ OnWire(wire) = {c} /\ r \in Requests /\ c \in Ops
      /\ \A q \in Requests : q # r => pc'[q] = pc[q] /\ ~ Busy(pc[q])
      /\ pc'[r] # "appending"
      /\ UNCHANGED <<mem, held, target>>
      /\ OtherEffect(c, r)
  BY <1>1, OthersAre
<1>3. Linked(OnWire(wire'), db', mem', held', target', pc')
  BY OthersLinked
<1>4. \A q \in Requests : pc'[q] # "appending"
  BY <1>2 DEF Busy, Ended
<1>5. \A a \in OnWire(wire') : a.op \in {"write", "remove"}
  BY <1>2 DEF OtherEffect
<1>6. CountUp(wire')
  BY <1>5, CountUpFew
<1>7. /\ c.op \in {"load", "remove"} => c.at = target[c.req]
      /\ c.op = "load" /\ pc[c.req] = "saving" => held[c.req].npos = db[c.at].npos
      /\ c.op = "write" => c.rec.npos = db[c.at].npos
  BY <1>2 DEF CountedWell, FreshWell
<1>8. c.op = "load" => c.at \in Docs
  BY <1>2, WireKnown DEF OpWell
<1>9. PICK D : D = db'
  OBVIOUS
<1>10. FreshWell(OnWire(wire'), D, held, target, pc')
  <2>1. CASE /\ c.op = "load" /\ db[c.at] # Absent /\ pc[r] = "saving"
             /\ \E w : /\ OnWire(wire') = {w}
                       /\ w.op = "write" /\ w.at = c.at
                       /\ w.rec = [db[c.at] EXCEPT
                              !.npos = IF held[r].npos = 0 THEN @ ELSE held[r].npos]
             /\ db' = db
    <3>1. PICK w : /\ OnWire(wire') = {w}
                   /\ w.op = "write" /\ w.at = c.at
                   /\ w.rec = [db[c.at] EXCEPT
                          !.npos = IF held[r].npos = 0 THEN @ ELSE held[r].npos]
      BY <2>1
    <3>2. held[r].npos = db[c.at].npos /\ db[c.at] \in Records
      BY <1>1, <1>7, <1>8, <2>1, Known
    <3>3. w.rec.npos = db[c.at].npos
      BY <3>1, <3>2 DEF Records
    <3> QED
      BY <1>9, <2>1, <3>1, <3>3 DEF FreshWell
  <2>2. CASE /\ c.op = "load" /\ db[c.at] # Absent
             /\ \E w : /\ OnWire(wire') = {w}
                       /\ w.op = "remove" /\ w.at = c.at /\ w.req = r /\ w.rec = db[c.at]
             /\ db' = db
    BY <1>1, <1>7, <1>8, <1>9, <2>2 DEF FreshWell
  <2>3. CASE OnWire(wire') = {}
    BY <2>3 DEF FreshWell
  <2> QED
    BY <1>2, <2>1, <2>2, <2>3 DEF OtherEffect
<1>11. \A x \in Docs : D[x] # Absent => db[x] # Absent /\ D[x].npos = db[x].npos
  <2>1. CASE db' = db
    BY <1>9, <2>1
  <2>2. CASE c.op = "write" /\ db' = Written(c.at, c.rec)
    <3>1. /\ c.at \in Docs
          /\ db[c.at] # Absent => db'[c.at] = c.rec
          /\ \A x \in Docs : x # c.at => db'[x] = db[x]
          /\ \A x \in Docs : db'[x] # Absent <=> db[x] # Absent
      BY <1>2, <2>2, WrittenIs
    <3> QED
      BY <1>7, <1>9, <2>2, <3>1
  <2>3. CASE \A d \in Docs : db'[d] = IF Within(db[d], c.rec) THEN Absent ELSE db[d]
    BY <1>9, <2>3
  <2> QED
    BY <1>2, <2>1, <2>2, <2>3 DEF OtherEffect
<1>12. \A d, x \in Docs : d # x /\ D[d] # Absent /\ D[x] # Absent => mem[d].portal # mem[x].portal
  BY <1>11, StoredCounted
<1>13. \A x \in Docs : D[x] # Absent /\ mem[x].parent # NoDoc =>
           Last(mem[x].portal) <= D[mem[x].parent].npos
  <2> SUFFICES ASSUME NEW x \in Docs, D[x] # Absent, mem[x].parent # NoDoc
               PROVE  Last(mem[x].portal) <= D[mem[x].parent].npos
    OBVIOUS
  <2>1. PICK p \in Docs : p = mem[x].parent
    BY StoredHasPlace
  <2>2. D[p] # Absent
    BY <1>2, <1>3, <1>9, <2>1 DEF Linked, Rooted
  <2>3. Last(mem[x].portal) <= db[p].npos
    BY <1>11, <2>1, StoredCounted
  <2> QED
    BY <1>11, <2>1, <2>2, <2>3
<1>14. CountedWell(OnWire(wire'), D, mem, held, target, pc')
  BY <1>4, <1>5, <1>10, <1>12, <1>13, CountedStored
<1> QED
  BY <1>2, <1>6, <1>9, <1>14

\* An append finds its target.
LEMMA LoadTargetCounted ==
    ASSUME PlacesInv, BodyInv, OneAtATime(pc),
           Linked(OnWire(wire), db, mem, held, target, pc),
           CountedWell(OnWire(wire), db, mem, held, target, pc),
           NEW k \in DOMAIN wire, LoadTarget(k)
    PROVE  CountedWell(OnWire(wire'), db', mem', held', target', pc') /\ CountUp(wire')
<1>1. PICK r, W : r = wire[k].req /\ W = Rest(k)
  OBVIOUS
<1>2. /\ r \in Requests
      /\ \A q \in Requests : q # r => ~ Busy(pc[q])
      /\ 1 \in DOMAIN Items[r] /\ mem[Items[r][1]] = Absent
      /\ W \in Seq(Ops) /\ OnWire(W) = {}
      /\ target[r] \in Docs /\ db[target[r]] \in Records
      /\ StartItem(r, 1, target[r], db[target[r]], W)
      /\ UNCHANGED <<db, target, stored, granted>>
  BY <1>1, LoadTargetIs
<1>3. \A x \in Docs : db[x] # Absent => mem[x] # Absent /\ Rooted(mem[x].parent, db)
  BY StoredHasPlace DEF Linked
<1>4. PICK at, parent : at = target[r] /\ parent = db[at]
  OBVIOUS
<1>5. parent \in Records /\ StartItem(r, 1, at, parent, W)
  BY <1>2, <1>4
<1>6. parent # Absent => /\ at \in Docs /\ db[at] # Absent /\ target'[r] = at
                         /\ parent.portal = mem[at].portal /\ db[at].npos <= parent.npos
  <2>1. at \in Docs /\ target'[r] = at /\ db[at].npos <= parent.npos
    BY <1>2, <1>4 DEF Records
  <2> QED
    BY <1>4, <2>1, HangsFrom
<1>7. db \in [Docs -> Records]
  BY Known
<1>8. LiveApart({}, db, mem)
  BY StoredCounted DEF LiveApart, Live, Carried
<1>9. \A x \in Docs : db[x] # Absent /\ mem[x].parent # NoDoc =>
          Last(mem[x].portal) <= db[mem[x].parent].npos
  BY StoredCounted
<1>10. CountedWell(OnWire(wire'), db, mem', held', target', pc') /\ CountUp(wire')
  BY <1>2, <1>3, <1>5, <1>6, <1>7, <1>8, <1>9, StartCounted
<1> QED
  BY <1>2, <1>10

\* A root gets a place of its own.
LEMMA CountRootsCounted ==
    ASSUME PlacesInv, BodyInv, "sound" \in granted, OneAtATime(pc),
           CountedWell(OnWire(wire), db, mem, held, target, pc),
           NEW k \in DOMAIN wire, NEW done \in Done, CountRoots(k, done)
    PROVE  CountedWell(OnWire(wire'), db', mem', held', target', pc') /\ CountUp(wire')
<1>1. PICK c, d : c = wire[k] /\ d = c.doc
  OBVIOUS
<1>2. /\ d \in Docs /\ mem[d] = Absent /\ c.req \in Requests /\ held[c.req] = Absent
      /\ \A q \in Requests : q # c.req => ~ Busy(pc[q])
      /\ mem'[d].portal = <<NextRootPosition>> /\ mem'[d].parent = NoDoc
      /\ \A x \in Docs : x # d => mem'[x] = mem[x]
      /\ \E i : i.op = "insert" /\ i.doc = d /\ OnWire(wire') = {i}
      /\ UNCHANGED <<db, held, target, pc, item, granted>>
  BY <1>1, CountRootsIs
<1>3. PICK i : i.op = "insert" /\ i.doc = d /\ OnWire(wire') = {i}
  BY <1>2
<1>4. PICK N : N = mem'
  OBVIOUS
<1>5. db[d] = Absent /\ \A x \in Docs : db[x] # Absent => N[x] = mem[x]
  BY <1>2, <1>4, StoredHasPlace
<1>6. \A x \in Docs : db[x] # Absent => mem[x].portal # <<NextRootPosition>>
  <2> SUFFICES ASSUME NEW x \in Docs, db[x] # Absent, mem[x].portal = <<NextRootPosition>>
               PROVE  FALSE
    OBVIOUS
  <2>1. Len(mem[x].portal) = 1
    OBVIOUS
  <2>2. mem[x] # Absent
    BY StoredHasPlace
  <2>3. mem[x].parent = NoDoc
    <3>1. LinkWell(mem[x], mem)
      BY <2>2, Known DEF MemoryWell
    <3>2. mem[x].parent # NoDoc => 1 > 1
      BY <2>1, <3>1 DEF LinkWell
    <3> QED
      BY <3>2
  <2>4. db[x].portal = <<NextRootPosition>> /\ db[x].parent = NoDoc
    BY <2>3, HangsFrom
  <2>5. db[x].portal[1] < NextRootPosition /\ NextRootPosition \in Nat
    BY <2>4, Known, RootPositionIs DEF Present
  <2>6. PICK m : m = NextRootPosition
    OBVIOUS
  <2>7. m \in Nat /\ m < m
    BY <2>4, <2>5, <2>6
  <2> QED
    BY <2>7
<1>7. LiveApart({i}, db, N)
  <2> SUFFICES ASSUME NEW x \in Docs, NEW y \in Docs, x # y,
                      Live(x, {i}, db), Live(y, {i}, db), N[x].portal = N[y].portal
               PROVE  FALSE
    BY DEF LiveApart
  <2>1. (x = d \/ db[x] # Absent) /\ (y = d \/ db[y] # Absent)
    BY <1>3 DEF Live, Carried
  <2>2. N[d].portal = <<NextRootPosition>>
    BY <1>2, <1>4
  <2> QED
    BY <1>5, <1>6, <2>1, <2>2, StoredCounted
<1>8. CountsWell({i}, db, N, held, target, pc)
  <2>1. \A x \in Docs :
            /\ db[x] # Absent \/ \E a \in {i} : a.op = "insert" /\ a.doc = x
            /\ N[x].parent # NoDoc
            => Last(N[x].portal) <= db[N[x].parent].npos
    BY <1>2, <1>3, <1>4, <1>5, StoredCounted
  <2>2. \A q \in Requests : pc[q] = "appending" => held[q] = Absent
    BY <1>2 DEF Busy, Ended
  <2> QED
    BY <1>3, <2>1, <2>2 DEF CountsWell
<1>9. FreshWell({i}, db, held, target, pc)
  BY <1>3 DEF FreshWell
<1>10. CountUp(wire')
  BY <1>3, CountUpFew
<1> QED
  BY <1>2, <1>3, <1>4, <1>7, <1>8, <1>9, <1>10 DEF CountedWell

\* Operations that bring containers are neither saves nor deletes.
LEMMA CarriersFresh ==
    ASSUME NEW O, NEW D, NEW H, NEW T, NEW P, \A a \in O : a.op \in Carriers
    PROVE  FreshWell(O, D, H, T, P)
BY DEF FreshWell, Carriers

\* A parent is written with its count, the least of those on the way.
LEMMA UpdateParentCounted ==
    ASSUME PlacesInv, BodyInv, "sound" \in granted, "ordered" \in granted, OneAtATime(pc),
           Linked(OnWire(wire), db, mem, held, target, pc),
           CountedWell(OnWire(wire), db, mem, held, target, pc), CountUp(wire),
           NEW k \in DOMAIN wire, NEW done \in Done, UpdateParent(k, done)
    PROVE  CountedWell(OnWire(wire'), db', mem', held', target', pc') /\ CountUp(wire')
<1>1. PICK c, O, D, Q : c = wire[k] /\ O = OnWire(wire) /\ D = db' /\ Q = OnWire(wire')
  OBVIOUS
<1>2. /\ c \in O /\ c.op = "update" /\ c.doc \in Docs /\ c.at \in Docs
      /\ db' = Written(c.at, c.rec)
      /\ mem[c.doc].portal = Append(c.rec.portal, c.rec.npos)
      /\ mem[c.doc].parent = c.at
      /\ c.rec.portal \in Seq(Nat \ {0}) /\ c.rec.npos \in Nat \ {0}
      /\ \A b \in O : b.op \in Carriers
      /\ Rest(k) \in Seq(Ops)
      /\ \E i \in Ops : /\ i.op = "insert" /\ i.doc = c.doc
                        /\ wire' = Append(Rest(k), i)
                        /\ Q = (O \ {c}) \cup {i}
      /\ UNCHANGED <<mem, held, target, pc, item, granted>>
  BY <1>1, UpdateParentIs
<1>3. PICK i \in Ops : /\ i.op = "insert" /\ i.doc = c.doc
                       /\ wire' = Append(Rest(k), i)
                       /\ Q = (O \ {c}) \cup {i}
  BY <1>2
<1>4. k = 1
  BY DEF UpdateParent, Does
<1>5. CountUp(wire')
  <2>1. wire \in Seq(Ops)
    BY Known
  <2>2. CountUp(RemoveAt(wire, k))
    BY <2>1, CountUpRest
  <2>3. CountUp(Rest(k))
    BY <2>2 DEF Rest
  <2>4. i.op # "update"
    BY <1>3
  <2>5. CountUp(Append(Rest(k), i))
    BY <1>2, <2>3, <2>4, CountUpSent
  <2> QED
    BY <1>3, <2>5
<1>6. /\ db[c.at] # Absent => D[c.at] = c.rec
      /\ \A x \in Docs : x # c.at => D[x] = db[x]
      /\ \A x \in Docs : D[x] # Absent <=> db[x] # Absent
  BY <1>1, <1>2, WrittenIs
<1>7. D[c.at] = c.rec
  <2>1. Rooted(mem[c.doc].parent, db)
    BY <1>1, <1>2 DEF Linked
  <2> QED
    BY <1>2, <1>6, <2>1, ConstantsAssumption DEF Rooted
<1>8. CountedWell(O, db, mem, held, target, pc) /\ CountsWell(O, db, mem, held, target, pc)
  BY <1>1 DEF CountedWell
<1>9. \A x \in Docs : D[x].npos \in Nat /\ db[x].npos \in Nat /\ db[x].npos <= D[x].npos
  <2>1. \A x \in Docs : db[x].npos \in Nat
    BY Known DEF Records
  <2>2. db[c.at].npos <= c.rec.npos
    BY <1>2, <1>8 DEF CountsWell
  <2> SUFFICES ASSUME NEW x \in Docs
               PROVE  D[x].npos \in Nat /\ db[x].npos \in Nat /\ db[x].npos <= D[x].npos
    OBVIOUS
  <2>3. CASE x = c.at
    BY <1>2, <1>7, <2>1, <2>2, <2>3
  <2>4. CASE x # c.at
    BY <1>6, <2>1, <2>4
  <2> QED
    BY <2>3, <2>4
<1>10. LiveApart(Q, D, mem)
  <2>1. \A x \in Docs : Live(x, Q, D) => Live(x, O, db)
    <3> SUFFICES ASSUME NEW x \in Docs, Live(x, Q, D), db[x] = Absent
                 PROVE  Carried(x, O)
      BY DEF Live
    <3>1. PICK a \in Q : a.op \in {"update", "insert"} /\ a.doc = x
      BY <1>6 DEF Live, Carried
    <3>2. CASE a = i
      BY <1>2, <1>3, <3>1, <3>2 DEF Carried
    <3>3. CASE a \in O
      BY <3>1, <3>3 DEF Carried
    <3> QED
      BY <1>3, <3>2, <3>3
  <2> QED
    BY <1>8, <2>1 DEF CountedWell, LiveApart
<1>11. \A a \in O : a.op = "update" => a.at \in Docs
  BY <1>1, WireKnown DEF OpWell
<1>12. \A x \in Docs :
           /\ D[x] # Absent \/ \E a \in Q : a.op = "insert" /\ a.doc = x
           /\ mem[x].parent # NoDoc
           => Last(mem[x].portal) <= D[mem[x].parent].npos
  <2> SUFFICES ASSUME NEW x \in Docs,
                      D[x] # Absent \/ \E a \in Q : a.op = "insert" /\ a.doc = x,
                      mem[x].parent # NoDoc
               PROVE  Last(mem[x].portal) <= D[mem[x].parent].npos
    OBVIOUS
  <2>1. CASE x = c.doc
    <3>1. Last(mem[x].portal) = c.rec.npos
      BY <1>2, <2>1, LongerIs
    <3>2. D[mem[x].parent].npos = c.rec.npos
      BY <1>2, <1>7, <2>1
    <3> QED
      BY <1>2, <3>1, <3>2
  <2>2. CASE x # c.doc
    <3>1. db[x] # Absent \/ \E a \in O : a.op = "insert" /\ a.doc = x
      BY <1>3, <1>6, <2>2
    <3>2. PICK p \in Docs : p = mem[x].parent
      BY StoredHasPlace
    <3>3. Last(mem[x].portal) <= db[p].npos
      BY <1>8, <3>1, <3>2 DEF CountsWell
    <3>4. Live(x, O, db)
      BY <3>1 DEF Live, Carried
    <3>5. Last(mem[x].portal) \in Nat
      BY <1>1, <3>4, LiveHasPlace
    <3> QED
      BY <1>9, <3>2, <3>3, <3>5
  <2> QED
    BY <2>1, <2>2
<1>13. \A a \in Q : a.op = "update" => D[a.at].npos <= a.rec.npos
  <2> SUFFICES ASSUME NEW a \in Q, a.op = "update"
               PROVE  D[a.at].npos <= a.rec.npos
    OBVIOUS
  <2>1. a \in O /\ a # c /\ a.at \in Docs
    BY <1>3, <1>11
  <2>2. CASE a.at = c.at
    <3>1. wire \in Seq(Ops) /\ 1 \in DOMAIN wire /\ wire[1] = c
      BY <1>1, <1>4, Known
    <3>2. c.rec.npos <= a.rec.npos
      BY <1>1, <1>2, <2>1, <2>2, <3>1, CountUpFirst
    <3> QED
      BY <1>7, <2>2, <3>2
  <2>3. CASE a.at # c.at
    BY <1>6, <1>8, <2>1, <2>3 DEF CountsWell
  <2> QED
    BY <2>2, <2>3
<1>14. ASSUME NEW r \in Requests, IsAppend(r), pc[r] = "appending", held[r] # Absent
       PROVE  /\ D[target[r]].npos <= held[r].npos
              /\ \A a \in Q : a.op = "update" /\ a.at = target[r] => a.rec.npos <= held[r].npos
  <2>1. target[r] \in Docs
    BY <1>14, Known DEF RequestWell
  <2>2. /\ db[target[r]].npos <= held[r].npos
        /\ \A a \in O : a.op = "update" /\ a.at = target[r] => a.rec.npos <= held[r].npos
    BY <1>8, <1>14 DEF CountsWell
  <2>3. D[target[r]].npos <= held[r].npos
    BY <1>2, <1>6, <1>7, <2>1, <2>2
  <2> QED
    BY <1>3, <2>2, <2>3
<1>15. CountsWell(Q, D, mem, held, target, pc)
  BY <1>12, <1>13, <1>14 DEF CountsWell
<1>16. FreshWell(Q, D, held, target, pc)
  <2>1. \A a \in Q : a.op \in Carriers
    BY <1>2, <1>3 DEF Carriers
  <2> QED
    BY <2>1, CarriersFresh
<1>17. CountedWell(Q, D, mem, held, target, pc)
  BY <1>10, <1>15, <1>16 DEF CountedWell
<1> QED
  BY <1>1, <1>2, <1>5, <1>17

\* A container that goes in has nothing below it yet, and the others stay as
\* they are.
LEMMA InsertedCounted ==
    ASSUME PlacesInv, BodyInv,
           Linked(OnWire(wire), db, mem, held, target, pc),
           CountedWell(OnWire(wire), db, mem, held, target, pc),
           NEW c \in OnWire(wire), c.op = "insert", NEW d, d = c.doc,
           \A b \in OnWire(wire) : b.op \in Carriers,
           d \in Docs, db[d] = Absent, NEW D, D[d] # Absent, D[d].npos = 0,
           \A x \in Docs : x # d => D[x] = db[x]
    PROVE  /\ CountedWell(OnWire(wire) \ {c}, D, mem, held, target, pc)
           /\ \A x \in Docs : Live(x, OnWire(wire), db) => mem[x].parent # d
           /\ \A a \in OnWire(wire) : a.op = "update" => a.at # d
           /\ \A r \in Requests : IsAppend(r) /\ pc[r] = "appending" /\ held[r] # Absent =>
                  target[r] # d
<1>1. PICK O : O = OnWire(wire)
  OBVIOUS
<1>2. CountsWell(O, db, mem, held, target, pc) /\ LiveApart(O, db, mem)
  BY <1>1 DEF CountedWell
<1>3. ASSUME NEW x \in Docs, Live(x, O, db)
      PROVE  mem[x].parent # d
  <2>1. Rooted(mem[x].parent, db)
    BY <1>1, <1>3, LiveHasPlace
  <2> QED
    BY <2>1, ConstantsAssumption DEF Rooted
<1>4. ASSUME NEW a \in O, a.op = "update"
      PROVE  a.at # d /\ a.at \in Docs
  <2>1. a.at \in Docs /\ a.doc \in Docs
    BY <1>1, <1>4, WireKnown DEF OpWell, Carriers
  <2>2. mem[a.doc].parent = a.at
    BY <1>1, <1>4 DEF BodyInv, BodyWell, CarrierWell, Carriers
  <2>3. Live(a.doc, O, db)
    BY <1>4 DEF Live, Carried
  <2> QED
    BY <1>3, <2>1, <2>2, <2>3
<1>5. ASSUME NEW r \in Requests, IsAppend(r), pc[r] = "appending", held[r] # Absent
      PROVE  target[r] # d /\ target[r] \in Docs
  <2>1. target[r] \in Docs
    BY <1>5, Known DEF RequestWell
  <2>2. db[target[r]] # Absent
    BY <1>5 DEF Linked
  <2> QED
    BY <2>1, <2>2
<1>6. \A x \in Docs : Live(x, O \ {c}, D) => Live(x, O, db)
  <2>1. Live(d, O, db)
    BY <1>1 DEF Live, Carried
  <2> QED
    BY <2>1 DEF Live, Carried
<1>7. LiveApart(O \ {c}, D, mem)
  BY <1>2, <1>6 DEF LiveApart
<1>8. \A x \in Docs :
          /\ D[x] # Absent \/ \E a \in O \ {c} : a.op = "insert" /\ a.doc = x
          /\ mem[x].parent # NoDoc
          => Last(mem[x].portal) <= D[mem[x].parent].npos
  <2> SUFFICES ASSUME NEW x \in Docs, mem[x].parent # NoDoc,
                      D[x] # Absent \/ \E a \in O \ {c} : a.op = "insert" /\ a.doc = x
               PROVE  Last(mem[x].portal) <= D[mem[x].parent].npos
    OBVIOUS
  <2>1. db[x] # Absent \/ \E a \in O : a.op = "insert" /\ a.doc = x
    BY <1>1
  <2>2. mem[x].parent \in Docs /\ mem[x].parent # d
    BY <1>3, <2>1, StoredHasPlace DEF Live, Carried
  <2> QED
    BY <1>2, <2>1, <2>2 DEF CountsWell
<1>9. CountsWell(O \ {c}, D, mem, held, target, pc)
  <2>1. \A a \in O \ {c} : a.op = "update" => D[a.at].npos <= a.rec.npos
    BY <1>2, <1>4 DEF CountsWell
  <2>2. \A r \in Requests : IsAppend(r) /\ pc[r] = "appending" /\ held[r] # Absent =>
            /\ D[target[r]].npos <= held[r].npos
            /\ \A a \in O \ {c} : a.op = "update" /\ a.at = target[r] => a.rec.npos <= held[r].npos
    BY <1>2, <1>5 DEF CountsWell
  <2> QED
    BY <1>8, <2>1, <2>2 DEF CountsWell
<1>10. FreshWell(O \ {c}, D, held, target, pc)
  <2>1. \A a \in O \ {c} : a.op \in Carriers
    BY <1>1
  <2> QED
    BY <2>1, CarriersFresh
<1>11. CountedWell(O \ {c}, D, mem, held, target, pc)
  BY <1>7, <1>9, <1>10 DEF CountedWell
<1> QED
  BY <1>1, <1>3, <1>4, <1>5, <1>11

\* The children of a container that went in get new places below it.
LEMMA KidsCounted ==
    ASSUME PlacesInv, BodyInv,
           Linked(OnWire(wire), db, mem, held, target, pc),
           CountedWell(OnWire(wire), db, mem, held, target, pc),
           NEW c \in OnWire(wire), c.op = "insert", NEW d, d = c.doc,
           \A b \in OnWire(wire) : b.op \in Carriers,
           d \in Docs, db[d] = Absent, NEW D, D[d] # Absent, D[d].npos = 0,
           \A x \in Docs : x # d => D[x] = db[x],
           NEW L, KidsEffect(c, d, L)
    PROVE  CountedWell(OnWire(wire'), D, mem', held, target, pc)
<1>1. PICK O, Q, N : O = OnWire(wire) /\ Q = OnWire(wire') /\ N = mem'
  OBVIOUS
<1>2. /\ CountedWell(O \ {c}, D, mem, held, target, pc)
      /\ \A x \in Docs : Live(x, O, db) => mem[x].parent # d
      /\ \A a \in O : a.op = "update" => a.at # d
      /\ \A r \in Requests : IsAppend(r) /\ pc[r] = "appending" /\ held[r] # Absent =>
             target[r] # d
  BY <1>1, InsertedCounted
<1>3. /\ Q = (O \ {c}) \cup L
      /\ NumberedWell(d, mem, N)
      /\ \A n \in DOMAIN Kids[d] : Kids[d][n] \in Docs /\ n \in Nat \ {0}
                                   /\ mem[Kids[d][n]] = Absent
      /\ \A u \in L : \E n \in DOMAIN Kids[d] :
             u.op = "update" /\ u.at = d /\ u.doc = Kids[d][n] /\ u.rec.npos = n
      /\ \A x \in Docs : mem[x] # Absent =>
             N[x].portal = mem[x].portal /\ N[x].parent = mem[x].parent /\ N[x] # Absent
  BY <1>1 DEF KidsEffect
<1>4. mem \in [Docs -> Records] /\ MemoryWell(mem)
  BY Known
<1>5. PICK A \in SUBSET Docs : A = {x \in Docs : Live(x, O, db)}
  OBVIOUS
<1>6. \A x \in A : mem[x] # Absent /\ Rooted(mem[x].parent, db)
  BY <1>1, <1>5, LiveHasPlace
<1>7. d \in A
  BY <1>1, <1>5 DEF Live, Carried
<1>8. \A x, y \in A : x # y => mem[x].portal # mem[y].portal
  BY <1>1, <1>5 DEF CountedWell, LiveApart
<1>9. ASSUME NEW p \in Nat \ {0}
      PROVE  \A x \in A : mem[x].portal # Append(mem[d].portal, p)
  <2>1. \A x \in A : mem[x].parent = d => Last(mem[x].portal) < p
    BY <1>2, <1>5
  <2>2. \A x \in Docs : db[x] # Absent => x \in A
    BY <1>5 DEF Live
  <2>3. AllPlaced(A, mem, db)
    BY <1>6, <1>8, <2>2 DEF AllPlaced
  <2> QED
    BY <1>4, <1>7, <2>1, <2>3, NewPlace
<1>10. \A n \in DOMAIN Kids[d] : N[Kids[d][n]].portal = Append(mem[d].portal, n)
  BY <1>3 DEF NumberedWell
<1>11. mem[d].portal \in Seq(Nat \ {0})
  BY <1>4 DEF Records
<1>12. \A m, n \in DOMAIN Kids[d] :
           Append(mem[d].portal, m) = Append(mem[d].portal, n) => m = n
  BY <1>3, <1>11, SameStep
<1>13. \A x \in Docs : Live(x, Q, D) => x \in A \/ \E n \in DOMAIN Kids[d] : x = Kids[d][n]
  <2> SUFFICES ASSUME NEW x \in Docs, Live(x, Q, D), x \notin A
               PROVE  \E n \in DOMAIN Kids[d] : x = Kids[d][n]
    OBVIOUS
  <2>1. D[x] = Absent
    BY <1>5, <1>7 DEF Live
  <2>2. PICK a \in Q : a.op \in {"update", "insert"} /\ a.doc = x
    BY <2>1 DEF Live, Carried
  <2>3. a \notin O
    BY <1>5, <2>2 DEF Live, Carried
  <2> QED
    BY <1>3, <2>2, <2>3
<1>14. LiveApart(Q, D, N)
  <2> SUFFICES ASSUME NEW x \in Docs, NEW y \in Docs, x # y, Live(x, Q, D), Live(y, Q, D),
                      N[x].portal = N[y].portal
               PROVE  FALSE
    BY DEF LiveApart
  <2>1. \A z \in A : N[z].portal = mem[z].portal
    BY <1>3, <1>6
  <2>2. \A z \in A : \A n \in DOMAIN Kids[d] : N[z].portal # N[Kids[d][n]].portal
    <3> SUFFICES ASSUME NEW z \in A, NEW n \in DOMAIN Kids[d]
                 PROVE  N[z].portal # N[Kids[d][n]].portal
      OBVIOUS
    <3>1. n \in Nat \ {0}
      BY <1>3
    <3>2. mem[z].portal # Append(mem[d].portal, n)
      BY <1>9, <3>1
    <3> QED
      BY <1>10, <2>1, <3>2
  <2>3. CASE x \in A /\ y \in A
    BY <1>8, <2>1, <2>3
  <2>4. CASE x \notin A /\ y \notin A
    <3>1. PICK m \in DOMAIN Kids[d] : x = Kids[d][m]
      BY <1>13, <2>4
    <3>2. PICK n \in DOMAIN Kids[d] : y = Kids[d][n]
      BY <1>13, <2>4
    <3>3. Append(mem[d].portal, m) = Append(mem[d].portal, n)
      BY <1>10, <3>1, <3>2
    <3> QED
      BY <1>12, <3>1, <3>2, <3>3
  <2> QED
    BY <1>13, <2>2, <2>3, <2>4
<1>15. CountsWell(O \ {c}, D, mem, held, target, pc)
  BY <1>2 DEF CountedWell
<1>16. CountsWell(Q, D, N, held, target, pc)
  <2>1. \A x \in Docs :
            /\ D[x] # Absent \/ \E a \in Q : a.op = "insert" /\ a.doc = x
            /\ N[x].parent # NoDoc
            => Last(N[x].portal) <= D[N[x].parent].npos
    <3> SUFFICES ASSUME NEW x \in Docs, N[x].parent # NoDoc,
                        D[x] # Absent \/ \E a \in Q : a.op = "insert" /\ a.doc = x
                 PROVE  Last(N[x].portal) <= D[N[x].parent].npos
      OBVIOUS
    <3>1. D[x] # Absent \/ \E a \in O \ {c} : a.op = "insert" /\ a.doc = x
      BY <1>3
    <3>2. x \in A
      BY <1>5, <1>7, <3>1 DEF Live, Carried
    <3>3. N[x].portal = mem[x].portal /\ N[x].parent = mem[x].parent
      BY <1>3, <1>6, <3>2
    <3>4. mem[x].parent # NoDoc => Last(mem[x].portal) <= D[mem[x].parent].npos
      BY <1>15, <3>1 DEF CountsWell
    <3> QED
      BY <3>3, <3>4
  <2>2. \A a \in Q : a.op = "update" => D[a.at].npos <= a.rec.npos
    <3>1. \A a \in L : D[a.at].npos <= a.rec.npos
      BY <1>3
    <3> QED
      BY <1>3, <1>15, <3>1 DEF CountsWell
  <2>3. \A r \in Requests : IsAppend(r) /\ pc[r] = "appending" /\ held[r] # Absent =>
            /\ D[target[r]].npos <= held[r].npos
            /\ \A a \in Q : a.op = "update" /\ a.at = target[r] => a.rec.npos <= held[r].npos
    <3> SUFFICES ASSUME NEW r \in Requests, IsAppend(r), pc[r] = "appending", held[r] # Absent
                 PROVE  /\ D[target[r]].npos <= held[r].npos
                        /\ \A a \in Q : a.op = "update" /\ a.at = target[r] =>
                               a.rec.npos <= held[r].npos
      OBVIOUS
    <3>1. /\ D[target[r]].npos <= held[r].npos
          /\ \A a \in O \ {c} : a.op = "update" /\ a.at = target[r] => a.rec.npos <= held[r].npos
      BY <1>15 DEF CountsWell
    <3>2. \A a \in L : a.at # target[r]
      BY <1>2, <1>3
    <3> QED
      BY <1>3, <3>1, <3>2
  <2> QED
    BY <2>1, <2>2, <2>3 DEF CountsWell
<1>17. FreshWell(Q, D, held, target, pc)
  <2>1. \A a \in Q : a.op \in Carriers
    BY <1>1, <1>3 DEF Carriers
  <2> QED
    BY <2>1, CarriersFresh
<1>18. CountedWell(Q, D, N, held, target, pc)
  BY <1>14, <1>16, <1>17 DEF CountedWell
<1> QED
  BY <1>1, <1>18

\* A container goes in, and its children or the next item after it.
LEMMA InsertOneCounted ==
    ASSUME PlacesInv, BodyInv, "sound" \in granted, OneAtATime(pc),
           Linked(OnWire(wire), db, mem, held, target, pc),
           CountedWell(OnWire(wire), db, mem, held, target, pc), CountUp(wire),
           NEW k \in DOMAIN wire, NEW done \in Done, InsertOne(k, done)
    PROVE  CountedWell(OnWire(wire'), db', mem', held', target', pc') /\ CountUp(wire')
<1>1. PICK c, r, d, W : c = wire[k] /\ r = c.req /\ d = c.doc /\ W = Rest(k)
  OBVIOUS
<1>2. /\ c \in OnWire(wire) /\ c.op = "insert" /\ r \in Requests /\ d \in Docs
      /\ IsAppend(r) /\ pc[r] = "appending"
      /\ \A q \in Requests : q # r => ~ Busy(pc[q])
      /\ \A b \in OnWire(wire) : b.op \in Carriers
      /\ W \in Seq(Ops) /\ OnWire(W) = OnWire(wire) \ {c}
      /\ db[d] = Absent /\ mem[d] # Absent
      /\ db'[d] # Absent /\ db'[d].npos = 0
      /\ \A x \in Docs : x # d => db'[x] = db[x]
      /\ UNCHANGED target
      /\ InsertEffect(r, d, W)
  BY <1>1, InsertOneIs
<1>3. PICK D : D = db'
  OBVIOUS
<1>4. D[d] # Absent /\ D[d].npos = 0 /\ \A x \in Docs : x # d => D[x] = db[x]
  BY <1>2, <1>3
<1>5. /\ CountedWell(OnWire(W), D, mem, held, target, pc)
      /\ \A a \in OnWire(W) : a.op = "update" => a.at # d
  <2>1. /\ CountedWell(OnWire(wire) \ {c}, D, mem, held, target, pc)
        /\ \A a \in OnWire(wire) : a.op = "update" => a.at # d
    <3>1. /\ c \in OnWire(wire) /\ c.op = "insert" /\ d = c.doc
          /\ d \in Docs /\ db[d] = Absent
      BY <1>1, <1>2
    <3>2. \A b \in OnWire(wire) : b.op \in Carriers
      BY <1>2
    <3> QED
      BY <1>4, <3>1, <3>2, InsertedCounted
  <2>2. PICK P : P = OnWire(wire) \ {c}
    OBVIOUS
  <2>3. OnWire(W) = P
    BY <1>2, <2>2
  <2> QED
    BY <2>1, <2>2, <2>3
<1>6. CountUp(W)
  <2>1. wire \in Seq(Ops) /\ W = RemoveAt(wire, k)
    BY <1>1, Known DEF Rest
  <2> QED
    BY <2>1, CountUpRest
<1>7. CASE /\ mem' = Numbered(d, mem)
           /\ wire' = W \o KidUpdates(r, d, mem)
           /\ UNCHANGED <<held, pc, item>>
  <2>1. PICK V, M : V = KidUpdates(r, d, M) /\ M = mem
    OBVIOUS
  <2>2. V = KidUpdates(r, d, mem) /\ wire' = W \o V
    BY <1>7, <2>1
  <2>3. KidsEffect(c, d, OnWire(V))
    BY <1>1, <1>2, <1>7, <2>2, KidsSentAre
  <2>4. CountedWell(OnWire(wire'), D, mem', held, target, pc)
    BY <1>1, <1>2, <1>4, <2>3, KidsCounted
  <2>5. V \in Seq(Ops) /\ CountUp(V)
    <3>1. M \in [Docs -> Records] /\ M[d] # Absent
      BY <1>2, <2>1, Known
    <3>2. V \in Seq(Ops)
      BY <1>2, <2>1, <3>1, Known, KidUpdatesAre
    <3> QED
      BY <1>2, <2>1, <3>1, <3>2, KidUpdatesCountUp
  <2>6. \A b \in OnWire(V) : b.at = d
    BY <2>3 DEF KidsEffect
  <2>7. CountUp(W \o V)
    BY <1>2, <1>5, <1>6, <2>5, <2>6, CountUpMore
  <2> QED
    BY <1>2, <1>3, <1>7, <2>2, <2>4, <2>7
<1>8. CASE wire' = W /\ UNCHANGED <<mem, held, pc, item>>
  BY <1>2, <1>3, <1>5, <1>6, <1>8
<1>9. CASE /\ OnWire(W) = {}
           /\ wire' = W
           /\ pc' = [pc EXCEPT ![r] = "done"]
           /\ UNCHANGED <<mem, held, item>>
  <2>1. \A q \in Requests : pc'[q] # "appending"
    <3>1. pc \in [Requests -> Phases]
      BY Known DEF TypeOK
    <3> QED
      BY <1>2, <1>9, <3>1 DEF Busy, Ended
  <2>2. CountedWell({}, D, mem, held, target, pc')
    <3>1. FreshWell({}, D, held, target, pc')
      BY DEF FreshWell
    <3> QED
      BY <1>5, <2>1, <3>1, StoredCounted, CountedStored
  <2> QED
    BY <1>2, <1>3, <1>6, <1>9, <2>2
<1>10. CASE /\ OnWire(W) = {}
            /\ item[r] + 1 \in DOMAIN Items[r]
            /\ mem[Items[r][item[r] + 1]] = Absent
            /\ held[r] \in Records
            /\ StartItem(r, item[r] + 1, target[r], held[r], W)
  <2>1. PICK n, at, parent : n = item[r] + 1 /\ at = target[r] /\ parent = held[r]
    OBVIOUS
  <2>2. /\ n \in DOMAIN Items[r] /\ mem[Items[r][n]] = Absent /\ parent \in Records
        /\ StartItem(r, n, at, parent, W)
    BY <1>10, <2>1
  <2>3. D \in [Docs -> Records]
    <3>1. done \in BOOLEAN
      BY DEF Done
    <3>2. PlacesInv'
      BY <3>1, InsertOneKeeps
    <3>3. db' \in [Docs -> Records]
      BY <3>2 DEF PlacesInv, TypeOK
    <3> QED
      BY <1>3, <3>3
  <2>4. \A x \in Docs : D[x] # Absent => mem[x] # Absent /\ Rooted(mem[x].parent, D)
    <3> SUFFICES ASSUME NEW x \in Docs, D[x] # Absent
                 PROVE  mem[x] # Absent /\ Rooted(mem[x].parent, D)
      OBVIOUS
    <3>1. Live(x, OnWire(wire), db)
      BY <1>1, <1>2, <1>4 DEF Live, Carried
    <3>2. mem[x] # Absent /\ Rooted(mem[x].parent, db) /\ mem[x].parent \in Docs \cup {NoDoc}
      BY <3>1, LiveHasPlace, StoredHasPlace
    <3> QED
      BY <1>2, <1>4, <3>2 DEF Rooted
  <2>5. LiveApart({}, D, mem)
    BY <1>5, <1>10 DEF CountedWell
  <2>6. \A x \in Docs : D[x] # Absent /\ mem[x].parent # NoDoc =>
            Last(mem[x].portal) <= D[mem[x].parent].npos
    BY <1>5, StoredCounted
  <2>7. ASSUME parent # Absent
        PROVE  /\ at \in Docs /\ D[at] # Absent /\ target'[r] = at
               /\ parent.portal = mem[at].portal /\ D[at].npos <= parent.npos
    <3>1. at \in Docs /\ InPlace(parent, mem[at])
      BY <1>2, <2>1, <2>7, Known DEF RequestWell
    <3>2. db[at] # Absent
      BY <1>2, <2>1, <2>7 DEF Linked
    <3>3. D[at].npos <= parent.npos
      BY <1>2, <1>5, <2>1, <2>7 DEF CountedWell, CountsWell
    <3> QED
      BY <1>2, <1>4, <2>1, <3>1, <3>2, <3>3 DEF InPlace
  <2>8. CountedWell(OnWire(wire'), D, mem', held', target', pc') /\ CountUp(wire')
    BY <1>2, <1>10, <2>2, <2>3, <2>4, <2>5, <2>6, <2>7, StartCounted
  <2> QED
    BY <1>3, <2>8
<1> QED
  BY <1>2, <1>7, <1>8, <1>9, <1>10 DEF InsertEffect

\* There is nothing to count at first.
LEMMA CountedInit == Init => CountedInv
<1> SUFFICES ASSUME Init
             PROVE  CountedWell(OnWire(wire), db, mem, held, target, pc) /\ CountUp(wire)
  BY DEF CountedInv
<1>1. OnWire(wire) = {}
  BY DEF Init, OnWire
<1>2. \A d \in Docs : db[d] = Absent
  BY DEF Init
<1>3. \A r \in Requests : pc[r] # "appending"
  BY DEF Init
<1>4. CountUp(wire)
  BY <1>1, CountUpFew
<1>5. FreshWell({}, db, held, target, pc)
  BY DEF FreshWell
<1>6. CountedWell({}, db, mem, held, target, pc)
  BY <1>2, <1>3, <1>5, CountedStored
<1> QED
  BY <1>1, <1>4, <1>6

\* Every step keeps the count.
LEMMA CountedStep ==
    PlacesInv /\ BodyInv /\ LinkedInv /\ CountedInv /\ [Next]_vars => CountedInv'
<1>1. granted' = granted \/ ~ [Next]_vars
  BY DEF Next, Step, Mongo, Arrive, AppendTop, AppendTo, Save, Delete, Timer, LoadTarget,
         LoadSaved, LoadSkeleton, LoadFails, CountRoots, UpdateParent, InsertOne, WriteSaved,
         RemoveTree, WriteFails, vars
<1> SUFFICES ASSUME PlacesInv, BodyInv, LinkedInv, CountedInv, [Next]_vars, granted = Favours
             PROVE  CountedWell(OnWire(wire'), db', mem', held', target', pc') /\ CountUp(wire')
  BY <1>1 DEF CountedInv
<1>2. "serial" \in granted /\ "ordered" \in granted /\ "fresh" \in granted /\ "sound" \in granted
  BY DEF Favours
<1>3. /\ OneAtATime(pc) /\ Linked(OnWire(wire), db, mem, held, target, pc)
      /\ CountedWell(OnWire(wire), db, mem, held, target, pc) /\ CountUp(wire)
  BY <1>2 DEF LinkedInv, CountedInv
<1>4. ASSUME NEW r \in Requests, Arrive(r)
      PROVE  CountedWell(OnWire(wire'), db', mem', held', target', pc') /\ CountUp(wire')
  BY <1>2, <1>3, <1>4, ArriveCounted
<1>5. ASSUME NEW r \in Requests, Timer(r)
      PROVE  CountedWell(OnWire(wire'), db', mem', held', target', pc') /\ CountUp(wire')
  BY <1>3, <1>5, TimerCounted
<1>6. ASSUME NEW k \in DOMAIN wire, Mongo(k)
      PROVE  CountedWell(OnWire(wire'), db', mem', held', target', pc') /\ CountUp(wire')
  <2>1. CASE LoadTarget(k)
    BY <1>3, <2>1, LoadTargetCounted
  <2>2. CASE \/ LoadSaved(k) \/ LoadSkeleton(k) \/ LoadFails(k)
             \/ WriteSaved(k) \/ RemoveTree(k) \/ WriteFails(k)
    BY <1>2, <1>3, <2>2, OthersCounted
  <2>3. ASSUME NEW done \in Done, CountRoots(k, done)
        PROVE  CountedWell(OnWire(wire'), db', mem', held', target', pc') /\ CountUp(wire')
    BY <1>2, <1>3, <2>3, CountRootsCounted
  <2>4. ASSUME NEW done \in Done, UpdateParent(k, done)
        PROVE  CountedWell(OnWire(wire'), db', mem', held', target', pc') /\ CountUp(wire')
    BY <1>2, <1>3, <2>4, UpdateParentCounted
  <2>5. ASSUME NEW done \in Done, InsertOne(k, done)
        PROVE  CountedWell(OnWire(wire'), db', mem', held', target', pc') /\ CountUp(wire')
    BY <1>2, <1>3, <2>5, InsertOneCounted
  <2> QED
    BY <1>6, <2>1, <2>2, <2>3, <2>4, <2>5 DEF Mongo
<1>7. CASE UNCHANGED vars
  <2>1. UNCHANGED <<db, mem, held, target, pc, wire>>
    BY <1>7 DEF vars
  <2> QED
    BY <1>3, <2>1
<1> QED
  BY <1>4, <1>5, <1>6, <1>7 DEF Next, Step

\* With everything granted, what is stored counts as the fourth invariant says.
THEOREM CountedInvariance == Spec => []CountedInv
<1>1. Init => CountedInv
  BY CountedInit
<1>2. PlacesInv /\ BodyInv /\ LinkedInv /\ CountedInv /\ [Next]_vars => CountedInv'
  BY CountedStep
<1> QED
  BY <1>1, <1>2, PlacesInvariance, BodyInvariance, LinkedInvariance, PTL DEF Spec

\* The collection, with everything granted: containers are apart, and none
\* has a child beyond its count.
LEMMA CollectionCounted ==
    ASSUME PlacesInv, CountedInv, granted = Favours
    PROVE  /\ Apart(InDb)
           /\ \A d \in InDb : \A x \in Children(d) : Last(db[x].portal) <= db[d].npos
<1>1. CountedWell(OnWire(wire), db, mem, held, target, pc)
  BY DEF CountedInv
<1>2. \A x \in InDb : x \in Docs /\ db[x] # Absent
  BY DEF InDb, Present
<1>3. \A x \in InDb : db[x].portal = mem[x].portal /\ db[x].parent = mem[x].parent
  BY <1>2, HangsFrom
<1>4. Apart(InDb)
  BY <1>1, <1>2, <1>3, StoredCounted DEF Apart
<1>5. ASSUME NEW d \in InDb, NEW x \in Children(d)
      PROVE  Last(db[x].portal) <= db[d].npos
  <2>1. x \in InDb /\ db[x].parent = d /\ d # NoDoc
    BY <1>2, <1>5, ConstantsAssumption DEF Children
  <2> QED
    BY <1>1, <1>2, <1>3, <2>1, StoredCounted
<1> QED
  BY <1>4, <1>5

\* A container's next position is beyond those of its children (append.js L97),
\* with everything granted.
THEOREM ChildrenAreCounted == Spec => []ChildrenCounted
<1>1. PlacesInv /\ CountedInv => ChildrenCounted
  BY CollectionCounted DEF ChildrenCounted
<1> QED
  BY <1>1, PlacesInvariance, CountedInvariance, PTL

\* No two containers of a body that was appended to a container, or of an item,
\* are in one place, whatever goes wrong; and with everything granted no two of
\* the collection are.
THEOREM PlacesAreUnique == Spec => []UniquePlaces
<1>1. PlacesInv /\ BodyInv /\ CountedInv => UniquePlaces
  BY BodiesStayApart, CollectionCounted DEF UniquePlaces
<1> QED
  BY <1>1, PlacesInvariance, BodyInvariance, CountedInvariance, PTL

-----------------------------------------------------------------------------
(* What a delete takes.                                                      *)

\* A place is below itself, and one that is a single step is below no other.
LEMMA BelowItself ==
    ASSUME NEW s \in Seq(Nat \ {0}), s # <<>>
    PROVE  /\ IsPrefix(s, s)
           /\ \A t \in Seq(Nat \ {0}) : IsPrefix(s, t) /\ s # t => Len(t) > 1
<1>1. ASSUME NEW t \in Seq(Nat \ {0})
      PROVE  SubSeq(t, 1, Len(t)) = t
  <2>1. PICK u : u = SubSeq(t, 1, Len(t))
    OBVIOUS
  <2>2. u \in Seq(Nat \ {0}) /\ Len(u) = Len(t) /\ \A j \in 1..Len(t) : u[j] = t[j]
    BY <2>1, SubSeqProperties
  <2>3. u = t
    BY <2>2, SeqEqual
  <2> QED
    BY <2>1, <2>3
<1>2. Len(s) \in Nat \ {0}
  OBVIOUS
<1>3. IsPrefix(s, s)
  BY <1>2 DEF IsPrefix
<1>4. ASSUME NEW t \in Seq(Nat \ {0}), IsPrefix(s, t), s # t
      PROVE  Len(t) > 1
  <2>1. Len(s) <= Len(t) /\ SubSeq(s, 1, Len(s)) = SubSeq(t, 1, Len(s)) /\ Len(t) \in Nat
    BY <1>4 DEF IsPrefix
  <2>2. Len(s) # Len(t)
    BY <1>1, <1>4, <2>1
  <2> QED
    BY <1>2, <2>1, <2>2
<1> QED
  BY <1>3, <1>4

\* What is within a container's place is what hangs from it.
LEMMA SubtreeIs ==
    ASSUME PlacesInv, NEW t \in InDb, Apart(InDb),
           \A x \in InDb : Rooted(mem[x].parent, db)
    PROVE  Subtree(t) = {x \in InDb : Within(db[x], db[t])}
<1>1. PICK R : R = {x \in InDb : Within(db[x], db[t])}
  OBVIOUS
<1>2. \A x \in InDb : /\ x \in Docs /\ db[x] # Absent
                      /\ db[x].portal \in Seq(Nat \ {0}) /\ db[x].portal # <<>>
                      /\ Len(db[x].portal) \in Nat
  <2> SUFFICES ASSUME NEW x \in InDb
               PROVE  /\ x \in Docs /\ db[x] # Absent
                      /\ db[x].portal \in Seq(Nat \ {0}) /\ db[x].portal # <<>>
                      /\ Len(db[x].portal) \in Nat
    OBVIOUS
  <2>1. x \in Docs /\ db[x] # Absent
    BY DEF InDb, Present
  <2>2. db[x].portal \in Seq(Nat \ {0})
    BY <2>1, HangsFrom DEF Records
  <2>3. InPlace(db[x], mem[x])
    BY <2>1, Known DEF StoredWell
  <2> QED
    BY <2>1, <2>2, <2>3 DEF InPlace
<1>3. \A x \in InDb : x \in R <=> IsPrefix(db[t].portal, db[x].portal)
  BY <1>1 DEF Within, InDb
<1>4. \A x \in InDb : db[x].parent # NoDoc =>
          /\ db[x].parent \in InDb
          /\ Len(db[x].portal) > 1 /\ Front(db[x].portal) = db[db[x].parent].portal
  <2> SUFFICES ASSUME NEW x \in InDb, db[x].parent # NoDoc
               PROVE  /\ db[x].parent \in InDb
                      /\ Len(db[x].portal) > 1 /\ Front(db[x].portal) = db[db[x].parent].portal
    OBVIOUS
  <2>1. PICK p : p = mem[x].parent
    OBVIOUS
  <2>2. db[x].portal = mem[x].portal /\ db[x].parent = p /\ p \in Docs \cup {NoDoc}
    BY <1>2, <2>1, HangsFrom
  <2>3. p \in Docs /\ db[p] # Absent
    BY <2>1, <2>2 DEF Rooted
  <2>4. Len(mem[x].portal) > 1 /\ Front(mem[x].portal) = db[p].portal
    BY <1>2, <2>1, <2>2, <2>3, HangsFrom
  <2> QED
    BY <2>2, <2>3, <2>4 DEF InDb, Present
<1>5. \A x \in InDb : db[x].parent = NoDoc => Len(db[x].portal) = 1
  BY <1>2, HangsFrom
<1>6. Subtree(t) \subseteq R
  <2>1. t \in R /\ R \in SUBSET InDb
    BY <1>1, <1>2, <1>3, BelowItself
  <2>2. ASSUME NEW y \in R, NEW x \in Children(y)
        PROVE  x \in R
    <3>1. x \in InDb /\ db[x].parent = y /\ y \in InDb
      BY <1>1 DEF Children
    <3>2. y # NoDoc
      BY <1>2, <3>1, ConstantsAssumption
    <3>3. Len(db[x].portal) > 1 /\ Front(db[x].portal) = db[y].portal
      BY <1>4, <3>1, <3>2
    <3>4. IsPrefix(db[t].portal, db[x].portal)
      BY <1>2, <1>3, <3>1, <3>3, PrefixOfFront
    <3> QED
      BY <1>3, <3>1, <3>4
  <2> QED
    BY <2>1, <2>2 DEF Subtree
<1>7. R \subseteq Subtree(t)
  <2> SUFFICES ASSUME NEW S \in SUBSET InDb, t \in S, \A y \in S : Children(y) \subseteq S,
                      \E x \in R : x \notin S
               PROVE  FALSE
    BY <1>1 DEF Subtree
  <2>1. PICK A : A = {Len(db[x].portal) : x \in R \ S}
    OBVIOUS
  <2>2. A \in SUBSET Nat /\ A # {}
    BY <1>1, <1>2, <2>1
  <2>3. PICK l \in A : \A j \in A : l <= j
    BY <2>2, Least
  <2>4. PICK x \in R \ S : l = Len(db[x].portal)
    BY <2>1, <2>3
  <2>5. x \in InDb /\ x # t /\ IsPrefix(db[t].portal, db[x].portal)
    BY <1>1, <1>3, <2>4
  <2>6. db[t].portal # db[x].portal
    BY <2>5 DEF Apart
  <2>7. Len(db[x].portal) > 1
    BY <1>2, <2>5, <2>6, BelowItself
  <2>8. PICK n \in Nat : n = Len(db[x].portal)
    BY <1>2, <2>5
  <2>9. db[x].parent # NoDoc
    <3>1. n > 1
      BY <2>7, <2>8
    <3>2. n # 1
      BY <3>1
    <3> QED
      BY <1>5, <2>5, <2>8, <3>2
  <2>10. PICK p \in InDb : p = db[x].parent /\ Front(db[x].portal) = db[p].portal
    BY <1>4, <2>5, <2>9
  <2>11. IsPrefix(db[t].portal, db[p].portal) /\ Len(db[p].portal) < Len(db[x].portal)
    BY <1>2, <2>5, <2>6, <2>7, <2>10, PrefixOfFront
  <2>12. p \in R
    BY <1>3, <2>11
  <2>13. p \in S
    <3> SUFFICES ASSUME p \notin S
                 PROVE  FALSE
      OBVIOUS
    <3>1. l <= Len(db[p].portal)
      BY <2>1, <2>3, <2>12
    <3> QED
      BY <1>2, <2>4, <2>5, <2>11, <3>1
  <2>14. x \in Children(p)
    BY <2>5, <2>10 DEF Children
  <2> QED
    BY <2>4, <2>13, <2>14
<1> QED
  BY <1>1, <1>6, <1>7

\* Only the removal of a tree answers a delete.
LEMMA DeleteIs ==
    ASSUME PlacesInv, [Next]_vars, NEW r \in Requests, pc[r] = "deleting", pc'[r] = "done"
    PROVE  \E k \in DOMAIN wire : RemoveTree(k) /\ wire[k].req = r
<1>1. pc \in [Requests -> Phases]
  BY Known DEF TypeOK
<1>2. ASSUME NEW q \in Requests, Arrive(q)
      PROVE  FALSE
  BY <1>1, <1>2 DEF Arrive, AppendTop, AppendTo, Save, Delete, MayStart, StartItem
<1>3. ASSUME NEW q \in Requests, Timer(q)
      PROVE  FALSE
  BY <1>1, <1>3 DEF Timer
<1>4. ASSUME NEW k \in DOMAIN wire, Mongo(k)
      PROVE  RemoveTree(k) /\ wire[k].req = r
  <2>1. wire[k] \in OnWire(wire) /\ wire[k].req \in Requests
    BY RestWire, WireKnown
  <2>2. CASE LoadTarget(k)
    BY <1>1, <2>2 DEF LoadTarget, StartItem
  <2>3. CASE LoadSaved(k) \/ LoadSkeleton(k) \/ LoadFails(k) \/ WriteFails(k)
    BY <1>1, <2>1, <2>3 DEF LoadSaved, LoadSkeleton, LoadFails, WriteFails
  <2>4. ASSUME NEW done \in Done, CountRoots(k, done) \/ UpdateParent(k, done)
        PROVE  FALSE
    BY <2>4 DEF CountRoots, UpdateParent
  <2>5. ASSUME NEW done \in Done, InsertOne(k, done)
        PROVE  FALSE
    <3>1. PICK q : q = wire[k].req /\ q \in Requests
      BY <2>1
    <3>2. pc[q] = "appending"
      BY <2>1, <2>5, <3>1, WireKnown DEF InsertOne, Does, Carriers
    <3>3. pc' = pc \/ \E phase : pc' = [pc EXCEPT ![q] = phase]
      BY <2>5, <3>1 DEF InsertOne, StartItem
    <3> QED
      BY <1>1, <3>1, <3>2, <3>3
  <2>6. CASE WriteSaved(k)
    <3>1. pc[wire[k].req] = "saving"
      BY <2>1, <2>6, WireKnown DEF WriteSaved, Does, OpWell
    <3> QED
      BY <1>1, <2>1, <2>6, <3>1 DEF WriteSaved
  <2>7. CASE RemoveTree(k)
    BY <1>1, <2>1, <2>7 DEF RemoveTree
  <2> QED
    BY <1>4, <2>2, <2>3, <2>4, <2>5, <2>6, <2>7 DEF Mongo
<1>5. ~ UNCHANGED vars
  BY DEF vars
<1> QED
  BY <1>2, <1>3, <1>4, <1>5 DEF Next, Step

\* A delete, which goes by left and right values, takes the container and all
\* that hangs below it by parent_id, and nothing else (delete.js), with
\* everything granted.
THEOREM DeletesAreSubtrees == Spec => DeleteIsSubtree
<1> DEFINE A == \A r \in Requests :
                    granted = Favours /\ pc[r] = "deleting" /\ pc'[r] = "done" =>
                        InDb \ InDb' = Subtree(target[r])
<1>1. PlacesInv /\ LinkedInv /\ CountedInv /\ [Next]_vars => [A]_vars
  <2> SUFFICES ASSUME PlacesInv, LinkedInv, CountedInv, [Next]_vars, NEW r \in Requests,
                      granted = Favours, pc[r] = "deleting", pc'[r] = "done"
               PROVE  InDb \ InDb' = Subtree(target[r])
    OBVIOUS
  <2>1. PICK k \in DOMAIN wire : RemoveTree(k) /\ wire[k].req = r
    BY DeleteIs
  <2>2. PICK c : c = wire[k]
    OBVIOUS
  <2>3. /\ c \in OnWire(wire) /\ c.op = "remove" /\ c.req = r
        /\ db' = [d \in Docs |-> IF Within(db[d], c.rec) THEN Absent ELSE db[d]]
    BY <2>1, <2>2 DEF RemoveTree, Does, OnWire
  <2>4. /\ CountedWell(OnWire(wire), db, mem, held, target, pc)
        /\ Linked(OnWire(wire), db, mem, held, target, pc)
    BY DEF CountedInv, LinkedInv, Favours
  <2>5. PICK t : t = target[r]
    OBVIOUS
  <2>6. t \in InDb /\ c.rec = db[t]
    BY <2>3, <2>4, <2>5 DEF CountedWell, FreshWell, InDb, Present
  <2>7. Apart(InDb)
    BY CollectionCounted
  <2>8. \A x \in InDb : Rooted(mem[x].parent, db)
    BY <2>4 DEF Linked, InDb, Present
  <2>9. Subtree(t) = {x \in InDb : Within(db[x], db[t])}
    BY <2>6, <2>7, <2>8, SubtreeIs
  <2>10. InDb' = {x \in Docs : Present(IF Within(db[x], db[t]) THEN Absent ELSE db[x])}
    BY <2>3, <2>6 DEF InDb
  <2>11. InDb \ InDb' = {x \in InDb : Within(db[x], db[t])}
    BY <2>10 DEF InDb, Present
  <2> QED
    BY <2>5, <2>9, <2>11
<1> QED
  BY <1>1, PlacesInvariance, LinkedInvariance, CountedInvariance, PTL DEF Spec, DeleteIsSubtree
=============================================================================
