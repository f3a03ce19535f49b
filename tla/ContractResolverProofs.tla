----------------------- MODULE ContractResolverProofs -----------------------
(***************************************************************************)
(* Proofs about the contract resolver, for any set of trees of merges and  *)
(* pipes over any contracts and plain requests, and any answers to these.  *)
(*                                                                         *)
(* The argument is local.  A request is active while something is still    *)
(* going to happen to it; what is active has a contract above it that      *)
(* runs (Placed), and what a contract has done so far is told by its parts *)
(* alone (MergeWell, PipeWell).  A step touches one contract and its part: *)
(* for every other contract it is Untouched, and its own statement is      *)
(* carried over as it is.  TreeAssumption then gives, in any set of        *)
(* requests, a topmost one: from it come that nothing is active once the   *)
(* client has its response, and that an error climbs to the root.          *)
(***************************************************************************)
EXTENDS ContractResolver, FiniteSetTheorems, WellFoundedInduction, TLAPS

\* A contract that has been started, whether or not it has answered.
Begun == {"running", "sent", "settling"}

\* The listener of a response has run, and is done with it.
Delivered(n) == phase[n] = "sent" /\ sending # n

\* Something is going to happen to a request.
Active(n) == phase[n] \in {"queued", "accepted", "running", "settling"} \/ sending = n

\* A response is sent once, and what is being sent counts as sent.
\* The root is not a part, so that it neither waits nor settles.
SentOnce ==
    /\ \A n \in Nodes : sends[n] = IF phase[n] \in {"sent", "settling"} THEN 1 ELSE 0
    /\ sending \in Nodes => phase[sending] = "sent"
    /\ phase[Root] \notin {"idle", "settling"}

\* A request that was reached is part of a contract that was started, and that
\* contract waits for it as long as something is going to happen to it.
Placed ==
    \A n \in Nodes : phase[n] # "idle" /\ n # Root =>
        \E c \in Contracts : /\ IsPart(n, c) /\ Type(c) # "other" /\ phase[c] \in Begun
                             /\ Active(n) => phase[c] = "running"

\* Only a pipe leaves the response of a part to the next tick.
Settles ==
    \A c \in Contracts : \A k \in DOMAIN Parts(c) :
        phase[Parts(c)[k]] = "settling" => Type(c) = "pipe"

\* A contract that is accepted has parts and a type with a resolver.
Resolved ==
    \A c \in Contracts : phase[c] \in {"accepted", "running"} => Parts(c) # <<>> /\ Type(c) # "other"

\* The parts whose response a merge has added.
DeliveredParts(c) == {k \in DOMAIN Parts(c) : Delivered(Parts(c)[k])}

\* What a response has collected.
Collected(res) == IF res.body = NoBody THEN <<>> ELSE res.body

\* The responses of the parts of a contract.
Answers(c) == [k \in DOMAIN Parts(c) |-> response[Parts(c)[k]]]

\* A response is the sum of the answers A of the parts in D.
SumOf(res, D, A) ==
    /\ \E order \in SetToSeqs({k \in D : ~ HasError(A[k])}) :
          Collected(res) = FlattenSeq([i \in DOMAIN order |-> Members(A[order[i]].body)])
    /\ \E order \in SetToSeqs({k \in D : HasError(A[k])}) :
          res.errors = [i \in DOMAIN order |-> A[order[i]].body]
    /\ res.statusCode >= 400 => \E k \in D : HasError(A[k])
    /\ D # {} => res.body # NoBody

\* A merge reaches all of its parts, counts those whose response it added, has
\* the sum of these, and does not forget an error.
MergeWell(c) ==
    /\ phase[c] \in Begun => \A k \in DOMAIN Parts(c) :
           /\ phase[Parts(c)[k]] # "idle"
           /\ Delivered(Parts(c)[k]) /\ HasError(response[Parts(c)[k]]) => response[c].errors # <<>>
    /\ phase[c] \notin Begun => arrived[c] = 0 /\ response[c] = Fresh
    /\ phase[c] \in Begun => SumOf(response[c], DeliveredParts(c), Answers(c))
    /\ phase[c] = "running" => arrived[c] = Cardinality(DeliveredParts(c))

\* A part that a pipe is done with has brought results, for the next.
Passed(c, k) ==
    /\ Delivered(Parts(c)[k])
    /\ ~ HasError(response[Parts(c)[k]]) /\ ~ IsEmpty(response[Parts(c)[k]].body)
    /\ input[Parts(c)[k + 1]] = response[Parts(c)[k]].body

\* A pipe runs one of its parts, and those before it have passed.
PipeWell(c) ==
    /\ phase[c] \notin {"sent", "settling"} => response[c] = Fresh
    /\ phase[c] \in Begun =>
           /\ arrived[c] \in DOMAIN Parts(c)
           /\ phase[Parts(c)[arrived[c]]] # "idle"
           /\ \A k \in DOMAIN Parts(c) :
                  /\ k < arrived[c] => Passed(c, k)
                  /\ k > arrived[c] => phase[Parts(c)[k]] = "idle"
    /\ phase[c] \notin Begun => \A k \in DOMAIN Parts(c) : phase[Parts(c)[k]] = "idle"
    /\ phase[c] \in {"sent", "settling"} => AnswersTheLast(c)

\* Each contract that has parts does as its type says.
RunsWell ==
    \A c \in Contracts : Parts(c) # <<>> =>
        /\ Type(c) = "merge" => MergeWell(c)
        /\ Type(c) = "pipe" => PipeWell(c)

\* The inductive invariant.
CInv == TypeOK /\ SentOnce /\ Placed /\ Settles /\ Resolved /\ RunsWell

-----------------------------------------------------------------------------
(* Sequences.                                                                *)

\* A set of numbers has a least one.
LEMMA LeastOf ==
    ASSUME NEW S \in SUBSET Nat, S # {}
    PROVE  \E k \in S : \A j \in S : k <= j
<1> DEFINE R == {p \in Nat \X Nat : p[1] < p[2]}
<1>1. R = OpToRel(<, Nat)
  BY Zenon DEF OpToRel
<1>2. IsWellFoundedOn(R, Nat)
  BY <1>1, NatLessThanWellFounded
<1>3. PICK k \in S : \A j \in S : <<j, k>> \notin R
  <2> HIDE DEF R
  <2> QED
    BY <1>2, WFMin, Zenon
<1>4. ASSUME NEW j \in S
      PROVE  ~ (j < k)
  <2>1. <<j, k>> \in Nat \X Nat /\ <<j, k>>[1] = j /\ <<j, k>>[2] = k
    OBVIOUS
  <2> QED
    BY <1>3, <2>1
<1> QED
  BY <1>3, <1>4

\* What holds at 0, and at each number below n only if at the next, holds up to n.
LEMMA UpTo ==
    ASSUME NEW n \in Nat, NEW G, 0 \in G, \A k \in 0..(n - 1) : k \in G => k + 1 \in G
    PROVE  \A k \in 0..n : k \in G
<1> DEFINE B == {k \in 0..n : k \notin G}
<1>1. SUFFICES ASSUME B # {} PROVE FALSE
  OBVIOUS
<1>2. PICK k \in B : \A j \in B : k <= j
  <2>1. B \in SUBSET Nat
    OBVIOUS
  <2> HIDE DEF B
  <2> QED
    BY <1>1, <2>1, LeastOf
<1>3. k \in 0..n /\ k # 0 /\ k \notin G
  BY <1>2
<1>4. k - 1 \in 0..(n - 1) /\ (k - 1) + 1 = k /\ k - 1 \in 0..n
  BY <1>3
<1>5. k - 1 \notin B
  BY <1>2, <1>3
<1> QED
  BY <1>3, <1>4, <1>5

\* FlattenSeq puts a sequence of sequences together from the left.
LEMMA FlattenIs ==
    ASSUME NEW S, NEW s \in Seq(Seq(S)), s # <<>>
    PROVE  \E h \in [1..Len(s) -> Seq(S)] :
               /\ h[1] = s[1] /\ \A k \in 2..Len(s) : h[k] = h[k - 1] \o s[k]
               /\ FlattenSeq(s) = h[Len(s)]
<1> DEFINE n == Len(s)
           Is(f) == f = [i \in 1..n |-> IF i = 1 THEN s[i] ELSE f[i - 1] \o s[i]]
           Fits(f, m) == \A i \in 1..m : f[i] = IF i = 1 THEN s[i] ELSE f[i - 1] \o s[i]
           G == {m \in 0..n : \E f \in [1..m -> Seq(S)] : Fits(f, m)}
<1>1. n \in Nat /\ n >= 1 /\ \A i \in 1..n : s[i] \in Seq(S)
  OBVIOUS
<1> HIDE DEF n
<1>2. 0 \in G
  <2>1. PICK f : f = [i \in 1..0 |-> <<>>]
    OBVIOUS
  <2>2. f \in [1..0 -> Seq(S)] /\ Fits(f, 0)
    BY <2>1
  <2>3. 0 \in 0..n
    BY <1>1
  <2> HIDE DEF Fits
  <2> QED
    BY <2>2, <2>3
<1>3. ASSUME NEW m \in 0..(n - 1), m \in G
      PROVE  m + 1 \in G
  <2>1. PICK f \in [1..m -> Seq(S)] : Fits(f, m)
    BY <1>3
  <2>2. m \in Nat /\ m + 1 \in 1..n
    BY <1>1
  <2>3. PICK v : v = IF m = 0 THEN s[1] ELSE f[m] \o s[m + 1]
    OBVIOUS
  <2>4. v \in Seq(S)
    <3>1. m # 0 => f[m] \in Seq(S)
      BY <2>2
    <3>2. s[1] \in Seq(S) /\ s[m + 1] \in Seq(S)
      BY <1>1, <2>2
    <3> QED
      BY <2>3, <3>1, <3>2
  <2>5. PICK g : g = [i \in 1..(m + 1) |-> IF i = m + 1 THEN v ELSE f[i]]
    OBVIOUS
  <2>6. g \in [1..(m + 1) -> Seq(S)] /\ g[m + 1] = v /\ \A i \in 1..m : g[i] = f[i]
    BY <2>2, <2>4, <2>5
  <2>7. \A i \in 1..(m + 1) : g[i] = IF i = 1 THEN s[i] ELSE g[i - 1] \o s[i]
    <3> SUFFICES ASSUME NEW i \in 1..(m + 1)
                 PROVE  g[i] = IF i = 1 THEN s[i] ELSE g[i - 1] \o s[i]
      OBVIOUS
    <3>1. CASE i = m + 1
      <4>1. m # 0 => m \in 1..m /\ i - 1 = m
        BY <2>2, <3>1
      <4> QED
        BY <2>2, <2>3, <2>6, <3>1, <4>1
    <3>2. CASE i # m + 1
      <4>1. i \in 1..m /\ (i # 1 => i - 1 \in 1..m)
        BY <2>2, <3>2
      <4> QED
        BY <2>1, <2>6, <4>1
    <3> QED
      BY <3>1, <3>2
  <2>8. m + 1 \in 0..n
    BY <1>1, <2>2
  <2> QED
    BY <2>6, <2>7, <2>8
<1>4. n \in G
  <2> HIDE DEF G
  <2>1. \A m \in 0..n : m \in G
    BY <1>1, <1>2, <1>3, UpTo
  <2> QED
    BY <1>1, <2>1
<1>5. PICK f \in [1..n -> Seq(S)] : Fits(f, n)
  BY <1>4
<1>6. Is(f)
  BY <1>5
<1>7. FlattenSeq(s) = (CHOOSE h : Is(h))[n]
  BY <1>1 DEF FlattenSeq, n
<1>8. PICK h : h = CHOOSE g : Is(g)
  OBVIOUS
<1>9. Is(h)
  <2> HIDE DEF Is
  <2> QED
    BY <1>6, <1>8
<1>10. Fits(h, n)
  <2>1. PICK g : g = [i \in 1..n |-> IF i = 1 THEN s[i] ELSE h[i - 1] \o s[i]]
    OBVIOUS
  <2>2. \A i \in 1..n : g[i] = IF i = 1 THEN s[i] ELSE h[i - 1] \o s[i]
    BY <2>1
  <2> QED
    BY <1>9, <2>1, <2>2
<1>11. h = f
  <2> DEFINE E == {m \in 0..n : m = 0 \/ h[m] = f[m]}
  <2>1. 0 \in E
    BY <1>1
  <2>2. ASSUME NEW m \in 0..(n - 1), m \in E
        PROVE  m + 1 \in E
    <3>1. m \in Nat /\ m + 1 \in 1..n /\ (m + 1) - 1 = m /\ m + 1 \in 0..n
      BY <1>1
    <3>2. m # 0 => h[m] = f[m]
      BY <2>2
    <3>3. h[m + 1] = IF m + 1 = 1 THEN s[m + 1] ELSE h[m] \o s[m + 1]
      BY <1>10, <3>1
    <3>4. f[m + 1] = IF m + 1 = 1 THEN s[m + 1] ELSE f[m] \o s[m + 1]
      BY <1>5, <3>1
    <3> QED
      BY <3>1, <3>2, <3>3, <3>4
  <2>3. \A m \in 0..n : m \in E
    <3> HIDE DEF E
    <3> QED
      BY <1>1, <2>1, <2>2, UpTo
  <2>4. \A m \in 1..n : h[m] = f[m]
    BY <1>1, <2>3
  <2>5. h = [i \in 1..n |-> h[i]] /\ f = [i \in 1..n |-> f[i]]
    <3>1. PICK g : g = [i \in 1..n |-> IF i = 1 THEN s[i] ELSE h[i - 1] \o s[i]]
      OBVIOUS
    <3>2. h = g /\ g = [i \in 1..n |-> g[i]]
      BY <1>9, <3>1
    <3> QED
      BY <3>2
  <2> QED
    BY <2>4, <2>5
<1>12. h \in [1..n -> Seq(S)] /\ FlattenSeq(s) = h[n]
  BY <1>7, <1>8, <1>11
<1>13. h[1] = s[1] /\ \A k \in 2..n : h[k] = h[k - 1] \o s[k]
  <2>1. 1 \in 1..n /\ \A k \in 2..n : k \in 1..n /\ k # 1
    BY <1>1
  <2> QED
    BY <1>10, <2>1, Zenon
<1> QED
  BY <1>12, <1>13 DEF n

\* One more sequence comes at the end.
LEMMA FlattenAppend ==
    ASSUME NEW S, NEW s \in Seq(Seq(S)), NEW x \in Seq(S)
    PROVE  /\ FlattenSeq(<<>>) = <<>>
           /\ FlattenSeq(Append(s, x)) = FlattenSeq(s) \o x
           /\ FlattenSeq(s) \in Seq(S)
<1>1. FlattenSeq(<<>>) = <<>>
  BY DEF FlattenSeq
<1>2. PICK t : t = Append(s, x)
  OBVIOUS
<1>3. PICK n \in Nat : n = Len(s)
  OBVIOUS
<1>4. /\ t \in Seq(Seq(S)) /\ t # <<>> /\ Len(t) = n + 1 /\ t[n + 1] = x
      /\ \A i \in 1..n : t[i] = s[i]
  BY <1>2, <1>3
<1>5. PICK g \in [1..(n + 1) -> Seq(S)] :
          /\ g[1] = t[1] /\ \A k \in 2..(n + 1) : g[k] = g[k - 1] \o t[k]
          /\ FlattenSeq(t) = g[n + 1]
  <2>1. \E h \in [1..Len(t) -> Seq(S)] :
            /\ h[1] = t[1] /\ \A k \in 2..Len(t) : h[k] = h[k - 1] \o t[k]
            /\ FlattenSeq(t) = h[Len(t)]
    BY <1>4, FlattenIs, Zenon
  <2> QED
    BY <1>4, <2>1, Zenon
<1>6. CASE s = <<>>
  <2>1. n = 0 /\ FlattenSeq(t) = x
    BY <1>3, <1>4, <1>5, <1>6
  <2>2. <<>> \o x = x
    OBVIOUS
  <2>3. <<>> \in Seq(S)
    OBVIOUS
  <2> QED
    BY <1>1, <1>2, <1>6, <2>1, <2>2, <2>3
<1>7. CASE s # <<>>
  <2>1. PICK f \in [1..n -> Seq(S)] :
            /\ f[1] = s[1] /\ \A k \in 2..n : f[k] = f[k - 1] \o s[k]
            /\ FlattenSeq(s) = f[n]
    <3>1. \E h \in [1..Len(s) -> Seq(S)] :
              /\ h[1] = s[1] /\ \A k \in 2..Len(s) : h[k] = h[k - 1] \o s[k]
              /\ FlattenSeq(s) = h[Len(s)]
      BY <1>7, FlattenIs, Zenon
    <3> QED
      BY <1>3, <3>1, Zenon
  <2>2. n >= 1
    BY <1>3, <1>7
  <2> DEFINE E == {m \in 0..n : m = 0 \/ g[m] = f[m]}
  <2>3. 0 \in E
    BY <1>3
  <2>4. ASSUME NEW m \in 0..(n - 1), m \in E
        PROVE  m + 1 \in E
    <3>1. m \in Nat /\ m + 1 \in 1..n /\ m + 1 \in 0..n /\ t[m + 1] = s[m + 1]
      BY <1>4, <2>2
    <3>2. CASE m = 0
      BY <1>4, <1>5, <2>1, <2>2, <3>1, <3>2
    <3>3. CASE m # 0
      <4>1. m + 1 \in 2..n /\ m + 1 \in 2..(n + 1) /\ (m + 1) - 1 = m
        BY <3>1, <3>3
      <4>2. g[m] = f[m]
        BY <2>4, <3>3
      <4>3. g[m + 1] = g[m] \o t[m + 1] /\ f[m + 1] = f[m] \o s[m + 1]
        BY <1>5, <2>1, <4>1
      <4> QED
        BY <3>1, <4>2, <4>3
    <3> QED
      BY <3>2, <3>3
  <2>5. \A m \in 0..n : m \in E
    <3> HIDE DEF E
    <3> QED
      BY <2>3, <2>4, UpTo
  <2>6. g[n] = f[n]
    BY <2>2, <2>5
  <2>7. g[n + 1] = g[n] \o t[n + 1]
    <3>1. n + 1 \in 2..(n + 1) /\ (n + 1) - 1 = n
      BY <2>2
    <3>2. g[n + 1] = g[(n + 1) - 1] \o t[n + 1]
      BY <1>5, <3>1, Zenon
    <3> QED
      BY <3>1, <3>2
  <2>8. f[n] \in Seq(S)
    BY <2>1, <2>2
  <2> QED
    BY <1>1, <1>2, <1>4, <1>5, <2>1, <2>6, <2>7, <2>8
<1> QED
  BY <1>6, <1>7

\* In an order of a finite set one more comes last.
LEMMA OneMore ==
    ASSUME NEW S, IsFiniteSet(S), NEW x, x \notin S, NEW o \in SetToSeqs(S)
    PROVE  /\ o \in Seq(S) /\ DOMAIN o = 1..Cardinality(S)
           /\ Append(o, x) \in SetToSeqs(S \cup {x})
<1>1. PICK n \in Nat : n = Cardinality(S)
  BY FS_CardinalityType
<1>2. Cardinality(S \cup {x}) = n + 1
  BY <1>1, FS_AddElement
<1>3. o \in [1..n -> S] /\ \A i, j \in 1..n : i # j => o[i] # o[j]
  BY <1>1 DEF SetToSeqs
<1>4. o \in Seq(S) /\ Len(o) = n
  BY <1>3
<1>5. PICK p : p = Append(o, x)
  OBVIOUS
<1>6. /\ p \in [1..(n + 1) -> S \cup {x}]
      /\ p[n + 1] = x /\ \A i \in 1..n : p[i] = o[i] /\ o[i] \in S
  <2>1. o \in Seq(S \cup {x}) /\ x \in S \cup {x}
    BY <1>3, <1>4
  <2>2. p \in Seq(S \cup {x}) /\ Len(p) = n + 1
    BY <1>4, <1>5, <2>1
  <2>3. p[n + 1] = x /\ \A i \in 1..n : p[i] = o[i]
    BY <1>4, <1>5, <2>1
  <2> QED
    BY <1>3, <2>2, <2>3
<1>7. \A i, j \in 1..(n + 1) : i # j => p[i] # p[j]
  <2>1. \A i \in 1..(n + 1) : i = n + 1 \/ i \in 1..n
    OBVIOUS
  <2> QED
    BY <1>3, <1>6, <2>1
<1> QED
  BY <1>1, <1>2, <1>3, <1>4, <1>5, <1>6, <1>7 DEF SetToSeqs

-----------------------------------------------------------------------------
(* Sums.                                                                     *)

\* Nothing is the sum of no answers.
LEMMA SumOfNone ==
    ASSUME NEW A
    PROVE  SumOf(Fresh, {}, A)
<1>1. PICK o : o = <<>>
  OBVIOUS
<1>2. o \in SetToSeqs({}) /\ DOMAIN o = {}
  <2>1. Cardinality({}) = 0 /\ 1..0 = {}
    BY FS_EmptySet
  <2>2. o \in [{} -> {}]
    BY <1>1
  <2> QED
    BY <1>1, <2>1, <2>2 DEF SetToSeqs
<1>3. {k \in {} : HasError(A[k])} = {} /\ {k \in {} : ~ HasError(A[k])} = {}
  OBVIOUS
<1>4. /\ [i \in DOMAIN o |-> Members(A[o[i]].body)] = <<>>
      /\ [i \in DOMAIN o |-> A[o[i]].body] = <<>>
  BY <1>2
<1>5. FlattenSeq(<<>>) = <<>>
  BY DEF FlattenSeq
<1>6. Collected(Fresh) = <<>> /\ Fresh.errors = <<>> /\ Fresh.statusCode = 200
  BY DEF Collected, Fresh, Response
<1> QED
  BY <1>2, <1>3, <1>4, <1>5, <1>6 DEF SumOf

\* It depends on the answers it is of.
LEMMA SumOfSame ==
    ASSUME NEW res, NEW D, NEW A, NEW B, \A k \in D : B[k] = A[k], IsFiniteSet(D), SumOf(res, D, A)
    PROVE  SumOf(res, D, B)
<1>1. PICK S, T : /\ S = {k \in D : ~ HasError(A[k])} /\ S = {k \in D : ~ HasError(B[k])}
                  /\ T = {k \in D : HasError(A[k])} /\ T = {k \in D : HasError(B[k])}
  <2>1. {k \in D : ~ HasError(A[k])} = {k \in D : ~ HasError(B[k])}
    OBVIOUS
  <2>2. {k \in D : HasError(A[k])} = {k \in D : HasError(B[k])}
    OBVIOUS
  <2> QED
    BY <2>1, <2>2
<1>2. \A R \in {S, T} : \A o \in SetToSeqs(R) : \A i \in DOMAIN o : o[i] \in D
  BY <1>1 DEF SetToSeqs
<1>3. PICK o \in SetToSeqs(S) : Collected(res) = FlattenSeq([i \in DOMAIN o |-> Members(A[o[i]].body)])
  BY <1>1 DEF SumOf
<1>4. PICK p \in SetToSeqs(T) : res.errors = [i \in DOMAIN p |-> A[p[i]].body]
  BY <1>1 DEF SumOf
<1>5. [i \in DOMAIN o |-> Members(A[o[i]].body)] = [i \in DOMAIN o |-> Members(B[o[i]].body)]
  BY <1>2
<1>6. [i \in DOMAIN p |-> A[p[i]].body] = [i \in DOMAIN p |-> B[p[i]].body]
  BY <1>2
<1>7. res.statusCode >= 400 => \E k \in D : HasError(B[k])
  BY DEF SumOf
<1>8. \E order \in SetToSeqs({k \in D : ~ HasError(B[k])}) :
          Collected(res) = FlattenSeq([i \in DOMAIN order |-> Members(B[order[i]].body)])
  <2>1. Collected(res) = FlattenSeq([i \in DOMAIN o |-> Members(B[o[i]].body)])
    BY <1>3, <1>5
  <2> QED
    BY <1>1, <2>1
<1>9. \E order \in SetToSeqs({k \in D : HasError(B[k])}) :
          res.errors = [i \in DOMAIN order |-> B[order[i]].body]
  <2>1. res.errors = [i \in DOMAIN p |-> B[p[i]].body]
    BY <1>4, <1>6
  <2> QED
    BY <1>1, <2>1
<1>10. D # {} => res.body # NoBody
  BY DEF SumOf
<1> QED
  BY <1>7, <1>8, <1>9, <1>10 DEF SumOf

-----------------------------------------------------------------------------
(* The tree.                                                                 *)

\* What a response can be.
Responses == [statusCode : {200, 404, 500}, body : Bodies, errors : Seq(Bodies)]

\* What the tree is: the parts of a contract are requests other than the root,
\* each in one place of one contract, and no contract is a part of itself.
LEMMA TreeIs ==
    ASSUME shape \in Shapes, NEW c \in Contracts
    PROVE  /\ c \in Nodes /\ Type(c) \in Types /\ Parts(c) \in Seq(Nodes)
           /\ \A k \in DOMAIN Parts(c) : /\ Parts(c)[k] \in Nodes \ {Root} /\ IsPart(Parts(c)[k], c)
                                         /\ \A i \in DOMAIN Parts(c) : Parts(c)[i] = Parts(c)[k] => i = k
           /\ \A n, d : IsPart(n, c) /\ d \in Contracts /\ IsPart(n, d) => d = c
           /\ \A n : IsPart(n, c) => Above(n) = c
           /\ ~ IsPart(c, c)
<1>1. c \in Nodes
  BY DEF Nodes
<1>2. Type(c) \in Types /\ Parts(c) \in Seq(Nodes)
  BY ConstantsAssumption DEF Type, Parts
<1>3. \A k \in DOMAIN Parts(c) : Parts(c)[k] \in Nodes /\ IsPart(Parts(c)[k], c)
  BY <1>2 DEF IsPart
<1>4. Root \notin Range(Parts(c))
  BY TreeAssumption DEF Parts
<1>5. \A k \in DOMAIN Parts(c) : Parts(c)[k] # Root
  BY <1>4 DEF Range
<1>6. \A d \in Contracts : \A j \in DOMAIN Parts(c), k \in DOMAIN Parts(d) :
          Parts(c)[j] = Parts(d)[k] => c = d /\ j = k
  BY TreeAssumption DEF Parts
<1>7. \A n, d : IsPart(n, c) /\ d \in Contracts /\ IsPart(n, d) => d = c
  BY <1>6 DEF IsPart
<1>8. \A n : IsPart(n, c) => Above(n) = c
  BY <1>7 DEF Above
<1>9. ~ IsPart(c, c)
  <2>1. PICK A : A = {c}
    OBVIOUS
  <2>2. A \in (SUBSET Nodes) \ {{}}
    BY <1>1, <2>1
  <2>3. PICK n \in A : \A d \in A \cap Contracts : n \notin Range(shape.parts[d])
    BY <2>2, TreeAssumption
  <2>4. c \notin Range(Parts(c))
    BY <2>1, <2>3 DEF Parts
  <2> QED
    BY <2>4 DEF IsPart, Range
<1> QED
  BY <1>1, <1>2, <1>3, <1>5, <1>6, <1>7, <1>8, <1>9

\* In any set of requests there is one that is not a part of another of the set.
LEMMA TopOf ==
    ASSUME shape \in Shapes, NEW A \in SUBSET Nodes, A # {}
    PROVE  \E n \in A : \A c \in A \cap Contracts : ~ IsPart(n, c)
<1>1. PICK n \in A : \A c \in A \cap Contracts : n \notin Range(shape.parts[c])
  BY TreeAssumption
<1> QED
  BY <1>1 DEF IsPart, Parts, Range

\* add() gives a response, records the error of a part, and keeps those before;
\* else it appends what the part has found.
LEMMA AddIs ==
    ASSUME NEW res \in Responses, NEW part \in Responses
    PROVE  /\ Add(res, part) \in Responses
           /\ Collected(res) \in Seq(Entries) /\ Members(part.body) \in Seq(Entries)
           /\ Add(res, part).body # NoBody
           /\ HasError(part) => /\ Collected(Add(res, part)) = Collected(res)
                                /\ Add(res, part).errors = Append(res.errors, part.body)
           /\ ~ HasError(part) =>
                 /\ Collected(Add(res, part)) = Collected(res) \o Members(part.body)
                 /\ Add(res, part).errors = res.errors
                 /\ Add(res, part).statusCode = res.statusCode
           /\ HasError(part) => Add(res, part).errors # <<>>
           /\ res.errors # <<>> => Add(res, part).errors # <<>>
<1>1. PICK body : body = IF res.body = NoBody THEN <<>> ELSE res.body
  OBVIOUS
<1>2. body \in Seq(Entries) /\ Members(part.body) \in Seq(Entries)
  <2>1. Hole \in Entries /\ <<Hole>> \in Seq(Entries) /\ <<>> \in Seq(Entries)
    BY DEF Entries
  <2>2. res.body \in Seq(Entries) \cup {NoBody} /\ part.body \in Seq(Entries) \cup {NoBody}
    BY DEF Responses, Bodies
  <2> QED
    BY <1>1, <2>1, <2>2 DEF Members
<1>3. body \o Members(part.body) \in Seq(Entries)
  BY <1>2
<1>4. Append(res.errors, part.body) \in Seq(Bodies) /\ Append(res.errors, part.body) # <<>>
  BY DEF Responses
<1>5. Add(res, part) = IF HasError(part)
                       THEN Response(part.statusCode, body, Append(res.errors, part.body))
                       ELSE Response(res.statusCode, body \o Members(part.body), res.errors)
  BY <1>1 DEF Add
<1>6. body # NoBody /\ body \o Members(part.body) # NoBody /\ body = Collected(res)
  BY <1>1, <1>2, <1>3, NullAssumption DEF Collected
<1>7. Add(res, part) \in Responses
  BY <1>2, <1>3, <1>4, <1>5 DEF Responses, Response, Bodies
<1>8. CASE HasError(part)
  <2>1. /\ Add(res, part).body = body /\ Add(res, part).errors = Append(res.errors, part.body)
    BY <1>5, <1>8 DEF Response
  <2> QED
    BY <1>2, <1>4, <1>6, <1>7, <1>8, <2>1 DEF Collected
<1>9. CASE ~ HasError(part)
  <2>1. /\ Add(res, part).body = body \o Members(part.body) /\ Add(res, part).errors = res.errors
        /\ Add(res, part).statusCode = res.statusCode
    BY <1>5, <1>9 DEF Response
  <2> QED
    BY <1>2, <1>6, <1>7, <1>9, <2>1 DEF Collected
<1> QED
  BY <1>8, <1>9

\* It keeps sums: the answer of one more part.
LEMMA SumOfMore ==
    ASSUME NEW res \in Responses, NEW D, IsFiniteSet(D), NEW A, NEW x, x \notin D,
           \A k \in D \cup {x} : A[k] \in Responses, SumOf(res, D, A)
    PROVE  SumOf(Add(res, A[x]), D \cup {x}, A)
<1>1. PICK S, T, U, W : /\ S = {k \in D : ~ HasError(A[k])} /\ T = {k \in D : HasError(A[k])}
                        /\ U = {k \in D \cup {x} : ~ HasError(A[k])}
                        /\ W = {k \in D \cup {x} : HasError(A[k])}
  OBVIOUS
<1>2. PICK sum : sum = Add(res, A[x])
  OBVIOUS
<1>3. PICK o \in SetToSeqs(S) : Collected(res) = FlattenSeq([i \in DOMAIN o |-> Members(A[o[i]].body)])
  BY <1>1 DEF SumOf
<1>4. PICK p \in SetToSeqs(T) : res.errors = [i \in DOMAIN p |-> A[p[i]].body]
  BY <1>1 DEF SumOf
<1>5. /\ S \subseteq D /\ T \subseteq D /\ x \notin S /\ x \notin T
      /\ IsFiniteSet(S) /\ IsFiniteSet(T) /\ A[x] \in Responses
  BY <1>1, FS_Subset
<1>6. sum.body # NoBody
  BY <1>2, <1>5, AddIs
<1>7. CASE HasError(A[x])
  <2>1. U = S /\ W = T \cup {x}
    BY <1>1, <1>7
  <2>2. Collected(sum) = Collected(res) /\ sum.errors = Append(res.errors, A[x].body)
    BY <1>2, <1>5, <1>7, AddIs
  <2>3. /\ p \in Seq(T) /\ DOMAIN p = 1..Cardinality(T) /\ Append(p, x) \in SetToSeqs(T \cup {x})
    BY <1>5, OneMore
  <2>4. Append(res.errors, A[x].body) = [i \in DOMAIN Append(p, x) |-> A[Append(p, x)[i]].body]
    <3>1. PICK q : q = Append(p, x)
      OBVIOUS
    <3>2. PICK n \in Nat : n = Len(p)
      BY <2>3
    <3>3. /\ DOMAIN p = 1..n /\ DOMAIN q = 1..(n + 1) /\ q[n + 1] = x
          /\ \A i \in 1..n : q[i] = p[i]
      BY <2>3, <3>1, <3>2
    <3>4. PICK e : e = res.errors
      OBVIOUS
    <3>5. e \in Seq(Bodies) /\ Len(e) = n /\ \A i \in 1..n : e[i] = A[p[i]].body
      BY <1>4, <3>2, <3>3, <3>4 DEF Responses
    <3>6. A[x].body \in Bodies
      BY <1>5 DEF Responses
    <3>7. PICK f : f = Append(e, A[x].body)
      OBVIOUS
    <3>8. DOMAIN f = 1..(n + 1) /\ f[n + 1] = A[x].body /\ \A i \in 1..n : f[i] = e[i]
      BY <3>5, <3>6, <3>7
    <3>9. f \in Seq(Bodies)
      BY <3>5, <3>6, <3>7
    <3>10. \A i \in 1..(n + 1) : f[i] = A[q[i]].body
      BY <3>3, <3>5, <3>8
    <3>11. f = [i \in 1..(n + 1) |-> A[q[i]].body]
      BY <3>8, <3>9, <3>10
    <3> QED
      BY <3>1, <3>3, <3>4, <3>7, <3>11
  <2>5. \E order \in SetToSeqs(W) : sum.errors = [i \in DOMAIN order |-> A[order[i]].body]
    BY <2>1, <2>2, <2>3, <2>4
  <2>6. \E order \in SetToSeqs(U) :
            Collected(sum) = FlattenSeq([i \in DOMAIN order |-> Members(A[order[i]].body)])
    BY <1>3, <2>1, <2>2
  <2>7. \E k \in D \cup {x} : HasError(A[k])
    BY <1>7
  <2> QED
    BY <1>1, <1>2, <1>6, <2>5, <2>6, <2>7 DEF SumOf
<1>8. CASE ~ HasError(A[x])
  <2>1. W = T /\ U = S \cup {x}
    BY <1>1, <1>8
  <2>2. /\ Collected(sum) = Collected(res) \o Members(A[x].body) /\ sum.errors = res.errors
        /\ sum.statusCode = res.statusCode
    BY <1>2, <1>5, <1>8, AddIs
  <2>3. /\ o \in Seq(S) /\ DOMAIN o = 1..Cardinality(S) /\ Append(o, x) \in SetToSeqs(S \cup {x})
    BY <1>5, OneMore
  <2>4. PICK q : q = Append(o, x)
    OBVIOUS
  <2>5. PICK n \in Nat : n = Len(o)
    BY <2>3
  <2>6. /\ DOMAIN o = 1..n /\ DOMAIN q = 1..(n + 1) /\ q[n + 1] = x
        /\ \A i \in 1..n : q[i] = o[i] /\ o[i] \in D
    <3>1. DOMAIN o = 1..n /\ \A i \in 1..n : o[i] \in S
      <4>1. o \in Seq(S)
        BY <2>3
      <4> QED
        BY <2>5, <4>1
    <3>2. o \in Seq(S \cup {x}) /\ x \in S \cup {x}
      BY <2>5, <3>1, <2>3
    <3>3. q \in Seq(S \cup {x}) /\ Len(q) = n + 1 /\ q[n + 1] = x /\ \A i \in 1..n : q[i] = o[i]
      BY <2>4, <2>5, <3>2
    <3>4. DOMAIN q = 1..(n + 1)
      BY <3>3
    <3> QED
      BY <1>5, <3>1, <3>3, <3>4
  <2>7. PICK s, t : /\ s = [i \in DOMAIN o |-> Members(A[o[i]].body)]
                    /\ t = [i \in DOMAIN q |-> Members(A[q[i]].body)]
    OBVIOUS
  <2>8. ASSUME NEW k \in D \cup {x}
        PROVE  Members(A[k].body) \in Seq(Entries)
    <3>1. A[k] \in Responses
      OBVIOUS
    <3> QED
      BY <3>1, AddIs
  <2>9. PICK m : m = [k \in D \cup {x} |-> Members(A[k].body)]
    OBVIOUS
  <2>10. m \in [D \cup {x} -> Seq(Entries)] /\ \A k \in D \cup {x} : m[k] = Members(A[k].body)
    BY <2>8, <2>9
  <2>11. s \in Seq(Seq(Entries)) /\ Len(s) = n /\ \A i \in 1..n : s[i] = Members(A[o[i]].body)
    <3>1. \A i \in 1..n : o[i] \in D \cup {x} /\ m[o[i]] \in Seq(Entries)
      BY <2>6, <2>10
    <3>2. s = [i \in 1..n |-> m[o[i]]]
      BY <2>6, <2>7, <2>10
    <3>3. s \in [1..n -> Seq(Entries)]
      BY <3>1, <3>2
    <3> QED
      BY <2>6, <2>7, <3>3
  <2>12. t \in Seq(Seq(Entries)) /\ Len(t) = n + 1 /\ t[n + 1] = Members(A[x].body)
         /\ \A i \in 1..n : t[i] = s[i]
    <3>1. \A i \in 1..(n + 1) : i = n + 1 \/ i \in 1..n
      OBVIOUS
    <3>2. \A i \in 1..(n + 1) : q[i] \in D \cup {x} /\ m[q[i]] \in Seq(Entries)
      BY <2>6, <2>10, <3>1
    <3>3. t = [i \in 1..(n + 1) |-> m[q[i]]]
      BY <2>6, <2>7, <2>10, <3>2
    <3>4. t \in [1..(n + 1) -> Seq(Entries)]
      BY <3>2, <3>3
    <3>5. t \in Seq(Seq(Entries)) /\ Len(t) = n + 1
      BY <3>4
    <3>6. n + 1 \in 1..(n + 1) /\ \A i \in 1..n : i \in 1..(n + 1)
      OBVIOUS
    <3>7. t[n + 1] = m[x] /\ \A i \in 1..n : t[i] = m[o[i]]
      BY <2>6, <3>3, <3>6
    <3>8. \A i \in 1..n : s[i] = m[o[i]]
      BY <2>6, <2>11, <2>10
    <3> QED
      BY <2>10, <3>5, <3>7, <3>8
  <2>13. t = Append(s, Members(A[x].body))
    BY <2>8, <2>11, <2>12
  <2>14. FlattenSeq(t) = FlattenSeq(s) \o Members(A[x].body)
    BY <2>8, <2>11, <2>13, FlattenAppend
  <2>15. Collected(sum) = FlattenSeq(t)
    BY <1>3, <2>2, <2>7, <2>14
  <2>16. \E order \in SetToSeqs(U) :
            Collected(sum) = FlattenSeq([i \in DOMAIN order |-> Members(A[order[i]].body)])
    BY <2>1, <2>3, <2>4, <2>7, <2>15
  <2>17. \E order \in SetToSeqs(W) : sum.errors = [i \in DOMAIN order |-> A[order[i]].body]
    BY <1>4, <2>1, <2>2
  <2>18. sum.statusCode >= 400 => \E k \in D \cup {x} : HasError(A[k])
    BY <2>2 DEF SumOf
  <2> QED
    BY <1>1, <1>2, <1>6, <2>16, <2>17, <2>18 DEF SumOf
<1> QED
  BY <1>7, <1>8

\* What the resolver hears of a plain request is a response.
LEMMA HeardIs ==
    ASSUME NEW l \in Leaves, NEW o \in Outcomes
    PROVE  Heard(l, o) \in Responses
<1>1. Found(l) \in Entries /\ Failure(l) \in Entries
  BY DEF Entries, Nodes
<1>2. <<Found(l)>> \in Seq(Entries) /\ <<Failure(l)>> \in Seq(Entries) /\ <<>> \in Seq(Entries)
  BY <1>1
<1>3. <<>> \in Seq(Bodies)
  OBVIOUS
<1> QED
  BY <1>2, <1>3 DEF Heard, Responses, Response, Bodies, Outcomes

\* The responses the resolver itself makes are responses.
LEMMA SomeResponses ==
    /\ Fresh \in Responses
    /\ \A c \in Contracts : Response(404, <<Failure(c)>>, <<>>) \in Responses
    /\ \A res, last \in Responses : /\ Response(500, last.body, res.errors) \in Responses
                                    /\ Response(res.statusCode, last.body, res.errors) \in Responses
<1>1. \A c \in Contracts : <<Failure(c)>> \in Seq(Entries)
  BY DEF Entries, Nodes
<1> QED
  BY <1>1 DEF Fresh, Responses, Response, Bodies

-----------------------------------------------------------------------------
(* Types.                                                                    *)

\* Sending a response keeps the types.
LEMMA SendType ==
    ASSUME TypeOK, NEW n \in Nodes, NEW res \in Responses, SendAs(n, res)
    PROVE  /\ response' \in [Nodes -> Responses] /\ phase' \in [Nodes -> Phases]
           /\ sends' \in [Nodes -> Nat] /\ sending' \in Nodes
BY DEF TypeOK, SendAs, Responses, Phases

\* The contract above an active request runs, has parts and has a resolver.
LEMMA PartOf ==
    ASSUME CInv, NEW n \in Nodes, n # Root, Active(n)
    PROVE  /\ Above(n) \in Contracts /\ IsPart(n, Above(n)) /\ phase[Above(n)] = "running"
           /\ Parts(Above(n)) # <<>> /\ Type(Above(n)) # "other"
<1>1. phase[n] # "idle"
  BY DEF CInv, SentOnce, Active
<1>2. PICK c \in Contracts : IsPart(n, c) /\ phase[c] = "running"
  BY <1>1 DEF CInv, Placed
<1>3. Above(n) = c
  BY <1>2, TreeIs DEF CInv, TypeOK
<1> QED
  BY <1>2, <1>3 DEF CInv, Resolved

\* A step keeps the types.
LEMMA TypeStep ==
    ASSUME CInv, [Next]_vars
    PROVE  TypeOK'
<1>1. TypeOK
  BY DEF CInv
<1>2. ASSUME NEW n \in Nodes, NEW res \in Responses, SendAs(n, res),
              shape' = shape, input' = input, arrived' \in [Contracts -> Nat]
       PROVE  TypeOK'
  <2>1. /\ response' \in [Nodes -> Responses] /\ phase' \in [Nodes -> Phases]
        /\ sends' \in [Nodes -> Nat] /\ sending' \in Nodes
    BY <1>1, <1>2, SendType
  <2> QED
    BY <1>1, <1>2, <2>1 DEF TypeOK, Responses
<1> USE <1>1 DEF TypeOK
<1> USE DEF TypeOK
<1>3. shape \in Shapes /\ response \in [Nodes -> Responses]
  BY DEF Responses
<1>4. \A n \in Nodes : (sending = n /\ n # Root) \/ phase[n] = "settling" =>
            Above(n) \in Contracts /\ Parts(Above(n)) # <<>>
  BY PartOf DEF Active, CInv, SentOnce
<1>5. ASSUME NEW l \in Leaves, Ask(l)
      PROVE  TypeOK'
  BY <1>5 DEF Ask, Phases
<1>6. ASSUME NEW l \in Leaves, NEW o \in Outcomes, Reply(l, o)
      PROVE  TypeOK'
  <2>1. l \in Nodes /\ SendAs(l, Heard(l, o))
    BY <1>6 DEF Reply, Nodes
  <2> QED
    BY <1>6, <1>2, <2>1, HeardIs DEF Reply
<1>7. ASSUME NEW c \in Contracts, Handle(c)
      PROVE  TypeOK'
  <2>1. c \in Nodes
    BY DEF Nodes
  <2>2. CASE SendAs(c, Response(404, <<Failure(c)>>, <<>>))
    BY <1>7, <1>2, <2>1, <2>2, SomeResponses DEF Handle
  <2>3. CASE SendAs(c, response[c])
    BY <1>3, <1>7, <1>2, <2>1, <2>3 DEF Handle
  <2>4. CASE phase' = [phase EXCEPT ![c] = "accepted"] /\ UNCHANGED <<response, sends, sending>>
    BY <1>7, <2>4 DEF Handle, Phases
  <2> QED
    BY <1>7, <2>2, <2>3, <2>4 DEF Handle
<1>8. ASSUME NEW c \in Contracts, StartMerge(c)
      PROVE  TypeOK'
  <2>1. phase' \in [Nodes -> Phases]
    BY <1>8 DEF StartMerge, Phases
  <2> QED
    BY <1>8, <2>1 DEF StartMerge
<1>9. ASSUME NEW c \in Contracts, StartPipe(c)
      PROVE  TypeOK'
  <2>1. phase' \in [Nodes -> Phases]
    BY <1>9 DEF StartPipe, Phases
  <2>2. arrived' \in [Contracts -> Nat]
    BY <1>9 DEF StartPipe
  <2> QED
    BY <1>9, <2>1, <2>2 DEF StartPipe
<1>10. ASSUME NEW n \in Nodes, MergePart(n), NEW c \in Contracts, Above(n) = c
      PROVE  TypeOK'
  <2>1. PICK sum : sum = Add(response[c], response[n])
    OBVIOUS
  <2>2. c \in Nodes /\ sum \in Responses
    BY <1>3, <2>1, AddIs DEF Nodes
  <2>3. arrived' \in [Contracts -> Nat] /\ shape' = shape /\ input' = input
    BY <1>10 DEF MergePart
  <2>4. CASE response' = [response EXCEPT ![c] = sum] /\ sending' = NoNode /\ UNCHANGED <<phase, sends>>
    BY <1>3, <2>2, <2>3, <2>4 DEF Responses
  <2>5. CASE SendAs(c, sum)
    BY <1>2, <2>2, <2>3, <2>5
  <2> QED
    BY <1>10, <2>1, <2>4, <2>5 DEF MergePart
<1>11. ASSUME NEW n \in Nodes, PipeHears(n)
      PROVE  TypeOK'
  BY <1>11 DEF PipeHears, Phases
<1>12. ASSUME NEW n \in Nodes, PipeStep(n), NEW c \in Contracts, Above(n) = c, Parts(c) # <<>>
      PROVE  TypeOK'
  <2>1. c \in Nodes /\ Parts(c) \in Seq(Nodes)
    BY <1>3, TreeIs
  <2>2. PICK res \in Responses, last \in Responses : res = response[c] /\ last = response[n]
    BY <1>3, <2>1
  <2>3. PICK settled : settled = [phase EXCEPT ![n] = "sent"]
    OBVIOUS
  <2>4. settled \in [Nodes -> Phases]
    BY <2>3 DEF Phases
  <2>5. ASSUME NEW x \in Responses,
               response' = [response EXCEPT ![c] = x], phase' = [settled EXCEPT ![c] = "sent"],
               sends' = [sends EXCEPT ![c] = @ + 1], sending' = c,
               UNCHANGED <<input, arrived, shape>>
        PROVE  TypeOK'
    BY <1>3, <2>1, <2>4, <2>5 DEF Responses, Phases
  <2>6. CASE /\ arrived[c] < Len(Parts(c))
             /\ arrived' = [arrived EXCEPT ![c] = arrived[c] + 1]
             /\ input' = [input EXCEPT ![Parts(c)[arrived[c] + 1]] = last.body]
             /\ phase' = [settled EXCEPT ![Parts(c)[arrived[c] + 1]] = "queued"]
             /\ UNCHANGED <<response, sends, sending, shape>>
    <3>1. arrived[c] + 1 \in DOMAIN Parts(c)
      BY <2>1, <2>6
    <3>2. Parts(c)[arrived[c] + 1] \in Nodes
      BY <2>1, <3>1
    <3> QED
      BY <2>2, <2>4, <2>6, <3>2 DEF Responses, Phases
  <2>7. ASSUME NEW x \in Responses,
               response' = [response EXCEPT ![c] = x], phase' = [settled EXCEPT ![c] = "sent"],
               sends' = [sends EXCEPT ![c] = @ + 1], sending' = c, UNCHANGED <<input, arrived>>
        PROVE  TypeOK'
    <3>1. shape' = shape
      BY <1>12 DEF PipeStep
    <3> QED
      BY <2>5, <2>7, <3>1
  <2>8. /\ Response(500, last.body, res.errors) \in Responses
        /\ Response(res.statusCode, last.body, res.errors) \in Responses
    BY SomeResponses
  <2> QED
    BY <1>12, <2>2, <2>3, <2>6, <2>7, <2>8 DEF PipeStep
<1>13. CASE Deliver \/ UNCHANGED vars
  BY <1>13 DEF Deliver, vars
<1> QED
  BY <1>4, <1>5, <1>6, <1>7, <1>8, <1>9, <1>10, <1>11, <1>12, <1>13 DEF Next, MergePart, PipeStep

-----------------------------------------------------------------------------
(* What a step leaves alone.                                                 *)

\* A step that does not concern a contract: for it and for its parts nothing
\* changes that its statement speaks of.
Untouched(c) ==
    /\ (phase'[c] \in Begun) <=> (phase[c] \in Begun)
    /\ (phase'[c] = "running") <=> (phase[c] = "running")
    /\ (phase'[c] \in {"sent", "settling"}) <=> (phase[c] \in {"sent", "settling"})
    /\ response'[c] = response[c] /\ arrived'[c] = arrived[c]
    /\ \A k \in DOMAIN Parts(c) :
           /\ (phase'[Parts(c)[k]] = "idle") <=> (phase[Parts(c)[k]] = "idle")
           /\ (phase'[Parts(c)[k]] = "sent" /\ sending' # Parts(c)[k]) <=> Delivered(Parts(c)[k])
           /\ Delivered(Parts(c)[k]) => response'[Parts(c)[k]] = response[Parts(c)[k]]
           /\ input'[Parts(c)[k]] = input[Parts(c)[k]]

\* A sum stays one as long as the responses of the parts in it do.
LEMMA SumOn ==
    ASSUME CInv, shape' = shape, NEW c \in Contracts, NEW res, NEW D \in SUBSET DOMAIN Parts(c),
           \A k \in D : response'[Parts(c)[k]] = response[Parts(c)[k]],
           SumOf(res, D, Answers(c))
    PROVE  SumOf(res, D, Answers(c)')
<1>1. Parts(c)' = Parts(c) /\ Parts(c) \in Seq(Nodes)
  BY TreeIs DEF CInv, TypeOK, Parts
<1>2. PICK A, B : A = Answers(c) /\ B = Answers(c)'
  OBVIOUS
<1>3. \A k \in D : B[k] = A[k]
  BY <1>1, <1>2 DEF Answers
<1>4. IsFiniteSet(D)
  <2>1. PICK n \in Nat : DOMAIN Parts(c) = 1..n
    BY <1>1
  <2>2. IsFiniteSet(1..n)
    BY FS_Interval
  <2> QED
    BY <2>1, <2>2, FS_Subset
<1> QED
  BY <1>2, <1>3, <1>4, SumOfSame

\* What holds of a merge is carried over by such a step.
LEMMA MergeUntouched ==
    ASSUME CInv, shape' = shape, NEW c \in Contracts, Parts(c) # <<>>, Type(c) = "merge", Untouched(c)
    PROVE  MergeWell(c)'
<1>1. MergeWell(c) /\ Parts(c)' = Parts(c)
  BY DEF CInv, RunsWell, Parts
<1>2. DeliveredParts(c)' = DeliveredParts(c)
  BY <1>1 DEF DeliveredParts, Untouched, Delivered
<1>3. SumOf(response[c], DeliveredParts(c), Answers(c)) =>
          SumOf(response[c], DeliveredParts(c), Answers(c)')
  BY <1>1, SumOn DEF DeliveredParts, Untouched
<1>4. phase'[c] \in Begun => SumOf(response'[c], DeliveredParts(c)', Answers(c)')
  BY <1>1, <1>2, <1>3 DEF MergeWell, Untouched
<1> QED
  BY <1>1, <1>2, <1>4 DEF MergeWell, Untouched, Delivered

\* What holds of a pipe is carried over by such a step.
LEMMA PipeUntouched ==
    ASSUME CInv, shape' = shape, NEW c \in Contracts, Parts(c) # <<>>, Type(c) = "pipe", Untouched(c)
    PROVE  PipeWell(c)'
<1>1. PipeWell(c) /\ Parts(c)' = Parts(c)
  BY DEF CInv, RunsWell, Parts
<1>2. shape \in Shapes
  BY DEF CInv, TypeOK
<1>3. Parts(c) \in Seq(Nodes)
  BY <1>2, TreeIs
<1>4. phase[c] \in {"sent", "settling"} => c \in Nodes /\ sends[c] > 0 /\ phase[c] # "running"
  BY <1>2, TreeIs DEF CInv, SentOnce
<1>5. ASSUME phase[c] \in {"sent", "settling"}
      PROVE  Delivered(Parts(c)[arrived[c]]) /\ arrived[c] \in DOMAIN Parts(c)
  <2>1. arrived[c] \in DOMAIN Parts(c) /\ phase[Parts(c)[arrived[c]]] # "idle"
    BY <1>1, <1>5 DEF PipeWell, Begun
  <2>2. PICK p : p = Parts(c)[arrived[c]]
    OBVIOUS
  <2>3. p \in Nodes /\ p # Root /\ IsPart(p, c) /\ Above(p) = c
    BY <1>2, <2>1, <2>2, TreeIs
  <2>4. ~ Active(p)
    BY <1>4, <1>5, <2>3, PartOf
  <2>5. phase[p] \in Phases
    BY <2>3 DEF CInv, TypeOK
  <2> QED
    BY <2>1, <2>2, <2>4, <2>5 DEF Active, Delivered, Phases
<1>6. phase'[c] \in {"sent", "settling"} => AnswersTheLast(c)'
  <2> SUFFICES ASSUME phase'[c] \in {"sent", "settling"}
               PROVE  AnswersTheLast(c)'
    OBVIOUS
  <2>1. phase[c] \in {"sent", "settling"}
    BY DEF Untouched
  <2>2. AnswersTheLast(c) /\ sends[c] > 0
    BY <1>1, <1>4, <2>1 DEF PipeWell
  <2>3. response'[Parts(c)[arrived[c]]] = response[Parts(c)[arrived[c]]]
        /\ response'[c] = response[c] /\ arrived'[c] = arrived[c]
    BY <1>5, <2>1 DEF Untouched
  <2> QED
    BY <1>1, <2>2, <2>3 DEF AnswersTheLast
<1>7. \A k \in DOMAIN Parts(c) : k < arrived[c] /\ arrived[c] \in DOMAIN Parts(c) => k + 1 \in DOMAIN Parts(c)
  BY <1>3
<1>8. \A k \in DOMAIN Parts(c) : k < arrived[c] /\ arrived[c] \in DOMAIN Parts(c) /\ Passed(c, k) => Passed(c, k)'
  BY <1>1, <1>7 DEF Passed, Untouched, Delivered
<1>9. phase'[c] \in Begun =>
        /\ arrived'[c] \in DOMAIN Parts(c)
        /\ phase'[Parts(c)[arrived'[c]]] # "idle"
        /\ \A k \in DOMAIN Parts(c) :
               /\ k < arrived'[c] => Passed(c, k)'
               /\ k > arrived'[c] => phase'[Parts(c)[k]] = "idle"
  BY <1>1, <1>8 DEF PipeWell, Untouched
<1>10. /\ phase'[c] \notin {"sent", "settling"} => response'[c] = Fresh
       /\ phase'[c] \notin Begun => \A k \in DOMAIN Parts(c) : phase'[Parts(c)[k]] = "idle"
  BY <1>1 DEF PipeWell, Untouched
<1> QED
  BY <1>1, <1>6, <1>9, <1>10 DEF PipeWell

\* A step that concerns no contract but b.
LEMMA RunsStep ==
    ASSUME CInv, shape' = shape, NEW b, \A c \in Contracts \ {b} : Parts(c) # <<>> => Untouched(c),
           b \in Contracts /\ Parts(b) # <<>> /\ Type(b) = "merge" => MergeWell(b)',
           b \in Contracts /\ Parts(b) # <<>> /\ Type(b) = "pipe" => PipeWell(b)'
    PROVE  RunsWell'
<1> SUFFICES ASSUME NEW c \in Contracts, Parts(c) # <<>>
             PROVE  /\ Type(c) = "merge" => MergeWell(c)'
                    /\ Type(c) = "pipe" => PipeWell(c)'
  BY DEF RunsWell, Parts, Type
<1>1. CASE c = b
  BY <1>1
<1>2. CASE c # b
  <2>1. Untouched(c)
    BY <1>2
  <2>2. Type(c) = "merge" => MergeWell(c)'
    BY <2>1, MergeUntouched
  <2>3. Type(c) = "pipe" => PipeWell(c)'
    BY <2>1, PipeUntouched
  <2> QED
    BY <2>2, <2>3
<1> QED
  BY <1>1, <1>2

\* A step that concerns no contract.
LEMMA RunsOn ==
    ASSUME CInv, shape' = shape, \A c \in Contracts : Parts(c) # <<>> => Untouched(c)
    PROVE  RunsWell'
<1> SUFFICES ASSUME NEW c \in Contracts, Parts(c) # <<>>
             PROVE  /\ Type(c) = "merge" => MergeWell(c)'
                    /\ Type(c) = "pipe" => PipeWell(c)'
  BY DEF RunsWell, Parts, Type
<1>1. Type(c) = "merge" => MergeWell(c)'
  BY MergeUntouched
<1>2. Type(c) = "pipe" => PipeWell(c)'
  BY PipeUntouched
<1> QED
  BY <1>1, <1>2

\* A step after which only parts of the contracts in C may have become active:
\* these contracts have to run.
LEMMA PlacedStep ==
    ASSUME CInv, shape' = shape, NEW C,
           \A n \in Nodes \ {Root} : (\A c \in C : ~ IsPart(n, c)) =>
               /\ phase'[n] # "idle" => phase[n] # "idle"
               /\ Active(n)' => Active(n),
           \A d \in Contracts \ C : /\ phase[d] = "running" => phase'[d] = "running"
                                    /\ phase[d] \in Begun => phase'[d] \in Begun,
           \A c \in C : c \in Contracts /\ Type(c) # "other" /\ \A n \in Nodes : IsPart(n, c) /\ phase'[n] # "idle" =>
               phase'[c] \in Begun /\ (Active(n)' => phase'[c] = "running")
    PROVE  Placed'
<1> SUFFICES ASSUME NEW n \in Nodes, phase'[n] # "idle", n # Root
             PROVE  \E c \in Contracts : /\ IsPart(n, c) /\ Type(c) # "other" /\ phase'[c] \in Begun
                                         /\ Active(n)' => phase'[c] = "running"
  BY DEF Placed, IsPart, Parts, Type
<1>1. CASE \E c \in C : IsPart(n, c)
  BY <1>1
<1>2. CASE \A c \in C : ~ IsPart(n, c)
  <2>1. phase[n] # "idle" /\ (Active(n)' => Active(n))
    BY <1>2
  <2>2. PICK d \in Contracts : IsPart(n, d) /\ Type(d) # "other" /\ phase[d] \in Begun /\ (Active(n) => phase[d] = "running")
    BY <2>1 DEF CInv, Placed
  <2> QED
    BY <1>2, <2>1, <2>2
<1> QED
  BY <1>1, <1>2

\* The same for a step in which nothing becomes active.
LEMMA PlacedOn ==
    ASSUME CInv, shape' = shape,
           \A n \in Nodes : /\ phase'[n] # "idle" => phase[n] # "idle"
                            /\ Active(n)' => Active(n),
           \A d \in Contracts : /\ phase[d] = "running" => phase'[d] = "running"
                                /\ phase[d] \in Begun => phase'[d] \in Begun
    PROVE  Placed'
<1>1. PICK C : C = {}
  OBVIOUS
<1> QED
  BY <1>1, PlacedStep

\* Ask: a plain request goes to the supply chain.
LEMMA AskStep ==
    ASSUME CInv, NEW l \in Leaves, Ask(l)
    PROVE  SentOnce' /\ Placed' /\ Resolved' /\ RunsWell'
<1>1. /\ shape' = shape /\ response' = response /\ sends' = sends /\ arrived' = arrived
      /\ sending' = sending /\ input' = input /\ sending = NoNode
      /\ phase[l] = "queued" /\ phase' = [phase EXCEPT ![l] = "running"]
  BY DEF Ask
<1>2. /\ phase \in [Nodes -> Phases] /\ l \in Nodes /\ l \notin Contracts /\ shape \in Shapes
      /\ \A c \in Contracts : c \in Nodes /\ c # l
  BY ConstantsAssumption DEF CInv, TypeOK, Nodes
<1>3. \A n \in Nodes : n # l => phase'[n] = phase[n]
  BY <1>1, <1>2
<1>4. phase'[l] = "running"
  BY <1>1, <1>2
<1>5. SentOnce'
  BY <1>1, <1>2, <1>3, <1>4 DEF CInv, SentOnce
<1>6. Placed'
  <2>1. \A n \in Nodes : /\ phase'[n] # "idle" => phase[n] # "idle"
                         /\ Active(n)' => Active(n)
    BY <1>1, <1>3 DEF Active
  <2>2. \A d \in Contracts : phase'[d] = phase[d]
    BY <1>2, <1>3
  <2> QED
    BY <1>1, <2>1, <2>2, PlacedOn
<1>7. Resolved'
  BY <1>1, <1>2, <1>3 DEF CInv, Resolved, Parts, Type
<1>8. ASSUME NEW c \in Contracts, Parts(c) # <<>>
      PROVE  Untouched(c)
  <2>1. phase'[c] = phase[c]
    BY <1>2, <1>3
  <2>2. \A n \in Nodes : /\ (phase'[n] = "idle") <=> (phase[n] = "idle")
                         /\ Delivered(n)' <=> Delivered(n)
    BY <1>1, <1>3, <1>4 DEF Delivered
  <2>3. \A k \in DOMAIN Parts(c) : Parts(c)[k] \in Nodes
    BY <1>2, TreeIs
  <2> QED
    BY <1>1, <2>1, <2>2, <2>3 DEF Untouched, Delivered
<1>9. RunsWell'
  BY <1>1, <1>8, RunsOn
<1> QED
  BY <1>5, <1>6, <1>7, <1>9

\* Reply: the supply chain answers it.
LEMMA ReplyStep ==
    ASSUME CInv, NEW l \in Leaves, NEW o \in Outcomes, Reply(l, o)
    PROVE  SentOnce' /\ Placed' /\ Resolved' /\ RunsWell'
<1>1. /\ shape' = shape /\ arrived' = arrived /\ input' = input /\ sending = NoNode /\ sending' = l
      /\ phase[l] = "running" /\ phase' = [phase EXCEPT ![l] = "sent"]
      /\ sends' = [sends EXCEPT ![l] = @ + 1]
      /\ response' = [response EXCEPT ![l] = Heard(l, o)]
  BY DEF Reply, SendAs
<1>2. /\ phase \in [Nodes -> Phases] /\ l \in Nodes /\ l \notin Contracts /\ shape \in Shapes
      /\ \A c \in Contracts : c \in Nodes /\ c # l
      /\ sends \in [Nodes -> Nat] /\ NoNode \notin Nodes /\ Root \in Contracts
  BY ConstantsAssumption DEF CInv, TypeOK, Nodes
<1>3. \A n \in Nodes : n # l => phase'[n] = phase[n] /\ sends'[n] = sends[n] /\ response'[n] = response[n]
  BY <1>1, <1>2 DEF CInv, TypeOK
<1>4. phase'[l] = "sent" /\ sends[l] = 0 /\ sends'[l] = 1
  BY <1>1, <1>2 DEF CInv, SentOnce
<1>5. SentOnce'
  BY <1>1, <1>2, <1>3, <1>4 DEF CInv, SentOnce
<1>6. Placed'
  <2>1. \A n \in Nodes : /\ phase'[n] # "idle" => phase[n] # "idle"
                         /\ Active(n)' => Active(n)
    BY <1>1, <1>3 DEF Active
  <2>2. \A d \in Contracts : phase'[d] = phase[d]
    BY <1>2, <1>3
  <2> QED
    BY <1>1, <2>1, <2>2, PlacedOn
<1>7. Resolved'
  BY <1>1, <1>2, <1>3 DEF CInv, Resolved, Parts, Type
<1>8. ASSUME NEW c \in Contracts, Parts(c) # <<>>
      PROVE  Untouched(c)
  <2>1. phase'[c] = phase[c] /\ response'[c] = response[c]
    BY <1>2, <1>3
  <2>2. \A n \in Nodes : /\ (phase'[n] = "idle") <=> (phase[n] = "idle")
                         /\ Delivered(n)' <=> Delivered(n)
                         /\ Delivered(n) => response'[n] = response[n]
    BY <1>1, <1>2, <1>3, <1>4 DEF Delivered
  <2>3. \A k \in DOMAIN Parts(c) : Parts(c)[k] \in Nodes
    BY <1>2, TreeIs
  <2> QED
    BY <1>1, <2>1, <2>2, <2>3 DEF Untouched, Delivered
<1>9. RunsWell'
  BY <1>1, <1>8, RunsOn
<1> QED
  BY <1>5, <1>6, <1>7, <1>9

\* Deliver: the client's own listener runs.
LEMMA DeliverStep ==
    ASSUME CInv, Deliver
    PROVE  SentOnce' /\ Placed' /\ Resolved' /\ RunsWell'
<1>1. /\ shape' = shape /\ arrived' = arrived /\ input' = input /\ sending = Root /\ sending' = NoNode
      /\ phase' = phase /\ sends' = sends /\ response' = response
  BY DEF Deliver
<1>2. shape \in Shapes /\ NoNode \notin Nodes /\ Root \in Nodes
  BY ConstantsAssumption DEF CInv, TypeOK, Nodes
<1>3. SentOnce'
  BY <1>1, <1>2 DEF CInv, SentOnce
<1>4. Placed'
  <2>1. \A n \in Nodes : /\ phase'[n] # "idle" => phase[n] # "idle"
                         /\ Active(n)' => Active(n)
    BY <1>1, <1>2 DEF Active
  <2>2. \A d \in Contracts : phase'[d] = phase[d]
    BY <1>1
  <2> QED
    BY <1>1, <2>1, <2>2, PlacedOn
<1>5. Resolved'
  BY <1>1 DEF CInv, Resolved, Parts, Type
<1>6. ASSUME NEW c \in Contracts, Parts(c) # <<>>
      PROVE  Untouched(c)
  <2>1. \A n \in Nodes : n # Root => (Delivered(n)' <=> Delivered(n))
    BY <1>1, <1>2 DEF Delivered
  <2>2. \A k \in DOMAIN Parts(c) : Parts(c)[k] \in Nodes /\ Parts(c)[k] # Root
    BY <1>2, TreeIs
  <2> QED
    BY <1>1, <2>1, <2>2 DEF Untouched, Delivered
<1>7. RunsWell'
  BY <1>1, <1>6, RunsOn
<1> QED
  BY <1>3, <1>4, <1>5, <1>7

\* PipeHears: a pipe hears of its part, and leaves it to the next tick.
LEMMA HearsStep ==
    ASSUME CInv, NEW n \in Nodes, PipeHears(n)
    PROVE  SentOnce' /\ Placed' /\ Resolved' /\ RunsWell'
<1>1. /\ shape' = shape /\ arrived' = arrived /\ input' = input /\ sending = n /\ sending' = NoNode
      /\ n # Root /\ phase' = [phase EXCEPT ![n] = "settling"] /\ sends' = sends /\ response' = response
  BY DEF PipeHears
<1>2. /\ shape \in Shapes /\ NoNode \notin Nodes /\ phase[n] = "sent" /\ phase \in [Nodes -> Phases]
      /\ \A c \in Contracts : c \in Nodes
      /\ Root \in Nodes
  BY <1>1, ConstantsAssumption DEF CInv, TypeOK, SentOnce, Nodes
<1>3. phase'[n] = "settling" /\ \A m \in Nodes : m # n => phase'[m] = phase[m]
  BY <1>1, <1>2
<1>4. SentOnce'
  BY <1>1, <1>2, <1>3 DEF CInv, SentOnce
<1>5. Placed'
  <2>1. \A m \in Nodes : /\ phase'[m] # "idle" => phase[m] # "idle"
                         /\ Active(m)' => Active(m)
    BY <1>1, <1>2, <1>3 DEF Active
  <2>2. \A d \in Contracts : /\ phase[d] = "running" => phase'[d] = "running"
                             /\ phase[d] \in Begun => phase'[d] \in Begun
    BY <1>2, <1>3 DEF Begun
  <2> QED
    BY <1>1, <2>1, <2>2, PlacedOn
<1>6. Resolved'
  BY <1>1, <1>2, <1>3 DEF CInv, Resolved, Parts, Type
<1>7. ASSUME NEW c \in Contracts, Parts(c) # <<>>
      PROVE  Untouched(c)
  <2>1. \A m \in Nodes : /\ (phase'[m] = "idle") <=> (phase[m] = "idle")
                         /\ Delivered(m)' <=> Delivered(m)
    BY <1>1, <1>2, <1>3 DEF Delivered
  <2>2. \A k \in DOMAIN Parts(c) : Parts(c)[k] \in Nodes
    BY <1>2, TreeIs
  <2>3. /\ (phase'[c] \in Begun) <=> (phase[c] \in Begun)
        /\ (phase'[c] = "running") <=> (phase[c] = "running")
        /\ (phase'[c] \in {"sent", "settling"}) <=> (phase[c] \in {"sent", "settling"})
    BY <1>2, <1>3 DEF Begun
  <2> QED
    BY <1>1, <2>1, <2>2, <2>3 DEF Untouched, Delivered
<1>8. RunsWell'
  BY <1>1, <1>7, RunsOn
<1> QED
  BY <1>4, <1>5, <1>6, <1>8

\* Handle: a contract is refused, answered as it is, or accepted.
LEMMA HandleStep ==
    ASSUME CInv, NEW c \in Contracts, Handle(c)
    PROVE  SentOnce' /\ Placed' /\ Resolved' /\ RunsWell'
<1>1. /\ shape' = shape /\ arrived' = arrived /\ input' = input /\ sending = NoNode
      /\ phase[c] = "queued"
  BY DEF Handle
<1>2. /\ shape \in Shapes /\ NoNode \notin Nodes /\ phase \in [Nodes -> Phases]
      /\ \A d \in Contracts : d \in Nodes
      /\ Root \in Nodes /\ sends \in [Nodes -> Nat] /\ DOMAIN response = Nodes
  BY ConstantsAssumption DEF CInv, TypeOK, Nodes
<1>3. sends[c] = 0
  BY <1>1, <1>2 DEF CInv, SentOnce
<1>4. \/ /\ phase'[c] = "sent" /\ sending' = c /\ sends'[c] = 1
         /\ Type(c) = "other" \/ Parts(c) = <<>>
      \/ /\ phase'[c] = "accepted" /\ sending' = NoNode /\ sends' = sends /\ response' = response
         /\ Type(c) # "other" /\ Parts(c) # <<>>
  BY <1>1, <1>2, <1>3 DEF Handle, SendAs
<1>5. \A m \in Nodes : m # c => phase'[m] = phase[m] /\ sends'[m] = sends[m] /\ response'[m] = response[m]
  BY <1>1, <1>2 DEF Handle, SendAs
<1>6. SentOnce'
  BY <1>1, <1>2, <1>3, <1>4, <1>5 DEF CInv, SentOnce
<1>7. Placed'
  <2>1. \A m \in Nodes : /\ phase'[m] # "idle" => phase[m] # "idle"
                         /\ Active(m)' => Active(m)
    BY <1>1, <1>2, <1>4, <1>5 DEF Active
  <2>2. \A d \in Contracts : /\ phase[d] = "running" => phase'[d] = "running"
                             /\ phase[d] \in Begun => phase'[d] \in Begun
    BY <1>1, <1>2, <1>5 DEF Begun
  <2> QED
    BY <1>1, <2>1, <2>2, PlacedOn
<1>8. Resolved'
  BY <1>1, <1>2, <1>4, <1>5 DEF CInv, Resolved, Parts, Type
<1>9. ASSUME NEW d \in Contracts, Parts(d) # <<>>, d # c \/ phase'[c] = "accepted"
      PROVE  Untouched(d)
  <2>1. \A m \in Nodes : /\ (phase'[m] = "idle") <=> (phase[m] = "idle")
                         /\ (phase'[m] = "sent" /\ sending' # m) <=> Delivered(m)
                         /\ Delivered(m) => response'[m] = response[m]
    BY <1>1, <1>2, <1>4, <1>5 DEF Delivered
  <2>2. \A k \in DOMAIN Parts(d) : Parts(d)[k] \in Nodes
    BY <1>2, TreeIs
  <2>3. /\ (phase'[d] \in Begun) <=> (phase[d] \in Begun)
        /\ (phase'[d] = "running") <=> (phase[d] = "running")
        /\ (phase'[d] \in {"sent", "settling"}) <=> (phase[d] \in {"sent", "settling"})
        /\ response'[d] = response[d]
    BY <1>1, <1>2, <1>4, <1>5, <1>9 DEF Begun
  <2> QED
    BY <1>1, <2>1, <2>2, <2>3 DEF Untouched
<1>10. RunsWell'
  <2>1. CASE phase'[c] = "accepted"
    BY <1>1, <1>9, <2>1, RunsOn
  <2>2. CASE Type(c) = "other" \/ Parts(c) = <<>>
    <3>1. \A d \in Contracts \ {c} : Parts(d) # <<>> => Untouched(d)
      BY <1>9
    <3>2. c \in Contracts /\ Parts(c) # <<>> /\ Type(c) = "merge" => MergeWell(c)'
      BY <2>2
    <3>3. c \in Contracts /\ Parts(c) # <<>> /\ Type(c) = "pipe" => PipeWell(c)'
      BY <2>2
    <3> QED
      BY <1>1, <3>1, <3>2, <3>3, RunsStep
  <2> QED
    BY <1>4, <2>1, <2>2
<1> QED
  BY <1>6, <1>7, <1>8, <1>10

\* The parts of a contract that was not started were not reached.
LEMMA PartsIdle ==
    ASSUME CInv, NEW c \in Contracts, phase[c] \notin Begun
    PROVE  \A k \in DOMAIN Parts(c) : /\ Parts(c)[k] \in Nodes /\ phase[Parts(c)[k]] = "idle"
                                      /\ sends[Parts(c)[k]] = 0
<1>1. shape \in Shapes
  BY DEF CInv, TypeOK
<1> SUFFICES ASSUME NEW k \in DOMAIN Parts(c)
             PROVE  /\ Parts(c)[k] \in Nodes /\ phase[Parts(c)[k]] = "idle"
                    /\ sends[Parts(c)[k]] = 0
  OBVIOUS
<1>2. PICK p : p = Parts(c)[k]
  OBVIOUS
<1>3. p \in Nodes \ {Root} /\ IsPart(p, c)
  BY <1>1, <1>2, TreeIs
<1>4. \A d \in Contracts : IsPart(p, d) => d = c
  BY <1>1, <1>3, TreeIs
<1>5. phase[p] = "idle"
  BY <1>3, <1>4 DEF CInv, Placed
<1> QED
  BY <1>2, <1>3, <1>5 DEF CInv, SentOnce

\* StartMerge: all parts are queued, and none has answered.
LEMMA StartMergeStep ==
    ASSUME CInv, NEW c \in Contracts, StartMerge(c)
    PROVE  SentOnce' /\ Placed' /\ Resolved' /\ RunsWell'
<1>1. /\ shape' = shape /\ arrived' = arrived /\ input' = input /\ sending = NoNode
      /\ sending' = NoNode /\ response' = response /\ sends' = sends
      /\ phase[c] = "accepted" /\ Type(c) = "merge"
  BY DEF StartMerge
<1>2. /\ shape \in Shapes /\ NoNode \notin Nodes /\ phase \in [Nodes -> Phases]
      /\ \A d \in Contracts : d \in Nodes
      /\ Root \in Nodes
  BY ConstantsAssumption DEF CInv, TypeOK, Nodes
<1>3. \A m \in Nodes : IsPart(m, c) => phase[m] = "idle" /\ sends[m] = 0
  BY <1>1, PartsIdle DEF Begun, IsPart
<1>4. /\ phase'[c] = "running" /\ ~ IsPart(c, c)
      /\ \A m \in Nodes : IsPart(m, c) => phase'[m] = "queued"
      /\ \A m \in Nodes : m # c /\ ~ IsPart(m, c) => phase'[m] = phase[m]
  BY <1>2, TreeIs DEF StartMerge
<1>5. SentOnce'
  BY <1>1, <1>2, <1>3, <1>4, TreeIs DEF CInv, SentOnce
<1>6. Placed'
  <2>1. PICK C : C = {c}
    OBVIOUS
  <2>2. \A m \in Nodes \ {Root} : (\A d \in C : ~ IsPart(m, d)) =>
            /\ phase'[m] # "idle" => phase[m] # "idle"
            /\ Active(m)' => Active(m)
    BY <1>1, <1>2, <1>4, <2>1 DEF Active
  <2>3. \A d \in Contracts \ C : /\ phase[d] = "running" => phase'[d] = "running"
                                 /\ phase[d] \in Begun => phase'[d] \in Begun
    BY <1>2, <1>3, <1>4, <2>1 DEF Begun
  <2>4. \A b \in C : b \in Contracts /\ Type(b) # "other" /\ \A m \in Nodes : IsPart(m, b) /\ phase'[m] # "idle" =>
            phase'[b] \in Begun /\ (Active(m)' => phase'[b] = "running")
    BY <1>1, <1>4, <2>1 DEF Begun
  <2> QED
    BY <1>1, <2>2, <2>3, <2>4, PlacedStep
<1>7. Resolved'
  BY <1>1, <1>2, <1>4 DEF CInv, Resolved, Parts, Type
<1>8. ASSUME NEW d \in Contracts \ {c}, Parts(d) # <<>>
      PROVE  Untouched(d)
  <2>1. \A m \in Nodes : ~ IsPart(m, c) =>
                         /\ (phase'[m] = "idle") <=> (phase[m] = "idle")
                         /\ (phase'[m] = "sent" /\ sending' # m) <=> Delivered(m)
    BY <1>1, <1>2, <1>4 DEF Delivered
  <2>2. \A k \in DOMAIN Parts(d) : Parts(d)[k] \in Nodes /\ ~ IsPart(Parts(d)[k], c)
    BY <1>2, TreeIs
  <2>3. /\ (phase'[d] \in Begun) <=> (phase[d] \in Begun)
        /\ (phase'[d] = "running") <=> (phase[d] = "running")
        /\ (phase'[d] \in {"sent", "settling"}) <=> (phase[d] \in {"sent", "settling"})
    BY <1>1, <1>2, <1>3, <1>4 DEF Begun
  <2> QED
    BY <1>1, <2>1, <2>2, <2>3 DEF Untouched
<1>9. Parts(c) # <<>> => MergeWell(c)'
  <2> SUFFICES ASSUME Parts(c) # <<>>
               PROVE  MergeWell(c)'
    OBVIOUS
  <2>1. arrived[c] = 0
    BY <1>1 DEF CInv, RunsWell, MergeWell, Begun
  <2>2. \A k \in DOMAIN Parts(c) : phase'[Parts(c)[k]] = "queued"
    BY <1>2, <1>4, TreeIs
  <2>3. Parts(c)' = Parts(c)
    BY <1>1 DEF Parts
  <2>4. DeliveredParts(c)' = {}
    BY <2>2, <2>3 DEF DeliveredParts, Delivered
  <2>5. arrived'[c] = Cardinality(DeliveredParts(c)')
    BY <1>1, <2>1, <2>4, FS_EmptySet
  <2>6. phase'[c] \in Begun /\ phase'[c] = "running"
    BY <1>4 DEF Begun
  <2>7. response'[c] = Fresh
    BY <1>1 DEF CInv, RunsWell, MergeWell, Begun
  <2>8. SumOf(response'[c], DeliveredParts(c)', Answers(c)')
    BY <2>4, <2>7, SumOfNone
  <2> QED
    BY <2>2, <2>3, <2>5, <2>6, <2>8 DEF MergeWell, Delivered
<1>10. RunsWell'
  BY <1>1, <1>8, <1>9, RunsStep
<1> QED
  BY <1>5, <1>6, <1>7, <1>10

\* StartPipe: the first part is queued, the others stay idle.
LEMMA StartPipeStep ==
    ASSUME CInv, NEW c \in Contracts, StartPipe(c)
    PROVE  SentOnce' /\ Placed' /\ Resolved' /\ RunsWell'
<1>1. /\ shape' = shape /\ input' = input /\ sending = NoNode
      /\ sending' = NoNode /\ response' = response /\ sends' = sends
      /\ phase[c] = "accepted" /\ Type(c) = "pipe"
  BY DEF StartPipe
<1>2. /\ shape \in Shapes /\ NoNode \notin Nodes /\ phase \in [Nodes -> Phases]
      /\ \A d \in Contracts : d \in Nodes
      /\ Root \in Nodes /\ arrived \in [Contracts -> Nat]
  BY ConstantsAssumption DEF CInv, TypeOK, Nodes
<1>3. \A m \in Nodes : IsPart(m, c) => phase[m] = "idle" /\ sends[m] = 0
  BY <1>1, PartsIdle DEF Begun, IsPart
<1>4. PICK q : q = Parts(c)[1]
  OBVIOUS
<1>5. Parts(c) # <<>> /\ Parts(c) \in Seq(Nodes)
  BY <1>1, <1>2, TreeIs DEF CInv, Resolved
<1>6. q \in Nodes /\ IsPart(q, c) /\ ~ IsPart(c, c) /\ 1 \in DOMAIN Parts(c) /\ q # Root
  <2>1. 1 \in DOMAIN Parts(c)
    BY <1>5
  <2> QED
    BY <1>2, <1>4, <2>1, TreeIs
<1>7. /\ phase'[c] = "running" /\ phase'[q] = "queued"
      /\ \A m \in Nodes : m # c /\ m # q => phase'[m] = phase[m]
      /\ arrived'[c] = 1 /\ \A d \in Contracts : d # c => arrived'[d] = arrived[d]
  BY <1>2, <1>4, <1>6 DEF StartPipe
<1>8. SentOnce'
  BY <1>1, <1>2, <1>3, <1>6, <1>7 DEF CInv, SentOnce
<1>9. Placed'
  <2>1. PICK C : C = {c}
    OBVIOUS
  <2>2. \A m \in Nodes \ {Root} : (\A d \in C : ~ IsPart(m, d)) =>
            /\ phase'[m] # "idle" => phase[m] # "idle"
            /\ Active(m)' => Active(m)
    BY <1>1, <1>2, <1>6, <1>7, <2>1 DEF Active
  <2>3. \A d \in Contracts \ C : /\ phase[d] = "running" => phase'[d] = "running"
                                 /\ phase[d] \in Begun => phase'[d] \in Begun
    BY <1>2, <1>3, <1>6, <1>7, <2>1 DEF Begun
  <2>4. \A b \in C : b \in Contracts /\ Type(b) # "other" /\ \A m \in Nodes : IsPart(m, b) /\ phase'[m] # "idle" =>
            phase'[b] \in Begun /\ (Active(m)' => phase'[b] = "running")
    BY <1>1, <1>7, <2>1 DEF Begun
  <2> QED
    BY <1>1, <2>2, <2>3, <2>4, PlacedStep
<1>10. Resolved'
  BY <1>1, <1>2, <1>5, <1>7 DEF CInv, Resolved, Parts, Type
<1>11. ASSUME NEW d \in Contracts \ {c}, Parts(d) # <<>>
      PROVE  Untouched(d)
  <2>1. \A m \in Nodes : ~ IsPart(m, c) =>
                         /\ (phase'[m] = "idle") <=> (phase[m] = "idle")
                         /\ (phase'[m] = "sent" /\ sending' # m) <=> Delivered(m)
    BY <1>1, <1>2, <1>6, <1>7 DEF Delivered
  <2>2. \A k \in DOMAIN Parts(d) : Parts(d)[k] \in Nodes /\ ~ IsPart(Parts(d)[k], c)
    BY <1>2, TreeIs
  <2>3. /\ (phase'[d] \in Begun) <=> (phase[d] \in Begun)
        /\ (phase'[d] = "running") <=> (phase[d] = "running")
        /\ (phase'[d] \in {"sent", "settling"}) <=> (phase[d] \in {"sent", "settling"})
    BY <1>1, <1>2, <1>3, <1>6, <1>7 DEF Begun
  <2>4. arrived'[d] = arrived[d]
    BY <1>7
  <2> QED
    BY <1>1, <2>1, <2>2, <2>3, <2>4 DEF Untouched
<1>12. PipeWell(c)'
  <2>1. response[c] = Fresh
    BY <1>1, <1>5 DEF CInv, RunsWell, PipeWell
  <2>2. Parts(c)' = Parts(c)
    BY <1>1 DEF Parts
  <2>3. \A k \in DOMAIN Parts(c) : k # 1 => phase'[Parts(c)[k]] = "idle"
    <3> SUFFICES ASSUME NEW k \in DOMAIN Parts(c), k # 1
                 PROVE  phase'[Parts(c)[k]] = "idle"
      OBVIOUS
    <3>1. Parts(c)[k] # q /\ Parts(c)[k] \in Nodes /\ IsPart(Parts(c)[k], c)
      BY <1>2, <1>4, <1>6, TreeIs
    <3>2. Parts(c)[k] # c
      BY <1>6, <3>1
    <3> QED
      BY <1>3, <1>7, <3>1, <3>2
  <2>4. \A k \in DOMAIN Parts(c) : k \in Nat /\ k >= 1
    BY <1>5
  <2>5. phase'[c] \in Begun /\ phase'[c] \notin {"sent", "settling"}
    BY <1>7 DEF Begun
  <2>6. /\ arrived'[c] \in DOMAIN Parts(c)
        /\ phase'[Parts(c)[arrived'[c]]] # "idle"
        /\ \A k \in DOMAIN Parts(c) :
               /\ ~ (k < arrived'[c])
               /\ k > arrived'[c] => phase'[Parts(c)[k]] = "idle"
    BY <1>4, <1>6, <1>7, <2>3, <2>4
  <2> QED
    BY <1>1, <2>1, <2>2, <2>5, <2>6 DEF PipeWell
<1>13. RunsWell'
  BY <1>1, <1>11, <1>12, RunsStep
<1> QED
  BY <1>8, <1>9, <1>10, <1>13

\* MergePart: the count of the parts that are in grows by the one that answered,
\* and when it comes to their number every part is in.
LEMMA MergePartStep ==
    ASSUME CInv, NEW n \in Nodes, MergePart(n)
    PROVE  SentOnce' /\ Placed' /\ Resolved' /\ RunsWell'
<1>1. PICK c : c = Above(n)
  OBVIOUS
<1>2. PICK sum : sum = Add(response[c], response[n])
  OBVIOUS
<1>3. /\ shape' = shape /\ input' = input /\ sending = n /\ n # Root /\ Type(c) = "merge"
      /\ arrived' = [arrived EXCEPT ![c] = @ + 1]
      /\ \/ /\ ~ IsLast(c)
            /\ response' = [response EXCEPT ![c] = sum]
            /\ sending' = NoNode /\ phase' = phase /\ sends' = sends
         \/ /\ IsLast(c)
            /\ SendAs(c, sum)
  BY <1>1, <1>2 DEF MergePart
<1>4. /\ shape \in Shapes /\ NoNode \notin Nodes /\ phase \in [Nodes -> Phases] /\ sends \in [Nodes -> Nat]
      /\ \A d \in Contracts : d \in Nodes
      /\ Root \in Nodes /\ arrived \in [Contracts -> Nat] /\ response \in [Nodes -> Responses]
  BY ConstantsAssumption DEF CInv, TypeOK, Nodes, Responses
<1>5. /\ c \in Contracts /\ c \in Nodes /\ IsPart(n, c) /\ phase[c] = "running" /\ Parts(c) # <<>>
      /\ c # n /\ phase[n] = "sent" /\ sends[c] = 0
  <2>1. Active(n)
    BY <1>3 DEF Active
  <2>2. /\ c \in Contracts /\ IsPart(n, c) /\ phase[c] = "running" /\ Parts(c) # <<>>
    BY <1>1, <1>3, <2>1, PartOf
  <2>3. c # n
    BY <1>4, <2>2, TreeIs
  <2> QED
    BY <1>3, <1>4, <2>2, <2>3 DEF CInv, SentOnce
<1>6. /\ \A d \in Contracts : d # c => arrived'[d] = arrived[d]
      /\ arrived'[c] = arrived[c] + 1
      /\ response'[c] = sum
      /\ \A m \in Nodes : m # c => /\ response'[m] = response[m]
                                   /\ phase'[m] = phase[m] /\ sends'[m] = sends[m]
      /\ \/ ~ IsLast(c) /\ sending' = NoNode /\ phase' = phase /\ sends' = sends
         \/ IsLast(c) /\ sending' = c /\ phase'[c] = "sent" /\ sends'[c] = 1
  BY <1>3, <1>4, <1>5 DEF SendAs
<1>7. /\ Parts(c) \in Seq(Nodes)
      /\ \A k \in DOMAIN Parts(c) : /\ Parts(c)[k] \in Nodes \ {Root} /\ IsPart(Parts(c)[k], c)
                                    /\ \A i \in DOMAIN Parts(c) : Parts(c)[i] = Parts(c)[k] => i = k
      /\ ~ IsPart(c, c)
  BY <1>4, <1>5, TreeIs
<1>8. MergeWell(c)
  BY <1>3, <1>5 DEF CInv, RunsWell
<1>9. PICK k0 \in DOMAIN Parts(c) : Parts(c)[k0] = n
  BY <1>5 DEF IsPart
<1>10. PICK D : D = DeliveredParts(c)
  OBVIOUS
<1>11. /\ D \subseteq DOMAIN Parts(c) /\ k0 \notin D
       /\ \A k \in DOMAIN Parts(c) : k # k0 => Parts(c)[k] # n
       /\ \A k \in DOMAIN Parts(c) : Parts(c)[k] # c
  BY <1>3, <1>7, <1>9, <1>10 DEF DeliveredParts, Delivered
<1>12. DeliveredParts(c)' = D \cup {k0}
  <2>1. Parts(c)' = Parts(c)
    BY <1>3 DEF Parts
  <2>2. \A k \in DOMAIN Parts(c) : k # k0 => (Delivered(Parts(c)[k])' <=> Delivered(Parts(c)[k]))
    BY <1>3, <1>4, <1>6, <1>7, <1>11, <2>1 DEF Delivered
  <2>3. Delivered(n)'
    BY <1>4, <1>5, <1>6 DEF Delivered
  <2>4. \A k \in DOMAIN Parts(c) : k \in DeliveredParts(c)' <=> k = k0 \/ k \in DeliveredParts(c)
    BY <1>9, <2>1, <2>2, <2>3 DEF DeliveredParts, Delivered
  <2>5. DeliveredParts(c)' \subseteq DOMAIN Parts(c)
    BY <2>1 DEF DeliveredParts
  <2> QED
    BY <1>9, <1>10, <1>11, <2>4, <2>5
<1>13. /\ IsFiniteSet(D) /\ IsFiniteSet(D \cup {k0}) /\ IsFiniteSet(DOMAIN Parts(c))
       /\ Cardinality(D \cup {k0}) = arrived[c] + 1
       /\ Cardinality(DOMAIN Parts(c)) = Len(Parts(c))
       /\ Len(Parts(c)) \in Nat /\ arrived[c] \in Nat
  <2>1. DOMAIN Parts(c) = 1..Len(Parts(c)) /\ Len(Parts(c)) \in Nat
    BY <1>7
  <2>2. IsFiniteSet(1..Len(Parts(c))) /\ Cardinality(1..Len(Parts(c))) = Len(Parts(c))
    <3>1. PICK L \in Nat : L = Len(Parts(c))
      BY <2>1
    <3>2. IsFiniteSet(1..L) /\ Cardinality(1..L) = IF 1 > L THEN 0 ELSE L - 1 + 1
      BY FS_Interval
    <3> QED
      BY <3>1, <3>2
  <2>3. IsFiniteSet(D)
    BY <1>11, <2>1, <2>2, FS_Subset
  <2>4. Cardinality(D) = arrived[c]
    BY <1>5, <1>8, <1>10 DEF MergeWell
  <2>5. IsFiniteSet(D \cup {k0}) /\ Cardinality(D \cup {k0}) = Cardinality(D) + 1
    BY <1>11, <2>3, FS_AddElement
  <2> QED
    BY <1>4, <1>5, <2>1, <2>2, <2>3, <2>4, <2>5
<1>14. IsLast(c) => D \cup {k0} = DOMAIN Parts(c)
  <2>1. D \cup {k0} \subseteq DOMAIN Parts(c)
    BY <1>9, <1>11
  <2>2. Cardinality(D \cup {k0}) <= Cardinality(DOMAIN Parts(c))
        /\ (Cardinality(D \cup {k0}) = Cardinality(DOMAIN Parts(c)) => D \cup {k0} = DOMAIN Parts(c))
    BY <1>13, <2>1, FS_Subset
  <2>3. IsLast(c) => arrived[c] + 1 >= Len(Parts(c))
    BY DEF IsLast
  <2> QED
    BY <1>13, <2>2, <2>3
<1>15. SentOnce'
  BY <1>3, <1>4, <1>5, <1>6 DEF CInv, SentOnce
<1>16. \A m \in Nodes : m # c => (Active(m)' => Active(m))
  BY <1>4, <1>6 DEF Active
<1>17. Placed'
  <2>1. CASE ~ IsLast(c)
    <3>1. \A m \in Nodes : /\ phase'[m] # "idle" => phase[m] # "idle"
                           /\ Active(m)' => Active(m)
      BY <1>4, <1>6, <2>1 DEF Active
    <3>2. \A d \in Contracts : /\ phase[d] = "running" => phase'[d] = "running"
                               /\ phase[d] \in Begun => phase'[d] \in Begun
      BY <1>6, <2>1
    <3> QED
      BY <1>3, <3>1, <3>2, PlacedOn
  <2>2. CASE IsLast(c)
    <3>1. PICK C : C = {c}
      OBVIOUS
    <3>2. Active(c)
      BY <1>5 DEF Active
    <3>3. \A m \in Nodes \ {Root} : (\A d \in C : ~ IsPart(m, d)) =>
              /\ phase'[m] # "idle" => phase[m] # "idle"
              /\ Active(m)' => Active(m)
      BY <1>5, <1>6, <1>16, <3>2
    <3>4. \A d \in Contracts \ C : /\ phase[d] = "running" => phase'[d] = "running"
                                   /\ phase[d] \in Begun => phase'[d] \in Begun
      BY <1>4, <1>6, <3>1
    <3>5. \A m \in Nodes : IsPart(m, c) => ~ Active(m)'
      <4> SUFFICES ASSUME NEW m \in Nodes, IsPart(m, c)
                   PROVE  ~ Active(m)'
        OBVIOUS
      <4>1. PICK k \in DOMAIN Parts(c) : Parts(c)[k] = m
        BY DEF IsPart
      <4>2. k \in DeliveredParts(c)'
        BY <1>12, <1>14, <2>2, <4>1
      <4>3. Parts(c)' = Parts(c)
        BY <1>3 DEF Parts
      <4>4. Delivered(m)'
        BY <4>1, <4>2, <4>3 DEF DeliveredParts, Delivered
      <4> QED
        BY <4>4 DEF Delivered, Active
    <3>6. \A b \in C : b \in Contracts /\ Type(b) # "other" /\ \A m \in Nodes : IsPart(m, b) /\ phase'[m] # "idle" =>
              phase'[b] \in Begun /\ (Active(m)' => phase'[b] = "running")
      BY <1>3, <1>5, <1>6, <2>2, <3>1, <3>5 DEF Begun
    <3> QED
      BY <1>3, <3>3, <3>4, <3>6, PlacedStep
  <2> QED
    BY <2>1, <2>2
<1>18. Resolved'
  BY <1>3, <1>4, <1>5, <1>6 DEF CInv, Resolved, Parts, Type
<1>19. ASSUME NEW d \in Contracts \ {c}, Parts(d) # <<>>
       PROVE  Untouched(d)
  <2>1. \A k \in DOMAIN Parts(d) : Parts(d)[k] \in Nodes /\ Parts(d)[k] # n
    BY <1>4, <1>5, TreeIs
  <2>2. \A m \in Nodes : m # n => /\ (phase'[m] = "idle") <=> (phase[m] = "idle")
                                  /\ (phase'[m] = "sent" /\ sending' # m) <=> Delivered(m)
                                  /\ Delivered(m) => response'[m] = response[m]
    BY <1>3, <1>4, <1>5, <1>6 DEF Delivered
  <2>3. phase'[d] = phase[d] /\ response'[d] = response[d] /\ arrived'[d] = arrived[d]
    BY <1>4, <1>6
  <2> QED
    BY <1>3, <2>1, <2>2, <2>3 DEF Untouched
<1>20. MergeWell(c)'
  <2>1. Parts(c)' = Parts(c)
    BY <1>3 DEF Parts
  <2>2. phase'[c] \in Begun /\ phase[c] \in Begun
    BY <1>5, <1>6 DEF Begun
  <2>3. phase'[c] = "running" => arrived'[c] = Cardinality(DeliveredParts(c)')
    BY <1>6, <1>12, <1>13
  <2>4. /\ HasError(response[n]) => sum.errors # <<>>
        /\ response[c].errors # <<>> => sum.errors # <<>>
    BY <1>2, <1>4, <1>5, AddIs
  <2>5. ASSUME NEW k \in DOMAIN Parts(c)
        PROVE  /\ phase'[Parts(c)[k]] # "idle"
               /\ Delivered(Parts(c)[k])' /\ HasError(response'[Parts(c)[k]]) => response'[c].errors # <<>>
    <3>1. PICK p : p = Parts(c)[k]
      OBVIOUS
    <3>2. p \in Nodes /\ p # c /\ (k = k0 <=> p = n)
      BY <1>7, <1>9, <1>11, <3>1
    <3>3. response'[p] = response[p] /\ phase'[p] = phase[p] /\ phase[p] # "idle"
          /\ (Delivered(p) /\ HasError(response[p]) => response[c].errors # <<>>)
      BY <1>6, <1>8, <2>2, <3>1, <3>2 DEF MergeWell
    <3>4. p # n => (Delivered(p)' => Delivered(p))
      BY <1>3, <1>4, <1>6, <3>2, <3>3 DEF Delivered
    <3>5. Delivered(p)' /\ HasError(response'[p]) => response'[c].errors # <<>>
      BY <1>6, <2>4, <3>3, <3>4
    <3> QED
      BY <2>1, <3>1, <3>3, <3>5 DEF Delivered
  <2>6. SumOf(response'[c], DeliveredParts(c)', Answers(c)')
    <3>1. PICK A : A = Answers(c)
      OBVIOUS
    <3>2. /\ A[k0] = response[n]
          /\ \A k \in DOMAIN Parts(c) : A[k] = response[Parts(c)[k]] /\ A[k] \in Responses
      BY <1>4, <1>7, <1>9, <3>1 DEF Answers
    <3>3. SumOf(response[c], D, A) /\ response[c] \in Responses
      BY <1>4, <1>5, <1>8, <1>10, <2>2, <3>1 DEF MergeWell
    <3>4. k0 \notin D /\ \A k \in D \cup {k0} : k \in DOMAIN Parts(c) /\ A[k] \in Responses
      BY <1>9, <1>11, <3>2
    <3>5. SumOf(Add(response[c], A[k0]), D \cup {k0}, A)
      BY <1>13, <3>3, <3>4, SumOfMore
    <3>6. SumOf(sum, D \cup {k0}, Answers(c))
      BY <1>2, <3>1, <3>2, <3>5
    <3>7. D \cup {k0} \in SUBSET DOMAIN Parts(c)
      BY <3>4
    <3>8. \A k \in D \cup {k0} : response'[Parts(c)[k]] = response[Parts(c)[k]]
      BY <1>6, <1>7, <1>11, <3>4
    <3>9. SumOf(sum, D \cup {k0}, Answers(c)')
      BY <1>3, <1>5, <3>6, <3>7, <3>8, SumOn
    <3> QED
      BY <1>6, <1>12, <3>9
  <2> QED
    BY <2>1, <2>2, <2>3, <2>5, <2>6 DEF MergeWell, Delivered
<1>21. RunsWell'
  BY <1>3, <1>5, <1>19, <1>20, RunsStep
<1> QED
  BY <1>15, <1>17, <1>18, <1>21

\* A part that is settling is the one its pipe has come to.
LEMMA PipeAt ==
    ASSUME CInv, NEW n \in Nodes, phase[n] = "settling", NEW c, c = Above(n)
    PROVE  /\ c \in Contracts /\ c \in Nodes /\ IsPart(n, c) /\ phase[c] = "running" /\ c # n /\ n # Root
           /\ Parts(c) \in Seq(Nodes) /\ Parts(c) # <<>> /\ Type(c) = "pipe" /\ sends[c] = 0
           /\ PipeWell(c) /\ arrived[c] \in DOMAIN Parts(c) /\ Parts(c)[arrived[c]] = n
           /\ arrived[c] \in Nat /\ response[c] = Fresh
           /\ \A k \in DOMAIN Parts(c) : k \in Nat /\ Parts(c)[k] # c /\ (k # arrived[c] => Parts(c)[k] # n)
<1>1. shape \in Shapes /\ n # Root /\ arrived \in [Contracts -> Nat] /\ Contracts \subseteq Nodes
  BY DEF CInv, TypeOK, SentOnce, Nodes
<1>2. /\ c \in Contracts /\ IsPart(n, c) /\ phase[c] = "running" /\ Parts(c) # <<>>
  <2>1. Active(n)
    BY DEF Active
  <2> QED
    BY <1>1, <2>1, PartOf
<1>3. /\ Parts(c) \in Seq(Nodes) /\ ~ IsPart(c, c)
      /\ \A k \in DOMAIN Parts(c) : \A i \in DOMAIN Parts(c) : Parts(c)[i] = Parts(c)[k] => i = k
  BY <1>1, <1>2, TreeIs
<1>4. PICK k0 \in DOMAIN Parts(c) : Parts(c)[k0] = n
  BY <1>2 DEF IsPart
<1>5. Type(c) = "pipe"
  BY <1>2, <1>4 DEF CInv, Settles
<1>6. PipeWell(c)
  BY <1>2, <1>5 DEF CInv, RunsWell
<1>7. /\ response[c] = Fresh /\ arrived[c] \in DOMAIN Parts(c)
      /\ \A k \in DOMAIN Parts(c) :
             /\ k < arrived[c] => phase[Parts(c)[k]] = "sent"
             /\ k > arrived[c] => phase[Parts(c)[k]] = "idle"
  BY <1>2, <1>6 DEF PipeWell, Begun, Passed, Delivered
<1>8. \A k \in DOMAIN Parts(c) : k \in Nat
  BY <1>3
<1>9. k0 = arrived[c]
  BY <1>4, <1>7, <1>8
<1>10. sends[c] = 0
  BY <1>1, <1>2 DEF CInv, SentOnce
<1>11. c # n
  BY <1>2, <1>3
<1>12. \A k \in DOMAIN Parts(c) : Parts(c)[k] # c /\ (k # arrived[c] => Parts(c)[k] # n)
  BY <1>3, <1>4, <1>9 DEF IsPart
<1> QED
  BY <1>1, <1>2, <1>3, <1>4, <1>5, <1>6, <1>7, <1>8, <1>9, <1>10, <1>11, <1>12

\* The three cases of PipeStep in which the pipe answers.
Finishes(n, c, res) ==
    /\ sending = NoNode
    /\ phase[n] = "settling"
    /\ response' = [response EXCEPT ![c] = res]
    /\ phase' = [phase EXCEPT ![n] = "sent", ![c] = "sent"]
    /\ sends' = [sends EXCEPT ![c] = @ + 1]
    /\ sending' = c
    /\ UNCHANGED <<shape, input, arrived>>

\* What it answers is what the part it has come to answered.
Ends(res, last, isLast) ==
    /\ HasError(res) <=> HasError(last)
    /\ IF ~ HasError(last) /\ IsEmpty(last.body) THEN res.body = NoBody ELSE res.body = last.body
    /\ HasError(last) \/ IsEmpty(last.body) \/ isLast

\* A pipe answers: the parts before have passed, the others stay idle.
LEMMA FinishStep ==
    ASSUME CInv, NEW n \in Nodes, NEW c, c = Above(n), NEW res, Finishes(n, c, res),
           Ends(res, response[n], arrived[c] = Len(Parts(c)))
    PROVE  SentOnce' /\ Placed' /\ Resolved' /\ RunsWell'
<1>1. /\ shape' = shape /\ arrived' = arrived /\ input' = input /\ sending = NoNode /\ sending' = c
      /\ phase[n] = "settling"
  BY DEF Finishes
<1>2. /\ c \in Contracts /\ c \in Nodes /\ IsPart(n, c) /\ phase[c] = "running" /\ c # n /\ n # Root
      /\ Parts(c) \in Seq(Nodes) /\ Parts(c) # <<>> /\ Type(c) = "pipe" /\ sends[c] = 0
      /\ PipeWell(c) /\ arrived[c] \in DOMAIN Parts(c) /\ Parts(c)[arrived[c]] = n
      /\ arrived[c] \in Nat /\ response[c] = Fresh
      /\ \A k \in DOMAIN Parts(c) : k \in Nat /\ Parts(c)[k] # c /\ (k # arrived[c] => Parts(c)[k] # n)
  BY <1>1, PipeAt
<1>3. /\ shape \in Shapes /\ NoNode \notin Nodes /\ phase \in [Nodes -> Phases] /\ sends \in [Nodes -> Nat]
      /\ \A d \in Contracts : d \in Nodes
      /\ Root \in Nodes /\ response \in [Nodes -> Responses]
  BY ConstantsAssumption DEF CInv, TypeOK, Nodes, Responses
<1>4. /\ phase'[c] = "sent" /\ phase'[n] = "sent" /\ sends'[c] = 1 /\ response'[c] = res
      /\ \A m \in Nodes : m # c => /\ response'[m] = response[m] /\ sends'[m] = sends[m]
                                   /\ m # n => phase'[m] = phase[m]
  BY <1>2, <1>3 DEF Finishes
<1>5. SentOnce'
  BY <1>1, <1>2, <1>3, <1>4 DEF CInv, SentOnce
<1>6. \A m \in Nodes : m # c /\ m # n => (Delivered(m)' <=> Delivered(m)) /\ (Active(m)' => Active(m))
  BY <1>1, <1>2, <1>3, <1>4 DEF Active, Delivered
<1>7. Delivered(n)' /\ ~ Active(n)'
  BY <1>1, <1>2, <1>4 DEF Active, Delivered
<1>8. \A k \in DOMAIN Parts(c) : /\ k < arrived[c] => Passed(c, k)
                                 /\ k > arrived[c] => phase[Parts(c)[k]] = "idle"
  BY <1>2 DEF PipeWell, Begun
<1>9. \A m \in Nodes : IsPart(m, c) /\ phase'[m] # "idle" => ~ Active(m)'
  <2> SUFFICES ASSUME NEW m \in Nodes, IsPart(m, c), phase'[m] # "idle"
               PROVE  ~ Active(m)'
    OBVIOUS
  <2>1. PICK k \in DOMAIN Parts(c) : Parts(c)[k] = m
    BY DEF IsPart
  <2>2. CASE k = arrived[c]
    BY <1>2, <1>7, <2>1, <2>2
  <2>3. CASE k # arrived[c]
    <3>1. m # n /\ m # c /\ k \in Nat
      BY <1>2, <2>1, <2>3
    <3>2. phase[m] # "idle"
      BY <1>4, <3>1
    <3>3. Delivered(m)
      BY <1>2, <1>8, <2>1, <2>3, <3>1, <3>2 DEF Passed
    <3>4. Delivered(m)'
      BY <1>6, <3>1, <3>3
    <3> QED
      BY <3>4 DEF Delivered, Active
  <2> QED
    BY <2>2, <2>3
<1>10. Placed'
  <2>1. PICK C : C = {c}
    OBVIOUS
  <2>2. Active(c) /\ Active(n)
    BY <1>1, <1>2 DEF Active
  <2>3. \A m \in Nodes \ {Root} : (\A d \in C : ~ IsPart(m, d)) =>
            /\ phase'[m] # "idle" => phase[m] # "idle"
            /\ Active(m)' => Active(m)
    BY <1>1, <1>2, <1>4, <1>6, <2>2
  <2>4. \A d \in Contracts \ C : /\ phase[d] = "running" => phase'[d] = "running"
                                 /\ phase[d] \in Begun => phase'[d] \in Begun
    BY <1>1, <1>3, <1>4, <2>1 DEF Begun
  <2>5. \A b \in C : b \in Contracts /\ Type(b) # "other" /\ \A m \in Nodes : IsPart(m, b) /\ phase'[m] # "idle" =>
            phase'[b] \in Begun /\ (Active(m)' => phase'[b] = "running")
    BY <1>2, <1>4, <1>9, <2>1 DEF Begun
  <2> QED
    BY <1>1, <2>3, <2>4, <2>5, PlacedStep
<1>11. Resolved'
  BY <1>1, <1>2, <1>3, <1>4 DEF CInv, Resolved, Parts, Type
<1>12. ASSUME NEW d \in Contracts \ {c}, Parts(d) # <<>>
       PROVE  Untouched(d)
  <2>1. \A k \in DOMAIN Parts(d) : Parts(d)[k] \in Nodes /\ Parts(d)[k] # n
    BY <1>2, <1>3, TreeIs
  <2>2. \A m \in Nodes : m # n => /\ (phase'[m] = "idle") <=> (phase[m] = "idle")
                                  /\ (phase'[m] = "sent" /\ sending' # m) <=> Delivered(m)
                                  /\ Delivered(m) => response'[m] = response[m]
    BY <1>1, <1>2, <1>3, <1>4 DEF Delivered
  <2>3. /\ (phase'[d] \in Begun) <=> (phase[d] \in Begun)
        /\ (phase'[d] = "running") <=> (phase[d] = "running")
        /\ (phase'[d] \in {"sent", "settling"}) <=> (phase[d] \in {"sent", "settling"})
        /\ response'[d] = response[d]
    BY <1>1, <1>3, <1>4 DEF Begun
  <2> QED
    BY <1>1, <2>1, <2>2, <2>3 DEF Untouched
<1>13. PipeWell(c)'
  <2>1. Parts(c)' = Parts(c)
    BY <1>1 DEF Parts
  <2>2. AnswersTheLast(c)'
    <3>1. response'[Parts(c)[arrived[c]]] = response[n] /\ response'[c] = res
      BY <1>2, <1>4
    <3> QED
      BY <1>1, <1>2, <2>1, <3>1 DEF AnswersTheLast, Ends
  <2>3. \A k \in DOMAIN Parts(c) : Parts(c)[k] \in Nodes
    BY <1>2
  <2>4. \A k \in DOMAIN Parts(c) : /\ k < arrived[c] => Passed(c, k)'
                                   /\ k > arrived[c] => phase'[Parts(c)[k]] = "idle"
    <3> SUFFICES ASSUME NEW k \in DOMAIN Parts(c), k # arrived[c]
                 PROVE  /\ k < arrived[c] => Passed(c, k)'
                        /\ k > arrived[c] => phase'[Parts(c)[k]] = "idle"
      BY <1>2
    <3>1. PICK p : p = Parts(c)[k]
      OBVIOUS
    <3>2. p \in Nodes /\ p # n /\ p # c
      BY <1>2, <2>3, <3>1
    <3>3. /\ response'[p] = response[p] /\ phase'[p] = phase[p]
          /\ Delivered(p) => phase'[p] = "sent" /\ sending' # p
      BY <1>1, <1>4, <3>2 DEF Delivered
    <3> QED
      BY <1>1, <1>8, <2>1, <3>1, <3>3 DEF Passed, Delivered
  <2>5. phase'[Parts(c)[arrived[c]]] # "idle" /\ phase'[c] = "sent"
    BY <1>2, <1>4
  <2> QED
    BY <1>1, <1>2, <2>1, <2>2, <2>4, <2>5 DEF PipeWell, Begun
<1>14. RunsWell'
  BY <1>1, <1>2, <1>12, <1>13, RunsStep
<1> QED
  BY <1>5, <1>10, <1>11, <1>14

\* The case of PipeStep in which the pipe goes on with its next part.
GoesOn(n, c) ==
    /\ sending = NoNode
    /\ phase[n] = "settling"
    /\ ~ HasError(response[n]) /\ ~ IsEmpty(response[n].body)
    /\ arrived[c] < Len(Parts(c))
    /\ arrived' = [arrived EXCEPT ![c] = arrived[c] + 1]
    /\ input' = [input EXCEPT ![Parts(c)[arrived[c] + 1]] = response[n].body]
    /\ phase' = [phase EXCEPT ![n] = "sent", ![Parts(c)[arrived[c] + 1]] = "queued"]
    /\ UNCHANGED <<response, sends, sending, shape>>

\* A pipe goes on: the part it leaves has passed to the next.
LEMMA GoOnStep ==
    ASSUME CInv, NEW n \in Nodes, NEW c, c = Above(n), GoesOn(n, c)
    PROVE  SentOnce' /\ Placed' /\ Resolved' /\ RunsWell'
<1>1. /\ shape' = shape /\ sending = NoNode /\ sending' = NoNode /\ response' = response /\ sends' = sends
      /\ phase[n] = "settling" /\ ~ HasError(response[n]) /\ ~ IsEmpty(response[n].body)
      /\ arrived[c] < Len(Parts(c))
  BY DEF GoesOn
<1>2. /\ c \in Contracts /\ c \in Nodes /\ IsPart(n, c) /\ phase[c] = "running" /\ c # n /\ n # Root
      /\ Parts(c) \in Seq(Nodes) /\ Parts(c) # <<>> /\ Type(c) = "pipe" /\ sends[c] = 0
      /\ PipeWell(c) /\ arrived[c] \in DOMAIN Parts(c) /\ Parts(c)[arrived[c]] = n
      /\ arrived[c] \in Nat /\ response[c] = Fresh
      /\ \A k \in DOMAIN Parts(c) : k \in Nat /\ Parts(c)[k] # c /\ (k # arrived[c] => Parts(c)[k] # n)
  BY <1>1, PipeAt
<1>3. /\ shape \in Shapes /\ NoNode \notin Nodes /\ phase \in [Nodes -> Phases]
      /\ \A d \in Contracts : d \in Nodes
      /\ Root \in Nodes /\ arrived \in [Contracts -> Nat] /\ input \in [Nodes -> Bodies]
  BY ConstantsAssumption DEF CInv, TypeOK, Nodes
<1>4. PICK i : i = arrived[c] + 1
  OBVIOUS
<1>5. PICK q : q = Parts(c)[i]
  OBVIOUS
<1>6. i \in DOMAIN Parts(c) /\ i # arrived[c] /\ i > arrived[c] /\ i \in Nat
  BY <1>1, <1>2, <1>4
<1>7. /\ q \in Nodes /\ q # Root /\ IsPart(q, c) /\ q # c /\ q # n
      /\ \A k \in DOMAIN Parts(c) : k # i => Parts(c)[k] # q
      /\ \A d \in Contracts : IsPart(q, d) => d = c
      /\ \A d \in Contracts : IsPart(n, d) => d = c
  BY <1>2, <1>3, <1>5, <1>6, TreeIs
<1>8. \A k \in DOMAIN Parts(c) : /\ k < arrived[c] => Passed(c, k)
                                 /\ k > arrived[c] => phase[Parts(c)[k]] = "idle"
  BY <1>2 DEF PipeWell, Begun
<1>9. phase[q] = "idle"
  BY <1>5, <1>6, <1>8
<1>10. /\ phase'[q] = "queued" /\ phase'[n] = "sent"
       /\ \A m \in Nodes : m # q /\ m # n => phase'[m] = phase[m]
       /\ input'[q] = response[n].body /\ \A m \in Nodes : m # q => input'[m] = input[m]
       /\ arrived'[c] = i /\ \A d \in Contracts : d # c => arrived'[d] = arrived[d]
  BY <1>2, <1>3, <1>4, <1>5, <1>7 DEF GoesOn
<1>11. SentOnce'
  BY <1>1, <1>2, <1>3, <1>7, <1>9, <1>10 DEF CInv, SentOnce
<1>12. Placed'
  <2>1. PICK C : C = {c}
    OBVIOUS
  <2>2. \A m \in Nodes \ {Root} : (\A d \in C : ~ IsPart(m, d)) =>
            /\ phase'[m] # "idle" => phase[m] # "idle"
            /\ Active(m)' => Active(m)
    BY <1>1, <1>2, <1>3, <1>7, <1>10, <2>1 DEF Active
  <2>3. \A d \in Contracts \ C : /\ phase[d] = "running" => phase'[d] = "running"
                                 /\ phase[d] \in Begun => phase'[d] \in Begun
    BY <1>1, <1>3, <1>9, <1>10, <2>1 DEF Begun
  <2>4. phase'[c] = "running"
    BY <1>2, <1>7, <1>10
  <2>5. \A b \in C : b \in Contracts /\ Type(b) # "other" /\ \A m \in Nodes : IsPart(m, b) /\ phase'[m] # "idle" =>
            phase'[b] \in Begun /\ (Active(m)' => phase'[b] = "running")
    BY <1>2, <2>1, <2>4 DEF Begun
  <2> QED
    BY <1>1, <2>2, <2>3, <2>5, PlacedStep
<1>13. Resolved'
  BY <1>1, <1>3, <1>10 DEF CInv, Resolved, Parts, Type
<1>14. ASSUME NEW d \in Contracts \ {c}, Parts(d) # <<>>
       PROVE  Untouched(d)
  <2>1. \A k \in DOMAIN Parts(d) : Parts(d)[k] \in Nodes /\ IsPart(Parts(d)[k], d)
    BY <1>3, TreeIs
  <2>2. \A k \in DOMAIN Parts(d) : Parts(d)[k] \in Nodes /\ Parts(d)[k] # n /\ Parts(d)[k] # q
    BY <1>7, <2>1
  <2>3. \A m \in Nodes : m # n /\ m # q => /\ (phase'[m] = "idle") <=> (phase[m] = "idle")
                                           /\ (phase'[m] = "sent" /\ sending' # m) <=> Delivered(m)
                                           /\ input'[m] = input[m]
    BY <1>1, <1>3, <1>10 DEF Delivered
  <2>4. /\ (phase'[d] \in Begun) <=> (phase[d] \in Begun)
        /\ (phase'[d] = "running") <=> (phase[d] = "running")
        /\ (phase'[d] \in {"sent", "settling"}) <=> (phase[d] \in {"sent", "settling"})
        /\ arrived'[d] = arrived[d]
    BY <1>1, <1>3, <1>9, <1>10 DEF Begun
  <2> QED
    BY <1>1, <2>2, <2>3, <2>4 DEF Untouched
<1>15. PipeWell(c)'
  <2>1. Parts(c)' = Parts(c) /\ phase'[c] = "running"
    BY <1>1, <1>2, <1>7, <1>10 DEF Parts
  <2>2. \A k \in DOMAIN Parts(c) : Parts(c)[k] \in Nodes
    BY <1>2
  <2>3. ASSUME NEW k \in DOMAIN Parts(c), k < i
        PROVE  Passed(c, k)'
    <3>1. k \in Nat /\ k + 1 \in DOMAIN Parts(c) /\ k # i
      BY <1>2, <1>6, <2>3
    <3>2. CASE k = arrived[c]
      <4>1. Parts(c)[k] = n /\ Parts(c)[k + 1] = q
        BY <1>2, <1>4, <1>5, <3>2
      <4>2. Delivered(n)'
        BY <1>1, <1>3, <1>10 DEF Delivered
      <4> QED
        BY <1>1, <1>10, <2>1, <4>1, <4>2 DEF Passed
    <3>3. CASE k # arrived[c]
      <4>1. k < arrived[c] /\ Passed(c, k) /\ k + 1 # i
        BY <1>2, <1>4, <1>8, <2>3, <3>1, <3>3
      <4>2. PICK p, r : p = Parts(c)[k] /\ r = Parts(c)[k + 1]
        OBVIOUS
      <4>3. p \in Nodes /\ r \in Nodes /\ p # n /\ p # q /\ r # q
        BY <1>2, <1>7, <2>2, <3>1, <3>3, <4>1, <4>2
      <4>4. phase'[p] = phase[p] /\ input'[r] = input[r]
        BY <1>10, <4>3
      <4>5. Delivered(p) => Delivered(p)'
        BY <1>1, <1>3, <4>3, <4>4 DEF Delivered
      <4> QED
        BY <1>1, <2>1, <4>1, <4>2, <4>4, <4>5 DEF Passed
    <3> QED
      BY <3>2, <3>3
  <2>4. ASSUME NEW k \in DOMAIN Parts(c), k > i
        PROVE  phase'[Parts(c)[k]] = "idle"
    <3>1. k \in Nat /\ k > arrived[c] /\ k # i /\ k # arrived[c]
      BY <1>2, <1>4, <1>6, <2>4
    <3>2. phase[Parts(c)[k]] = "idle" /\ Parts(c)[k] # n /\ Parts(c)[k] # q /\ Parts(c)[k] \in Nodes
      BY <1>2, <1>7, <1>8, <2>2, <3>1
    <3> QED
      BY <1>10, <3>2
  <2>5. phase'[Parts(c)[i]] # "idle"
    BY <1>5, <1>10
  <2> QED
    BY <1>1, <1>2, <1>6, <1>10, <2>1, <2>3, <2>4, <2>5 DEF PipeWell, Begun
<1>16. RunsWell'
  BY <1>1, <1>2, <1>14, <1>15, RunsStep
<1> QED
  BY <1>11, <1>12, <1>13, <1>16

\* PipeStep is one of these.
LEMMA PipeStepStep ==
    ASSUME CInv, NEW n \in Nodes, PipeStep(n)
    PROVE  SentOnce' /\ Placed' /\ Resolved' /\ RunsWell'
<1>1. PICK c, last : c = Above(n) /\ last = response[n]
  OBVIOUS
<1>2. sending = NoNode /\ phase[n] = "settling" /\ shape' = shape
  BY DEF PipeStep
<1>3. response[c] = Fresh
  BY <1>1, <1>2, PipeAt
<1>4. \/ /\ HasError(last)
         /\ Finishes(n, c, Response(500, last.body, response[c].errors))
      \/ /\ ~ HasError(last) /\ IsEmpty(last.body)
         /\ Finishes(n, c, response[c])
      \/ /\ ~ HasError(last) /\ ~ IsEmpty(last.body) /\ arrived[c] = Len(Parts(c))
         /\ Finishes(n, c, Response(response[c].statusCode, last.body, response[c].errors))
      \/ GoesOn(n, c)
  BY <1>1, <1>2 DEF PipeStep, Finishes, GoesOn, BailsOut
<1>5. ASSUME NEW res, Finishes(n, c, res), Ends(res, last, arrived[c] = Len(Parts(c)))
      PROVE  SentOnce' /\ Placed' /\ Resolved' /\ RunsWell'
  BY <1>1, <1>5, FinishStep
<1>6. CASE HasError(last) /\ Finishes(n, c, Response(500, last.body, response[c].errors))
  <2>1. Ends(Response(500, last.body, response[c].errors), last, arrived[c] = Len(Parts(c)))
    BY <1>6 DEF Ends, HasError, Response
  <2> QED
    BY <1>5, <1>6, <2>1
<1>7. CASE ~ HasError(last) /\ IsEmpty(last.body) /\ Finishes(n, c, response[c])
  <2>1. Ends(response[c], last, arrived[c] = Len(Parts(c)))
    BY <1>3, <1>7 DEF Ends, HasError, Fresh, Response
  <2> QED
    BY <1>5, <1>7, <2>1
<1>8. CASE /\ ~ HasError(last) /\ ~ IsEmpty(last.body) /\ arrived[c] = Len(Parts(c))
           /\ Finishes(n, c, Response(response[c].statusCode, last.body, response[c].errors))
  <2>1. Ends(Response(response[c].statusCode, last.body, response[c].errors), last, arrived[c] = Len(Parts(c)))
    <3>1. ~ HasError(Response(response[c].statusCode, last.body, response[c].errors))
      BY <1>3 DEF HasError, Fresh, Response
    <3>2. Response(response[c].statusCode, last.body, response[c].errors).body = last.body
      BY DEF Response
    <3> QED
      BY <1>8, <3>1, <3>2 DEF Ends
  <2> QED
    BY <1>5, <1>8, <2>1
<1>9. CASE GoesOn(n, c)
  BY <1>1, <1>9, GoOnStep
<1> QED
  BY <1>4, <1>6, <1>7, <1>8, <1>9

\* A step keeps it that only a pipe has parts that settle.
LEMMA SettlesStep ==
    ASSUME CInv, [Next]_vars
    PROVE  Settles'
<1>1. /\ shape \in Shapes /\ phase \in [Nodes -> Phases]
      /\ \A d \in Contracts : d \in Nodes
      /\ \A d \in Leaves : d \in Nodes
  BY DEF CInv, TypeOK, Nodes
<1>2. ASSUME shape' = shape, \A m \in Nodes : phase'[m] = "settling" => phase[m] = "settling" \/ Type(Above(m)) = "pipe"
      PROVE  Settles'
  <2> SUFFICES ASSUME NEW c \in Contracts, NEW k \in DOMAIN Parts(c), phase'[Parts(c)[k]] = "settling"
               PROVE  Type(c) = "pipe"
    BY <1>2 DEF Settles, Parts, Type
  <2>1. Parts(c)[k] \in Nodes /\ Above(Parts(c)[k]) = c
    BY <1>1, TreeIs
  <2> QED
    BY <1>2, <2>1 DEF CInv, Settles
<1>3. CASE \E l \in Leaves : Ask(l) \/ \E o \in Outcomes : Reply(l, o)
  BY <1>1, <1>2, <1>3 DEF Ask, Reply, SendAs
<1>4. CASE \E c \in Contracts : Handle(c) \/ StartMerge(c)
  BY <1>1, <1>2, <1>4 DEF Handle, StartMerge, SendAs
<1>5. ASSUME NEW c \in Contracts, StartPipe(c)
      PROVE  Settles'
  BY <1>1, <1>2, <1>5 DEF StartPipe
<1>6. ASSUME NEW n \in Nodes, MergePart(n)
      PROVE  Settles'
  <2>1. shape' = shape /\ (phase' = phase \/ phase' = [phase EXCEPT ![Above(n)] = "sent"])
    BY <1>6 DEF MergePart, SendAs
  <2> QED
    BY <1>1, <1>2, <2>1
<1>7. ASSUME NEW n \in Nodes, PipeHears(n)
      PROVE  Settles'
  BY <1>1, <1>2, <1>7 DEF PipeHears
<1>8. ASSUME NEW n \in Nodes, PipeStep(n)
      PROVE  Settles'
  <2>1. /\ shape' = shape
        /\ \/ phase' = [phase EXCEPT ![n] = "sent", ![Above(n)] = "sent"]
           \/ phase' = [phase EXCEPT ![n] = "sent", ![Parts(Above(n))[arrived[Above(n)] + 1]] = "queued"]
    BY <1>8 DEF PipeStep
  <2> QED
    BY <1>1, <1>2, <2>1
<1>9. CASE Deliver \/ UNCHANGED vars
  BY <1>2, <1>9 DEF Deliver, vars
<1> QED
  BY <1>3, <1>4, <1>5, <1>6, <1>7, <1>8, <1>9 DEF Next

-----------------------------------------------------------------------------
(* The resolver.                                                             *)

\* To begin with, only the contract the client shipped is queued.
LEMMA CInvInit ==
    ASSUME Init
    PROVE  CInv
<1>1. /\ shape \in Shapes /\ Root \in Nodes /\ NoNode \notin Nodes /\ Contracts \subseteq Nodes
      /\ phase = [n \in Nodes |-> IF n = Root THEN "queued" ELSE "idle"]
      /\ response = [n \in Nodes |-> Fresh] /\ sends = [n \in Nodes |-> 0]
      /\ arrived = [c \in Contracts |-> 0] /\ sending = NoNode
  BY ConstantsAssumption DEF Init, Nodes
<1>2. TypeOK
  <2>1. Fresh \in Responses
    BY SomeResponses
  <2>2. NoBody \in Bodies
    BY DEF Bodies
  <2> QED
    BY <1>1, <2>1, <2>2 DEF Init, TypeOK, Responses, Phases
<1>3. SentOnce
  BY <1>1 DEF SentOnce
<1>4. Placed /\ Resolved
  BY <1>1 DEF Placed, Resolved
<1>5. \A c \in Contracts : \A k \in DOMAIN Parts(c) : Parts(c)[k] \in Nodes \ {Root}
  BY <1>1, TreeIs
<1>6. \A c \in Contracts : \A k \in DOMAIN Parts(c) : phase[Parts(c)[k]] = "idle"
  BY <1>1, <1>5
<1>7. Settles
  BY <1>6 DEF Settles
<1>8. RunsWell
  <2>1. \A c \in Contracts : /\ phase[c] \notin Begun /\ phase[c] \notin {"sent", "settling"}
                             /\ phase[c] # "running" /\ arrived[c] = 0 /\ response[c] = Fresh
    BY <1>1 DEF Begun
  <2>2. \A c \in Contracts : MergeWell(c)
    BY <2>1 DEF MergeWell
  <2>3. \A c \in Contracts : PipeWell(c)
    BY <1>6, <2>1 DEF PipeWell
  <2> QED
    BY <2>2, <2>3 DEF RunsWell
<1> QED
  BY <1>2, <1>3, <1>4, <1>7, <1>8 DEF CInv

\* A step keeps the inductive invariant.
LEMMA CInvStep ==
    ASSUME CInv, [Next]_vars
    PROVE  CInv'
<1>1. TypeOK' /\ Settles'
  BY TypeStep, SettlesStep
<1>2. SentOnce' /\ Placed' /\ Resolved' /\ RunsWell'
  <2>1. CASE UNCHANGED vars
    <3>1. shape' = shape /\ phase' = phase /\ input' = input /\ response' = response /\ sends' = sends
          /\ arrived' = arrived /\ sending' = sending
      BY <2>1 DEF vars
    <3>2. SentOnce' /\ Placed' /\ Resolved'
      BY <3>1 DEF CInv, SentOnce, Placed, Resolved, Active, IsPart, Parts, Type
    <3>3. \A c \in Contracts : Parts(c) # <<>> => Untouched(c)
      BY <3>1 DEF Untouched, Delivered
    <3> QED
      BY <3>1, <3>2, <3>3, RunsOn
  <2>2. CASE \E l \in Leaves : Ask(l)
    BY <2>2, AskStep
  <2>3. CASE \E l \in Leaves : \E o \in Outcomes : Reply(l, o)
    BY <2>3, ReplyStep
  <2>4. CASE \E c \in Contracts : Handle(c)
    BY <2>4, HandleStep
  <2>5. CASE \E c \in Contracts : StartMerge(c)
    BY <2>5, StartMergeStep
  <2>6. CASE \E c \in Contracts : StartPipe(c)
    BY <2>6, StartPipeStep
  <2>7. CASE \E n \in Nodes : MergePart(n)
    BY <2>7, MergePartStep
  <2>8. CASE \E n \in Nodes : PipeHears(n)
    BY <2>8, HearsStep
  <2>9. CASE \E n \in Nodes : PipeStep(n)
    BY <2>9, PipeStepStep
  <2>10. CASE Deliver
    BY <2>10, DeliverStep
  <2> QED
    BY <2>1, <2>2, <2>3, <2>4, <2>5, <2>6, <2>7, <2>8, <2>9, <2>10 DEF Next
<1> QED
  BY <1>1, <1>2 DEF CInv

\* In every behaviour of the resolver the inductive invariant holds.
THEOREM ContractInvariance == Spec => []CInv
<1>1. Init => CInv
  BY CInvInit
<1>2. CInv /\ [Next]_vars => CInv'
  BY CInvStep
<1> QED
  BY <1>1, <1>2, PTL DEF Spec

\* The variables keep their types.
THEOREM ContractTypes == Spec => []TypeOK
<1>1. CInv => TypeOK
  BY DEF CInv
<1> QED
  BY <1>1, ContractInvariance, PTL

\* A pipe runs a part only on the results of the part before it, and answers what
\* the part it stopped at answered (resolvecontract.js L164-209).
THEOREM PipesInOrder == Spec => []PipeInOrder
<1>1. CInv => PipeInOrder
  <2> SUFFICES ASSUME CInv, NEW c \in Contracts, Type(c) = "pipe"
               PROVE  RunsOnTheLast(c) /\ AnswersTheLast(c)
    BY DEF PipeInOrder
  <2>1. /\ shape \in Shapes /\ c \in Nodes /\ Parts(c) \in Seq(Nodes) /\ phase[c] \in Phases
        /\ sends[c] = IF phase[c] \in {"sent", "settling"} THEN 1 ELSE 0
        /\ \A k \in DOMAIN Parts(c) : Parts(c)[k] \in Nodes
    <3>1. shape \in Shapes
      BY DEF CInv, TypeOK
    <3>2. c \in Nodes /\ Parts(c) \in Seq(Nodes)
      BY <3>1, TreeIs
    <3> QED
      BY <3>1, <3>2 DEF CInv, TypeOK, SentOnce
  <2>2. Parts(c) # <<>> => PipeWell(c)
    BY DEF CInv, RunsWell
  <2>3. AnswersTheLast(c)
    <3>1. CASE phase[c] \in {"sent", "settling"} /\ Parts(c) # <<>>
      BY <2>2, <3>1 DEF PipeWell
    <3>2. CASE ~ (phase[c] \in {"sent", "settling"} /\ Parts(c) # <<>>)
      BY <2>1, <3>2 DEF AnswersTheLast
    <3> QED
      BY <3>1, <3>2
  <2>4. RunsOnTheLast(c)
    <3> SUFFICES ASSUME NEW k \in 2..Len(Parts(c)), phase[Parts(c)[k]] # "idle"
                 PROVE  /\ sends[Parts(c)[k - 1]] = 1
                        /\ ~ HasError(response[Parts(c)[k - 1]]) /\ ~ IsEmpty(response[Parts(c)[k - 1]].body)
                        /\ input[Parts(c)[k]] = response[Parts(c)[k - 1]].body
      BY DEF RunsOnTheLast
    <3>1. PICK i : i = k - 1
      OBVIOUS
    <3>2. /\ i \in DOMAIN Parts(c) /\ k \in DOMAIN Parts(c) /\ i + 1 = k /\ i \in Nat
          /\ Parts(c) # <<>> /\ DOMAIN Parts(c) \subseteq Nat
      BY <2>1, <3>1
    <3>3. /\ phase[c] \in Begun => arrived[c] \in DOMAIN Parts(c) /\ ~ (k > arrived[c])
          /\ phase[c] \in Begun
      BY <2>2, <3>2 DEF PipeWell
    <3>4. i < arrived[c]
      BY <3>2, <3>3
    <3>5. Passed(c, i)
      BY <2>2, <3>2, <3>3, <3>4 DEF PipeWell
    <3>6. sends[Parts(c)[i]] = 1
      BY <2>1, <3>2, <3>5 DEF Passed, Delivered, CInv, SentOnce
    <3> QED
      BY <3>1, <3>2, <3>5, <3>6 DEF Passed
  <2> QED
    BY <2>3, <2>4
<1> QED
  BY <1>1, ContractInvariance, PTL

\* Once the client has its response, nothing is active below: the topmost active
\* request would have an active contract above it.
LEMMA AllAnswered ==
    ASSUME CInv, sends[Root] = 1
    PROVE  \A n \in Nodes : n # Root => ~ Active(n)
<1>1. shape \in Shapes /\ Root \in Nodes
  BY ConstantsAssumption DEF CInv, TypeOK, Nodes
<1>2. phase[Root] = "sent"
  BY <1>1 DEF CInv, SentOnce
<1>3. PICK A : A = {n \in Nodes : n # Root /\ Active(n)}
  OBVIOUS
<1>4. ASSUME A # {}
      PROVE  FALSE
  <2>1. A \in SUBSET Nodes
    BY <1>3
  <2>2. PICK n \in A : \A c \in A \cap Contracts : ~ IsPart(n, c)
    BY <1>1, <1>4, <2>1, TopOf
  <2>3. n \in Nodes /\ n # Root /\ Active(n)
    BY <1>3, <2>2
  <2>4. PICK c : c = Above(n)
    OBVIOUS
  <2>5. c \in Contracts /\ IsPart(n, c) /\ phase[c] = "running"
    BY <2>3, <2>4, PartOf
  <2>6. c \in A
    BY <1>2, <1>3, <2>5 DEF Active, Nodes
  <2> QED
    BY <2>2, <2>5, <2>6
<1> QED
  BY <1>3, <1>4

\* A contract whose part failed fails, once it is sent.
LEMMA ErrorGoesUp ==
    ASSUME CInv, NEW c \in Contracts, NEW n \in Nodes, IsPart(n, c), Type(c) # "other",
           phase[c] = "sent", Delivered(n), HasError(response[n])
    PROVE  HasError(response[c])
<1>1. shape \in Shapes
  BY DEF CInv, TypeOK
<1>2. PICK k \in DOMAIN Parts(c) : Parts(c)[k] = n
  BY DEF IsPart
<1>3. Type(c) \in Types /\ Parts(c) \in Seq(Nodes) /\ c \in Nodes
  BY <1>1, TreeIs
<1>4. Parts(c) # <<>> /\ k \in Nat
  BY <1>2, <1>3
<1>5. CASE Type(c) = "merge"
  <2>1. MergeWell(c)
    BY <1>4, <1>5 DEF CInv, RunsWell
  <2>2. response[c].errors # <<>>
    BY <1>2, <2>1 DEF MergeWell, Begun
  <2> QED
    BY <2>2 DEF HasError
<1>6. CASE Type(c) = "pipe"
  <2>1. PipeWell(c)
    BY <1>4, <1>6 DEF CInv, RunsWell
  <2>2. /\ arrived[c] \in DOMAIN Parts(c)
        /\ k < arrived[c] => Passed(c, k)
        /\ k > arrived[c] => phase[Parts(c)[k]] = "idle"
        /\ AnswersTheLast(c)
    BY <2>1 DEF PipeWell, Begun
  <2>3. k = arrived[c]
    <3>1. ~ (k < arrived[c])
      BY <1>2, <2>2 DEF Passed
    <3>2. ~ (k > arrived[c])
      BY <1>2, <2>2 DEF Delivered
    <3>3. arrived[c] \in Nat
      BY <1>3, <2>2
    <3> QED
      BY <1>4, <3>1, <3>2, <3>3
  <2>4. sends[c] > 0
    BY <1>3 DEF CInv, SentOnce
  <2> QED
    BY <1>2, <1>4, <2>2, <2>3, <2>4 DEF AnswersTheLast
<1> QED
  BY <1>3, <1>5, <1>6 DEF Types

\* A merge answers with the bodies of all its parts that have no error, one after
\* the other, and with those of the others as errors, each once, whatever order
\* they answer in: what has answered is summed, and at the end it is all of them.
THEOREM MergesAreSums == Spec => []MergeIsSum
<1>1. CInv => MergeIsSum
  <2> SUFFICES ASSUME CInv, NEW c \in Contracts, sends[c] > 0, Type(c) = "merge", Parts(c) # <<>>
               PROVE  /\ \A k \in DOMAIN Parts(c) : sends[Parts(c)[k]] = 1
                      /\ \E order \in SetToSeqs(Succeeded(c)) :
                            response[c].body =
                              FlattenSeq([i \in DOMAIN order |-> Members(response[Parts(c)[order[i]]].body)])
                      /\ \E order \in SetToSeqs(Errored(c)) :
                            response[c].errors = [i \in DOMAIN order |-> response[Parts(c)[order[i]]].body]
                      /\ HasError(response[c]) <=> Errored(c) # {}
    BY DEF CInv, MergeIsSum
  <2>1. /\ shape \in Shapes /\ c \in Nodes /\ Parts(c) \in Seq(Nodes)
        /\ \A k \in DOMAIN Parts(c) : /\ Parts(c)[k] \in Nodes \ {Root} /\ IsPart(Parts(c)[k], c)
                                      /\ Above(Parts(c)[k]) = c
    BY TreeIs DEF CInv, TypeOK
  <2>2. phase[c] \in {"sent", "settling"} /\ phase[c] \in Begun /\ phase[c] # "running"
    BY <2>1 DEF CInv, SentOnce, Begun
  <2>3. MergeWell(c)
    BY DEF CInv, RunsWell
  <2>4. ASSUME NEW k \in DOMAIN Parts(c)
        PROVE  Delivered(Parts(c)[k]) /\ sends[Parts(c)[k]] = 1
    <3>1. PICK p : p = Parts(c)[k]
      OBVIOUS
    <3>2. p \in Nodes /\ p # Root /\ Above(p) = c
      BY <2>1, <3>1
    <3>3. ~ Active(p)
      BY <2>2, <3>2, PartOf
    <3>4. phase[p] # "idle" /\ phase[p] \in Phases
      BY <2>2, <2>3, <3>1, <3>2 DEF MergeWell, CInv, TypeOK
    <3>5. phase[p] = "sent" /\ sending # p
      BY <3>3, <3>4 DEF Active, Phases
    <3> QED
      BY <3>1, <3>2, <3>5 DEF Delivered, CInv, SentOnce
  <2>5. PICK A : A = Answers(c)
    OBVIOUS
  <2>6. \A k \in DOMAIN Parts(c) : A[k] = response[Parts(c)[k]]
    BY <2>5 DEF Answers
  <2>7. DeliveredParts(c) = DOMAIN Parts(c) /\ DOMAIN Parts(c) # {}
    <3>1. DOMAIN Parts(c) # {}
      BY <2>1
    <3> QED
      BY <2>4, <3>1, Zenon DEF DeliveredParts
  <2>8. SumOf(response[c], DOMAIN Parts(c), A)
    BY <2>2, <2>3, <2>5, <2>7 DEF MergeWell
  <2>9. /\ Errored(c) = {k \in DOMAIN Parts(c) : HasError(A[k])}
        /\ Succeeded(c) = {k \in DOMAIN Parts(c) : ~ HasError(A[k])}
    BY <2>6 DEF Errored, Succeeded
  <2>10. \A S : \A o \in SetToSeqs(S) : \A i \in DOMAIN o : o[i] \in S
    BY DEF SetToSeqs
  <2>11. \E order \in SetToSeqs(Succeeded(c)) :
             response[c].body =
               FlattenSeq([i \in DOMAIN order |-> Members(response[Parts(c)[order[i]]].body)])
    <3>1. PICK o \in SetToSeqs(Succeeded(c)) :
              Collected(response[c]) = FlattenSeq([i \in DOMAIN o |-> Members(A[o[i]].body)])
      BY <2>8, <2>9 DEF SumOf
    <3>2. \A i \in DOMAIN o : A[o[i]] = response[Parts(c)[o[i]]]
      BY <2>6, <2>9, <2>10
    <3>3. [i \in DOMAIN o |-> Members(A[o[i]].body)]
          = [i \in DOMAIN o |-> Members(response[Parts(c)[o[i]]].body)]
      BY <3>2
    <3>4. Collected(response[c]) = response[c].body
      BY <2>7, <2>8 DEF SumOf, Collected
    <3> QED
      BY <3>1, <3>3, <3>4
  <2>12. PICK o \in SetToSeqs(Errored(c)) : response[c].errors = [i \in DOMAIN o |-> A[o[i]].body]
    BY <2>8, <2>9 DEF SumOf
  <2>13. response[c].errors = [i \in DOMAIN o |-> response[Parts(c)[o[i]]].body]
    <3>1. \A i \in DOMAIN o : A[o[i]] = response[Parts(c)[o[i]]]
      BY <2>6, <2>9, <2>10
    <3> QED
      BY <2>12, <3>1
  <2>14. HasError(response[c]) => Errored(c) # {}
    <3>1. CASE response[c].statusCode >= 400
      BY <2>8, <2>9, <3>1 DEF SumOf
    <3>2. CASE response[c].errors # <<>>
      <4>1. Errored(c) = {} => DOMAIN o = {}
        BY <2>10
      <4>2. \A F : [i \in {} |-> F[i]] = <<>>
        OBVIOUS
      <4>3. DOMAIN o = {} => response[c].errors = <<>>
        BY <2>12, <4>2
      <4> QED
        BY <3>2, <4>1, <4>3
    <3> QED
      BY <3>1, <3>2 DEF HasError
  <2>15. Errored(c) # {} => HasError(response[c])
    BY <2>2, <2>3, <2>4 DEF Errored, MergeWell, HasError
  <2> QED
    BY <2>4, <2>11, <2>13, <2>14, <2>15
<1> QED
  BY <1>1, ContractInvariance, PTL

\* The client's response is an error as soon as one request of the tree was
\* answered with one: the topmost of these has to be the root.
THEOREM ErrorsGoUp == Spec => []ErrorsReachClient
<1>1. CInv => ErrorsReachClient
  <2> SUFFICES ASSUME CInv, sends[Root] = 1, NEW x \in Nodes, sends[x] = 1, HasError(response[x])
               PROVE  HasError(response[Root])
    BY DEF ErrorsReachClient
  <2>1. shape \in Shapes /\ Root \in Nodes /\ Contracts \subseteq Nodes
    BY ConstantsAssumption DEF CInv, TypeOK, Nodes
  <2>2. PICK A : A = {n \in Nodes : sends[n] = 1 /\ HasError(response[n])}
    OBVIOUS
  <2>3. A \in SUBSET Nodes /\ A # {}
    BY <2>2
  <2>4. PICK n \in A : \A c \in A \cap Contracts : ~ IsPart(n, c)
    BY <2>1, <2>3, TopOf
  <2>5. n \in Nodes /\ sends[n] = 1 /\ HasError(response[n])
    BY <2>2, <2>4
  <2>6. CASE n = Root
    BY <2>5, <2>6
  <2>7. CASE n # Root
    <3>1. phase[n] \in {"sent", "settling"}
      BY <2>5 DEF CInv, SentOnce
    <3>2. ~ Active(n)
      BY <2>5, <2>7, AllAnswered
    <3>3. Delivered(n)
      BY <3>1, <3>2 DEF Active, Delivered
    <3>4. PICK c \in Contracts : IsPart(n, c) /\ Type(c) # "other" /\ phase[c] \in Begun
      BY <2>5, <2>7, <3>1 DEF CInv, Placed
    <3>5. phase[c] = "sent"
      <4>1. CASE c = Root
        BY <2>1, <4>1 DEF CInv, SentOnce
      <4>2. CASE c # Root
        <5>1. ~ Active(c)
          BY <2>1, <4>2, AllAnswered
        <5> QED
          BY <3>4, <5>1 DEF Active, Begun
      <4> QED
        BY <4>1, <4>2
    <3>6. HasError(response[c])
      BY <2>5, <3>3, <3>4, <3>5, ErrorGoesUp
    <3>7. c \in A
      BY <2>1, <2>2, <3>5, <3>6 DEF CInv, SentOnce
    <3> QED
      BY <2>4, <3>4, <3>7
  <2> QED
    BY <2>6, <2>7
<1> QED
  BY <1>1, ContractInvariance, PTL

\* A response that was sent is neither changed nor sent again.
THEOREM SentStays == Spec => SentIsFinal
<1>1. CInv /\ [Next]_vars =>
          [\A n \in Nodes : sends[n] > 0 => response'[n] = response[n] /\ sends'[n] = sends[n]]_vars
  <2> SUFFICES ASSUME CInv, [Next]_vars
               PROVE  \A n \in Nodes : sends[n] > 0 => response'[n] = response[n] /\ sends'[n] = sends[n]
    OBVIOUS
  <2>1. /\ sends \in [Nodes -> Nat] /\ DOMAIN response = Nodes
        /\ \A d \in Contracts : d \in Nodes
        /\ \A d \in Leaves : d \in Nodes
        /\ \A n \in Nodes : phase[n] \in {"queued", "running"} => sends[n] = 0
    <3>1. sends \in [Nodes -> Nat] /\ DOMAIN response = Nodes
      BY DEF CInv, TypeOK
    <3>2. /\ \A d \in Contracts : d \in Nodes
          /\ \A d \in Leaves : d \in Nodes
      BY DEF Nodes
    <3>3. \A n \in Nodes : phase[n] \in {"queued", "running"} => sends[n] = 0
      BY DEF CInv, SentOnce
    <3> QED
      BY <3>1, <3>2, <3>3
  <2>2. ASSUME NEW m \in Nodes, phase[m] \in {"queued", "running"},
               \A n \in Nodes : n # m => response'[n] = response[n] /\ sends'[n] = sends[n]
        PROVE  \A n \in Nodes : sends[n] > 0 => response'[n] = response[n] /\ sends'[n] = sends[n]
    BY <2>1, <2>2
  <2>3. ASSUME NEW l \in Leaves, Ask(l)
        PROVE  \A n \in Nodes : sends[n] > 0 => response'[n] = response[n] /\ sends'[n] = sends[n]
    BY <2>3 DEF Ask
  <2>4. ASSUME NEW l \in Leaves, NEW o \in Outcomes, Reply(l, o)
        PROVE  \A n \in Nodes : sends[n] > 0 => response'[n] = response[n] /\ sends'[n] = sends[n]
    BY <2>1, <2>2, <2>4 DEF Reply, SendAs
  <2>5. ASSUME NEW c \in Contracts, Handle(c)
        PROVE  \A n \in Nodes : sends[n] > 0 => response'[n] = response[n] /\ sends'[n] = sends[n]
    BY <2>1, <2>2, <2>5 DEF Handle, SendAs
  <2>6. ASSUME NEW c \in Contracts, StartMerge(c) \/ StartPipe(c)
        PROVE  \A n \in Nodes : sends[n] > 0 => response'[n] = response[n] /\ sends'[n] = sends[n]
    BY <2>6 DEF StartMerge, StartPipe
  <2>7. ASSUME NEW n \in Nodes, MergePart(n)
        PROVE  \A m \in Nodes : sends[m] > 0 => response'[m] = response[m] /\ sends'[m] = sends[m]
    <3>1. PICK c : c = Above(n)
      OBVIOUS
    <3>2. sending = n /\ n # Root /\ Active(n)
      BY <2>7 DEF MergePart, Active
    <3>3. c \in Contracts /\ phase[c] = "running"
      BY <2>1, <3>1, <3>2, PartOf
    <3>4. \A m \in Nodes : m # c => response'[m] = response[m] /\ sends'[m] = sends[m]
      BY <2>1, <2>7, <3>1 DEF MergePart, SendAs
    <3> QED
      BY <2>1, <2>2, <3>3, <3>4
  <2>8. ASSUME NEW n \in Nodes, PipeHears(n)
        PROVE  \A m \in Nodes : sends[m] > 0 => response'[m] = response[m] /\ sends'[m] = sends[m]
    BY <2>8 DEF PipeHears
  <2>9. ASSUME NEW n \in Nodes, PipeStep(n)
         PROVE  \A m \in Nodes : sends[m] > 0 => response'[m] = response[m] /\ sends'[m] = sends[m]
    <3>1. PICK c : c = Above(n)
      OBVIOUS
    <3>2. phase[n] = "settling"
      BY <2>9 DEF PipeStep
    <3>3. c \in Contracts /\ phase[c] = "running"
      BY <3>1, <3>2, PipeAt
    <3>4. \A m \in Nodes : m # c => response'[m] = response[m] /\ sends'[m] = sends[m]
      BY <2>1, <2>9, <3>1 DEF PipeStep
    <3> QED
      BY <2>1, <2>2, <3>3, <3>4
  <2>10. ASSUME Deliver \/ UNCHANGED vars
         PROVE  \A n \in Nodes : sends[n] > 0 => response'[n] = response[n] /\ sends'[n] = sends[n]
    BY <2>10 DEF Deliver, vars
  <2>11. \A n \in Nodes : sends[n] > 0 => response'[n] = response[n] /\ sends'[n] = sends[n]
    <3>1. CASE UNCHANGED vars
      BY <2>10, <3>1
    <3>2. CASE \E l \in Leaves : Ask(l) \/ \E o \in Outcomes : Reply(l, o)
      BY <2>3, <2>4, <3>2
    <3>3. CASE \E c \in Contracts : Handle(c) \/ StartMerge(c) \/ StartPipe(c)
      BY <2>5, <2>6, <3>3
    <3>4. CASE \E n \in Nodes : MergePart(n) \/ PipeHears(n) \/ PipeStep(n)
      BY <2>7, <2>8, <2>9, <3>4
    <3>5. CASE Deliver
      BY <2>10, <3>5
    <3> QED
      BY <3>1, <3>2, <3>3, <3>4, <3>5 DEF Next
  <2> QED
    BY <2>11
<1> QED
  BY <1>1, ContractInvariance, PTL DEF Spec, SentIsFinal
=============================================================================
