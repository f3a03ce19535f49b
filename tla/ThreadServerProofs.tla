------------------------- MODULE ThreadServerProofs -------------------------
(***************************************************************************)
(* One whole answer: for any jobs, threads, numbers of containers and      *)
(* requests of the code.                                                   *)
(*                                                                         *)
(* What the code has to do for a container is in one place: in the message *)
(* that brings the job, in a turn, or, while a request is out, in the      *)
(* message, the supply chain or the response; until done() is called.      *)
(***************************************************************************)
EXTENDS ThreadServer, FiniteSetTheorems, SequenceTheorems, TLAPS

\* A call of code: the job, the place of the container, and which response it
\* is for, 0 for none.
Calls == Jobs \X Nat \X Nat

\* Results: the places of the containers that have one.
Bodies == SUBSET Nat

\* What a server sends a thread, and what it gets of it.
Orders == [is : {"job"}, of : Jobs] \cup [is : {"response"}, of : Calls]

Reports == [is : {"request"}, of : Calls] \cup [is : {"result"}, of : Jobs, body : Bodies]

\* Types.
TypeCorrect ==
    /\ method \in [Jobs -> Methods]
    /\ total \in [Jobs -> Nat]
    /\ callbacks \subseteq Jobs
    /\ thread \in [Jobs -> SUBSET Threads]
    /\ toThread \in [Threads -> Seq(Orders)]
    /\ toServer \in [Threads -> Seq(Reports)]
    /\ shipped \subseteq Calls
    /\ turn \in [Threads -> Seq(Calls)]
    /\ completed \in [Jobs -> Nat]
    /\ results \in [Jobs -> SUBSET Nat]
    /\ requests \in [Jobs -> Nat]
    /\ answers \in [Jobs -> Seq(Bodies)]
    /\ careless \subseteq Jobs

-----------------------------------------------------------------------------
(* Where a container of a job is.                                            *)

\* The container that a call is about.
Key(call) == <<call[1], call[2]>>

\* Those that a message or a call brings, where T are the totals.
InKeys(T) == [m \in Orders |-> IF m.is = "job" THEN {m.of} \X (1..T[m.of]) ELSE {Key(m.of)}]

\* Those that a message of a thread brings: results bring none back.
OutKeys == [m \in Reports |-> IF m.is = "request" THEN {Key(m.of)} ELSE {}]

\* Those that a call is about.
CallKeys == [c \in Calls |-> {Key(c)}]

\* Those that a sequence brings.
Cover(K, S) == UNION {K[S[k]] : k \in DOMAIN S}

\* None of them is brought twice.
Apart(K, S) == \A j, k \in DOMAIN S : j # k => K[S[j]] \cap K[S[k]] = {}

\* The places: the queues and the turn of each thread, the supply chain, and what
\* is done.
Places == ({"in", "out", "turn"} \X Threads) \cup ({"shipped", "done"} \X {"all"})

\* The containers in each place.
Held(I, O, U, S, R, T) ==
    [p \in Places |->
        CASE p[1] = "in" -> Cover(InKeys(T), I[p[2]])
          [] p[1] = "out" -> Cover(OutKeys, O[p[2]])
          [] p[1] = "turn" -> Cover(CallKeys, U[p[2]])
          [] p[1] = "shipped" -> {Key(r) : r \in S}
          [] p[1] = "done" -> UNION {{j} \X R[j] : j \in Jobs}]

\* No container is in two.
OnePlace(H) == \A p, q \in Places : \A k \in H[p] : k \in H[q] => p = q

\* They are of jobs that were given to a thread.
Given(H, T, G) == \A p \in Places : \A k \in H[p] : k[1] \in Jobs /\ k[2] \in 1..T[k[1]] /\ G[k[1]] # {}

\* Nothing in one place is about the same container as another thing there.
LinesApart(I, O, U, S, T) ==
    /\ \A t \in Threads : Apart(InKeys(T), I[t]) /\ Apart(OutKeys, O[t]) /\ Apart(CallKeys, U[t])
    /\ \A r, s \in S : Key(r) = Key(s) => r = s

\* Every container that code has to do with is in one place.
KeysInv ==
    /\ LinesApart(toThread, toServer, turn, shipped, total)
    /\ OnePlace(Held(toThread, toServer, turn, shipped, results, total))
    /\ Given(Held(toThread, toServer, turn, shipped, results, total), total, thread)

-----------------------------------------------------------------------------
(* The inductive invariant.                                                  *)

\* A result that is the whole of it, for a total n.
Whole(body, n) == body \in {Error, 1..n}

\* The results among the messages S are, but for those of the jobs C.
Fine(S, T, C) ==
    \A k \in DOMAIN S : S[k].is = "result" /\ S[k].of \notin C => Whole(S[k].body, T[S[k].of])

\* Results, on the way and delivered.
AnswersInv ==
    /\ \A j \in Jobs \ careless : completed[j] = Cardinality(results[j])
    /\ \A t \in Threads : Fine(toServer[t], total, careless)
    /\ \A j \in Jobs :
           /\ j \in callbacks \/ thread[j] = {} => answers[j] = <<>>
           /\ j \in callbacks => thread[j] # {}
           /\ Len(answers[j]) <= 1
           /\ j \notin careless => \A k \in DOMAIN answers[j] : Whole(answers[j][k], total[j])

\* All of it.
ThreadInv == TypeCorrect /\ KeysInv /\ AnswersInv

-----------------------------------------------------------------------------
(* Sequences.                                                                *)

\* What comes after the first is apart from it.
LEMMA TailApart ==
    ASSUME NEW A, NEW S \in Seq(A), S # <<>>, NEW K, Apart(K, S)
    PROVE  /\ Apart(K, Tail(S))
           /\ Cover(K, Tail(S)) \subseteq Cover(K, S) \ K[Head(S)]
           /\ K[Head(S)] \subseteq Cover(K, S)
<1>1. PICK L : L = Tail(S)
  OBVIOUS
<1>2. L \in Seq(A) /\ \A i \in DOMAIN L : L[i] = S[i + 1] /\ i \in Nat \ {0} /\ i + 1 \in DOMAIN S
  BY <1>1, HeadTailProperties
<1>3. 1 \in DOMAIN S /\ Head(S) = S[1]
  OBVIOUS
<1>4. \A i, j \in DOMAIN L : i # j => i + 1 # j + 1
  BY <1>2
<1>5. \A i \in DOMAIN L : i + 1 # 1
  BY <1>2
<1>6. Apart(K, L)
  BY <1>2, <1>4 DEF Apart
<1>7. \A i \in DOMAIN L : K[L[i]] \subseteq Cover(K, S) /\ K[L[i]] \cap K[S[1]] = {}
  BY <1>2, <1>3, <1>5 DEF Apart, Cover
<1>8. Cover(K, L) \subseteq Cover(K, S) \ K[S[1]]
  BY <1>7 DEF Cover
<1>9. K[S[1]] \subseteq Cover(K, S)
  BY <1>3 DEF Cover
<1> QED
  BY <1>1, <1>3, <1>6, <1>8, <1>9

\* Two sequences that bring different containers.
LEMMA JoinApart ==
    ASSUME NEW A, NEW S \in Seq(A), NEW L \in Seq(A), NEW K, Apart(K, S), Apart(K, L),
           Cover(K, S) \cap Cover(K, L) = {}
    PROVE  /\ Apart(K, S \o L)
           /\ Cover(K, S \o L) \subseteq Cover(K, S) \cup Cover(K, L)
<1>1. PICK B : B = S \o L
  OBVIOUS
<1>2. PICK n \in Nat : n = Len(S)
  OBVIOUS
<1>3. B \in Seq(A) /\ Len(B) = n + Len(L) /\ Len(L) \in Nat
  BY <1>1, <1>2, ConcatProperties
<1>4. \A j \in DOMAIN B : \/ j \in DOMAIN S /\ B[j] = S[j]
                          \/ j - n \in DOMAIN L /\ B[j] = L[j - n] /\ j \in Nat
  <2> SUFFICES ASSUME NEW j \in DOMAIN B
               PROVE  \/ j \in DOMAIN S /\ B[j] = S[j]
                      \/ j - n \in DOMAIN L /\ B[j] = L[j - n] /\ j \in Nat
    OBVIOUS
  <2>1. j \in 1..(n + Len(L)) /\ j \in Nat
    BY <1>3
  <2> QED
    BY <1>1, <1>2, <1>3, <2>1, ConcatProperties
<1>5. ASSUME NEW i \in DOMAIN B, NEW j \in DOMAIN B, i # j
      PROVE  K[B[i]] \cap K[B[j]] = {}
  <2>1. CASE i \in DOMAIN S /\ B[i] = S[i] /\ j \in DOMAIN S /\ B[j] = S[j]
    BY <1>5, <2>1 DEF Apart
  <2>2. CASE /\ i - n \in DOMAIN L /\ B[i] = L[i - n] /\ i \in Nat
             /\ j - n \in DOMAIN L /\ B[j] = L[j - n] /\ j \in Nat
    <3>1. i - n # j - n
      BY <1>5, <2>2
    <3> QED
      BY <2>2, <3>1 DEF Apart
  <2>3. CASE i \in DOMAIN S /\ B[i] = S[i] /\ j - n \in DOMAIN L /\ B[j] = L[j - n]
    BY <2>3 DEF Cover
  <2>4. CASE j \in DOMAIN S /\ B[j] = S[j] /\ i - n \in DOMAIN L /\ B[i] = L[i - n]
    BY <2>4 DEF Cover
  <2> QED
    BY <1>4, <2>1, <2>2, <2>3, <2>4
<1>6. \A j \in DOMAIN B : K[B[j]] \subseteq Cover(K, S) \cup Cover(K, L)
  BY <1>4 DEF Cover
<1>7. Apart(K, B)
  BY <1>5 DEF Apart
<1>8. Cover(K, B) \subseteq Cover(K, S) \cup Cover(K, L)
  BY <1>6 DEF Cover
<1> QED
  BY <1>1, <1>7, <1>8

\* One more, that brings the containers N.
LEMMA OneMore ==
    ASSUME NEW A, NEW S \in Seq(A), NEW x \in A, NEW K, NEW N, K[x] = N,
           Apart(K, S), Cover(K, S) \cap N = {}
    PROVE  /\ Apart(K, S \o <<x>>)
           /\ Cover(K, S \o <<x>>) \subseteq Cover(K, S) \cup N
<1>1. PICK L : L = <<x>>
  OBVIOUS
<1>2. L \in Seq(A) /\ DOMAIN L = {1} /\ L[1] = x
  BY <1>1
<1>3. Apart(K, L) /\ Cover(K, L) = N
  BY <1>2 DEF Apart, Cover
<1>4. /\ Apart(K, S \o L)
      /\ Cover(K, S \o L) \subseteq Cover(K, S) \cup Cover(K, L)
  BY <1>2, <1>3, JoinApart
<1> QED
  BY <1>1, <1>3, <1>4

-----------------------------------------------------------------------------
(* Containers go from one place to another.                                  *)

\* What is in each place.
IsHeld(H, I, O, U, S, R, T) ==
    /\ \A t \in Threads : /\ <<"in", t>> \in Places /\ H[<<"in", t>>] = Cover(InKeys(T), I[t])
                          /\ <<"out", t>> \in Places /\ H[<<"out", t>>] = Cover(OutKeys, O[t])
                          /\ <<"turn", t>> \in Places /\ H[<<"turn", t>>] = Cover(CallKeys, U[t])
    /\ <<"shipped", "all">> \in Places /\ H[<<"shipped", "all">>] = {Key(r) : r \in S}
    /\ <<"done", "all">> \in Places
    /\ H[<<"done", "all">>] = UNION {{j} \X R[j] : j \in Jobs}

\* Held has them.
LEMMA HeldIs ==
    ASSUME NEW I, NEW O, NEW U, NEW S, NEW R, NEW T, NEW H, H = Held(I, O, U, S, R, T)
    PROVE  IsHeld(H, I, O, U, S, R, T)
BY DEF Held, Places, IsHeld

\* Only the places A may have changed.
Outside(A, I, O, U, S, R, I2, O2, U2, S2, R2) ==
    /\ \A t \in Threads : /\ <<"in", t>> \in A \/ I2[t] = I[t]
                          /\ <<"out", t>> \in A \/ O2[t] = O[t]
                          /\ <<"turn", t>> \in A \/ U2[t] = U[t]
    /\ <<"shipped", "all">> \in A \/ S2 = S
    /\ <<"done", "all">> \in A \/ R2 = R

\* Then the others hold what they held.
LEMMA Elsewhere ==
    ASSUME NEW I, NEW O, NEW U, NEW S, NEW R, NEW T, NEW I2, NEW O2, NEW U2, NEW S2, NEW R2,
           NEW H, NEW G, H = Held(I, O, U, S, R, T), G = Held(I2, O2, U2, S2, R2, T),
           NEW A, Outside(A, I, O, U, S, R, I2, O2, U2, S2, R2)
    PROVE  \A p \in Places \ A : G[p] = H[p]
<1> SUFFICES ASSUME NEW p \in Places, p \notin A
             PROVE  G[p] = H[p]
  OBVIOUS
<1>1. /\ \A t \in Threads : /\ H[<<"in", t>>] = Cover(InKeys(T), I[t])
                              /\ H[<<"out", t>>] = Cover(OutKeys, O[t])
                              /\ H[<<"turn", t>>] = Cover(CallKeys, U[t])
      /\ H[<<"shipped", "all">>] = {Key(r) : r \in S}
      /\ H[<<"done", "all">>] = UNION {{j} \X R[j] : j \in Jobs}
  BY HeldIs DEF IsHeld
<1>2. /\ \A t \in Threads : /\ G[<<"in", t>>] = Cover(InKeys(T), I2[t])
                              /\ G[<<"out", t>>] = Cover(OutKeys, O2[t])
                              /\ G[<<"turn", t>>] = Cover(CallKeys, U2[t])
      /\ G[<<"shipped", "all">>] = {Key(r) : r \in S2}
      /\ G[<<"done", "all">>] = UNION {{j} \X R2[j] : j \in Jobs}
  BY HeldIs DEF IsHeld
<1>3. CASE \E t \in Threads : p = <<"in", t>>
  <2>1. PICK t \in Threads : p = <<"in", t>>
    BY <1>3
  <2>2. I2[t] = I[t]
    BY <2>1 DEF Outside
  <2> QED
    BY <1>1, <1>2, <2>1, <2>2
<1>4. CASE \E t \in Threads : p = <<"out", t>>
  <2>1. PICK t \in Threads : p = <<"out", t>>
    BY <1>4
  <2>2. O2[t] = O[t]
    BY <2>1 DEF Outside
  <2> QED
    BY <1>1, <1>2, <2>1, <2>2
<1>5. CASE \E t \in Threads : p = <<"turn", t>>
  <2>1. PICK t \in Threads : p = <<"turn", t>>
    BY <1>5
  <2>2. U2[t] = U[t]
    BY <2>1 DEF Outside
  <2> QED
    BY <1>1, <1>2, <2>1, <2>2
<1>6. CASE p = <<"shipped", "all">>
  <2>1. S2 = S
    BY <1>6 DEF Outside
  <2> QED
    BY <1>1, <1>2, <1>6, <2>1
<1>7. CASE p = <<"done", "all">>
  <2>1. R2 = R
    BY <1>7 DEF Outside
  <2>2. UNION {{j} \X R2[j] : j \in Jobs} = UNION {{j} \X R[j] : j \in Jobs}
    BY <2>1
  <2> DEFINE a == UNION {{j} \X R[j] : j \in Jobs}
  <2>3. H[p] = a
    BY <1>1, <1>7
  <2>4. G[p] = a
    BY <1>2, <1>7, <2>2
  <2> QED
    BY <2>3, <2>4
<1>8. p \in {"in", "out", "turn"} \X Threads \/ p \in {"shipped", "done"} \X {"all"}
  BY DEF Places
<1>9. CASE p \in {"in", "out", "turn"} \X Threads
  <2>1. PICK a \in {"in", "out", "turn"}, t \in Threads : p = <<a, t>>
    BY <1>9
  <2> QED
    BY <1>3, <1>4, <1>5, <2>1
<1>10. CASE p \in {"shipped", "done"} \X {"all"}
  <2>1. PICK a \in {"shipped", "done"} : p = <<a, "all">>
    BY <1>10
  <2> QED
    BY <1>6, <1>7, <2>1
<1> QED
  BY <1>8, <1>9, <1>10

\* The containers K, that were in place a, if they were in any, may be in b.
Move(H, G, a, b, K) ==
    /\ a \in Places /\ b \in Places /\ a # b
    /\ K \subseteq H[a] /\ G[a] \subseteq H[a] \ K /\ G[b] \subseteq H[b] \cup K
    /\ \A p \in Places \ {a, b} : G[p] \subseteq H[p]

\* Then each is still in one place.
LEMMA Moved ==
    ASSUME NEW H, NEW G, NEW a, NEW b, NEW K, NEW T, NEW th,
           OnePlace(H), Given(H, T, th), Move(H, G, a, b, K)
    PROVE  OnePlace(G) /\ Given(G, T, th)
<1>1. \A p \in Places : \A k \in G[p] : \/ k \in H[p] /\ (p = a => k \notin K)
                                        \/ p = b /\ k \in K /\ k \in H[a]
  BY DEF Move
<1>2. a \in Places
  BY DEF Move
<1>3. OnePlace(G)
  BY <1>1, <1>2 DEF OnePlace
<1>4. Given(G, T, th)
  BY <1>1, <1>2 DEF Given
<1> QED
  BY <1>3, <1>4

\* Containers K that were in no place come.
Come(H, G, b, K) ==
    /\ b \in Places /\ G[b] \subseteq H[b] \cup K
    /\ \A p \in Places : K \cap H[p] = {}
    /\ \A p \in Places \ {b} : G[p] = H[p]

\* Then each is still in one place.
LEMMA Came ==
    ASSUME NEW H, NEW G, NEW b, NEW K, NEW T, NEW th,
           OnePlace(H), Given(H, T, th), Come(H, G, b, K),
           \A k \in K : k[1] \in Jobs /\ k[2] \in 1..T[k[1]] /\ th[k[1]] # {}
    PROVE  OnePlace(G) /\ Given(G, T, th)
<1>1. \A p \in Places : \A k \in G[p] : k \in H[p] \/ (p = b /\ k \in K)
  BY DEF Come
<1>2. \A p \in Places : K \cap H[p] = {}
  BY DEF Come
<1>3. OnePlace(G)
  BY <1>1, <1>2 DEF OnePlace
<1>4. Given(G, T, th)
  BY <1>1 DEF Given
<1> QED
  BY <1>3, <1>4

\* Containers leave.
LEMMA Gone ==
    ASSUME NEW H, NEW G, NEW T, NEW th, OnePlace(H), Given(H, T, th),
           \A p \in Places : G[p] \subseteq H[p]
    PROVE  OnePlace(G) /\ Given(G, T, th)
<1>1. OnePlace(G)
  BY DEF OnePlace
<1>2. Given(G, T, th)
  BY DEF Given
<1> QED
  BY <1>1, <1>2

\* Messages and calls bring what they are about.
LEMMA KeysAre ==
    ASSUME NEW T
    PROVE  /\ \A m \in Orders : \/ m.is = "job" /\ m.of \in Jobs /\ InKeys(T)[m] = {m.of} \X (1..T[m.of])
                                \/ m.is = "response" /\ m.of \in Calls /\ InKeys(T)[m] = {Key(m.of)}
           /\ \A m \in Reports : \/ m.is = "request" /\ m.of \in Calls /\ OutKeys[m] = {Key(m.of)}
                                 \/ /\ m.is = "result" /\ m.of \in Jobs /\ m.body \in Bodies
                                    /\ OutKeys[m] = {}
           /\ \A c \in Calls : CallKeys[c] = {Key(c)} /\ c[1] \in Jobs /\ c[2] \in Nat
<1>1. \A m \in Orders : \/ m.is = "job" /\ m.of \in Jobs /\ InKeys(T)[m] = {m.of} \X (1..T[m.of])
                        \/ m.is = "response" /\ m.of \in Calls /\ InKeys(T)[m] = {Key(m.of)}
  BY DEF Orders, InKeys
<1>2. \A m \in Reports : \/ m.is = "request" /\ m.of \in Calls /\ OutKeys[m] = {Key(m.of)}
                         \/ /\ m.is = "result" /\ m.of \in Jobs /\ m.body \in Bodies
                            /\ OutKeys[m] = {}
  BY DEF Reports, OutKeys
<1>3. \A c \in Calls : CallKeys[c] = {Key(c)} /\ c[1] \in Jobs /\ c[2] \in Nat
  BY DEF Calls, CallKeys
<1> QED
  BY <1>1, <1>2, <1>3

\* What each message brings.
LEMMA JobIs ==
    ASSUME NEW T, NEW j \in Jobs, NEW m, m = [is |-> "job", of |-> j]
    PROVE  m \in Orders /\ InKeys(T)[m] = {j} \X (1..T[j])
BY DEF Orders, InKeys

\* A response brings its own container.
LEMMA ResponseIs ==
    ASSUME NEW T, NEW c \in Calls, NEW m, m = [is |-> "response", of |-> c]
    PROVE  m \in Orders /\ InKeys(T)[m] = {Key(c)}
BY DEF Orders, InKeys

\* So does a request.
LEMMA RequestIs ==
    ASSUME NEW c \in Calls, NEW m, m = [is |-> "request", of |-> c]
    PROVE  m \in Reports /\ OutKeys[m] = {Key(c)}
BY DEF Reports, OutKeys

\* What is sent to one thread leaves the others alone.
LEMMA SendIs ==
    ASSUME NEW A, NEW link \in [Threads -> Seq(A)], NEW t \in Threads, NEW L \in Seq(A),
           NEW link2, link2 = Send(link, t, L)
    PROVE  /\ link2 \in [Threads -> Seq(A)]
           /\ link2[t] = link[t] \o L
           /\ \A u \in Threads : u # t => link2[u] = link[u]
<1>1. link[t] \o L \in Seq(A)
  BY ConcatProperties
<1> QED
  BY <1>1 DEF Send

\* The same for one message.
LEMMA SendOne ==
    ASSUME NEW A, NEW link \in [Threads -> Seq(A)], NEW t \in Threads, NEW x \in A,
           NEW link2, link2 = Send(link, t, <<x>>)
    PROVE  /\ link2 \in [Threads -> Seq(A)]
           /\ link2[t] = link[t] \o <<x>>
           /\ \A u \in Threads : u # t => link2[u] = link[u]
<1>1. <<x>> \in Seq(A)
  OBVIOUS
<1>2. link[t] \o <<x>> \in Seq(A)
  BY <1>1, ConcatProperties
<1> QED
  BY <1>2 DEF Send

-----------------------------------------------------------------------------
(* Types.                                                                    *)

\* As many results are sent as calls of done were enough, of the n.
LEMMA Messages ==
    ASSUME NEW n \in Nat, NEW E \in SUBSET (1..n), NEW m \in Reports
    PROVE  /\ IsFiniteSet(E) /\ Cardinality(E) \in Nat
           /\ [k \in 1..Cardinality(E) |-> m] \in Seq(Reports)
           /\ E = {} => [k \in 1..Cardinality(E) |-> m] = <<>>
           /\ DOMAIN [k \in 1..Cardinality(E) |-> m] = 1..Cardinality(E)
<1>1. IsFiniteSet(1..n)
  BY FS_Interval
<1>2. IsFiniteSet(E)
  BY <1>1, FS_Subset
<1>3. Cardinality(E) \in Nat
  BY <1>2, FS_CardinalityType
<1>4. E = {} => Cardinality(E) = 0
  BY FS_EmptySet
<1>5. PICK c \in Nat : c = Cardinality(E)
  BY <1>3
<1>6. [k \in 1..c |-> m] \in Seq(Reports)
  OBVIOUS
<1>7. c = 0 => [k \in 1..c |-> m] = <<>>
  OBVIOUS
<1> QED
  BY <1>2, <1>3, <1>4, <1>5, <1>6, <1>7

\* The calls of code that a message brings a thread.
Brought(msg, W, T) ==
    CASE msg.is = "job" -> [k \in 1..T[msg.of] |-> <<msg.of, k, 0>>]
      [] msg.is = "response" /\ msg.of \in W -> <<msg.of>>
      [] OTHER -> <<>>

\* They are calls.
LEMMA BroughtType ==
    ASSUME NEW msg \in Orders, NEW W, NEW T \in [Jobs -> Nat]
    PROVE  Brought(msg, W, T) \in Seq(Calls)
<1>1. CASE msg.is = "job" /\ msg.of \in Jobs
  <2>1. \A k \in 1..T[msg.of] : <<msg.of, k, 0>> \in Calls
    BY <1>1 DEF Calls
  <2>2. [k \in 1..T[msg.of] |-> <<msg.of, k, 0>>] \in Seq(Calls)
    BY <1>1, <2>1
  <2> QED
    BY <1>1, <2>2 DEF Brought
<1>2. CASE msg.is = "response" /\ msg.of \in Calls
  BY <1>2 DEF Brought
<1> QED
  BY <1>1, <1>2, KeysAre

\* Every step keeps the types.
LEMMA TypeStep ==
    ASSUME TypeCorrect, [Next]_vars
    PROVE  TypeCorrect'
<1> USE DEF TypeCorrect
<1>1. ASSUME NEW j \in Jobs, Run(j)
      PROVE  TypeCorrect'
  <2>1. PICK t \in Threads : /\ thread' = [thread EXCEPT ![j] = {t}]
                             /\ toThread' = Send(toThread, t, <<[is |-> "job", of |-> j]>>)
    BY <1>1 DEF Run
  <2>2. <<[is |-> "job", of |-> j]>> \in Seq(Orders)
    BY DEF Orders
  <2>3. toThread' \in [Threads -> Seq(Orders)]
    BY <2>1, <2>2, SendIs
  <2>4. thread' \in [Jobs -> SUBSET Threads]
    BY <2>1
  <2> QED
    BY <1>1, <2>3, <2>4 DEF Run, job, inside, counts
<1>2. ASSUME NEW t \in Threads, Result(t)
      PROVE  TypeCorrect'
  <2>1. PICK msg \in Reports : msg = Head(toServer[t])
    BY <1>2, HeadTailProperties DEF Result
  <2>2. msg.of \in Jobs /\ msg.body \in Bodies
    BY <1>2, <2>1, KeysAre DEF Result
  <2>3. answers' = IF msg.of \in callbacks
                   THEN [answers EXCEPT ![msg.of] = Append(@, msg.body)]
                   ELSE answers
    BY <1>2, <2>1 DEF Result
  <2>4. answers' \in [Jobs -> Seq(Bodies)]
    BY <2>2, <2>3, AppendProperties
  <2>5. callbacks' \subseteq Jobs
    BY <1>2 DEF Result, Called
  <2>6. Tail(toServer[t]) \in Seq(Reports)
    BY <1>2, HeadTailProperties DEF Result
  <2>7. toServer' \in [Threads -> Seq(Reports)]
    BY <1>2, <2>6 DEF Result
  <2> QED
    BY <1>2, <2>4, <2>5, <2>7 DEF Result, job, inside, counts
<1>3. ASSUME NEW t \in Threads, Request(t)
      PROVE  TypeCorrect'
  <2>1. PICK msg \in Reports : msg = Head(toServer[t])
    BY <1>3, HeadTailProperties DEF Request
  <2>2. msg.of \in Calls
    BY <1>3, <2>1, KeysAre DEF Request
  <2>3. shipped' \subseteq Calls
    BY <1>3, <2>1, <2>2 DEF Request
  <2>4. Tail(toServer[t]) \in Seq(Reports)
    BY <1>3, HeadTailProperties DEF Request
  <2>5. toServer' \in [Threads -> Seq(Reports)]
    BY <1>3, <2>4 DEF Request
  <2> QED
    BY <1>3, <2>3, <2>5 DEF Request, job, server, inside, counts
<1>4. ASSUME NEW r \in shipped, Respond(r)
      PROVE  TypeCorrect'
  <2>1. r \in Calls /\ r[1] \in Jobs
    BY KeysAre
  <2>2. PICK t \in thread[r[1]] : toThread' = Send(toThread, t, <<[is |-> "response", of |-> r]>>)
    BY <1>4 DEF Respond
  <2>3. t \in Threads /\ <<[is |-> "response", of |-> r]>> \in Seq(Orders)
    BY <2>1 DEF Orders
  <2>4. toThread' \in [Threads -> Seq(Orders)]
    BY <2>2, <2>3, SendIs
  <2> QED
    BY <1>4, <2>4 DEF Respond, job, server, inside, counts
<1>5. ASSUME NEW r \in shipped, LoseRequest(r)
      PROVE  TypeCorrect'
  BY <1>5 DEF LoseRequest, job, server, links, inside, counts
<1>6. ASSUME NEW t \in Threads, Take(t)
      PROVE  TypeCorrect'
  <2>1. PICK msg \in Orders : msg = Head(toThread[t])
    BY <1>6, HeadTailProperties DEF Take
  <2>2. turn' = [turn EXCEPT ![t] = Brought(msg, waiting[t], total)]
    BY <1>6, <2>1, Zenon DEF Take, Brought
  <2>3. turn' \in [Threads -> Seq(Calls)]
    BY <2>2, BroughtType
  <2>4. Tail(toThread[t]) \in Seq(Orders)
    BY <1>6, HeadTailProperties DEF Take
  <2>5. toThread' \in [Threads -> Seq(Orders)]
    BY <1>6, <2>4 DEF Take
  <2> QED
    BY <1>6, <2>3, <2>5 DEF Take, job, server, counts
<1>7. ASSUME NEW t \in Threads, Refuse(t)
      PROVE  TypeCorrect'
  <2>1. PICK msg \in Orders : msg = Head(toThread[t])
    BY <1>7, HeadTailProperties DEF Refuse
  <2>2. msg.of \in Jobs
    BY <1>7, <2>1, KeysAre DEF Refuse
  <2>3. <<[is |-> "result", of |-> msg.of, body |-> Error]>> \in Seq(Reports)
    BY <2>2 DEF Reports, Bodies, Error
  <2>4. toServer' \in [Threads -> Seq(Reports)]
    BY <1>7, <2>1, <2>3, SendIs DEF Refuse
  <2>5. Tail(toThread[t]) \in Seq(Orders)
    BY <1>7, HeadTailProperties DEF Refuse
  <2>6. toThread' \in [Threads -> Seq(Orders)]
    BY <1>7, <2>5 DEF Refuse
  <2> QED
    BY <1>7, <2>4, <2>6 DEF Refuse, job, server, inside, counts
<1>8. ASSUME NEW t \in Threads, NEW n \in {1, 2}, Done(t, n)
      PROVE  TypeCorrect'
  <2>1. PICK call \in Calls : call = Head(turn[t])
    BY <1>8, HeadTailProperties DEF Done
  <2>2. call[1] \in Jobs /\ call[2] \in Nat
    BY KeysAre
  <2>3. PICK j \in Jobs, all \in SUBSET Nat : j = call[1] /\ all = results[j] \cup {call[2]}
    BY <2>2
  <2>4. PICK enough \in SUBSET (1..n) : enough = {k \in 1..n : Enough(j, completed[j] + k)}
    OBVIOUS
  <2>5. /\ results' = [results EXCEPT ![j] = all]
        /\ completed' = [completed EXCEPT ![j] = @ + n]
        /\ toServer' = Send(toServer, t, [k \in 1..Cardinality(enough) |->
                                             [is |-> "result", of |-> j, body |-> all]])
        /\ careless' = IF n > 1 THEN careless \cup {j} ELSE careless
    BY <1>8, <2>1, <2>3, <2>4 DEF Done
  <2>6. [is |-> "result", of |-> j, body |-> all] \in Reports
    BY DEF Reports, Bodies
  <2>7. [k \in 1..Cardinality(enough) |-> [is |-> "result", of |-> j, body |-> all]] \in Seq(Reports)
    BY <2>6, Messages
  <2>8. toServer' \in [Threads -> Seq(Reports)]
    BY <2>5, <2>7, SendIs
  <2>9. Tail(turn[t]) \in Seq(Calls)
    BY <1>8, HeadTailProperties DEF Done
  <2>10. turn' \in [Threads -> Seq(Calls)]
    BY <1>8, <2>9 DEF Done
  <2>11. completed' \in [Jobs -> Nat] /\ results' \in [Jobs -> SUBSET Nat] /\ careless' \subseteq Jobs
    BY <2>5
  <2> QED
    BY <1>8, <2>8, <2>10, <2>11 DEF Done, job, server
<1>9. ASSUME NEW t \in Threads, Ship(t)
      PROVE  TypeCorrect'
  <2>1. PICK call \in Calls : call = Head(turn[t])
    BY <1>9, HeadTailProperties DEF Ship
  <2>2. call[1] \in Jobs /\ call[2] \in Nat
    BY KeysAre
  <2>3. <<call[1], call[2], requests[call[1]] + 1>> \in Calls
    BY <2>2 DEF Calls
  <2>4. PICK r \in Calls : r = <<call[1], call[2], requests[call[1]] + 1>>
    BY <2>3
  <2>5. toServer' = Send(toServer, t, <<[is |-> "request", of |-> r]>>)
    BY <1>9, <2>1, <2>4 DEF Ship
  <2>6. <<[is |-> "request", of |-> r]>> \in Seq(Reports)
    BY DEF Reports
  <2>7. toServer' \in [Threads -> Seq(Reports)]
    BY <2>5, <2>6, SendIs
  <2>8. Tail(turn[t]) \in Seq(Calls)
    BY <1>9, HeadTailProperties DEF Ship
  <2>9. turn' \in [Threads -> Seq(Calls)]
    BY <1>9, <2>8 DEF Ship
  <2>10. requests' \in [Jobs -> Nat]
    BY <1>9, <2>1, <2>2 DEF Ship
  <2> QED
    BY <1>9, <2>7, <2>9, <2>10 DEF Ship, job, server
<1>10. ASSUME NEW t \in Threads, Throw(t)
       PROVE  TypeCorrect'
  BY <1>10 DEF Throw, job, server, links, counts
<1>11. ASSUME NEW t \in Threads, Idle(t)
       PROVE  TypeCorrect'
  <2>1. Tail(turn[t]) \in Seq(Calls)
    BY <1>11, HeadTailProperties DEF Idle
  <2>2. turn' \in [Threads -> Seq(Calls)]
    BY <1>11, <2>1 DEF Idle
  <2> QED
    BY <1>11, <2>2 DEF Idle, job, server, links, counts
<1>12. CASE UNCHANGED vars
  BY <1>12 DEF vars, job, server, links, inside, counts
<1> QED
  BY <1>1, <1>2, <1>3, <1>4, <1>5, <1>6, <1>7, <1>8, <1>9, <1>10, <1>11, <1>12
     DEF Next, Serves, Works

-----------------------------------------------------------------------------
(* No container is in two places.                                            *)

\* A new job.
LEMMA KeysRun ==
    ASSUME TypeCorrect, KeysInv, NEW j \in Jobs, Run(j)
    PROVE  KeysInv'
<1>1. PICK t \in Threads, I \in {toThread'} : /\ thread' = [thread EXCEPT ![j] = {t}]
                                              /\ I = toThread'
                                              /\ I = Send(toThread, t, <<[is |-> "job", of |-> j]>>)
  BY DEF Run
<1>2. PICK m, K : m = [is |-> "job", of |-> j] /\ K = {j} \X (1..total[j])
  OBVIOUS
<1>3. m \in Orders /\ InKeys(total)[m] = K
  BY <1>2, JobIs
<1>4. PICK H, G : /\ H = Held(toThread, toServer, turn, shipped, results, total)
                  /\ G = Held(I, toServer, turn, shipped, results, total)
  OBVIOUS
<1>5. IsHeld(H, toThread, toServer, turn, shipped, results, total)
  BY <1>4, HeldIs
<1>6. IsHeld(G, I, toServer, turn, shipped, results, total)
  BY <1>4, HeldIs
<1>7. /\ toThread \in [Threads -> Seq(Orders)] /\ <<m>> \in Seq(Orders)
      /\ thread[j] = {} /\ total' = total /\ toServer' = toServer /\ turn' = turn
      /\ shipped' = shipped /\ results' = results
  BY <1>3 DEF TypeCorrect, Run, job, inside, counts
<1>8. I = Send(toThread, t, <<m>>)
  BY <1>1, <1>2
<1>9. I[t] = toThread[t] \o <<m>> /\ \A u \in Threads : u # t => I[u] = toThread[u]
  BY <1>3, <1>7, <1>8, SendOne
<1>10. OnePlace(H) /\ Given(H, total, thread) /\ LinesApart(toThread, toServer, turn, shipped, total)
  BY <1>4 DEF KeysInv
<1>11. \A k \in K : k[1] = j /\ k[2] \in 1..total[j]
  BY <1>2
<1>12. \A p \in Places : K \cap H[p] = {}
  BY <1>7, <1>10, <1>11 DEF Given
<1>13. PICK b : b = <<"in", t>>
  OBVIOUS
<1>14. b \in Places /\ H[b] = Cover(InKeys(total), toThread[t])
  BY <1>5, <1>6, <1>13 DEF IsHeld
<1>15. G[b] = Cover(InKeys(total), I[t])
  BY <1>5, <1>6, <1>13 DEF IsHeld
<1>16. Apart(InKeys(total), toThread[t]) /\ Cover(InKeys(total), toThread[t]) \cap K = {}
  BY <1>10, <1>12, <1>14 DEF LinesApart
<1>17. toThread[t] \in Seq(Orders)
  BY <1>7
<1>18. /\ Apart(InKeys(total), I[t])
       /\ Cover(InKeys(total), I[t]) \subseteq Cover(InKeys(total), toThread[t]) \cup K
  BY <1>3, <1>9, <1>16, <1>17, OneMore
<1>19. \A p \in Places \ {b} : G[p] = H[p]
  <2>1. Outside({b}, toThread, toServer, turn, shipped, results, I, toServer, turn, shipped, results)
    BY <1>9, <1>13 DEF Outside
  <2> QED
    BY <1>4, <2>1, Elsewhere
<1>20. Come(H, G, b, K)
  BY <1>12, <1>14, <1>15, <1>18, <1>19 DEF Come
<1>21. thread'[j] # {} /\ \A i \in Jobs : thread[i] # {} => thread'[i] # {}
  BY <1>1 DEF TypeCorrect
<1>22. \A k \in K : k[1] \in Jobs /\ k[2] \in 1..total[k[1]] /\ thread'[k[1]] # {}
  BY <1>11, <1>21
<1>23. Given(H, total, thread')
  BY <1>10, <1>21 DEF Given
<1>24. OnePlace(G) /\ Given(G, total, thread')
  BY <1>10, <1>20, <1>22, <1>23, Came
<1>25. LinesApart(I, toServer, turn, shipped, total)
  BY <1>9, <1>10, <1>18 DEF LinesApart
<1> QED
  BY <1>1, <1>4, <1>7, <1>24, <1>25 DEF KeysInv

\* What a thread sent is delivered: a result brings no container back, a
\* request takes its own to the supply chain.
LEMMA KeysRead ==
    ASSUME TypeCorrect, KeysInv, NEW t \in Threads, Result(t) \/ Request(t)
    PROVE  KeysInv'
<1>1. PICK m \in Reports, L \in Seq(Reports) : m = Head(toServer[t]) /\ L = Tail(toServer[t]) /\ toServer[t] # <<>>
  BY HeadTailProperties DEF TypeCorrect, Result, Request
<1>2. PICK O, Z : O = toServer' /\ Z = shipped'
  OBVIOUS
<1>3. /\ toServer[t] \in Seq(Reports) /\ O[t] = L
      /\ \A u \in Threads : u # t => O[u] = toServer[u]
      /\ total' = total /\ toThread' = toThread /\ turn' = turn
      /\ results' = results /\ thread' = thread
  BY <1>1, <1>2 DEF TypeCorrect, Result, Request, job, server, inside, counts
<1>4. PICK H, G, K : /\ H = Held(toThread, toServer, turn, shipped, results, total)
                     /\ G = Held(toThread, O, turn, Z, results, total)
                     /\ K = OutKeys[m]
  OBVIOUS
<1>5. IsHeld(H, toThread, toServer, turn, shipped, results, total)
  BY <1>4, HeldIs
<1>6. IsHeld(G, toThread, O, turn, Z, results, total)
  BY <1>4, HeldIs
<1>7. OnePlace(H) /\ Given(H, total, thread) /\ LinesApart(toThread, toServer, turn, shipped, total)
  BY <1>4 DEF KeysInv
<1>8. Apart(OutKeys, toServer[t])
  BY <1>7 DEF LinesApart
<1>9. /\ Apart(OutKeys, L)
      /\ Cover(OutKeys, L) \subseteq Cover(OutKeys, toServer[t]) \ K
      /\ K \subseteq Cover(OutKeys, toServer[t])
  BY <1>1, <1>3, <1>4, <1>8, TailApart
<1>10. PICK a, b : a = <<"out", t>> /\ b = <<"shipped", "all">>
  OBVIOUS
<1>11. /\ a \in Places /\ b \in Places /\ a # b
      /\ H[a] = Cover(OutKeys, toServer[t]) /\ H[b] = {Key(r) : r \in shipped}
  BY <1>5, <1>6, <1>10 DEF IsHeld
<1>12. G[a] = Cover(OutKeys, O[t]) /\ G[b] = {Key(r) : r \in Z}
  BY <1>5, <1>6, <1>10 DEF IsHeld
<1>13. G[b] \subseteq H[b] \cup K /\ \A r, s \in Z : Key(r) = Key(s) => r = s
  <2>1. CASE Result(t)
    <3>1. Z = shipped
      BY <1>2, <2>1 DEF Result
    <3> QED
      BY <1>7, <1>11, <1>12, <3>1 DEF LinesApart
  <2>2. CASE Request(t)
    <3>1. Z = shipped \cup {m.of} /\ m.is = "request"
      BY <1>1, <1>2, <2>2 DEF Request
    <3>2. K = {Key(m.of)}
      BY <1>4, <3>1, KeysAre
    <3>3. H[b] \cap K = {}
      BY <1>7, <1>9, <1>11 DEF OnePlace
    <3>4. \A r \in shipped : Key(r) # Key(m.of)
      BY <1>11, <3>2, <3>3
    <3> QED
      BY <1>7, <1>11, <1>12, <3>1, <3>2, <3>4 DEF LinesApart
  <2> QED
    BY <2>1, <2>2
<1>14. \A p \in Places \ {a, b} : G[p] = H[p]
  <2>1. Outside({a, b}, toThread, toServer, turn, shipped, results, toThread, O, turn, Z, results)
    BY <1>3, <1>10 DEF Outside
  <2> QED
    BY <1>4, <2>1, Elsewhere
<1>15. Move(H, G, a, b, K)
  BY <1>3, <1>9, <1>11, <1>12, <1>13, <1>14 DEF Move
<1>16. OnePlace(G) /\ Given(G, total, thread)
  BY <1>7, <1>15, Moved
<1>17. LinesApart(toThread, O, turn, Z, total)
  BY <1>3, <1>7, <1>9, <1>13 DEF LinesApart
<1> QED
  BY <1>2, <1>3, <1>4, <1>16, <1>17 DEF KeysInv

\* A request is answered.
LEMMA KeysRespond ==
    ASSUME TypeCorrect, KeysInv, NEW r \in shipped, Respond(r)
    PROVE  KeysInv'
<1>1. r \in Calls /\ r[1] \in Jobs
  BY KeysAre DEF TypeCorrect
<1>2. PICK t \in Threads, I \in {toThread'} : /\ I = toThread'
                                              /\ I = Send(toThread, t, <<[is |-> "response", of |-> r]>>)
  BY <1>1 DEF Respond, TypeCorrect
<1>3. PICK m, K : m = [is |-> "response", of |-> r] /\ K = {Key(r)}
  OBVIOUS
<1>4. m \in Orders /\ InKeys(total)[m] = K
  BY <1>1, <1>3, ResponseIs
<1>5. PICK H, G, Z : /\ H = Held(toThread, toServer, turn, shipped, results, total)
                     /\ G = Held(I, toServer, turn, Z, results, total)
                     /\ Z = shipped \ {r}
  OBVIOUS
<1>6. IsHeld(H, toThread, toServer, turn, shipped, results, total)
  BY <1>5, HeldIs
<1>7. IsHeld(G, I, toServer, turn, Z, results, total)
  BY <1>5, HeldIs
<1>8. /\ toThread \in [Threads -> Seq(Orders)] /\ <<m>> \in Seq(Orders)
      /\ total' = total /\ toServer' = toServer /\ turn' = turn
      /\ shipped' = Z /\ results' = results /\ thread' = thread
  BY <1>4, <1>5 DEF TypeCorrect, Respond, job, server, inside, counts
<1>9. I = Send(toThread, t, <<m>>)
  BY <1>2, <1>3
<1>10. I[t] = toThread[t] \o <<m>> /\ \A u \in Threads : u # t => I[u] = toThread[u]
  BY <1>4, <1>8, <1>9, SendOne
<1>11. OnePlace(H) /\ Given(H, total, thread) /\ LinesApart(toThread, toServer, turn, shipped, total)
  BY <1>5 DEF KeysInv
<1>12. PICK a, b : a = <<"shipped", "all">> /\ b = <<"in", t>>
  OBVIOUS
<1>13. /\ a \in Places /\ b \in Places /\ a # b
       /\ H[b] = Cover(InKeys(total), toThread[t]) /\ H[a] = {Key(s) : s \in shipped}
  BY <1>6, <1>7, <1>12 DEF IsHeld
<1>14. G[b] = Cover(InKeys(total), I[t]) /\ G[a] = {Key(s) : s \in Z}
  BY <1>6, <1>7, <1>12 DEF IsHeld
<1>15. K \subseteq H[a] /\ G[a] \subseteq H[a] \ K
  <2>1. \A s \in Z : s \in shipped /\ Key(s) # Key(r)
    BY <1>5, <1>11 DEF LinesApart
  <2> QED
    BY <1>3, <1>13, <1>14, <2>1
<1>16. Apart(InKeys(total), toThread[t]) /\ Cover(InKeys(total), toThread[t]) \cap K = {}
  BY <1>11, <1>13, <1>15 DEF LinesApart, OnePlace
<1>17. toThread[t] \in Seq(Orders)
  BY <1>8
<1>18. /\ Apart(InKeys(total), I[t])
       /\ Cover(InKeys(total), I[t]) \subseteq Cover(InKeys(total), toThread[t]) \cup K
  BY <1>4, <1>10, <1>16, <1>17, OneMore
<1>19. \A p \in Places \ {a, b} : G[p] = H[p]
  <2>1. Outside({a, b}, toThread, toServer, turn, shipped, results, I, toServer, turn, Z, results)
    BY <1>10, <1>12 DEF Outside
  <2> QED
    BY <1>5, <2>1, Elsewhere
<1>20. Move(H, G, a, b, K)
  BY <1>13, <1>14, <1>15, <1>18, <1>19 DEF Move
<1>21. OnePlace(G) /\ Given(G, total, thread)
  BY <1>11, <1>20, Moved
<1>22. LinesApart(I, toServer, turn, Z, total)
  BY <1>5, <1>10, <1>11, <1>18 DEF LinesApart
<1> QED
  BY <1>2, <1>5, <1>8, <1>21, <1>22 DEF KeysInv

\* One is lost.
LEMMA KeysLose ==
    ASSUME TypeCorrect, KeysInv, NEW r \in shipped, LoseRequest(r)
    PROVE  KeysInv'
<1>1. PICK H, G, Z : /\ H = Held(toThread, toServer, turn, shipped, results, total)
                     /\ G = Held(toThread, toServer, turn, Z, results, total)
                     /\ Z = shipped \ {r}
  OBVIOUS
<1>2. IsHeld(H, toThread, toServer, turn, shipped, results, total)
  BY <1>1, HeldIs
<1>3. IsHeld(G, toThread, toServer, turn, Z, results, total)
  BY <1>1, HeldIs
<1>4. /\ total' = total /\ toThread' = toThread /\ toServer' = toServer /\ turn' = turn
      /\ shipped' = Z /\ results' = results /\ thread' = thread
  BY <1>1 DEF LoseRequest, job, server, links, inside, counts
<1>5. OnePlace(H) /\ Given(H, total, thread) /\ LinesApart(toThread, toServer, turn, shipped, total)
  BY <1>1 DEF KeysInv
<1>6. PICK a : a = <<"shipped", "all">>
  OBVIOUS
<1>7. H[a] = {Key(s) : s \in shipped}
  BY <1>2, <1>3, <1>6 DEF IsHeld
<1>8. G[a] = {Key(s) : s \in Z}
  BY <1>2, <1>3, <1>6 DEF IsHeld
<1>9. \A p \in Places \ {a} : G[p] = H[p]
  <2>1. Outside({a}, toThread, toServer, turn, shipped, results, toThread, toServer, turn, Z, results)
    BY <1>6 DEF Outside
  <2> QED
    BY <1>1, <2>1, Elsewhere
<1>10. \A p \in Places : G[p] \subseteq H[p]
  BY <1>1, <1>7, <1>8, <1>9
<1>11. OnePlace(G) /\ Given(G, total, thread)
  BY <1>5, <1>10, Gone
<1>12. LinesApart(toThread, toServer, turn, Z, total)
  BY <1>1, <1>5 DEF LinesApart
<1> QED
  BY <1>1, <1>4, <1>11, <1>12 DEF KeysInv

\* The calls that a message brings are about its containers.
LEMMA BroughtKeys ==
    ASSUME NEW msg \in Orders, NEW W, NEW T \in [Jobs -> Nat], NEW Q, Q = Brought(msg, W, T)
    PROVE  Apart(CallKeys, Q) /\ Cover(CallKeys, Q) \subseteq InKeys(T)[msg]
<1>1. CASE msg.is = "job" /\ msg.of \in Jobs /\ InKeys(T)[msg] = {msg.of} \X (1..T[msg.of])
  <2>1. Q = [k \in 1..T[msg.of] |-> <<msg.of, k, 0>>]
    BY <1>1 DEF Brought
  <2>2. \A k \in 1..T[msg.of] : <<msg.of, k, 0>> \in Calls
    BY <1>1 DEF Calls
  <2>3. \A k \in 1..T[msg.of] : CallKeys[<<msg.of, k, 0>>] = {<<msg.of, k>>}
    BY <2>2 DEF CallKeys, Key
  <2>4. DOMAIN Q = 1..T[msg.of] /\ \A k \in DOMAIN Q : CallKeys[Q[k]] = {<<msg.of, k>>}
    BY <2>1, <2>3
  <2>5. Apart(CallKeys, Q)
    BY <2>4 DEF Apart
  <2>6. Cover(CallKeys, Q) \subseteq InKeys(T)[msg]
    BY <1>1, <2>4 DEF Cover
  <2> QED
    BY <2>5, <2>6
<1>2. CASE msg.is = "response" /\ msg.of \in Calls /\ InKeys(T)[msg] = {Key(msg.of)}
  <2>1. CASE Q = <<>>
    BY <2>1 DEF Apart, Cover
  <2>2. CASE Q = <<msg.of>>
    <3>1. DOMAIN Q = {1} /\ Q[1] = msg.of
      BY <2>2
    <3>2. CallKeys[Q[1]] = {Key(msg.of)}
      BY <1>2, <3>1, KeysAre
    <3> QED
      BY <1>2, <3>1, <3>2 DEF Apart, Cover
  <2>3. Q = <<>> \/ Q = <<msg.of>>
    BY <1>2 DEF Brought
  <2> QED
    BY <2>1, <2>2, <2>3
<1> QED
  BY <1>1, <1>2, KeysAre

\* A message begins a turn.
LEMMA KeysTake ==
    ASSUME TypeCorrect, KeysInv, NEW t \in Threads, Take(t)
    PROVE  KeysInv'
<1>1. PICK m \in Orders, L \in Seq(Orders) : m = Head(toThread[t]) /\ L = Tail(toThread[t]) /\ toThread[t] # <<>>
  BY HeadTailProperties DEF TypeCorrect, Take
<1>2. PICK I, U, Q : I = toThread' /\ U = turn' /\ Q = Brought(m, waiting[t], total)
  OBVIOUS
<1>3. turn' = [turn EXCEPT ![t] = Q]
  BY <1>1, <1>2, Zenon DEF Take, Brought
<1>4. /\ toThread[t] \in Seq(Orders) /\ I[t] = L /\ U[t] = Q
      /\ \A u \in Threads : u # t => I[u] = toThread[u] /\ U[u] = turn[u]
      /\ total' = total /\ toServer' = toServer /\ shipped' = shipped
      /\ results' = results /\ thread' = thread
  BY <1>1, <1>2, <1>3 DEF TypeCorrect, Take, job, server, counts
<1>5. PICK H, G, K : /\ H = Held(toThread, toServer, turn, shipped, results, total)
                     /\ G = Held(I, toServer, U, shipped, results, total)
                     /\ K = InKeys(total)[m]
  OBVIOUS
<1>6. IsHeld(H, toThread, toServer, turn, shipped, results, total)
  BY <1>5, HeldIs
<1>7. IsHeld(G, I, toServer, U, shipped, results, total)
  BY <1>5, HeldIs
<1>8. OnePlace(H) /\ Given(H, total, thread) /\ LinesApart(toThread, toServer, turn, shipped, total)
  BY <1>5 DEF KeysInv
<1>9. Apart(InKeys(total), toThread[t])
  BY <1>8 DEF LinesApart
<1>10. /\ Apart(InKeys(total), L)
       /\ Cover(InKeys(total), L) \subseteq Cover(InKeys(total), toThread[t]) \ K
       /\ K \subseteq Cover(InKeys(total), toThread[t])
  BY <1>1, <1>4, <1>5, <1>9, TailApart
<1>11. total \in [Jobs -> Nat]
  BY DEF TypeCorrect
<1>12. Apart(CallKeys, Q) /\ Cover(CallKeys, Q) \subseteq K
  BY <1>2, <1>5, <1>11, BroughtKeys
<1>13. PICK a, b : a = <<"in", t>> /\ b = <<"turn", t>>
  OBVIOUS
<1>14. /\ a \in Places /\ b \in Places /\ a # b
       /\ H[a] = Cover(InKeys(total), toThread[t]) /\ G[a] = Cover(InKeys(total), I[t])
       /\ G[b] = Cover(CallKeys, U[t])
  BY <1>6, <1>7, <1>13 DEF IsHeld
<1>15. \A p \in Places \ {a, b} : G[p] = H[p]
  <2>1. Outside({a, b}, toThread, toServer, turn, shipped, results, I, toServer, U, shipped, results)
    BY <1>4, <1>13 DEF Outside
  <2> QED
    BY <1>5, <2>1, Elsewhere
<1>16. Move(H, G, a, b, K)
  BY <1>4, <1>10, <1>12, <1>14, <1>15 DEF Move
<1>17. OnePlace(G) /\ Given(G, total, thread)
  BY <1>8, <1>16, Moved
<1>18. LinesApart(I, toServer, U, shipped, total)
  BY <1>4, <1>8, <1>10, <1>12 DEF LinesApart
<1> QED
  BY <1>2, <1>4, <1>5, <1>17, <1>18 DEF KeysInv

\* Code that does not compile is not called for any.
LEMMA KeysRefuse ==
    ASSUME TypeCorrect, KeysInv, NEW t \in Threads, Refuse(t)
    PROVE  KeysInv'
<1>1. PICK x \in Orders, L \in Seq(Orders) : x = Head(toThread[t]) /\ L = Tail(toThread[t]) /\ toThread[t] # <<>>
  BY HeadTailProperties DEF TypeCorrect, Refuse
<1>2. x.of \in Jobs
  BY <1>1, KeysAre DEF Refuse
<1>3. PICK m : m = [is |-> "result", of |-> x.of, body |-> Error]
  OBVIOUS
<1>4. m \in Reports /\ OutKeys[m] = {}
  <2>1. m \in Reports /\ m.is = "result"
    BY <1>2, <1>3 DEF Reports, Bodies, Error
  <2> QED
    BY <2>1, KeysAre
<1>5. PICK I, O : I = toThread' /\ O = toServer'
  OBVIOUS
<1>6. /\ toThread[t] \in Seq(Orders) /\ I[t] = L
      /\ \A u \in Threads : u # t => I[u] = toThread[u]
      /\ total' = total /\ turn' = turn /\ shipped' = shipped
      /\ results' = results /\ thread' = thread
      /\ toServer \in [Threads -> Seq(Reports)]
  BY <1>1, <1>5 DEF TypeCorrect, Refuse, job, server, inside, counts
<1>7. O = Send(toServer, t, <<m>>)
  BY <1>1, <1>3, <1>5 DEF Refuse
<1>8. O[t] = toServer[t] \o <<m>> /\ \A u \in Threads : u # t => O[u] = toServer[u]
  BY <1>4, <1>6, <1>7, SendOne
<1>9. PICK H, G : /\ H = Held(toThread, toServer, turn, shipped, results, total)
                  /\ G = Held(I, O, turn, shipped, results, total)
  OBVIOUS
<1>10. IsHeld(H, toThread, toServer, turn, shipped, results, total)
  BY <1>9, HeldIs
<1>11. IsHeld(G, I, O, turn, shipped, results, total)
  BY <1>9, HeldIs
<1>12. OnePlace(H) /\ Given(H, total, thread) /\ LinesApart(toThread, toServer, turn, shipped, total)
  BY <1>9 DEF KeysInv
<1>13. Apart(InKeys(total), toThread[t]) /\ Apart(OutKeys, toServer[t])
  BY <1>12 DEF LinesApart
<1>14. /\ Apart(InKeys(total), L)
       /\ Cover(InKeys(total), L) \subseteq Cover(InKeys(total), toThread[t]) \ InKeys(total)[x]
  BY <1>1, <1>6, <1>13, TailApart
<1>15. toServer[t] \in Seq(Reports) /\ Cover(OutKeys, toServer[t]) \cap {} = {}
  BY <1>6
<1>16. Apart(OutKeys, O[t]) /\ Cover(OutKeys, O[t]) \subseteq Cover(OutKeys, toServer[t]) \cup {}
  BY <1>4, <1>8, <1>13, <1>15, OneMore
<1>17. PICK a, b : a = <<"in", t>> /\ b = <<"out", t>>
  OBVIOUS
<1>18. /\ H[a] = Cover(InKeys(total), toThread[t]) /\ G[a] = Cover(InKeys(total), I[t])
       /\ H[b] = Cover(OutKeys, toServer[t]) /\ G[b] = Cover(OutKeys, O[t])
  BY <1>10, <1>11, <1>17 DEF IsHeld
<1>19. \A p \in Places \ {a, b} : G[p] = H[p]
  <2>1. Outside({a, b}, toThread, toServer, turn, shipped, results, I, O, turn, shipped, results)
    BY <1>6, <1>8, <1>17 DEF Outside
  <2> QED
    BY <1>9, <2>1, Elsewhere
<1>20. \A p \in Places : G[p] \subseteq H[p]
  BY <1>6, <1>14, <1>16, <1>18, <1>19
<1>21. OnePlace(G) /\ Given(G, total, thread)
  BY <1>12, <1>20, Gone
<1>22. LinesApart(I, O, turn, shipped, total)
  BY <1>6, <1>8, <1>12, <1>14, <1>16 DEF LinesApart
<1> QED
  BY <1>5, <1>6, <1>9, <1>21, <1>22 DEF KeysInv

\* A turn loses calls.
LEMMA KeysDrop ==
    ASSUME TypeCorrect, KeysInv, NEW t \in Threads, Throw(t) \/ Idle(t)
    PROVE  KeysInv'
<1>1. PICK U, L : U = turn' /\ L = IF Throw(t) THEN <<>> ELSE Tail(turn[t])
  OBVIOUS
<1>2. /\ turn[t] \in Seq(Calls) /\ turn[t] # <<>>
      /\ total' = total /\ toThread' = toThread /\ toServer' = toServer /\ shipped' = shipped
      /\ results' = results /\ thread' = thread
  BY DEF TypeCorrect, Throw, Idle, job, server, links, counts
<1>3. U[t] = L /\ \A u \in Threads : u # t => U[u] = turn[u]
  BY <1>1 DEF TypeCorrect, Throw, Idle
<1>4. PICK H, G : /\ H = Held(toThread, toServer, turn, shipped, results, total)
                  /\ G = Held(toThread, toServer, U, shipped, results, total)
  OBVIOUS
<1>5. IsHeld(H, toThread, toServer, turn, shipped, results, total)
  BY <1>4, HeldIs
<1>6. IsHeld(G, toThread, toServer, U, shipped, results, total)
  BY <1>4, HeldIs
<1>7. OnePlace(H) /\ Given(H, total, thread) /\ LinesApart(toThread, toServer, turn, shipped, total)
  BY <1>4 DEF KeysInv
<1>8. Apart(CallKeys, turn[t])
  BY <1>7 DEF LinesApart
<1>9. Apart(CallKeys, L) /\ Cover(CallKeys, L) \subseteq Cover(CallKeys, turn[t])
  <2>1. CASE L = <<>>
    BY <2>1 DEF Apart, Cover
  <2>2. CASE L = Tail(turn[t])
    BY <1>2, <1>8, <2>2, TailApart
  <2> QED
    BY <1>1, <2>1, <2>2
<1>10. PICK a : a = <<"turn", t>>
  OBVIOUS
<1>11. H[a] = Cover(CallKeys, turn[t]) /\ G[a] = Cover(CallKeys, U[t])
  BY <1>5, <1>6, <1>10 DEF IsHeld
<1>12. \A p \in Places \ {a} : G[p] = H[p]
  <2>1. Outside({a}, toThread, toServer, turn, shipped, results, toThread, toServer, U, shipped, results)
    BY <1>3, <1>10 DEF Outside
  <2> QED
    BY <1>4, <2>1, Elsewhere
<1>13. \A p \in Places : G[p] \subseteq H[p]
  BY <1>3, <1>9, <1>11, <1>12
<1>14. OnePlace(G) /\ Given(G, total, thread)
  BY <1>7, <1>13, Gone
<1>15. LinesApart(toThread, toServer, U, shipped, total)
  BY <1>3, <1>7, <1>9 DEF LinesApart
<1> QED
  BY <1>1, <1>2, <1>4, <1>14, <1>15 DEF KeysInv

\* Code sends a request.
LEMMA KeysShip ==
    ASSUME TypeCorrect, KeysInv, NEW t \in Threads, Ship(t)
    PROVE  KeysInv'
<1>1. PICK c \in Calls, L \in Seq(Calls) : c = Head(turn[t]) /\ L = Tail(turn[t]) /\ turn[t] # <<>>
  BY HeadTailProperties DEF TypeCorrect, Ship
<1>2. PICK r, m : r = <<c[1], c[2], requests[c[1]] + 1>> /\ m = [is |-> "request", of |-> r]
  OBVIOUS
<1>3. r \in Calls /\ Key(r) = Key(c)
  BY <1>2, KeysAre DEF Calls, TypeCorrect, Key
<1>4. PICK K : K = {Key(c)}
  OBVIOUS
<1>5. m \in Reports /\ OutKeys[m] = K /\ CallKeys[c] = K
  <2>1. m \in Reports /\ OutKeys[m] = {Key(r)}
    BY <1>2, <1>3, RequestIs
  <2>2. CallKeys[c] = {Key(c)}
    BY KeysAre
  <2> QED
    BY <1>3, <1>4, <2>1, <2>2
<1>6. PICK U, O : U = turn' /\ O = toServer'
  OBVIOUS
<1>7. /\ turn[t] \in Seq(Calls) /\ U[t] = L
      /\ \A u \in Threads : u # t => U[u] = turn[u]
      /\ total' = total /\ toThread' = toThread /\ shipped' = shipped
      /\ results' = results /\ thread' = thread
      /\ toServer \in [Threads -> Seq(Reports)]
  BY <1>1, <1>6 DEF TypeCorrect, Ship, job, server
<1>8. O = Send(toServer, t, <<m>>)
  BY <1>1, <1>2, <1>6 DEF Ship
<1>9. O[t] = toServer[t] \o <<m>> /\ \A u \in Threads : u # t => O[u] = toServer[u]
  BY <1>5, <1>7, <1>8, SendOne
<1>10. PICK H, G : /\ H = Held(toThread, toServer, turn, shipped, results, total)
                   /\ G = Held(toThread, O, U, shipped, results, total)
  OBVIOUS
<1>11. IsHeld(H, toThread, toServer, turn, shipped, results, total)
  BY <1>10, HeldIs
<1>12. IsHeld(G, toThread, O, U, shipped, results, total)
  BY <1>10, HeldIs
<1>13. OnePlace(H) /\ Given(H, total, thread) /\ LinesApart(toThread, toServer, turn, shipped, total)
  BY <1>10 DEF KeysInv
<1>14. Apart(CallKeys, turn[t]) /\ Apart(OutKeys, toServer[t])
  BY <1>13 DEF LinesApart
<1>15. /\ Apart(CallKeys, L)
       /\ Cover(CallKeys, L) \subseteq Cover(CallKeys, turn[t]) \ CallKeys[c]
       /\ CallKeys[c] \subseteq Cover(CallKeys, turn[t])
  BY <1>1, <1>7, <1>14, TailApart
<1>16. PICK a, b : a = <<"turn", t>> /\ b = <<"out", t>>
  OBVIOUS
<1>17. /\ a \in Places /\ b \in Places /\ a # b
       /\ H[a] = Cover(CallKeys, turn[t]) /\ G[a] = Cover(CallKeys, U[t])
       /\ H[b] = Cover(OutKeys, toServer[t]) /\ G[b] = Cover(OutKeys, O[t])
  BY <1>11, <1>12, <1>16 DEF IsHeld
<1>18. toServer[t] \in Seq(Reports) /\ Cover(OutKeys, toServer[t]) \cap K = {}
  BY <1>5, <1>7, <1>13, <1>15, <1>17 DEF OnePlace
<1>19. Apart(OutKeys, O[t]) /\ Cover(OutKeys, O[t]) \subseteq Cover(OutKeys, toServer[t]) \cup K
  BY <1>5, <1>9, <1>14, <1>18, OneMore
<1>20. \A p \in Places \ {a, b} : G[p] = H[p]
  <2>1. Outside({a, b}, toThread, toServer, turn, shipped, results, toThread, O, U, shipped, results)
    BY <1>7, <1>9, <1>16 DEF Outside
  <2> QED
    BY <1>10, <2>1, Elsewhere
<1>21. Move(H, G, a, b, K)
  BY <1>5, <1>7, <1>15, <1>17, <1>19, <1>20 DEF Move
<1>22. OnePlace(G) /\ Given(G, total, thread)
  BY <1>13, <1>21, Moved
<1>23. LinesApart(toThread, O, U, shipped, total)
  BY <1>7, <1>9, <1>13, <1>15, <1>19 DEF LinesApart
<1> QED
  BY <1>6, <1>7, <1>10, <1>22, <1>23 DEF KeysInv

\* Code calls done() for a container.
LEMMA KeysDone ==
    ASSUME TypeCorrect, KeysInv, NEW t \in Threads, NEW n \in {1, 2}, Done(t, n)
    PROVE  KeysInv'
<1>1. PICK c \in Calls, L \in Seq(Calls) : c = Head(turn[t]) /\ L = Tail(turn[t]) /\ turn[t] # <<>>
  BY HeadTailProperties DEF TypeCorrect, Done
<1>2. c[1] \in Jobs /\ c[2] \in Nat
  BY KeysAre
<1>3. PICK j \in Jobs, all \in SUBSET Nat : j = c[1] /\ all = results[j] \cup {c[2]}
  BY <1>2 DEF TypeCorrect
<1>4. PICK E \in SUBSET (1..n) : E = {k \in 1..n : Enough(j, completed[j] + k)}
  OBVIOUS
<1>5. PICK m : m = [is |-> "result", of |-> j, body |-> all]
  OBVIOUS
<1>6. m \in Reports /\ OutKeys[m] = {}
  <2>1. m \in Reports /\ m.is = "result"
    BY <1>5 DEF Reports, Bodies
  <2> QED
    BY <2>1, KeysAre
<1>7. PICK D : D = [k \in 1..Cardinality(E) |-> m]
  OBVIOUS
<1>8. D \in Seq(Reports) /\ \A k \in DOMAIN D : D[k] = m
  BY <1>6, <1>7, Messages
<1>9. Apart(OutKeys, D) /\ Cover(OutKeys, D) = {}
  BY <1>6, <1>8 DEF Apart, Cover
<1>10. PICK U, O, R : U = turn' /\ O = toServer' /\ R = results'
  OBVIOUS
<1>11. /\ turn[t] \in Seq(Calls) /\ U[t] = L
       /\ \A u \in Threads : u # t => U[u] = turn[u]
       /\ total' = total /\ toThread' = toThread /\ shipped' = shipped
       /\ thread' = thread
       /\ toServer \in [Threads -> Seq(Reports)]
  BY <1>1, <1>10 DEF TypeCorrect, Done, job, server
<1>12. R[j] = all /\ \A i \in Jobs : i # j => R[i] = results[i]
  BY <1>1, <1>3, <1>10 DEF TypeCorrect, Done
<1>13. O = Send(toServer, t, D)
  BY <1>1, <1>3, <1>4, <1>5, <1>7, <1>10 DEF Done
<1>14. O[t] = toServer[t] \o D /\ \A u \in Threads : u # t => O[u] = toServer[u]
  BY <1>11, <1>13 DEF Send
<1>15. PICK H, G : /\ H = Held(toThread, toServer, turn, shipped, results, total)
                   /\ G = Held(toThread, O, U, shipped, R, total)
  OBVIOUS
<1>16. IsHeld(H, toThread, toServer, turn, shipped, results, total)
  BY <1>15, HeldIs
<1>17. IsHeld(G, toThread, O, U, shipped, R, total)
  BY <1>15, HeldIs
<1>18. OnePlace(H) /\ Given(H, total, thread) /\ LinesApart(toThread, toServer, turn, shipped, total)
  BY <1>15 DEF KeysInv
<1>19. Apart(CallKeys, turn[t]) /\ Apart(OutKeys, toServer[t])
  BY <1>18 DEF LinesApart
<1>20. /\ Apart(CallKeys, L)
       /\ Cover(CallKeys, L) \subseteq Cover(CallKeys, turn[t]) \ CallKeys[c]
       /\ CallKeys[c] \subseteq Cover(CallKeys, turn[t])
  BY <1>1, <1>11, <1>19, TailApart
<1>21. CallKeys[c] = {<<j, c[2]>>}
  BY <1>3, KeysAre DEF Key
<1>22. PICK a, b, o : a = <<"turn", t>> /\ b = <<"done", "all">> /\ o = <<"out", t>>
  OBVIOUS
<1>23. /\ a \in Places /\ b \in Places /\ a # b
       /\ H[a] = Cover(CallKeys, turn[t]) /\ G[a] = Cover(CallKeys, U[t])
       /\ H[b] = UNION {{i} \X results[i] : i \in Jobs} /\ G[b] = UNION {{i} \X R[i] : i \in Jobs}
       /\ H[o] = Cover(OutKeys, toServer[t]) /\ G[o] = Cover(OutKeys, O[t])
  BY <1>16, <1>17, <1>22 DEF IsHeld
<1>24. toServer[t] \in Seq(Reports) /\ Cover(OutKeys, toServer[t]) \cap Cover(OutKeys, D) = {}
  BY <1>9, <1>11
<1>25. /\ Apart(OutKeys, O[t])
       /\ Cover(OutKeys, O[t]) \subseteq Cover(OutKeys, toServer[t]) \cup Cover(OutKeys, D)
  BY <1>8, <1>9, <1>14, <1>19, <1>24, JoinApart
<1>26. G[b] \subseteq H[b] \cup CallKeys[c]
  <2>1. \A i \in Jobs : {i} \X R[i] \subseteq ({i} \X results[i]) \cup {<<j, c[2]>>}
    BY <1>3, <1>12
  <2> QED
    BY <1>21, <1>23, <2>1
<1>27. \A p \in Places \ {a, b, o} : G[p] = H[p]
  <2>1. Outside({a, b, o}, toThread, toServer, turn, shipped, results, toThread, O, U, shipped, R)
    BY <1>11, <1>14, <1>22 DEF Outside
  <2> QED
    BY <1>15, <2>1, Elsewhere
<1>28. \A p \in Places \ {a, b} : G[p] \subseteq H[p]
  BY <1>9, <1>23, <1>25, <1>27
<1>29. Move(H, G, a, b, CallKeys[c])
  BY <1>11, <1>20, <1>23, <1>26, <1>28 DEF Move
<1>30. OnePlace(G) /\ Given(G, total, thread)
  BY <1>18, <1>29, Moved
<1>31. LinesApart(toThread, O, U, shipped, total)
  BY <1>11, <1>14, <1>18, <1>20, <1>25 DEF LinesApart
<1> QED
  BY <1>10, <1>11, <1>15, <1>30, <1>31 DEF KeysInv

\* Whatever the step.
LEMMA KeysStep ==
    ASSUME TypeCorrect, KeysInv, [Next]_vars
    PROVE  KeysInv'
<1>1. CASE UNCHANGED vars
  BY <1>1 DEF vars, job, server, links, inside, counts, KeysInv
<1>2. CASE Next
  BY <1>2, KeysRun, KeysRead, KeysRespond, KeysLose, KeysTake, KeysRefuse, KeysDrop, KeysShip, KeysDone
     DEF Next, Serves, Works
<1> QED
  BY <1>1, <1>2

-----------------------------------------------------------------------------
(* Results are whole.                                                        *)

\* The messages after the first.
LEMMA FineTail ==
    ASSUME NEW S \in Seq(Reports), S # <<>>, NEW T, NEW C, Fine(S, T, C), NEW L, L = Tail(S),
           NEW m, m = Head(S)
    PROVE  Fine(L, T, C) /\ (m.is = "result" /\ m.of \notin C => Whole(m.body, T[m.of]))
<1>1. \A i \in DOMAIN L : L[i] = S[i + 1] /\ i + 1 \in DOMAIN S
  BY HeadTailProperties
<1>2. 1 \in DOMAIN S /\ m = S[1]
  OBVIOUS
<1>3. Fine(L, T, C)
  BY <1>1 DEF Fine
<1> QED
  BY <1>2, <1>3 DEF Fine

\* The messages of two sequences.
LEMMA FineJoin ==
    ASSUME NEW S \in Seq(Reports), NEW L \in Seq(Reports), NEW T, NEW C,
           Fine(S, T, C), Fine(L, T, C), NEW B, B = S \o L
    PROVE  Fine(B, T, C)
<1>1. PICK n \in Nat : n = Len(S)
  OBVIOUS
<1>2. B \in Seq(Reports) /\ Len(B) = n + Len(L) /\ Len(L) \in Nat
  BY <1>1, ConcatProperties
<1>3. \A j \in DOMAIN B : \/ j \in DOMAIN S /\ B[j] = S[j]
                          \/ j - n \in DOMAIN L /\ B[j] = L[j - n]
  <2> SUFFICES ASSUME NEW j \in DOMAIN B
               PROVE  \/ j \in DOMAIN S /\ B[j] = S[j]
                      \/ j - n \in DOMAIN L /\ B[j] = L[j - n]
    OBVIOUS
  <2>1. j \in 1..(n + Len(L)) /\ j \in Nat
    BY <1>2
  <2> QED
    BY <1>1, <1>2, <2>1, ConcatProperties
<1> QED
  BY <1>3 DEF Fine

\* More jobs excepted.
LEMMA FineMore ==
    ASSUME NEW S, NEW T, NEW C, NEW D, C \subseteq D, Fine(S, T, C)
    PROVE  Fine(S, T, D)
BY DEF Fine

\* One of them that is no result, or an error.
LEMMA FineOne ==
    ASSUME NEW m, NEW T, NEW C, m.is = "result" => m.body = Error
    PROVE  Fine(<<m>>, T, C)
BY DEF Fine, Whole

\* The containers of which a job has results are some of its own.
LEMMA ResultsWithin ==
    ASSUME TypeCorrect, KeysInv, NEW j \in Jobs
    PROVE  /\ results[j] \subseteq 1..total[j]
           /\ IsFiniteSet(results[j]) /\ Cardinality(results[j]) \in Nat
<1>1. PICK H : H = Held(toThread, toServer, turn, shipped, results, total)
  OBVIOUS
<1>2. IsHeld(H, toThread, toServer, turn, shipped, results, total)
  BY <1>1, HeldIs
<1>3. \A p \in Places : \A k \in H[p] : k[1] \in Jobs /\ k[2] \in 1..total[k[1]]
  BY <1>1 DEF KeysInv, Given
<1>4. <<"done", "all">> \in Places /\ H[<<"done", "all">>] = UNION {{i} \X results[i] : i \in Jobs}
  BY <1>2 DEF IsHeld
<1>5. \A k \in results[j] : <<j, k>> \in H[<<"done", "all">>]
  BY <1>4
<1>6. results[j] \subseteq 1..total[j]
  BY <1>3, <1>4, <1>5
<1>7. total[j] \in Int /\ 1 \in Int
  BY DEF TypeCorrect
<1>8. IsFiniteSet(1..total[j])
  BY <1>7, FS_Interval
<1>9. IsFiniteSet(results[j])
  BY <1>6, <1>8, FS_Subset
<1> QED
  BY <1>6, <1>9, FS_CardinalityType

\* A call of code is for a container that has no result yet.
LEMMA CallIsNew ==
    ASSUME TypeCorrect, KeysInv, NEW t \in Threads, turn[t] # <<>>, NEW c, c = Head(turn[t])
    PROVE  c \in Calls /\ c[1] \in Jobs /\ c[2] \in 1..total[c[1]] /\ c[2] \notin results[c[1]]
<1>1. turn[t] \in Seq(Calls)
  BY DEF TypeCorrect
<1>2. c \in Calls
  BY <1>1, HeadTailProperties
<1>3. CallKeys[c] = {Key(c)} /\ c[1] \in Jobs
  BY <1>2, KeysAre
<1>4. PICK H : H = Held(toThread, toServer, turn, shipped, results, total)
  OBVIOUS
<1>5. IsHeld(H, toThread, toServer, turn, shipped, results, total)
  BY <1>4, HeldIs
<1>6. PICK a, b : a = <<"turn", t>> /\ b = <<"done", "all">>
  OBVIOUS
<1>7. /\ a \in Places /\ b \in Places /\ a # b
      /\ H[a] = Cover(CallKeys, turn[t]) /\ H[b] = UNION {{i} \X results[i] : i \in Jobs}
  BY <1>5, <1>6 DEF IsHeld
<1>8. OnePlace(H) /\ Given(H, total, thread) /\ Apart(CallKeys, turn[t])
  BY <1>4 DEF KeysInv, LinesApart
<1>9. CallKeys[c] \subseteq Cover(CallKeys, turn[t])
  BY <1>1, <1>8, TailApart
<1>10. Key(c) \in H[a]
  BY <1>3, <1>7, <1>9
<1>11. Key(c) \notin H[b] /\ Key(c)[2] \in 1..total[Key(c)[1]]
  BY <1>7, <1>8, <1>10 DEF OnePlace, Given
<1>12. Key(c) = <<c[1], c[2]>>
  BY DEF Key
<1> QED
  BY <1>2, <1>3, <1>7, <1>11, <1>12

\* A result is delivered: to a caller that was never called.
LEMMA AnswersResult ==
    ASSUME TypeCorrect, AnswersInv, NEW t \in Threads, Result(t)
    PROVE  AnswersInv'
<1>1. toServer[t] \in Seq(Reports) /\ toServer[t] # <<>> /\ Fine(toServer[t], total, careless)
  BY DEF TypeCorrect, AnswersInv, Result
<1>2. PICK m \in Reports, L \in Seq(Reports) : m = Head(toServer[t]) /\ L = Tail(toServer[t])
  BY <1>1, HeadTailProperties
<1>3. Fine(L, total, careless) /\ (m.is = "result" /\ m.of \notin careless => Whole(m.body, total[m.of]))
  BY <1>1, <1>2, FineTail
<1>4. m.is = "result" /\ m.of \in Jobs
  BY <1>2, KeysAre DEF Result
<1>5. PICK i \in Jobs : i = m.of
  BY <1>4
<1>6. /\ answers' = IF i \in callbacks THEN [answers EXCEPT ![i] = Append(@, m.body)] ELSE answers
      /\ callbacks' = callbacks \ {i}
      /\ toServer' = [toServer EXCEPT ![t] = L]
      /\ thread' = thread /\ total' = total /\ careless' = careless
      /\ completed' = completed /\ results' = results
  BY <1>2, <1>5 DEF Result, Called, job, inside, counts
<1>7. \A u \in Threads : Fine(toServer'[u], total, careless)
  <2> SUFFICES ASSUME NEW u \in Threads
               PROVE  Fine(toServer'[u], total, careless)
    OBVIOUS
  <2>1. toServer'[u] = IF u = t THEN L ELSE toServer[u]
    BY <1>6 DEF TypeCorrect
  <2> QED
    BY <1>3, <2>1 DEF AnswersInv
<1>8. ASSUME NEW j \in Jobs
      PROVE  /\ j \in callbacks' \/ thread[j] = {} => answers'[j] = <<>>
             /\ j \in callbacks' => thread[j] # {}
             /\ Len(answers'[j]) <= 1
             /\ j \notin careless => \A k \in DOMAIN answers'[j] : Whole(answers'[j][k], total[j])
  <2>1. CASE j = i /\ i \in callbacks
    <3>1. answers[i] = <<>> /\ thread[i] # {}
      BY <2>1 DEF AnswersInv
    <3>2. answers'[i] = Append(<<>>, m.body)
      BY <1>6, <2>1, <3>1 DEF TypeCorrect
    <3>3. answers'[i] = <<m.body>>
      BY <3>2
    <3>4. Len(answers'[i]) = 1 /\ DOMAIN answers'[i] = {1} /\ answers'[i][1] = m.body
      BY <3>3
    <3>5. i \notin careless => Whole(m.body, total[i])
      BY <1>3, <1>4, <1>5
    <3> QED
      BY <1>6, <2>1, <3>1, <3>4, <3>5
  <2>2. CASE ~ (j = i /\ i \in callbacks)
    <3>1. answers'[j] = answers[j]
      BY <1>6, <2>2 DEF TypeCorrect
    <3> QED
      BY <1>6, <3>1 DEF AnswersInv
  <2> QED
    BY <2>1, <2>2
<1> QED
  BY <1>6, <1>7, <1>8 DEF AnswersInv

\* A thread sends messages; the results are whole.
LEMMA AnswersSent ==
    ASSUME TypeCorrect, AnswersInv, NEW t \in Threads, NEW D \in Seq(Reports), NEW C,
           careless \subseteq C, Fine(D, total, C),
           toServer' = Send(toServer, t, D), total' = total, careless' = C,
           \A j \in Jobs \ C : completed'[j] = Cardinality(results'[j]),
           UNCHANGED <<callbacks, thread, answers>>
    PROVE  AnswersInv'
<1>1. \A u \in Threads : Fine(toServer[u], total, C)
  BY FineMore DEF AnswersInv
<1>2. toServer[t] \in Seq(Reports)
  BY DEF TypeCorrect
<1>3. PICK B : B = toServer[t] \o D
  OBVIOUS
<1>4. Fine(B, total, C)
  BY <1>1, <1>2, <1>3, FineJoin
<1>5. \A u \in Threads : toServer'[u] = IF u = t THEN B ELSE toServer[u]
  BY <1>3 DEF Send, TypeCorrect
<1>6. \A u \in Threads : Fine(toServer'[u], total, C)
  BY <1>1, <1>4, <1>5
<1>7. \A j \in Jobs : j \notin C => j \notin careless
  OBVIOUS
<1> QED
  BY <1>6, <1>7 DEF AnswersInv

\* Code calls done(): as many times as containers have a result, if it calls it
\* once for each; and the last time all have.
LEMMA AnswersDone ==
    ASSUME TypeCorrect, KeysInv, AnswersInv, NEW t \in Threads, NEW n \in {1, 2}, Done(t, n)
    PROVE  AnswersInv'
<1>1. PICK c : c = Head(turn[t]) /\ turn[t] # <<>>
  BY DEF Done
<1>2. c \in Calls /\ c[1] \in Jobs /\ c[2] \in 1..total[c[1]] /\ c[2] \notin results[c[1]]
  BY <1>1, CallIsNew
<1>3. PICK j \in Jobs, x \in Nat : j = c[1] /\ x = c[2]
  BY <1>2
<1>4. PICK all : all = results[j] \cup {x}
  OBVIOUS
<1>5. PICK E \in SUBSET (1..n) : E = {k \in 1..n : Enough(j, completed[j] + k)}
  OBVIOUS
<1>6. PICK m, D : /\ m = [is |-> "result", of |-> j, body |-> all]
                  /\ D = [k \in 1..Cardinality(E) |-> m]
  OBVIOUS
<1>7. /\ results' = [results EXCEPT ![j] = all]
      /\ completed' = [completed EXCEPT ![j] = @ + n]
      /\ toServer' = Send(toServer, t, D)
      /\ careless' = IF n > 1 THEN careless \cup {j} ELSE careless
      /\ total' = total /\ UNCHANGED <<callbacks, thread, answers>>
  BY <1>1, <1>3, <1>4, <1>5, <1>6 DEF Done, job, server
<1>8. /\ results[j] \subseteq 1..total[j] /\ IsFiniteSet(results[j])
      /\ Cardinality(results[j]) \in Nat
  BY ResultsWithin
<1>9. all \subseteq 1..total[j] /\ all \in SUBSET Nat
  BY <1>2, <1>3, <1>4, <1>8
<1>10. Cardinality(all) = Cardinality(results[j]) + 1
  BY <1>2, <1>3, <1>4, <1>8, FS_AddElement
<1>11. m \in Reports
  BY <1>6, <1>9 DEF Reports, Bodies
<1>12. D \in Seq(Reports) /\ (E = {} => D = <<>>) /\ DOMAIN D = 1..Cardinality(E)
  <2>1. n \in Nat
    OBVIOUS
  <2>2. /\ [k \in 1..Cardinality(E) |-> m] \in Seq(Reports)
        /\ E = {} => [k \in 1..Cardinality(E) |-> m] = <<>>
        /\ DOMAIN [k \in 1..Cardinality(E) |-> m] = 1..Cardinality(E)
    BY <1>11, <2>1, Messages
  <2> QED
    BY <1>6, <2>2
<1>13. \A k \in DOMAIN D : D[k] = m
  BY <1>6
<1>14. completed[j] \in Nat /\ total[j] \in Nat
  BY DEF TypeCorrect
<1>15. careless \subseteq careless' /\ (j \notin careless' => n = 1 /\ j \notin careless)
  BY <1>7
<1>16. j \notin careless' => completed[j] + 1 = Cardinality(all)
  BY <1>10, <1>15 DEF AnswersInv
<1>17. \A i \in Jobs \ careless' : completed'[i] = Cardinality(results'[i])
  <2> SUFFICES ASSUME NEW i \in Jobs \ careless'
               PROVE  completed'[i] = Cardinality(results'[i])
    OBVIOUS
  <2>1. CASE i = j
    <3>1. completed'[j] = completed[j] + 1 /\ results'[j] = all
      BY <1>7, <1>15, <2>1 DEF TypeCorrect
    <3> QED
      BY <1>16, <2>1, <3>1
  <2>2. CASE i # j
    <3>1. completed'[i] = completed[i] /\ results'[i] = results[i] /\ i \notin careless
      BY <1>7, <1>15, <2>2 DEF TypeCorrect
    <3> QED
      BY <3>1 DEF AnswersInv
  <2> QED
    BY <2>1, <2>2
<1>18. ASSUME E # {}, j \notin careless'
       PROVE  Whole(all, total[j])
  <2>1. n = 1 /\ completed[j] + 1 >= total[j]
    BY <1>5, <1>14, <1>15, <1>18 DEF Enough
  <2>2. Cardinality(all) >= total[j]
    BY <1>16, <1>18, <2>1
  <2>3. PICK s \in Nat, I \in SUBSET Nat : s = total[j] /\ I = 1..s
    BY <1>14
  <2>4. IsFiniteSet(I) /\ Cardinality(I) = s
    BY <2>3, FS_Interval
  <2>5. Cardinality(all) <= Cardinality(I) /\ (Cardinality(I) = Cardinality(all) => I = all)
    BY <1>9, <2>3, <2>4, FS_Subset
  <2>6. Cardinality(all) \in Nat
    BY <1>8, <1>10
  <2>7. Cardinality(all) = Cardinality(I)
    BY <2>2, <2>3, <2>4, <2>5, <2>6
  <2>8. all = 1..total[j]
    BY <2>3, <2>5, <2>7
  <2> QED
    BY <2>8 DEF Whole
<1>19. Fine(D, total, careless')
  <2>1. CASE E = {}
    <3>1. DOMAIN D = {}
      BY <1>12, <2>1
    <3> QED
      BY <3>1 DEF Fine
  <2>2. CASE E # {}
    <3>1. m.of = j /\ m.body = all
      BY <1>6
    <3> QED
      BY <1>13, <1>18, <2>2, <3>1 DEF Fine
  <2> QED
    BY <2>1, <2>2
<1> QED
  BY <1>7, <1>12, <1>15, <1>17, <1>19, AnswersSent

\* Every step keeps results whole.
LEMMA AnswersStep ==
    ASSUME TypeCorrect, KeysInv, AnswersInv, [Next]_vars
    PROVE  AnswersInv'
<1>1. ASSUME NEW j \in Jobs, Run(j)
      PROVE  AnswersInv'
  <2>1. PICK t \in Threads : thread' = [thread EXCEPT ![j] = {t}]
    BY <1>1 DEF Run
  <2>2. /\ callbacks' = callbacks \cup {j} /\ thread[j] = {} /\ answers' = answers /\ total' = total
        /\ toServer' = toServer /\ careless' = careless /\ completed' = completed /\ results' = results
    BY <1>1 DEF Run, job, inside, counts
  <2>3. thread'[j] = {t} /\ \A i \in Jobs : i # j => thread'[i] = thread[i]
    BY <2>1 DEF TypeCorrect
  <2>4. answers[j] = <<>>
    BY <2>2 DEF AnswersInv
  <2>5. \A i \in Jobs : i \in callbacks' \/ thread'[i] = {} => answers[i] = <<>>
    BY <2>2, <2>3, <2>4 DEF AnswersInv
  <2>6. \A i \in Jobs : i \in callbacks' => thread'[i] # {}
    BY <2>2, <2>3 DEF AnswersInv
  <2> QED
    BY <2>2, <2>5, <2>6 DEF AnswersInv
<1>2. ASSUME NEW t \in Threads, Request(t)
      PROVE  AnswersInv'
  <2>1. toServer[t] \in Seq(Reports) /\ toServer[t] # <<>> /\ Fine(toServer[t], total, careless)
    BY <1>2 DEF TypeCorrect, AnswersInv, Request
  <2>2. PICK m, L : m = Head(toServer[t]) /\ L = Tail(toServer[t])
    OBVIOUS
  <2>3. Fine(L, total, careless)
    BY <2>1, <2>2, FineTail
  <2>4. \A u \in Threads : toServer'[u] = IF u = t THEN L ELSE toServer[u]
    BY <1>2, <2>2 DEF Request, TypeCorrect
  <2>5. \A u \in Threads : Fine(toServer'[u], total, careless)
    BY <2>3, <2>4 DEF AnswersInv
  <2>6. /\ callbacks' = callbacks /\ thread' = thread /\ answers' = answers /\ total' = total
        /\ careless' = careless /\ completed' = completed /\ results' = results
    BY <1>2 DEF Request, job, server, inside, counts
  <2> QED
    BY <2>5, <2>6 DEF AnswersInv
<1>3. ASSUME NEW t \in Threads, Refuse(t)
      PROVE  AnswersInv'
  <2>1. PICK x \in Orders : x = Head(toThread[t])
    BY <1>3, HeadTailProperties DEF Refuse, TypeCorrect
  <2>2. PICK m : m = [is |-> "result", of |-> x.of, body |-> Error]
    OBVIOUS
  <2>3. x.of \in Jobs
    BY <1>3, <2>1, KeysAre DEF Refuse
  <2>4. m \in Reports /\ m.body = Error
    BY <2>2, <2>3 DEF Reports, Bodies, Error
  <2>5. PICK D : D = <<m>>
    OBVIOUS
  <2>6. D \in Seq(Reports) /\ Fine(D, total, careless)
    BY <2>4, <2>5, FineOne
  <2>7. /\ toServer' = Send(toServer, t, D) /\ total' = total /\ careless' = careless
        /\ completed' = completed /\ results' = results /\ UNCHANGED <<callbacks, thread, answers>>
    BY <1>3, <2>1, <2>2, <2>5 DEF Refuse, job, server, inside, counts
  <2>8. \A j \in Jobs \ careless : completed'[j] = Cardinality(results'[j])
    BY <2>7 DEF AnswersInv
  <2> QED
    BY <2>6, <2>7, <2>8, AnswersSent
<1>4. ASSUME NEW t \in Threads, Ship(t)
      PROVE  AnswersInv'
  <2>1. PICK c \in Calls : c = Head(turn[t])
    BY <1>4, HeadTailProperties DEF Ship, TypeCorrect
  <2>2. PICK r, m : r = <<c[1], c[2], requests[c[1]] + 1>> /\ m = [is |-> "request", of |-> r]
    OBVIOUS
  <2>3. r \in Calls
    BY <2>2, KeysAre DEF Calls, TypeCorrect
  <2>4. m \in Reports /\ m.is # "result"
    BY <2>2, <2>3 DEF Reports
  <2>5. PICK D : D = <<m>>
    OBVIOUS
  <2>6. D \in Seq(Reports) /\ Fine(D, total, careless)
    BY <2>4, <2>5, FineOne
  <2>7. /\ toServer' = Send(toServer, t, D) /\ total' = total /\ careless' = careless
        /\ completed' = completed /\ results' = results /\ UNCHANGED <<callbacks, thread, answers>>
    BY <1>4, <2>1, <2>2, <2>5 DEF Ship, job, server
  <2>8. \A j \in Jobs \ careless : completed'[j] = Cardinality(results'[j])
    BY <2>7 DEF AnswersInv
  <2> QED
    BY <2>6, <2>7, <2>8, AnswersSent
<1>5. ASSUME UNCHANGED <<callbacks, thread, answers, toServer, total, careless, completed, results>>
      PROVE  AnswersInv'
  BY <1>5 DEF AnswersInv
<1>6. ASSUME NEW r \in shipped, Respond(r) \/ LoseRequest(r)
      PROVE  AnswersInv'
  BY <1>5, <1>6 DEF Respond, LoseRequest, job, server, links, inside, counts
<1>7. ASSUME NEW t \in Threads, Take(t) \/ Throw(t) \/ Idle(t)
      PROVE  AnswersInv'
  BY <1>5, <1>7 DEF Take, Throw, Idle, job, server, links, inside, counts
<1>8. CASE UNCHANGED vars
  BY <1>5, <1>8 DEF vars, job, server, links, inside, counts
<1> QED
  BY <1>1, <1>2, <1>3, <1>4, <1>6, <1>7, <1>8, AnswersResult, AnswersDone DEF Next, Serves, Works

-----------------------------------------------------------------------------
(* Theorems.                                                                 *)

\* In the beginning no container is anywhere and nobody is answered.
LEMMA ThreadInit ==
    ASSUME Init
    PROVE  ThreadInv
<1>1. TypeCorrect
  <2>1. total \in [Jobs -> Nat] /\ method \in [Jobs -> Methods]
    BY ThreadAssumption DEF Init
  <2>2. toThread \in [Threads -> Seq(Orders)] /\ turn \in [Threads -> Seq(Calls)]
    BY DEF Init
  <2>3. toServer \in [Threads -> Seq(Reports)]
    BY DEF Init
  <2>4. thread \in [Jobs -> SUBSET Threads] /\ results \in [Jobs -> SUBSET Nat]
    BY DEF Init
  <2>5. completed \in [Jobs -> Nat] /\ requests \in [Jobs -> Nat] /\ answers \in [Jobs -> Seq(Bodies)]
    BY DEF Init
  <2>6. shipped \subseteq Calls /\ callbacks \subseteq Jobs /\ careless \subseteq Jobs
    BY DEF Init
  <2> QED
    BY <2>1, <2>2, <2>3, <2>4, <2>5, <2>6 DEF TypeCorrect
<1>2. LinesApart(toThread, toServer, turn, shipped, total)
  BY DEF Init, LinesApart, Apart
<1>3. PICK H : H = Held(toThread, toServer, turn, shipped, results, total)
  OBVIOUS
<1>4. IsHeld(H, toThread, toServer, turn, shipped, results, total)
  BY <1>3, HeldIs
<1>5. \A t \in Threads : toThread[t] = <<>> /\ toServer[t] = <<>> /\ turn[t] = <<>>
  BY DEF Init
<1>6. \A K : Cover(K, <<>>) = {}
  BY DEF Cover
<1>7. shipped = {} /\ \A j \in Jobs : results[j] = {}
  BY DEF Init
<1>8. \A p \in Places : H[p] = {}
  <2> SUFFICES ASSUME NEW p \in Places
               PROVE  H[p] = {}
    OBVIOUS
  <2>1. p \in {"in", "out", "turn"} \X Threads \/ p \in {"shipped", "done"} \X {"all"}
    BY DEF Places
  <2>2. CASE p \in {"in", "out", "turn"} \X Threads
    <3>1. PICK a \in {"in", "out", "turn"}, t \in Threads : p = <<a, t>>
      BY <2>2
    <3> QED
      BY <1>4, <1>5, <1>6, <3>1 DEF IsHeld
  <2>3. CASE p \in {"shipped", "done"} \X {"all"}
    <3>1. PICK a \in {"shipped", "done"} : p = <<a, "all">>
      BY <2>3
    <3> QED
      BY <1>4, <1>7, <3>1 DEF IsHeld
  <2> QED
    BY <2>1, <2>2, <2>3
<1>9. OnePlace(H) /\ Given(H, total, thread)
  BY <1>8 DEF OnePlace, Given
<1>10. AnswersInv
  <2>1. Cardinality({}) = 0
    BY FS_EmptySet
  <2> QED
    BY <2>1 DEF Init, AnswersInv, Fine
<1> QED
  BY <1>1, <1>2, <1>3, <1>9, <1>10 DEF ThreadInv, KeysInv

\* The inductive invariant (server.js, threadcode.js): what the code of a job has
\* to do for a container is in one place, so calls of done() count containers.
THEOREM ThreadInvariance == Spec => []ThreadInv
<1>1. Init => ThreadInv
  BY ThreadInit
<1>2. ThreadInv /\ [Next]_vars => ThreadInv'
  BY TypeStep, KeysStep, AnswersStep DEF ThreadInv
<1> QED
  BY <1>1, <1>2, PTL DEF Spec

\* A caller is called once at most, and with a result of every container, whatever
\* else its thread runs, unless its own code called done() twice (server.js:130-141,
\* threadcode.js:163-178).
THEOREM AnswersOnceAndWhole == Spec => []OneWholeAnswer
<1>1. ThreadInv => OneWholeAnswer
  BY DEF ThreadInv, AnswersInv, OneWholeAnswer, Whole
<1> QED
  BY <1>1, ThreadInvariance, PTL
=============================================================================
