-------------------------- MODULE HoldingBayProofs --------------------------
(***************************************************************************)
(* Proofs about HoldingBay, for any number of requests and branches.       *)
(***************************************************************************)
EXTENDS HoldingBay, TLAPS

\* Before the first request everything is empty and the invariant holds.
LEMMA InitIInv == Init => IInv
<1> SUFFICES ASSUME Init PROVE IInv
  OBVIOUS
<1> USE ConstantsAssumption DEF Init, Ids
<1>1. TypeOK
  BY DEF TypeOK, Stages, Nothing
<1>2. TablesAgree
  BY DEF TablesAgree
<1>3. HeadersAgree /\ Lineage
  BY DEF HeadersAgree, Lineage
<1>4. CountersCount
  BY DEF CountersCount, One, Joined
<1>5. CompleteIsClosed
  BY DEF CompleteIsClosed
<1> QED
  BY <1>1, <1>2, <1>3, <1>4, <1>5 DEF IInv

\* A supplier that takes up a request changes its stage only, and has not
\* named a branch yet (rpc/server.js).
LEMMA ServeIInv == ASSUME IInv, NEW i \in Ids, Serve(i) PROVE IInv'
<1> USE ConstantsAssumption DEF IInv, Serve, bay, supplier, Ids
<1>1. TypeOK'
  BY DEF TypeOK, Stages
<1>2. TablesAgree'
  BY DEF TablesAgree, TypeOK
<1>3. HeadersAgree' /\ Lineage'
  BY DEF HeadersAgree, Lineage, TypeOK
<1>4. CountersCount'
  BY DEF CountersCount, One, Joined, TypeOK
<1>5. CompleteIsClosed'
  BY DEF CompleteIsClosed, Joined, TypeOK
<1> QED
  BY <1>1, <1>2, <1>3, <1>4, <1>5 DEF IInv

\* The response leaves the supplier with the branches named so far.
LEMMA RespondIInv == ASSUME IInv, NEW i \in Ids, Respond(i) PROVE IInv'
<1> USE ConstantsAssumption DEF IInv, Respond, bay, supplier, Ids
<1>1. TypeOK'
  BY DEF TypeOK, Stages
<1>2. TablesAgree'
  BY DEF TablesAgree, TypeOK
<1>3. HeadersAgree' /\ Lineage'
  BY DEF HeadersAgree, Lineage, TypeOK
<1>4. CountersCount'
  BY DEF CountersCount, One, Joined, TypeOK
<1>5. CompleteIsClosed'
  BY DEF CompleteIsClosed, Joined, TypeOK
<1> QED
  BY <1>1, <1>2, <1>3, <1>4, <1>5 DEF IInv

\* factory() puts a fresh root in the table, with no counters.
LEMMA AcceptIInv == ASSUME IInv, NEW r \in Roots, Accept(r) PROVE IInv'
<1> USE ConstantsAssumption DEF IInv, Accept, bay, supplier, Ids
<1>1. TypeOK'
  BY DEF TypeOK, Stages
<1>2. TablesAgree'
  BY DEF TablesAgree, TypeOK
<1>3. HeadersAgree' /\ Lineage'
  BY DEF HeadersAgree, Lineage, TypeOK
<1>4. CountersCount'
  BY DEF CountersCount, One, Joined, TypeOK
<1>5. CompleteIsClosed'
  BY DEF CompleteIsClosed, Joined, TypeOK
<1> QED
  BY <1>1, <1>2, <1>3, <1>4, <1>5 DEF IInv

\* The next tick sends the root to the supply chain.
LEMMA SendIInv == ASSUME IInv, NEW r \in Roots, Send(r) PROVE IInv'
<1> USE ConstantsAssumption DEF IInv, Send, bay, supplier, Ids
<1>1. TypeOK'
  BY DEF TypeOK, Stages
<1>2. TablesAgree'
  BY DEF TablesAgree, TypeOK
<1>3. HeadersAgree' /\ Lineage'
  BY DEF HeadersAgree, Lineage, TypeOK
<1>4. CountersCount'
  BY DEF CountersCount, One, Joined, TypeOK
<1>5. CompleteIsClosed'
  BY DEF CompleteIsClosed, Joined, TypeOK
<1> QED
  BY <1>1, <1>2, <1>3, <1>4, <1>5 DEF IInv

\* The resolver's listener ends the emission of a root; it counts nothing.
LEMMA AnswerIInv == ASSUME IInv, NEW r \in Roots, Answer(r) PROVE IInv'
<1> USE ConstantsAssumption DEF IInv, Answer, bay, supplier, Ids
<1>1. TypeOK'
  BY DEF TypeOK, Stages
<1>2. TablesAgree'
  BY DEF TablesAgree, TypeOK
<1>3. HeadersAgree' /\ Lineage'
  BY DEF HeadersAgree, Lineage, TypeOK
<1>4. CountersCount'
  BY DEF CountersCount, One, Joined, TypeOK
<1>5. CompleteIsClosed'
  BY DEF CompleteIsClosed, Joined, TypeOK
<1> QED
  BY <1>1, <1>2, <1>3, <1>4, <1>5 DEF IInv

\* A request or a response that is lost is never finished: no counter moves.
LEMMA LoseMessageIInv == ASSUME IInv, NEW i \in Ids, LoseMessage(i) PROVE IInv'
<1> USE ConstantsAssumption DEF IInv, LoseMessage, bay, supplier, Ids
<1>1. TypeOK'
  BY DEF TypeOK, Stages
<1>2. TablesAgree'
  BY DEF TablesAgree, TypeOK
<1>3. HeadersAgree' /\ Lineage'
  BY DEF HeadersAgree, Lineage, TypeOK
<1>4. CountersCount'
  BY DEF CountersCount, One, Joined, TypeOK
<1>5. CompleteIsClosed'
  BY DEF CompleteIsClosed, Joined, TypeOK
<1> QED
  BY <1>1, <1>2, <1>3, <1>4, <1>5 DEF IInv

\* An announcement that is lost leaves a branch that is named but not in the
\* table.
LEMMA LoseAnnounceIInv == ASSUME IInv, NEW m \in announces, LoseAnnounce(m) PROVE IInv'
<1> USE ConstantsAssumption DEF IInv, LoseAnnounce, bay, supplier, Ids
<1>1. TypeOK'
  BY DEF TypeOK, Stages
<1>2. TablesAgree'
  BY DEF TablesAgree, TypeOK
<1>3. HeadersAgree' /\ Lineage'
  BY DEF HeadersAgree, Lineage, TypeOK
<1>4. CountersCount'
  BY DEF CountersCount, One, Joined, TypeOK
<1>5. CompleteIsClosed'
  BY DEF CompleteIsClosed, Joined, TypeOK
<1> QED
  BY <1>1, <1>2, <1>3, <1>4, <1>5 DEF IInv

\* A branch event of a request that is being served: the fresh id is named in
\* one response only and descends from that request and all above it.
LEMMA BranchEventIInv ==
  ASSUME IInv, NEW i \in Ids, NEW b \in Branches, BranchEvent(i, b)
  PROVE  IInv'
<1> USE ConstantsAssumption DEF IInv, BranchEvent, bay, supplier, Ids
<1>1. i # b
  BY DEF TypeOK
<1>2. TypeOK'
  <2>1. Announce(i, b) \in Announcements
    BY DEF Announce, Announcements
  <2>2. above' \in [Branches -> SUBSET Ids]
    <3>1. (IF i \in Branches THEN above[i] ELSE {}) \in SUBSET Ids
      BY DEF TypeOK
    <3> QED
      BY <3>1 DEF TypeOK
  <2>3. stage' \in [Ids -> Stages] /\ header' \in [Ids -> SUBSET Branches]
    BY DEF TypeOK, Stages
  <2>4. announces' \in SUBSET Announcements
    BY <2>1 DEF TypeOK
  <2> QED
    BY <2>2, <2>3, <2>4 DEF TypeOK
<1>3. TablesAgree'
  BY DEF TablesAgree, HeadersAgree, TypeOK, Announce
<1>4. HeadersAgree'
  BY DEF HeadersAgree, TypeOK
<1>5. Lineage'
  <2> SUFFICES ASSUME NEW c \in Branches, NEW a \in above'[c]
               PROVE  c \in header'[a] \/ \E d \in header'[a] : d \in above'[c]
    BY DEF Lineage
  <2>1. header[a] \subseteq header'[a] /\ b \in header'[i]
    BY DEF TypeOK
  <2>2. CASE c # b
    <3>1. above'[c] = above[c]
      BY <2>2 DEF TypeOK
    <3> QED
      BY <2>1, <3>1 DEF Lineage
  <2>3. CASE c = b /\ a = i
    BY <2>1, <2>3
  <2>4. CASE c = b /\ a # i
    <3>1. i \in Branches /\ a \in above[i] /\ above[i] \subseteq above'[c]
          /\ i \in above'[c]
      BY <2>4 DEF TypeOK
    <3> QED
      BY <2>1, <3>1 DEF Lineage
  <2> QED
    BY <2>2, <2>3, <2>4
<1>6. CountersCount'
  <2> SUFFICES ASSUME NEW p \in Ids, NEW c \in Branches
               PROVE  /\ Joined(c)' = Joined(c)
                      /\ (c \in header[p] /\ stage[p] = "finished")'
                            = (c \in header[p] /\ stage[p] = "finished")
    BY DEF CountersCount, One
  <2>1. Joined(c)' = Joined(c)
    BY DEF Joined
  <2>2. stage'[p] = "finished" <=> stage[p] = "finished"
    BY <1>1 DEF TypeOK
  <2>3. stage[p] = "finished" => header'[p] = header[p]
    BY DEF TypeOK
  <2> QED
    BY <2>1, <2>2, <2>3
<1>7. CompleteIsClosed'
  BY DEF CompleteIsClosed, HeadersAgree, Lineage, Joined, TypeOK
<1> QED
  BY <1>2, <1>3, <1>4, <1>5, <1>6, <1>7 DEF IInv

\* A branch message in the switchboard is expected by the bay, and by nobody
\* else: its request is in the table and not complete.
LEMMA AnnouncementIsAwaited ==
  ASSUME IInv, NEW m \in announces
  PROVE  /\ m.requestid \in Ids /\ m.newid \in Branches
         /\ m.requestid \in requests
         /\ m.newid \in header[m.requestid]
         /\ m.newid \notin requests
         /\ parent[m.newid] = NoId
         /\ emits[m.requestid] = 0
         /\ \A n \in announces : n.newid = m.newid => n = m
<1> USE ConstantsAssumption DEF IInv, Ids
<1>1. m.requestid \in Ids /\ m.newid \in Branches
  BY DEF TypeOK, Announcements
<1>2. m.newid \in header[m.requestid] /\ stage[m.newid] = "minted"
  BY DEF TablesAgree
<1>3. m.requestid \in requests /\ m.newid \notin requests
  BY <1>1, <1>2 DEF TablesAgree, HeadersAgree
<1>4. parent[m.newid] = NoId
  BY <1>1, <1>3 DEF TablesAgree
<1>5. emits[m.requestid] = 0
  BY <1>1, <1>2 DEF CompleteIsClosed, Joined
<1>6. ASSUME NEW n \in announces, n.newid = m.newid
      PROVE  n = m
  <2>1. n.requestid \in Ids /\ n.newid \in header[n.requestid]
    BY DEF TypeOK, Announcements, TablesAgree
  <2>2. n.requestid = m.requestid
    BY <1>1, <1>2, <1>6, <2>1 DEF HeadersAgree
  <2> QED
    <3>1. \A k \in Announcements : k = Announce(k.requestid, k.newid)
      BY DEF Announcements, Announce
    <3>2. m \in Announcements /\ n \in Announcements
      BY DEF TypeOK
    <3>3. m = Announce(m.requestid, m.newid) /\ n = Announce(n.requestid, n.newid)
      BY <3>1, <3>2
    <3> QED
      BY <1>6, <2>2, <3>3
<1> QED
  BY <1>1, <1>2, <1>3, <1>4, <1>5, <1>6

\* addbranch counts the announcement of a branch that is in no table yet, below
\* a request that is not complete.
LEMMA HearBranchIInv ==
  ASSUME IInv, NEW m \in announces, HearBranch(m)
  PROVE  IInv'
<1> USE ConstantsAssumption DEF Ids
<1> DEFINE p == m.requestid
           b == m.newid
<1>1. /\ p \in Ids /\ b \in Branches /\ p \in requests /\ b \notin requests
      /\ b \in header[p] /\ parent[b] = NoId /\ emits[p] = 0
      /\ \A n \in announces : n.newid = b => n = m
  BY AnnouncementIsAwaited
<1>2. /\ announces' = announces \ {m}
      /\ count' = [count EXCEPT ![p][b] = @ + 1]
      /\ parent' = [parent EXCEPT ![b] = p]
      /\ requests' = requests \cup {b}
      /\ stage' = [stage EXCEPT ![b] = "sent"]
      /\ UNCHANGED <<results, emitting, emits, reply, header, above>>
  BY <1>1 DEF HearBranch, supplier
<1>3. stage[b] = "minted"
  BY DEF IInv, TablesAgree
<1> HIDE DEF p, b
<1> USE <1>1, <1>2 DEF IInv
<1>4. TypeOK'
  <2>1. count' \in [Ids -> [Branches -> Nat]]
    BY DEF TypeOK
  <2>2. stage' \in [Ids -> Stages]
    BY DEF TypeOK, Stages
  <2>3. parent' \in [Branches -> Ids \cup {NoId}]
    BY DEF TypeOK
  <2>4. announces' \in SUBSET Announcements /\ requests' \in SUBSET Ids
    BY DEF TypeOK
  <2> QED
    BY <2>1, <2>2, <2>3, <2>4 DEF TypeOK
<1>5. TablesAgree'
  <2>1. /\ \A i \in Ids : i \in requests' <=> stage'[i] \notin {"unused", "minted"}
        /\ \A r \in Roots : stage'[r] # "minted"
    BY DEF TablesAgree, TypeOK
  <2>2. /\ \A c \in Branches : parent'[c] # NoId <=> c \in requests'
        /\ \A c \in Branches : parent'[c] # NoId => c \in header'[parent'[c]]
    BY DEF TablesAgree, TypeOK
  <2>3. \A n \in announces' : /\ n.newid \in header'[n.requestid]
                              /\ stage'[n.newid] = "minted"
    BY DEF TablesAgree, TypeOK, Announcements, b
  <2> QED
    BY <2>1, <2>2, <2>3 DEF TablesAgree
<1>6. HeadersAgree' /\ Lineage'
  BY <1>3 DEF HeadersAgree, Lineage, TypeOK
<1>7. CountersCount'
  <2>1. \A q \in Ids : stage'[q] = "finished" <=> stage[q] = "finished"
    BY <1>3 DEF TypeOK
  <2>2. ~Joined(b)
    BY <1>3 DEF CompleteIsClosed, Joined
  <2>3. \A c \in Branches : Joined(c)' <=> Joined(c)
    BY DEF Joined
  <2>4. \A q \in Ids, c \in Branches :
            count'[q][c] = IF q = p /\ c = b THEN count[q][c] + 1 ELSE count[q][c]
    BY DEF TypeOK
  <2>5. \A c \in Branches : parent'[c] = IF c = b THEN p ELSE parent[c]
    BY DEF TypeOK
  <2> SUFFICES ASSUME NEW q \in Ids, NEW c \in Branches
               PROVE  (count[q][c] = One(parent[c] = q)
                         + One(c \in header[q] /\ stage[q] = "finished")
                         + One(parent[c] = q /\ Joined(c)))'
    BY DEF CountersCount
  <2>6. CASE c = b
    BY <2>1, <2>2, <2>3, <2>4, <2>5, <2>6 DEF CountersCount, One
  <2>7. CASE c # b
    BY <2>1, <2>3, <2>4, <2>5, <2>7 DEF CountersCount, One
  <2> QED
    BY <2>6, <2>7
<1>8. CompleteIsClosed'
  BY <1>3 DEF CompleteIsClosed, Joined, TypeOK
<1> QED
  BY <1>4, <1>5, <1>6, <1>7, <1>8

\* A request whose counters checkrespond finds resolved when its response is
\* in has every branch merged, and everything below them complete.
LEMMA ResolvedIsClosed ==
  ASSUME IInv, NEW p \in Ids, NEW J \in SUBSET Branches,
         \A b \in J : emits[b] = 1,
         \A b \in header[p] : b \in J
  PROVE  \A b \in Branches : p \in above[b] => emits[b] = 1
<1> USE ConstantsAssumption DEF IInv, Ids
<1> SUFFICES ASSUME NEW b \in Branches, p \in above[b] PROVE emits[b] = 1
  OBVIOUS
<1>1. CASE b \in header[p]
  BY <1>1
<1>2. CASE b \notin header[p]
  <2>1. PICK c \in header[p] : c \in above[b]
    BY <1>2 DEF Lineage
  <2> QED
    BY <2>1 DEF CompleteIsClosed, TypeOK
<1> QED
  BY <1>1, <1>2

\* finishmain counts the branches the response names; a request it completes
\* has all of them merged.
LEMMA FinishMainIInv == ASSUME IInv, NEW i \in Ids, FinishMain(i) PROVE IInv'
<1> USE ConstantsAssumption DEF Ids
<1> DEFINE counts == [b \in Branches |-> IF b \in header[i] THEN count[i][b] + 1
                                         ELSE count[i][b]]
<1>1. /\ stage[i] = "replied" /\ emitting = NoId
      /\ stage' = [stage EXCEPT ![i] = "finished"]
      /\ count' = [count EXCEPT ![i] = counts]
      /\ CheckRespond(i, counts)
      /\ results' = [results EXCEPT ![i][i] = @ + 1]
      /\ UNCHANGED <<announces, requests, parent, reply, header, above>>
  BY DEF FinishMain, supplier
<1>2. counts \in [Branches -> Nat]
  BY DEF IInv, TypeOK
<1>3. emits[i] = 0
  BY <1>1 DEF IInv, CompleteIsClosed
<1>4. \A b \in Branches :
        counts[b] = One(parent[b] = i) + One(b \in header[i])
                      + One(parent[b] = i /\ Joined(b))
  BY <1>1 DEF IInv, CountersCount, One, Joined, TypeOK
<1> HIDE DEF counts
<1>5. Resolved(counts) => \A b \in header[i] : Joined(b)
  <2> SUFFICES ASSUME Resolved(counts), NEW b \in header[i] PROVE Joined(b)
    OBVIOUS
  <2>1. b \in Branches
    BY DEF IInv, TypeOK
  <2>2. counts[b] = 0 \/ counts[b] >= 3
    BY <2>1 DEF Resolved
  <2> QED
    BY <1>4, <2>1, <2>2 DEF One, Joined
<1>6. \A b \in Branches : Joined(b)' <=> Joined(b)
  BY <1>1, <1>3 DEF CheckRespond, Joined, IInv, TypeOK
<1> USE DEF IInv
<1>7. TypeOK'
  <2>1. count' \in [Ids -> [Branches -> Nat]] /\ results' \in [Ids -> [Ids -> Nat]]
    BY <1>1, <1>2 DEF TypeOK
  <2>2. stage' \in [Ids -> Stages]
    BY <1>1 DEF TypeOK, Stages
  <2>3. emits' \in [Ids -> Nat] /\ emitting' \in Ids \cup {NoId}
    <3>1. CASE Resolved(counts)
      <4>1. emitting' = i /\ emits' = [emits EXCEPT ![i] = @ + 1]
        BY <1>1, <3>1 DEF CheckRespond
      <4>2. emits \in [Ids -> Nat]
        BY DEF TypeOK
      <4> QED
        BY <4>1, <4>2
    <3>2. CASE ~ Resolved(counts)
      BY <1>1, <3>2 DEF TypeOK, CheckRespond
    <3> QED
      BY <3>1, <3>2
  <2> QED
    BY <1>1, <2>1, <2>2, <2>3 DEF TypeOK
<1>8. TablesAgree'
  BY <1>1 DEF TablesAgree, TypeOK, Announcements
<1>9. HeadersAgree' /\ Lineage'
  BY <1>1 DEF HeadersAgree, Lineage, TypeOK
<1>10. CountersCount'
  <2> SUFFICES ASSUME NEW q \in Ids, NEW c \in Branches
               PROVE  (count[q][c] = One(parent[c] = q)
                         + One(c \in header[q] /\ stage[q] = "finished")
                         + One(parent[c] = q /\ Joined(c)))'
    BY DEF CountersCount
  <2>1. CASE q = i
    <3>1. stage'[q] = "finished" /\ count'[q][c] = counts[c]
      BY <1>1, <2>1 DEF TypeOK
    <3> QED
      BY <1>1, <1>4, <1>6, <2>1, <3>1 DEF One
  <2>2. CASE q # i
    <3>1. stage'[q] = stage[q] /\ count'[q][c] = count[q][c]
      BY <1>1, <2>2 DEF TypeOK
    <3> QED
      BY <1>1, <1>6, <3>1 DEF CountersCount
  <2> QED
    BY <2>1, <2>2
<1>11. CompleteIsClosed'
  <2>1. CASE Resolved(counts)
    <3>1. emitting' = i /\ emits' = [emits EXCEPT ![i] = 1]
      BY <1>1, <1>3, <2>1 DEF CheckRespond, TypeOK
    <3>2. \A b \in Branches : i \in above[b] => emits[b] = 1
      BY <1>5, <2>1, ResolvedIsClosed DEF Joined, TypeOK
    <3> QED
      <4>1. emitting' # NoId => emits'[emitting'] = 1
        BY <1>1, <3>1 DEF TypeOK
      <4>2. \A j \in Ids : emits'[j] = IF j = i THEN 1 ELSE emits[j]
        BY <3>1 DEF TypeOK
      <4>3. \A j \in Ids : emits[j] = 1 => j # i /\ stage'[j] = "finished"
        BY <1>1, <1>3 DEF CompleteIsClosed, TypeOK
      <4>4. stage'[i] = "finished"
        BY <1>1 DEF TypeOK
      <4>5. \A j \in Ids : emits[j] = 1 => \A b \in header[j] : Joined(b)'
        BY <1>6 DEF CompleteIsClosed, TypeOK
      <4>6. \A b \in header[i] : Joined(b)'
        BY <1>5, <1>6, <2>1 DEF TypeOK
      <4> QED
        BY <1>1, <3>2, <4>1, <4>2, <4>3, <4>4, <4>5, <4>6 DEF CompleteIsClosed, TypeOK
  <2>2. CASE ~ Resolved(counts)
    BY <1>1, <1>3, <1>6, <2>2 DEF CompleteIsClosed, CheckRespond, TypeOK
  <2> QED
    BY <2>1, <2>2
<1> QED
  BY <1>7, <1>8, <1>9, <1>10, <1>11

\* finishbranch merges a complete branch into the request above, which may
\* complete in turn, on the same call stack.
LEMMA FinishBranchIInv == ASSUME IInv, NEW b \in Branches, FinishBranch(b) PROVE IInv'
<1> USE ConstantsAssumption DEF Ids
<1> DEFINE p == parent[b]
           counts == [count[p] EXCEPT ![b] = @ + 1]
<1>1. /\ emitting = b
      /\ count' = [count EXCEPT ![p] = counts]
      /\ results' = [results EXCEPT ![p] = [i \in Ids |-> @[i] + results[b][i]]]
      /\ CheckRespond(p, counts)
      /\ UNCHANGED <<stage, announces, requests, parent, reply, header, above>>
  BY DEF FinishBranch, supplier
<1>2. emits[b] = 1 /\ stage[b] = "finished" /\ ~ Joined(b)
  BY <1>1 DEF IInv, CompleteIsClosed, Joined
<1>3. p \in Ids /\ b \in header[p] /\ b # p
  <2>1. p # NoId
    BY <1>2 DEF IInv, TablesAgree
  <2>2. p \in Ids /\ b \in header[p]
    BY <2>1 DEF IInv, TablesAgree, TypeOK
  <2> QED
    BY <1>2, <2>2 DEF IInv, CompleteIsClosed
<1>4. emits[p] = 0
  BY <1>2, <1>3 DEF IInv, CompleteIsClosed
<1>5. counts \in [Branches -> Nat]
  BY <1>3 DEF IInv, TypeOK
<1>6. \A c \in Branches :
        counts[c] = One(parent[c] = p) + One(c \in header[p] /\ stage[p] = "finished")
                      + One(parent[c] = p /\ (Joined(c) \/ c = b))
  <2> SUFFICES ASSUME NEW c \in Branches
               PROVE  counts[c] = One(parent[c] = p)
                        + One(c \in header[p] /\ stage[p] = "finished")
                        + One(parent[c] = p /\ (Joined(c) \/ c = b))
    OBVIOUS
  <2>1. counts[c] = IF c = b THEN count[p][c] + 1 ELSE count[p][c]
    BY <1>3 DEF IInv, TypeOK
  <2>2. count[p][c] = One(parent[c] = p) + One(c \in header[p] /\ stage[p] = "finished")
                      + One(parent[c] = p /\ Joined(c))
    BY <1>3 DEF IInv, CountersCount
  <2> QED
    BY <1>2, <2>1, <2>2 DEF One, Joined
<1> HIDE DEF counts
<1>7. Resolved(counts) =>
        stage[p] = "finished" /\ \A c \in header[p] : Joined(c) \/ c = b
  <2> SUFFICES ASSUME Resolved(counts)
               PROVE  stage[p] = "finished" /\ \A c \in header[p] : Joined(c) \/ c = b
    OBVIOUS
  <2>1. \A c \in Branches : counts[c] = 0 \/ counts[c] >= 3
    BY DEF Resolved
  <2>2. stage[p] = "finished"
    BY <1>6, <2>1 DEF One
  <2>3. \A c \in header[p] : c \in Branches
    BY <1>3 DEF IInv, TypeOK
  <2> QED
    BY <1>6, <2>1, <2>2, <2>3 DEF One, Joined
<1>8. \A c \in Branches : Joined(c)' <=> Joined(c) \/ c = b
  <2>1. CASE Resolved(counts)
    <3>1. emitting' = p /\ emits' = [emits EXCEPT ![p] = 1]
      BY <1>1, <1>4, <2>1 DEF CheckRespond
    <3> QED
      BY <1>1, <1>2, <1>3, <1>4, <3>1 DEF Joined, IInv, TypeOK
  <2>2. CASE ~ Resolved(counts)
    BY <1>1, <1>2, <2>2 DEF CheckRespond, Joined
  <2> QED
    BY <2>1, <2>2
<1> HIDE DEF p
<1> USE DEF IInv
<1>9. TypeOK'
  <2>1. count' \in [Ids -> [Branches -> Nat]]
    BY <1>1, <1>5 DEF TypeOK
  <2>2. results' \in [Ids -> [Ids -> Nat]]
    BY <1>1, <1>3 DEF TypeOK
  <2>3. emits' \in [Ids -> Nat] /\ emitting' \in Ids \cup {NoId}
    <3>1. CASE Resolved(counts)
      <4>1. emitting' = p /\ emits' = [emits EXCEPT ![p] = 1]
        BY <1>1, <1>4, <3>1 DEF CheckRespond
      <4> QED
        BY <1>3, <4>1 DEF TypeOK
    <3>2. CASE ~ Resolved(counts)
      BY <1>1, <3>2 DEF TypeOK, CheckRespond
    <3> QED
      BY <3>1, <3>2
  <2> QED
    BY <1>1, <2>1, <2>2, <2>3 DEF TypeOK
<1>10. TablesAgree'
  BY <1>1 DEF TablesAgree
<1>11. HeadersAgree' /\ Lineage'
  BY <1>1 DEF HeadersAgree, Lineage
<1>12. CountersCount'
  <2> SUFFICES ASSUME NEW q \in Ids, NEW c \in Branches
               PROVE  (count[q][c] = One(parent[c] = q)
                         + One(c \in header[q] /\ stage[q] = "finished")
                         + One(parent[c] = q /\ Joined(c)))'
    BY DEF CountersCount
  <2>1. CASE q = p
    <3>1. count'[q][c] = counts[c]
      BY <1>1, <1>3, <2>1 DEF TypeOK
    <3> QED
      BY <1>1, <1>6, <1>8, <2>1, <3>1
  <2>2. CASE q # p
    <3>1. count'[q][c] = count[q][c] /\ (parent[c] = q => c # b)
      BY <1>1, <2>2 DEF TypeOK, p
    <3> QED
      BY <1>1, <1>8, <3>1 DEF CountersCount, One
  <2> QED
    BY <2>1, <2>2
<1>13. CompleteIsClosed'
  <2>1. CASE Resolved(counts)
    <3>1. emitting' = p /\ emits' = [emits EXCEPT ![p] = 1]
      BY <1>1, <1>4, <2>1 DEF CheckRespond
    <3>2. \A c \in Branches : p \in above[c] => emits[c] = 1
      <4> DEFINE J == {c \in Branches : Joined(c) \/ c = b}
      <4>1. \A c \in header[p] : c \in J
        BY <1>3, <1>7, <2>1 DEF TypeOK
      <4>2. \A c \in J : emits[c] = 1
        BY <1>2 DEF Joined
      <4> HIDE DEF J
      <4>3. J \in SUBSET Branches
        BY DEF J
      <4> QED
        BY <1>3, <4>1, <4>2, <4>3, ResolvedIsClosed
    <3>3. emitting' # NoId => emits'[emitting'] = 1
      BY <1>3, <3>1 DEF TypeOK
    <3>4. \A j \in Ids : emits'[j] = IF j = p THEN 1 ELSE emits[j]
      BY <3>1 DEF TypeOK
    <3>5. \A j \in Ids : emits[j] = 1 => stage[j] = "finished"
      BY DEF CompleteIsClosed
    <3>6. \A j \in Ids : emits[j] = 1 => \A c \in header[j] : Joined(c)'
      BY <1>8 DEF CompleteIsClosed, TypeOK
    <3>7. stage[p] = "finished" /\ \A c \in header[p] : Joined(c)'
      BY <1>3, <1>7, <1>8, <2>1 DEF TypeOK
    <3> QED
      BY <1>1, <3>2, <3>3, <3>4, <3>5, <3>6, <3>7 DEF CompleteIsClosed, TypeOK
  <2>2. CASE ~ Resolved(counts)
    BY <1>1, <1>8, <2>2 DEF CompleteIsClosed, CheckRespond, TypeOK
  <2> QED
    BY <2>1, <2>2
<1> QED
  BY <1>9, <1>10, <1>11, <1>12, <1>13

\* The invariant is inductive: every step of the supplier, of the bay and of
\* the network preserves it.
LEMMA StepIInv == IInv /\ [Next]_vars => IInv'
<1> SUFFICES ASSUME IInv, [Next]_vars PROVE IInv'
  OBVIOUS
<1>1. ASSUME NEW i \in Ids, Supplier(i) PROVE IInv'
  BY <1>1, ServeIInv, BranchEventIInv, RespondIInv DEF Supplier
<1>2. ASSUME Bay PROVE IInv'
  BY <1>2, AcceptIInv, SendIInv, AnswerIInv, HearBranchIInv, FinishMainIInv,
     FinishBranchIInv DEF Bay
<1>3. ASSUME Network PROVE IInv'
  BY <1>3, LoseMessageIInv, LoseAnnounceIInv DEF Network
<1>4. CASE UNCHANGED vars
  BY <1>4 DEF vars, bay, supplier, IInv, TypeOK, TablesAgree, HeadersAgree,
     Lineage, CountersCount, CompleteIsClosed, Joined
<1> QED
  BY <1>1, <1>2, <1>3, <1>4 DEF Next

\* The invariant holds in every reachable state, for any ids and with a lossy
\* network.
THEOREM Invariance == Spec => []IInv
<1>1. Init => IInv
  BY InitIInv
<1>2. IInv /\ [Next]_vars => IInv'
  BY StepIInv
<1> QED
  BY <1>1, <1>2, PTL DEF Spec

\* What a request has handed on does not change any more.
THEOREM HandedOnIsFinal == Spec => HandedOnFinal
<1> USE ConstantsAssumption DEF Ids
<1>1. IInv /\ [Next]_vars => [\A i \in Ids : emits[i] > 0 => results'[i] = results[i]]_vars
  <2> SUFFICES ASSUME IInv, Next, NEW j \in Ids, emits[j] > 0
               PROVE  results'[j] = results[j]
    OBVIOUS
  <2>1. emits[j] = 1 /\ stage[j] = "finished" /\ \A b \in header[j] : Joined(b)
    BY DEF IInv, CompleteIsClosed
  <2>2. ASSUME NEW i \in Ids, FinishMain(i) PROVE results'[j] = results[j]
    BY <2>1, <2>2 DEF FinishMain, IInv, TypeOK
  <2>3. ASSUME NEW b \in Branches, FinishBranch(b) PROVE results'[j] = results[j]
    <3>1. emitting = b /\ parent[b] # NoId
      BY <2>3 DEF FinishBranch, IInv, CompleteIsClosed, TablesAgree
    <3>2. b \in header[parent[b]] /\ ~ Joined(b)
      BY <3>1 DEF IInv, TablesAgree, Joined
    <3>3. parent[b] # j
      BY <2>1, <3>2
    <3> QED
      BY <2>3, <3>3 DEF FinishBranch, IInv, TypeOK
  <2>4. ASSUME NEW i \in Ids, Supplier(i) PROVE results'[j] = results[j]
    BY <2>4 DEF Supplier, Serve, BranchEvent, Respond, bay
  <2>5. CASE \E r \in Roots : Accept(r) \/ Send(r) \/ Answer(r)
    BY <2>5 DEF Accept, Send, Answer, bay
  <2>6. CASE \E m \in announces : HearBranch(m)
    BY <2>6 DEF HearBranch
  <2>7. CASE Network
    BY <2>7 DEF Network, LoseMessage, LoseAnnounce, bay
  <2> QED
    BY <2>2, <2>3, <2>4, <2>5, <2>6, <2>7 DEF Next, Bay
<1> QED
  BY <1>1, Invariance, PTL DEF Spec, HandedOnFinal

\* The variables of the bay, the suppliers and the network keep their types.
THEOREM TypeCorrect == Spec => []TypeOK
<1>1. IInv => TypeOK
  BY DEF IInv
<1> QED
  BY <1>1, Invariance, PTL

\* However many requests branch however deep, and in whatever order responses
\* and branch messages arrive or are lost, no request is complete before every
\* response of its tree is in.
THEOREM NeverEarly == Spec => []NoEarlyReply
<1>1. IInv => NoEarlyReply
  BY DEF IInv, NoEarlyReply, CompleteIsClosed, Tree, Ids
<1> QED
  BY <1>1, Invariance, PTL

\* Nothing is complete twice.
THEOREM OnlyOnce == Spec => []CompleteOnce
<1>1. IInv => CompleteOnce
  BY DEF IInv, CompleteOnce, CompleteIsClosed
<1> QED
  BY <1>1, Invariance, PTL

\* The bay's listener never ignores a branch, nor adds one to a request it has
\* answered.
THEOREM NoBranchIgnored == Spec => []AnnouncementsAwaited
<1>1. IInv => AnnouncementsAwaited
  BY AnnouncementIsAwaited DEF AnnouncementsAwaited
<1> QED
  BY <1>1, Invariance, PTL

-----------------------------------------------------------------------------
(* The answer: what a request holds is the bodies of the trees merged into   *)
(* it, each once.                                                            *)

\* A branch of a request that is still being served has nothing below it when
\* it is minted, so the requests stay a forest (resolveevents.js).
LEMMA BranchEventAncestry ==
  ASSUME IInv, Ancestry, NEW i \in Ids, NEW b \in Branches, BranchEvent(i, b)
  PROVE  Ancestry'
<1> USE ConstantsAssumption DEF Ids
<1> DEFINE up == {i} \cup (IF i \in Branches THEN above[i] ELSE {})
<1>1. /\ stage[i] = "serving" /\ stage[b] = "unused"
      /\ header' = [header EXCEPT ![i] = @ \cup {b}]
      /\ above' = [above EXCEPT ![b] = up]
  BY DEF BranchEvent
<1>2. TypeOK /\ HeadersAgree /\ Lineage /\ i # b
  BY <1>1 DEF IInv
<1>3. \A c \in Branches : b \notin above[c]
  BY <1>1, <1>2 DEF Lineage, HeadersAgree, TypeOK
<1>4. \A k \in Ids : b \notin header[k]
  BY <1>1, <1>2 DEF HeadersAgree
<1>5. \A c \in Branches : above'[c] = IF c = b THEN up ELSE above[c]
  BY <1>1, <1>2 DEF TypeOK
<1>6. b \notin up
  BY <1>2, <1>3
<1>7. \A k \in Ids : \A c \in header'[k] : (k = i /\ c = b) \/ (c \in header[k] /\ c # b)
  BY <1>1, <1>2, <1>4 DEF TypeOK
<1>8. header[b] = {}
  BY <1>1, <1>2 DEF HeadersAgree
<1>9. \A k \in Ids : header[k] \subseteq Branches
  BY <1>2 DEF TypeOK
<1>10. \A c \in up : c \in Branches => above[c] \subseteq up
  BY DEF Ancestry
<1>11. \A k, j \in up : \/ k = j
                        \/ k \in Branches /\ j \in above[k]
                        \/ j \in Branches /\ k \in above[j]
  BY DEF Ancestry
<1> HIDE DEF up
<1>12. \A c \in Branches : c \notin above'[c]
  BY <1>5, <1>6 DEF Ancestry
<1>13. ASSUME NEW k \in Ids, NEW c \in header'[k]
       PROVE  above'[c] = {k} \cup (IF k \in Branches THEN above'[k] ELSE {})
  <2>1. CASE k = i /\ c = b
    BY <1>2, <1>5, <2>1 DEF up
  <2>2. CASE c \in header[k] /\ c # b
    BY <1>5, <1>8, <1>9, <2>2 DEF Ancestry
  <2> QED
    BY <1>7, <2>1, <2>2
<1>14. ASSUME NEW c \in Branches, NEW d \in above'[c], d \in Branches
       PROVE  above'[d] \subseteq above'[c]
  BY <1>3, <1>5, <1>6, <1>10, <1>14 DEF Ancestry
<1>15. ASSUME NEW c \in Branches, NEW k \in above'[c], NEW j \in above'[c]
       PROVE  \/ k = j
              \/ k \in Branches /\ j \in above'[k]
              \/ j \in Branches /\ k \in above'[j]
  <2>1. k # b /\ j # b
    BY <1>3, <1>5, <1>6
  <2> QED
    BY <1>5, <1>11, <2>1 DEF Ancestry
<1> QED
  BY <1>12, <1>13, <1>14, <1>15 DEF Ancestry

\* The tree of a request is the request and the trees of the branches it
\* named, and no two of those share a member.
LEMMA TreeIsBranches ==
  ASSUME IInv, Ancestry, NEW i \in Ids
  PROVE  /\ \A j \in Ids : j \in Tree(i) <=> j = i \/ \E b \in header[i] : j \in Tree(b)
         /\ \A b \in header[i] : i \notin Tree(b)
         /\ \A b, c \in header[i] : \A j \in Tree(b) : j \in Tree(c) => b = c
<1> USE ConstantsAssumption DEF Ids
<1>1. /\ header[i] \subseteq Branches
      /\ \A b \in Branches : above[b] \subseteq Ids
  BY DEF IInv, TypeOK
<1>2. \A b \in header[i] : i \in above[b] /\ b # i
  BY <1>1 DEF IInv, HeadersAgree, Ancestry
<1>3. ASSUME NEW j \in Ids
      PROVE  j \in Tree(i) <=> j = i \/ \E b \in header[i] : j \in Tree(b)
  <2>1. ASSUME j \in Tree(i), j # i PROVE \E b \in header[i] : j \in Tree(b)
    BY <1>1, <2>1 DEF Tree, IInv, Lineage
  <2>2. ASSUME NEW b \in header[i], j \in Tree(b) PROVE j \in Tree(i)
    BY <1>1, <1>2, <2>2 DEF Tree, Ancestry
  <2> QED
    BY <2>1, <2>2 DEF Tree
<1>4. ASSUME NEW b \in header[i] PROVE i \notin Tree(b)
  <2>1. CASE i \in Branches /\ b \in above[i]
    <3>1. above[b] \subseteq above[i]
      BY <1>1, <2>1 DEF Ancestry
    <3> QED
      BY <1>2, <2>1, <3>1 DEF Ancestry
  <2> QED
    BY <1>2, <2>1 DEF Tree
<1>5. ASSUME NEW b \in header[i], NEW c \in header[i] PROVE c \notin above[b]
  <2>1. above[b] = {i} \cup (IF i \in Branches THEN above[i] ELSE {})
    BY DEF Ancestry
  <2>2. c \notin above[i] \/ i \notin Branches
    BY <1>4 DEF Tree
  <2> QED
    BY <1>2, <2>1, <2>2
<1>6. ASSUME NEW b \in header[i], NEW c \in header[i], NEW j \in Tree(b),
             j \in Tree(c), b # c
      PROVE  FALSE
  <2>1. CASE j = b
    BY <1>5, <1>6, <2>1 DEF Tree
  <2>2. CASE j = c
    BY <1>5, <1>6, <2>2 DEF Tree
  <2>3. CASE j # b /\ j # c
    <3>1. j \in Branches /\ b \in above[j] /\ c \in above[j]
      BY <1>6, <2>3 DEF Tree
    <3>2. c \in above[b] \/ b \in above[c]
      BY <1>1, <1>6, <3>1 DEF Ancestry
    <3> QED
      BY <1>5, <3>2
  <2> QED
    BY <2>1, <2>2, <2>3
<1> QED
  BY <1>3, <1>4, <1>6

\* A complete request holds the body of every member of its tree once and
\* nothing else.
LEMMA WholeResults ==
  ASSUME IInv, Ancestry, ResultsHold, NEW i \in Ids, emits[i] = 1
  PROVE  \A j \in Ids : results[i][j] = One(j \in Tree(i))
<1> SUFFICES ASSUME NEW j \in Ids PROVE results[i][j] = One(j \in Tree(i))
  OBVIOUS
<1>1. stage[i] = "finished" /\ \A b \in header[i] : Joined(b)
  BY DEF IInv, CompleteIsClosed
<1>2. results[i][j] = One(j = i) + One(\E b \in header[i] : j \in Tree(b))
  BY <1>1 DEF ResultsHold, One
<1>3. j \in Tree(i) <=> j = i \/ \E b \in header[i] : j \in Tree(b)
  BY TreeIsBranches
<1>4. \A b \in header[i] : i \notin Tree(b)
  BY TreeIsBranches
<1> QED
  BY <1>2, <1>3, <1>4 DEF One

\* finishmain adds the request's own body.
LEMMA FinishMainResults ==
  ASSUME IInv, ResultsHold, NEW i \in Ids, FinishMain(i)
  PROVE  ResultsHold'
<1>1. /\ stage[i] = "replied"
      /\ stage' = [stage EXCEPT ![i] = "finished"]
      /\ results' = [results EXCEPT ![i][i] = @ + 1]
      /\ header' = header /\ above' = above
  BY DEF FinishMain, supplier
<1>2. TypeOK /\ emits[i] = 0 /\ emitting = NoId
  BY <1>1 DEF IInv, CompleteIsClosed, FinishMain
<1>3. \A b \in Branches : Joined(b)' <=> Joined(b)
  BY <1>2, ConstantsAssumption DEF Joined, FinishMain, CheckRespond, TypeOK, Ids
<1> SUFFICES ASSUME NEW k \in Ids, NEW j \in Ids
             PROVE  results'[k][j] =
                      One(j = k /\ stage'[k] = "finished")
                      + One(\E b \in header'[k] : Joined(b)' /\ j \in Tree(b)')
  BY DEF ResultsHold
<1>4. results'[k][j] = IF k = i /\ j = i THEN results[k][j] + 1 ELSE results[k][j]
  BY <1>1, <1>2 DEF TypeOK
<1>5. (\E b \in header'[k] : Joined(b)' /\ j \in Tree(b)')
         <=> (\E b \in header[k] : Joined(b) /\ j \in Tree(b))
  BY <1>1, <1>2, <1>3 DEF TypeOK, Tree
<1>6. results[k][j] = One(j = k /\ stage[k] = "finished")
                      + One(\E b \in header[k] : Joined(b) /\ j \in Tree(b))
  BY DEF ResultsHold
<1>7. stage'[k] = IF k = i THEN "finished" ELSE stage[k]
  BY <1>1, <1>2 DEF TypeOK
<1> QED
  BY <1>1, <1>4, <1>5, <1>6, <1>7 DEF One

\* finishbranch adds the whole tree of the branch, none of which the request
\* above held.
LEMMA FinishBranchResults ==
  ASSUME IInv, Ancestry, ResultsHold, NEW b \in Branches, FinishBranch(b)
  PROVE  ResultsHold'
<1> USE ConstantsAssumption DEF Ids
<1> DEFINE p == parent[b]
<1>1. /\ emitting = b
      /\ results' = [results EXCEPT ![p] = [i \in Ids |-> @[i] + results[b][i]]]
      /\ stage' = stage /\ header' = header /\ above' = above
      /\ CheckRespond(p, [count[p] EXCEPT ![b] = @ + 1])
  BY DEF FinishBranch, supplier
<1>2. TypeOK /\ emits[b] = 1 /\ stage[b] = "finished" /\ ~ Joined(b)
  BY <1>1 DEF IInv, CompleteIsClosed, Joined
<1>3. p \in Ids /\ b \in header[p] /\ b # p
  <2>1. p # NoId
    BY <1>2 DEF IInv, TablesAgree
  <2>2. p \in Ids /\ b \in header[p]
    BY <2>1 DEF IInv, TablesAgree, TypeOK
  <2> QED
    BY <1>2, <2>2 DEF IInv, CompleteIsClosed
<1>4. emits[p] = 0
  BY <1>2, <1>3 DEF IInv, CompleteIsClosed
<1>5. \A q \in Ids : b \in header[q] => q = p
  BY <1>3 DEF IInv, HeadersAgree
<1> HIDE DEF p
<1>6. \A c \in Branches : Joined(c)' <=> Joined(c) \/ c = b
  BY <1>1, <1>2, <1>3, <1>4 DEF CheckRespond, Joined, TypeOK
<1>7. \A j \in Ids : results[b][j] = One(j \in Tree(b))
  BY <1>2, WholeResults
<1> SUFFICES ASSUME NEW k \in Ids, NEW j \in Ids
             PROVE  results'[k][j] =
                      One(j = k /\ stage'[k] = "finished")
                      + One(\E c \in header'[k] : Joined(c)' /\ j \in Tree(c)')
  BY DEF ResultsHold
<1>8. results[k][j] = One(j = k /\ stage[k] = "finished")
                      + One(\E c \in header[k] : Joined(c) /\ j \in Tree(c))
  BY DEF ResultsHold
<1>9. \A c \in header[k] : c \in Branches /\ Tree(c)' = Tree(c)
  BY <1>1, <1>2 DEF TypeOK, Tree
<1>10. CASE k = p
  <2>1. results'[k][j] = results[k][j] + One(j \in Tree(b))
    BY <1>1, <1>2, <1>3, <1>7, <1>10 DEF TypeOK
  <2>2. (\E c \in header'[k] : Joined(c)' /\ j \in Tree(c)')
          <=> (\E c \in header[k] : Joined(c) /\ j \in Tree(c)) \/ j \in Tree(b)
    BY <1>1, <1>3, <1>6, <1>9, <1>10
  <2>3. ~ ((\E c \in header[k] : Joined(c) /\ j \in Tree(c)) /\ j \in Tree(b))
    BY <1>2, <1>3, <1>10, TreeIsBranches
  <2> QED
    BY <1>1, <1>8, <2>1, <2>2, <2>3 DEF One
<1>11. CASE k # p
  <2>1. results'[k][j] = results[k][j]
    BY <1>1, <1>2, <1>11 DEF TypeOK
  <2>2. (\E c \in header'[k] : Joined(c)' /\ j \in Tree(c)')
          <=> (\E c \in header[k] : Joined(c) /\ j \in Tree(c))
    BY <1>1, <1>5, <1>6, <1>9, <1>11
  <2> QED
    BY <1>1, <1>8, <2>1, <2>2
<1> QED
  BY <1>10, <1>11

\* A branch event adds nothing to what is complete: the request that branches is
\* not, and neither is anything above it.
LEMMA BranchEventResults ==
  ASSUME IInv, ResultsHold, NEW i \in Ids, NEW b \in Branches, BranchEvent(i, b)
  PROVE  ResultsHold'
<1> USE ConstantsAssumption DEF Ids
<1> DEFINE up == {i} \cup (IF i \in Branches THEN above[i] ELSE {})
<1>1. /\ stage[i] = "serving" /\ stage[b] = "unused"
      /\ stage' = [stage EXCEPT ![b] = "minted"]
      /\ header' = [header EXCEPT ![i] = @ \cup {b}]
      /\ above' = [above EXCEPT ![b] = up]
      /\ results' = results /\ emits' = emits /\ emitting' = emitting
  BY DEF BranchEvent, bay
<1>2. TypeOK /\ CompleteIsClosed
  BY DEF IInv
<1>3. \A c \in Branches : Joined(c)' <=> Joined(c)
  BY <1>1 DEF Joined
<1>4. \A c \in Branches : Joined(c) => c # b /\ c \notin up
  BY <1>1, <1>2 DEF Joined, CompleteIsClosed
<1>5. \A c \in Branches : above'[c] = IF c = b THEN up ELSE above[c]
  BY <1>1, <1>2 DEF TypeOK
<1>6. \A c \in Branches : Joined(c) => b \notin Tree(c)
  BY <1>1, <1>2 DEF Joined, CompleteIsClosed, Tree
<1> HIDE DEF up
<1>7. ASSUME NEW c \in Branches, Joined(c) PROVE Tree(c)' = Tree(c)
  BY <1>4, <1>5, <1>6, <1>7 DEF Tree
<1> SUFFICES ASSUME NEW k \in Ids, NEW j \in Ids
             PROVE  results'[k][j] =
                      One(j = k /\ stage'[k] = "finished")
                      + One(\E c \in header'[k] : Joined(c)' /\ j \in Tree(c)')
  BY DEF ResultsHold
<1>8. results[k][j] = One(j = k /\ stage[k] = "finished")
                      + One(\E c \in header[k] : Joined(c) /\ j \in Tree(c))
  BY DEF ResultsHold
<1>9. stage'[k] = "finished" <=> stage[k] = "finished"
  BY <1>1, <1>2 DEF TypeOK
<1>10. /\ header[k] \subseteq header'[k] /\ header'[k] \subseteq header[k] \cup {b}
       /\ header[k] \subseteq Branches
  BY <1>1, <1>2 DEF TypeOK
<1>11. (\E c \in header'[k] : Joined(c)' /\ j \in Tree(c)')
          <=> (\E c \in header[k] : Joined(c) /\ j \in Tree(c))
  BY <1>3, <1>4, <1>7, <1>10
<1> QED
  BY <1>1, <1>8, <1>9, <1>11

\* The other steps complete nothing, finish nothing and name no branch.
LEMMA QuietResults ==
  ASSUME IInv, ResultsHold,
         \A i \in Ids : stage'[i] = "finished" <=> stage[i] = "finished",
         \A b \in Branches : Joined(b)' <=> Joined(b),
         UNCHANGED <<header, above, results>>
  PROVE  ResultsHold'
<1> SUFFICES ASSUME NEW k \in Ids, NEW j \in Ids
             PROVE  results'[k][j] =
                      One(j = k /\ stage'[k] = "finished")
                      + One(\E c \in header'[k] : Joined(c)' /\ j \in Tree(c)')
  BY DEF ResultsHold
<1>1. results[k][j] = One(j = k /\ stage[k] = "finished")
                      + One(\E c \in header[k] : Joined(c) /\ j \in Tree(c))
  BY DEF ResultsHold
<1>2. header[k] \subseteq Branches
  BY DEF IInv, TypeOK
<1>3. (\E c \in header'[k] : Joined(c)' /\ j \in Tree(c)')
          <=> (\E c \in header[k] : Joined(c) /\ j \in Tree(c))
  BY <1>2 DEF Tree
<1> QED
  BY <1>1, <1>3 DEF One

\* A step that starts no request, finishes and completes none.
Quiet ==
    /\ \A i \in Ids : stage'[i] = "finished" <=> stage[i] = "finished"
    /\ \A i \in Ids : stage'[i] = "unused" <=> stage[i] = "unused"
    /\ UNCHANGED <<header, above, results, emitting, emits, reply>>

\* The steps that only move messages are quiet.
LEMMA QuietSteps ==
  ASSUME IInv
  PROVE  /\ \A i \in Ids : Serve(i) \/ Respond(i) \/ LoseMessage(i) => Quiet
         /\ \A r \in Roots : Send(r) => Quiet
         /\ \A m \in announces : HearBranch(m) \/ LoseAnnounce(m) => Quiet
         /\ UNCHANGED vars => Quiet
<1> USE ConstantsAssumption DEF Ids, Quiet
<1>1. TypeOK
  BY DEF IInv
<1>2. ASSUME NEW i \in Ids, Serve(i) \/ Respond(i) \/ LoseMessage(i) PROVE Quiet
  BY <1>1, <1>2 DEF Serve, Respond, LoseMessage, bay, supplier, TypeOK
<1>3. ASSUME NEW r \in Roots, Send(r) PROVE Quiet
  BY <1>1, <1>3 DEF Send, bay, supplier, TypeOK
<1>4. ASSUME NEW m \in announces, HearBranch(m) PROVE Quiet
  <2>1. m.newid \in Branches /\ stage[m.newid] = "minted"
    BY AnnouncementIsAwaited DEF IInv, TablesAgree
  <2> QED
    BY <1>1, <1>4, <2>1 DEF HearBranch, supplier, TypeOK
<1>5. ASSUME NEW m \in announces, LoseAnnounce(m) PROVE Quiet
  BY <1>5 DEF LoseAnnounce, bay, supplier
<1>6. ASSUME UNCHANGED vars PROVE Quiet
  BY <1>6 DEF vars, bay, supplier
<1> QED
  BY <1>2, <1>3, <1>4, <1>5, <1>6

\* checkrespond completes a request that was not, so it takes no answer back.
LEMMA CheckRespondReplies ==
  ASSUME IInv, RepliesFollow, NEW i \in Ids, NEW counts, emits[i] = 0,
         CheckRespond(i, counts), UNCHANGED reply
  PROVE  RepliesFollow'
<1> USE ConstantsAssumption DEF Ids
<1> SUFFICES ASSUME NEW r \in Roots, reply[r] # Nothing
             PROVE  emits'[r] = 1 /\ emitting' # r
  BY DEF RepliesFollow, Nothing
<1>1. emits[r] = 1 /\ r # i /\ r # NoId /\ emits \in [Ids -> Nat]
  BY DEF RepliesFollow, IInv, TypeOK
<1>2. \/ emitting' = i /\ emits' = [emits EXCEPT ![i] = @ + 1]
      \/ emitting' = NoId /\ emits' = emits
  BY DEF CheckRespond
<1> QED
  BY <1>1, <1>2

\* The invariant of the refinement is inductive.
LEMMA StepPromiseInv == ASSUME PromiseInv, [Next]_vars PROVE PromiseInv'
<1> USE ConstantsAssumption DEF Ids
<1> USE DEF PromiseInv
<1>1. IInv'
  BY StepIInv
<1>2. ASSUME UNCHANGED <<header, above>> PROVE Ancestry'
  BY <1>2 DEF Ancestry
<1>3. ASSUME Quiet PROVE PromiseInv'
  <2>1. ResultsHold'
    BY <1>3, QuietResults DEF Quiet, Joined
  <2>2. RepliesFollow'
    BY <1>3 DEF Quiet, RepliesFollow, Nothing
  <2> QED
    BY <1>1, <1>2, <1>3, <2>1, <2>2 DEF Quiet
<1>4. ASSUME NEW i \in Ids, NEW b \in Branches, BranchEvent(i, b) PROVE PromiseInv'
  <2>1. RepliesFollow'
    BY <1>4 DEF BranchEvent, bay, RepliesFollow, Nothing
  <2> QED
    BY <1>1, <1>4, <2>1, BranchEventAncestry, BranchEventResults
<1>5. ASSUME NEW r \in Roots, Accept(r) PROVE PromiseInv'
  <2>1. /\ UNCHANGED <<header, above, results, emitting, emits, reply>>
        /\ \A i \in Ids : stage'[i] = "finished" <=> stage[i] = "finished"
    BY <1>5 DEF Accept, supplier, IInv, TypeOK
  <2>2. ResultsHold'
    BY <2>1, QuietResults DEF Joined
  <2>3. RepliesFollow'
    BY <2>1 DEF RepliesFollow, Nothing
  <2> QED
    BY <1>1, <1>2, <2>1, <2>2, <2>3
<1>6. ASSUME NEW r \in Roots, Answer(r) PROVE PromiseInv'
  <2>1. /\ emitting = r /\ emitting' = NoId
        /\ reply' = [reply EXCEPT ![r] = results[r]]
        /\ UNCHANGED <<stage, header, above, results, emits>>
        /\ emits[r] = 1
    BY <1>6 DEF Answer, supplier, IInv, CompleteIsClosed
  <2>2. ResultsHold'
    BY <2>1, QuietResults DEF Joined
  <2>3. RepliesFollow'
    BY <2>1 DEF RepliesFollow, Nothing, IInv, TypeOK
  <2> QED
    BY <1>1, <1>2, <2>1, <2>2, <2>3
<1>7. ASSUME NEW i \in Ids, FinishMain(i) PROVE PromiseInv'
  <2>1. emits[i] = 0 /\ UNCHANGED <<reply, header, above>>
    BY <1>7 DEF FinishMain, supplier, IInv, CompleteIsClosed
  <2>2. RepliesFollow'
    BY <1>7, <2>1, CheckRespondReplies DEF FinishMain
  <2> QED
    BY <1>1, <1>2, <1>7, <2>1, <2>2, FinishMainResults
<1>8. ASSUME NEW b \in Branches, FinishBranch(b) PROVE PromiseInv'
  <2>1. emitting = b /\ emits[b] = 1 /\ UNCHANGED <<reply, header, above>>
    BY <1>8 DEF FinishBranch, supplier, IInv, CompleteIsClosed
  <2>2. parent[b] \in Ids /\ b \in header[parent[b]]
    <3>1. stage[b] = "finished"
      BY <2>1 DEF IInv, CompleteIsClosed
    <3>2. parent[b] # NoId /\ b \in header[parent[b]]
      BY <3>1 DEF IInv, TablesAgree
    <3> QED
      BY <3>2 DEF IInv, TypeOK
  <2>3. emits[parent[b]] = 0
    BY <2>1, <2>2 DEF IInv, CompleteIsClosed, Joined
  <2>4. RepliesFollow'
    BY <1>8, <2>1, <2>2, <2>3, CheckRespondReplies DEF FinishBranch
  <2> QED
    BY <1>1, <1>2, <1>8, <2>1, <2>4, FinishBranchResults
<1> QED
  BY <1>3, <1>4, <1>5, <1>6, <1>7, <1>8, QuietSteps
     DEF Next, Supplier, Bay, Network

\* What a request holds, whether or not it is complete, is its own body and the
\* trees merged into it.
THEOREM ResultsAreTrees == Spec => []PromiseInv
<1>1. Init => PromiseInv
  <2> SUFFICES ASSUME Init PROVE PromiseInv
    OBVIOUS
  <2> QED
    BY InitIInv DEF Init, PromiseInv, Ancestry, ResultsHold, RepliesFollow, Nothing, One,
       Ids
<1>2. PromiseInv /\ [Next]_vars => PromiseInv'
  BY StepPromiseInv
<1> QED
  BY <1>1, <1>2, PTL DEF Spec

-----------------------------------------------------------------------------
(* The refinement: each step of the bay, of a supplier or of the network is  *)
(* a step of BranchJoin or changes nothing that it speaks of.                *)

\* No request is in the trees of two clients.
LEMMA OneClient ==
  ASSUME IInv, Ancestry, NEW q \in Roots, NEW r \in Roots, NEW i \in Ids,
         i \in Tree(q), i \in Tree(r)
  PROVE  q = r
BY ConstantsAssumption DEF Tree, Ancestry, Ids

\* A request that is not in use has nothing below it.
LEMMA UnusedHasNoTree ==
  ASSUME IInv, NEW i \in Ids, stage[i] = "unused"
  PROVE  \A b \in Branches : i \notin above[b]
BY DEF IInv, Lineage, HeadersAgree

\* A quiet step changes nothing the promise speaks of.
LEMMA QuietStutters == ASSUME Quiet PROVE UNCHANGED Promise!vars
<1>1. \A r \in Roots : /\ {i \in Tree(r) : stage[i] # "unused"}'
                            = {i \in Tree(r) : stage[i] # "unused"}
                       /\ {i \in Tree(r) : stage[i] = "finished"}'
                            = {i \in Tree(r) : stage[i] = "finished"}
  BY DEF Quiet, Tree, Ids
<1> QED
  BY <1>1 DEF Quiet, Promise!vars

\* The resolver's request is the client's question.
LEMMA AcceptAsks ==
  ASSUME PromiseInv, NEW r \in Roots, Accept(r) PROVE Promise!Ask(r)
<1> USE ConstantsAssumption DEF Ids, PromiseInv
<1>1. /\ stage[r] = "unused" /\ stage' = [stage EXCEPT ![r] = "held"]
      /\ UNCHANGED <<reply, above>> /\ TypeOK
  BY DEF Accept, supplier, IInv
<1>2. Tree(r) = {r}
  BY <1>1, UnusedHasNoTree DEF Tree
<1>3. \A q \in Roots : q # r => r \notin Tree(q)
  BY DEF Tree
<1>4. \A q \in Roots : Tree(q)' = Tree(q) /\ Tree(q) \subseteq Ids
  BY <1>1 DEF Tree
<1>5. \A i \in Ids : stage'[i] = IF i = r THEN "held" ELSE stage[i]
  BY <1>1 DEF TypeOK
<1>6. \A q \in Roots :
        /\ {i \in Tree(q) : stage[i] = "finished"}'
              = {i \in Tree(q) : stage[i] = "finished"}
        /\ {i \in Tree(q) : stage[i] # "unused"}'
              = IF q = r THEN {r} ELSE {i \in Tree(q) : stage[i] # "unused"}
  BY <1>1, <1>2, <1>3, <1>4, <1>5
<1>7. {i \in Tree(r) : stage[i] # "unused"} = {}
  BY <1>1, <1>2
<1> QED
  BY <1>1, <1>6, <1>7 DEF Promise!Ask

\* A branch event of a request in a client's tree is a branch of that tree, and
\* of no other.
LEMMA BranchEventBranches ==
  ASSUME PromiseInv, NEW i \in Ids, NEW b \in Branches, BranchEvent(i, b)
  PROVE  (\E r \in Roots : Promise!Branch(r, b)) \/ UNCHANGED Promise!vars
<1> USE ConstantsAssumption DEF Ids, PromiseInv
<1>1. /\ stage[i] = "serving" /\ stage[b] = "unused" /\ TypeOK
      /\ stage' = [stage EXCEPT ![b] = "minted"]
      /\ above' = [above EXCEPT ![b] =
                      {i} \cup (IF i \in Branches THEN above[i] ELSE {})]
      /\ reply' = reply
  BY DEF BranchEvent, bay, IInv
<1>2. \A c \in Ids : stage'[c] = IF c = b THEN "minted" ELSE stage[c]
  BY <1>1 DEF TypeOK
<1>3. \A q \in Roots : Tree(q) \subseteq Ids
  BY DEF Tree
<1>4. \A q \in Roots : Tree(q)' = (Tree(q) \ {b}) \cup (IF i \in Tree(q) THEN {b} ELSE {})
  BY <1>1 DEF Tree, TypeOK
<1> DEFINE T(q) == {c \in Tree(q) : stage[c] # "unused"}
           F(q) == {c \in Tree(q) : stage[c] = "finished"}
<1>5. \A q \in Roots : /\ T(q)' = IF i \in Tree(q) THEN T(q) \cup {b} ELSE T(q)
                       /\ F(q)' = F(q)
                       /\ b \notin T(q)
  BY <1>1, <1>2, <1>3, <1>4
<1>6. CASE \E r \in Roots : i \in Tree(r)
  <2>1. PICK r \in Roots : i \in Tree(r)
    BY <1>6
  <2>2. \A q \in Roots : i \in Tree(q) => q = r
    BY <2>1, OneClient
  <2>3. T(r) # F(r)
    BY <1>1, <2>1
  <2> HIDE DEF T, F
  <2>4. /\ [q \in Roots |-> T(q)]' = [[q \in Roots |-> T(q)] EXCEPT ![r] = @ \cup {b}]
        /\ [q \in Roots |-> F(q)]' = [q \in Roots |-> F(q)]
    BY <1>5, <2>1, <2>2
  <2> QED
    BY <1>1, <1>5, <2>1, <2>3, <2>4 DEF Promise!Branch, T, F
<1>7. CASE ~ \E r \in Roots : i \in Tree(r)
  <2> HIDE DEF T, F
  <2>1. /\ [q \in Roots |-> T(q)]' = [q \in Roots |-> T(q)]
        /\ [q \in Roots |-> F(q)]' = [q \in Roots |-> F(q)]
    BY <1>5, <1>7
  <2> QED
    BY <1>1, <2>1 DEF Promise!vars, T, F
<1> QED
  BY <1>6, <1>7

\* finishmain is what BranchJoin calls serving a member of the tree.
LEMMA FinishMainServes ==
  ASSUME PromiseInv, NEW i \in Ids, FinishMain(i)
  PROVE  (\E r \in Roots : Promise!Serve(r, i)) \/ UNCHANGED Promise!vars
<1> USE ConstantsAssumption DEF Ids, PromiseInv
<1>1. /\ stage[i] = "replied" /\ TypeOK
      /\ stage' = [stage EXCEPT ![i] = "finished"]
      /\ above' = above /\ reply' = reply
  BY DEF FinishMain, supplier, IInv
<1>2. \A c \in Ids : stage'[c] = IF c = i THEN "finished" ELSE stage[c]
  BY <1>1 DEF TypeOK
<1>3. \A q \in Roots : Tree(q) \subseteq Ids /\ Tree(q)' = Tree(q)
  BY <1>1 DEF Tree
<1> DEFINE T(q) == {c \in Tree(q) : stage[c] # "unused"}
           F(q) == {c \in Tree(q) : stage[c] = "finished"}
<1>4. \A q \in Roots : /\ T(q)' = T(q)
                       /\ F(q)' = IF i \in Tree(q) THEN F(q) \cup {i} ELSE F(q)
                       /\ i \in Tree(q) => i \in T(q) \ F(q)
  BY <1>1, <1>2, <1>3
<1> HIDE DEF T, F
<1>5. CASE \E r \in Roots : i \in Tree(r)
  <2>1. PICK r \in Roots : i \in Tree(r)
    BY <1>5
  <2>2. \A q \in Roots : i \in Tree(q) => q = r
    BY <2>1, OneClient
  <2>3. /\ [q \in Roots |-> T(q)]' = [q \in Roots |-> T(q)]
        /\ [q \in Roots |-> F(q)]' = [[q \in Roots |-> F(q)] EXCEPT ![r] = @ \cup {i}]
    BY <1>4, <2>1, <2>2
  <2> QED
    BY <1>1, <1>4, <2>1, <2>3 DEF Promise!Serve, T, F
<1>6. CASE ~ \E r \in Roots : i \in Tree(r)
  <2>1. /\ [q \in Roots |-> T(q)]' = [q \in Roots |-> T(q)]
        /\ [q \in Roots |-> F(q)]' = [q \in Roots |-> F(q)]
    BY <1>4, <1>6
  <2> QED
    BY <1>1, <2>1 DEF Promise!vars, T, F
<1> QED
  BY <1>5, <1>6

\* res.send hands the client the whole tree, each body once, the first time.
LEMMA AnswerAnswers ==
  ASSUME PromiseInv, NEW r \in Roots, Answer(r) PROVE Promise!Answer(r)
<1> USE ConstantsAssumption DEF Ids, PromiseInv
<1>1. /\ emitting = r /\ reply' = [reply EXCEPT ![r] = results[r]]
      /\ UNCHANGED <<stage, above>> /\ TypeOK /\ emits[r] = 1
  BY DEF Answer, supplier, IInv, CompleteIsClosed
<1>2. \A i \in Tree(r) : stage[i] = "finished"
  BY <1>1 DEF IInv, CompleteIsClosed, Tree
<1> DEFINE T(q) == {c \in Tree(q) : stage[c] # "unused"}
           F(q) == {c \in Tree(q) : stage[c] = "finished"}
<1>3. T(r) = Tree(r) /\ F(r) = T(r) /\ T(r) # {}
  <2>1. r \in Tree(r)
    BY DEF Tree
  <2> QED
    BY <1>2, <2>1
<1>4. \A q \in Roots : T(q)' = T(q) /\ F(q)' = F(q)
  BY <1>1 DEF Tree
<1>5. reply[r] = Nothing
  BY <1>1 DEF RepliesFollow
<1>6. results[r] = [i \in Ids |-> IF i \in T(r) THEN 1 ELSE 0]
  <2>1. \A i \in Ids : results[r][i] = One(i \in Tree(r))
    BY <1>1, WholeResults
  <2>2. results[r] \in [Ids -> Nat]
    BY <1>1 DEF TypeOK
  <2>3. \A i \in Ids : results[r][i] = IF i \in T(r) THEN 1 ELSE 0
    BY <1>3, <2>1 DEF One
  <2> HIDE DEF T
  <2> QED
    BY <2>2, <2>3
<1> HIDE DEF T, F
<1>7. reply' = [reply EXCEPT ![r] = [i \in Ids |-> IF i \in T(r) THEN 1 ELSE 0]]
  BY <1>1, <1>6
<1>8. /\ [q \in Roots |-> T(q)]' = [q \in Roots |-> T(q)]
      /\ [q \in Roots |-> F(q)]' = [q \in Roots |-> F(q)]
  BY <1>4
<1>9. [q \in Roots |-> T(q)][r] = T(r) /\ [q \in Roots |-> F(q)][r] = F(r)
  OBVIOUS
<1> QED
  BY <1>3, <1>5, <1>7, <1>8, <1>9
     DEF Promise!Answer, Promise!NoReply, Promise!Ids, Nothing, T, F

\* Merging a branch is the bay's own business.
LEMMA FinishBranchStutters ==
  ASSUME NEW b \in Branches, FinishBranch(b) PROVE UNCHANGED Promise!vars
BY DEF FinishBranch, supplier, Promise!vars, Tree

\* The bay keeps the promise of BranchJoin, for any number of requests that
\* branch however deep and whatever the network loses or reorders.
THEOREM PromiseKept == Spec => KeepsPromise
<1>1. Init => Promise!Init
  <2> SUFFICES ASSUME Init PROVE Promise!Init
    OBVIOUS
  <2>1. \A r \in Roots : Tree(r) \subseteq Ids
    BY DEF Tree, Ids
  <2>2. \A r \in Roots : /\ {i \in Tree(r) : stage[i] # "unused"} = {}
                         /\ {i \in Tree(r) : stage[i] = "finished"} = {}
    BY <2>1 DEF Init
  <2> QED
    BY <2>2 DEF Init, Promise!Init, Promise!NoReply, Promise!Ids, Nothing, Ids
<1>2. PromiseInv /\ [Next]_vars => [Promise!Next]_(Promise!vars)
  <2> SUFFICES ASSUME PromiseInv, [Next]_vars
               PROVE  Promise!Next \/ UNCHANGED Promise!vars
    OBVIOUS
  <2> USE DEF Promise!Next, Promise!Ids, Ids
  <2>1. IInv
    BY DEF PromiseInv
  <2>2. ASSUME NEW i \in Ids, Supplier(i)
        PROVE  Promise!Next \/ UNCHANGED Promise!vars
    BY <2>1, <2>2, QuietSteps, QuietStutters, BranchEventBranches DEF Supplier
  <2>3. CASE Bay
    BY <2>1, <2>3, QuietSteps, QuietStutters, AcceptAsks, AnswerAnswers,
       FinishMainServes, FinishBranchStutters DEF Bay
  <2>4. CASE Network
    BY <2>1, <2>4, QuietSteps, QuietStutters DEF Network
  <2>5. CASE UNCHANGED vars
    BY <2>1, <2>5, QuietSteps, QuietStutters
  <2> QED
    BY <2>2, <2>3, <2>4, <2>5 DEF Next
<1> QED
  BY <1>1, <1>2, ResultsAreTrees, PTL DEF Spec, KeepsPromise, Promise!Spec

=============================================================================
