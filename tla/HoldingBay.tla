----------------------------- MODULE HoldingBay -----------------------------
(***************************************************************************)
(* The holding bay of the contract worker (workers/contract.js): a request *)
(* it sends down the supply chain may branch at the supplier, which mints  *)
(* an id per branch, names it in the headers of its RPC response and       *)
(* announces it to the bay over the switchboard (resolveevents.js).  The   *)
(* two channels are independent, so a response may overtake the            *)
(* announcements it belongs to, and a branch may be answered before the    *)
(* request it branched from.  The bay counts three events per branch - it  *)
(* was announced, it was named in the response, it is complete - and       *)
(* emits 'complete' on a request when none of its counters is below three. *)
(*                                                                         *)
(* The supplier's reply to id i carries one body, written i: a list of     *)
(* results is the number of times it holds each body, its order is not     *)
(* modelled.  'complete' is emitted synchronously and its listener may     *)
(* emit it on the request above: `emitting` is the one on the call stack,  *)
(* and no other handler of the bay runs until the stack is empty.          *)
(***************************************************************************)
EXTENDS Naturals, FiniteSets

CONSTANTS Roots,      \* ids of the requests the contract resolver hands over
          Branches,   \* ids the suppliers can mint
          NoId        \* no request at all

ASSUME ConstantsAssumption ==
    /\ Roots \cap Branches = {}
    /\ NoId \notin Roots \cup Branches

Ids == Roots \cup Branches

Stages == {"unused",    \* the id is not in use
           "minted",    \* a supplier announced it, the bay has not heard it
           "held",      \* the bay knows the request and has not sent it yet
           "sent",      \* on its way to a supplier
           "serving",   \* the supplier is resolving it
           "replied",   \* the response is on its way back
           "finished",  \* the bay has run finishmain
           "lost"}      \* the network lost the request or its response

VARIABLES
    stage,      \* id -> where the request and its response are
    header,     \* id -> x-json-branches of its response
    announces,  \* branch messages in the switchboard
    requests,   \* the bay's table: the ids factory() has been called for
    parent,     \* branch -> the request whose addbranch created it
    count,      \* id -> branch -> branches[id] of resolving_req, 0 if absent
    results,    \* id -> id -> copies of a body in resolving_req.results
    emitting,   \* the request emitting 'complete', or NoId
    emits,      \* id -> how often it emitted 'complete' (history)
    reply,      \* root -> what res.send gave its client
    above       \* branch -> the requests it descends from (history)

bay == <<requests, parent, count, results, emitting, emits, reply>>
supplier == <<header, above>>
vars == <<stage, announces, bay, supplier>>

Announce(i, b) == [requestid |-> i, newid |-> b]

Nothing == [i \in Ids |-> 0]

Init ==
    /\ stage = [i \in Ids |-> "unused"]
    /\ header = [i \in Ids |-> {}]
    /\ announces = {}
    /\ requests = {}
    /\ parent = [b \in Branches |-> NoId]
    /\ count = [i \in Ids |-> [b \in Branches |-> 0]]
    /\ results = [i \in Ids |-> Nothing]
    /\ emitting = NoId
    /\ emits = [i \in Ids |-> 0]
    /\ reply = [r \in Roots |-> Nothing]
    /\ above = [b \in Branches |-> {}]

-----------------------------------------------------------------------------
(* The supplier, resolving a request: resolveevents.js. *)

Serve(i) ==
    /\ stage[i] = "sent"
    /\ stage' = [stage EXCEPT ![i] = "serving"]
    /\ UNCHANGED <<announces, bay, supplier>>

\* One result has a branch event: mint an id, name it in the response's
\* headers, announce it to the bay.
BranchEvent(i, b) ==
    /\ stage[i] = "serving"
    /\ stage[b] = "unused"
    /\ stage' = [stage EXCEPT ![b] = "minted"]
    /\ header' = [header EXCEPT ![i] = @ \cup {b}]
    /\ announces' = announces \cup {Announce(i, b)}
    /\ above' = [above EXCEPT ![b] =
                    {i} \cup (IF i \in Branches THEN above[i] ELSE {})]
    /\ UNCHANGED bay

Respond(i) ==
    /\ stage[i] = "serving"
    /\ stage' = [stage EXCEPT ![i] = "replied"]
    /\ UNCHANGED <<announces, bay, supplier>>

-----------------------------------------------------------------------------
(* The bay: workers/contract.js. *)

\* Variant: two of the three events are taken for all of them.
ResolvedAtTwo(counts) == \A b \in Branches : counts[b] = 0 \/ counts[b] >= 2

\* checkrespond: no counter is between one and two.
Resolved(counts) == \A b \in Branches : counts[b] = 0 \/ counts[b] >= 3

\* emit('complete') on i if checkrespond finds its counters resolved.
CheckRespond(i, counts) ==
    IF Resolved(counts)
    THEN /\ emitting' = i
         /\ emits' = [emits EXCEPT ![i] = @ + 1]
    ELSE /\ emitting' = NoId
         /\ UNCHANGED emits

\* The function given to the contract resolver: factory() for a request of
\* the contract, whose send() is left to the next tick.
Accept(r) ==
    /\ emitting = NoId
    /\ stage[r] = "unused"
    /\ stage' = [stage EXCEPT ![r] = "held"]
    /\ requests' = requests \cup {r}
    /\ UNCHANGED <<announces, parent, count, results, emitting, emits, reply,
                   supplier>>

Send(r) ==
    /\ emitting = NoId
    /\ stage[r] = "held"
    /\ stage' = [stage EXCEPT ![r] = "sent"]
    /\ UNCHANGED <<announces, bay, supplier>>

\* Variant: addbranch without its incrementbranch.
HearBranchUncounted(m) ==
    /\ emitting = NoId
    /\ m.requestid \in requests
    /\ announces' = announces \ {m}
    /\ parent' = [parent EXCEPT ![m.newid] = m.requestid]
    /\ requests' = requests \cup {m.newid}
    /\ stage' = [stage EXCEPT ![m.newid] = "sent"]
    /\ UNCHANGED <<count, results, emitting, emits, reply, supplier>>

\* The switchboard listener.  A request the table does not hold is ignored;
\* otherwise addbranch counts the branch, makes a request of it and sends it.
HearBranch(m) ==
    /\ emitting = NoId
    /\ announces' = announces \ {m}
    /\ IF m.requestid \in requests
       THEN /\ count' = [count EXCEPT ![m.requestid][m.newid] = @ + 1]
            /\ parent' = [parent EXCEPT ![m.newid] = m.requestid]
            /\ requests' = requests \cup {m.newid}
            /\ stage' = [stage EXCEPT ![m.newid] = "sent"]
       ELSE UNCHANGED <<count, parent, requests, stage>>
    /\ UNCHANGED <<results, emitting, emits, reply, supplier>>

\* Variant: the response's headers are not looked at.
FinishMainBlind(i) ==
    /\ emitting = NoId
    /\ stage[i] = "replied"
    /\ stage' = [stage EXCEPT ![i] = "finished"]
    /\ CheckRespond(i, count[i])
    /\ results' = [results EXCEPT ![i][i] = @ + 1]
    /\ UNCHANGED <<announces, requests, parent, count, reply, supplier>>

\* The RPC response: finishmain counts every branch the headers name, keeps
\* the body whatever the status, and checks.
FinishMain(i) ==
    /\ emitting = NoId
    /\ stage[i] = "replied"
    /\ stage' = [stage EXCEPT ![i] = "finished"]
    /\ LET counts == [b \in Branches |->
                        IF b \in header[i] THEN count[i][b] + 1
                        ELSE count[i][b]]
       IN  /\ count' = [count EXCEPT ![i] = counts]
           /\ CheckRespond(i, counts)
    /\ results' = [results EXCEPT ![i][i] = @ + 1]
    /\ UNCHANGED <<announces, requests, parent, reply, supplier>>

\* Variant: the branch's results replace those of the request above.
FinishBranchReplaces(b) ==
    /\ emitting = b
    /\ LET p == parent[b]
           counts == [count[p] EXCEPT ![b] = @ + 1]
       IN  /\ count' = [count EXCEPT ![p] = counts]
           /\ results' = [results EXCEPT ![p] = results[b]]
           /\ CheckRespond(p, counts)
    /\ UNCHANGED <<stage, announces, requests, parent, reply, supplier>>

\* The listener addbranch put on the branch: finishbranch of the request above.
FinishBranch(b) ==
    /\ emitting = b
    /\ LET p == parent[b]
           counts == [count[p] EXCEPT ![b] = @ + 1]
       IN  /\ count' = [count EXCEPT ![p] = counts]
           /\ results' = [results EXCEPT ![p] =
                            [i \in Ids |-> @[i] + results[b][i]]]
           /\ CheckRespond(p, counts)
    /\ UNCHANGED <<stage, announces, requests, parent, reply, supplier>>

\* The listener of the resolver: res.send(results).
Answer(r) ==
    /\ emitting = r
    /\ emitting' = NoId
    /\ reply' = [reply EXCEPT ![r] = results[r]]
    /\ UNCHANGED <<stage, announces, requests, parent, count, results, emits,
                   supplier>>

-----------------------------------------------------------------------------
(* The network may lose: the switchboard is pub/sub, the RPC has no          *)
(* acknowledgement, and neither is retried or timed out.                     *)

LoseMessage(i) ==
    /\ stage[i] \in {"sent", "replied"}
    /\ stage' = [stage EXCEPT ![i] = "lost"]
    /\ UNCHANGED <<announces, bay, supplier>>

LoseAnnounce(m) ==
    /\ announces' = announces \ {m}
    /\ UNCHANGED <<stage, bay, supplier>>

-----------------------------------------------------------------------------
Supplier(i) == Serve(i) \/ (\E b \in Branches : BranchEvent(i, b)) \/ Respond(i)

Bay ==
    \/ \E r \in Roots : Accept(r) \/ Send(r) \/ Answer(r)
    \/ \E m \in announces : HearBranch(m)
    \/ \E i \in Ids : FinishMain(i)
    \/ \E b \in Branches : FinishBranch(b)

Network ==
    \/ \E i \in Ids : LoseMessage(i)
    \/ \E m \in announces : LoseAnnounce(m)

Next == (\E i \in Ids : Supplier(i)) \/ Bay \/ Network

Spec == Init /\ [][Next]_vars

\* What is due once a request is accepted: the handlers of what has arrived, and
\* the supplier's response.
Due ==
    \/ \E r \in Roots : Send(r) \/ Answer(r)
    \/ \E i \in Ids : Serve(i) \/ Respond(i) \/ FinishMain(i)
    \/ \E b \in Branches : FinishBranch(b)
    \/ \E m \in announces : HearBranch(m)

\* What is not lost is delivered and every supplier responds.  Nothing obliges a
\* request to arrive or to branch.  Each of these steps is taken once at most
\* for an id, so that none can wait for ever while others go on.
FairSpec == Spec /\ WF_vars(Due)

-----------------------------------------------------------------------------
Announcements == [requestid : Ids, newid : Branches]

\* The variables keep their types.
TypeOK ==
    /\ stage \in [Ids -> Stages]
    /\ header \in [Ids -> SUBSET Branches]
    /\ announces \in SUBSET Announcements
    /\ requests \in SUBSET Ids
    /\ parent \in [Branches -> Ids \cup {NoId}]
    /\ count \in [Ids -> [Branches -> Nat]]
    /\ results \in [Ids -> [Ids -> Nat]]
    /\ emitting \in Ids \cup {NoId}
    /\ emits \in [Ids -> Nat]
    /\ reply \in [Roots -> [Ids -> Nat]]
    /\ above \in [Branches -> SUBSET Ids]

\* The request and everything that branched from it, however deep.
Tree(i) == {i} \cup {b \in Branches : i \in above[b]}

\* No request is complete, so no client is answered, while a response of its
\* tree is still to come: whichever of response and announcement is first, "the
\* reception dosn't reply early" (resolveevents.js L88-89).
NoEarlyReply ==
    \A i \in Ids : emits[i] > 0 =>
        \A j \in Tree(i) : stage[j] = "finished"

\* 'complete' is emitted at most once per request: the client is answered at
\* most once and no branch is merged into the request above it a second time.
CompleteOnce == \A i \in Ids : emits[i] <= 1

\* A branch announcement that has not arrived has its request in the bay's
\* table and that request is not complete: the listener never drops a branch
\* (contract.js L156-159) and never adds one to a request already answered.
AnnouncementsAwaited ==
    \A m \in announces : m.requestid \in requests /\ emits[m.requestid] = 0

\* Nobody adds to the results of a request once it has been handed on.
HandedOnFinal ==
    [][\A i \in Ids : emits[i] > 0 => results'[i] = results[i]]_vars

(* The inductive invariant from which the safety properties follow.          *)

\* The bay's table holds what it was told of, under the request named with it.
TablesAgree ==
    /\ \A i \in Ids : i \in requests <=> stage[i] \notin {"unused", "minted"}
    /\ \A b \in Branches : parent[b] # NoId <=> b \in requests
    /\ \A b \in Branches : parent[b] # NoId => b \in header[parent[b]]
    /\ \A m \in announces : /\ m.newid \in header[m.requestid]
                            /\ stage[m.newid] = "minted"
    /\ \A r \in Roots : stage[r] # "minted"

\* Branches are named by the one request they came from, once it is served,
\* and descend from it.
HeadersAgree ==
    /\ \A i \in Ids : header[i] # {} =>
            stage[i] \in {"serving", "replied", "finished", "lost"}
    /\ \A i \in Ids : \A b \in header[i] :
            /\ stage[b] # "unused"
            /\ i \in above[b]
            /\ \A j \in Ids : b \in header[j] => i = j

\* A branch below i is named by i or is below one that is.
Lineage ==
    \A b \in Branches : \A i \in above[b] :
        b \in header[i] \/ \E c \in header[i] : c \in above[b]

\* Whether branch b is merged into the request it came from.
Joined(b) == emits[b] = 1 /\ emitting # b

\* Each counter is the number of its three events that have happened.
One(condition) == IF condition THEN 1 ELSE 0

CountersCount ==
    \A p \in Ids, b \in Branches :
        count[p][b] = One(parent[b] = p)
                      + One(b \in header[p] /\ stage[p] = "finished")
                      + One(parent[b] = p /\ Joined(b))

\* A complete request is finished and its branches are merged into it.
CompleteIsClosed ==
    /\ \A i \in Ids : emits[i] \in {0, 1}
    /\ emitting # NoId => emits[emitting] = 1
    /\ \A i \in Ids : emits[i] = 1 =>
            /\ stage[i] = "finished"
            /\ \A b \in header[i] : Joined(b)
            /\ \A b \in Branches : i \in above[b] => emits[b] = 1

IInv ==
    /\ TypeOK
    /\ TablesAgree
    /\ HeadersAgree
    /\ Lineage
    /\ CountersCount
    /\ CompleteIsClosed

(* What the invariant must say besides, to show that the bay keeps the       *)
(* promise of BranchJoin.                                                    *)

\* A branch descends from the request that named it and from all that one
\* descends from: requests are the nodes of a forest.
Ancestry ==
    /\ \A b \in Branches : b \notin above[b]
    /\ \A i \in Ids : \A b \in header[i] :
            above[b] = {i} \cup (IF i \in Branches THEN above[i] ELSE {})
    /\ \A b \in Branches : \A c \in above[b] :
            c \in Branches => above[c] \subseteq above[b]
    /\ \A b \in Branches : \A i, j \in above[b] :
            \/ i = j
            \/ i \in Branches /\ j \in above[i]
            \/ j \in Branches /\ i \in above[j]

\* A request holds its own body once its response is in, and one copy of each
\* body of the branches merged into it.
ResultsHold ==
    \A i, j \in Ids :
        results[i][j] = One(j = i /\ stage[i] = "finished")
                        + One(\E b \in header[i] : Joined(b) /\ j \in Tree(b))

\* A client has its answer only when its request has completed and the listener
\* of the resolver has run.
RepliesFollow ==
    \A r \in Roots : reply[r] = Nothing \/ (emits[r] = 1 /\ emitting # r)

\* The inductive invariant of the refinement: whatever the order of what arrives,
\* what a request holds is what was merged into it, each body once
\* (contract.js, finishmain and finishbranch).
PromiseInv == IInv /\ Ancestry /\ ResultsHold /\ RepliesFollow

\* A message of the tree is lost: a request, a response, or the announcement of
\* a branch the bay has not heard.
LostBelow(r) ==
    \E i \in Tree(r) :
        \/ stage[i] = "lost"
        \/ stage[i] = "minted" /\ \A m \in announces : m.newid # i

\* A client that has been accepted is answered, unless a message of its own
\* tree is lost: nobody else's loss, and no order of what arrives, keeps it.
EveryRootAnswered ==
    \A r \in Roots : stage[r] = "held" ~> reply[r] # Nothing \/ LostBelow(r)

\* The bay keeps the promise of BranchJoin: an answer holds each body of the
\* whole tree exactly once.
Promise == INSTANCE BranchJoin WITH
    tree <- [r \in Roots |-> {i \in Tree(r) : stage[i] # "unused"}],
    served <- [r \in Roots |-> {i \in Tree(r) : stage[i] = "finished"}]

KeepsPromise == Promise!Spec
=============================================================================
