----------------------------- MODULE BranchJoin -----------------------------
(***************************************************************************)
(* What the holding bay of the contract worker promises, without a word of *)
(* how it keeps the promise: a request may branch into further requests,   *)
(* which may branch in turn, and its client is answered once, when all of  *)
(* them are served, with what each of them returned, each exactly once.    *)
(*                                                                         *)
(* HoldingBay implements this specification.                               *)
(***************************************************************************)
EXTENDS Naturals

CONSTANTS Roots,      \* the requests clients hand to the bay
          Branches    \* the ids branches are given

VARIABLES tree,       \* root -> the root and its branches so far
          served,     \* root -> the members of the tree that were served
          reply       \* root -> how often each id's body is in the answer

vars == <<tree, served, reply>>

Ids == Roots \cup Branches

NoReply == [i \in Ids |-> 0]

Init ==
    /\ tree = [r \in Roots |-> {}]
    /\ served = [r \in Roots |-> {}]
    /\ reply = [r \in Roots |-> NoReply]

Ask(r) ==
    /\ tree[r] = {}
    /\ tree' = [tree EXCEPT ![r] = {r}]
    /\ UNCHANGED <<served, reply>>

\* Only a request that is still being served can branch.
Branch(r, b) ==
    /\ tree[r] # served[r]
    /\ \A q \in Roots : b \notin tree[q]
    /\ tree' = [tree EXCEPT ![r] = @ \cup {b}]
    /\ UNCHANGED <<served, reply>>

Serve(r, i) ==
    /\ i \in tree[r] \ served[r]
    /\ served' = [served EXCEPT ![r] = @ \cup {i}]
    /\ UNCHANGED <<tree, reply>>

Answer(r) ==
    /\ tree[r] # {}
    /\ served[r] = tree[r]
    /\ reply[r] = NoReply
    /\ reply' = [reply EXCEPT ![r] =
                    [i \in Ids |-> IF i \in tree[r] THEN 1 ELSE 0]]
    /\ UNCHANGED <<tree, served>>

Next ==
    \E r \in Roots :
        \/ Ask(r)
        \/ \E b \in Branches : Branch(r, b)
        \/ \E i \in Ids : Serve(r, i)
        \/ Answer(r)

Spec == Init /\ [][Next]_vars
=============================================================================
