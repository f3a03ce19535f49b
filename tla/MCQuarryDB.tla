----------------------------- MODULE MCQuarryDB -----------------------------
(* Small collections: one append brings a container with two children, one   *)
(* brings two containers in series; two requests are free to save or delete, *)
(* of which the second comes only when requests come one at a time and       *)
(* nothing fails.                                                            *)
EXTENDS QuarryDB

CONSTANTS c1, c2, c3, c4, c5, r1, r2, r3, r4

MCDocs == {c1, c2, c3, c4, c5}
MCRequests == {r1, r2, r3, r4}
MCItems == (r1 :> <<c1>>) @@ (r2 :> <<c4, c5>>) @@ (r3 :> <<>>) @@ (r4 :> <<>>)
MCKids == [x \in MCDocs |-> IF x = c1 THEN <<c2, c3>> ELSE <<>>]

MayCome(r) == r = r4 => {"serial", "sound"} \subseteq granted

MCNext == (\E r \in Requests : MayCome(r) /\ Arrive(r)) \/ Step

MCSpec == Init /\ [][MCNext]_vars /\ WF_vars(Step)
=============================================================================
