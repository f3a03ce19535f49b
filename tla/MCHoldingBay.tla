---------------------------- MODULE MCHoldingBay ----------------------------
(* Four requests at a time: one client and three branches, or two clients    *)
(* and two branches between them.                                            *)
EXTENDS HoldingBay

CONSTANTS r1, r2, b1, b2, b3

MCRoots == {r1, r2}
MCBranches == {b1, b2, b3}
MaxIds == 4

Bounded == Cardinality({i \in Ids : stage[i] # "unused"}) <= MaxIds
=============================================================================
