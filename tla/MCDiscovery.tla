---------------------------- MODULE MCDiscovery ----------------------------
(* Two servers of one department: two switchboards, each with the device     *)
(* that listens in its process, and a mesh client; or two receptions, with   *)
(* two workers behind them and a client in front; or two web servers and the *)
(* router.                                                                   *)
EXTENDS Discovery, TLC

CONSTANTS s1, s2, l1, l2, l3

MCServers == {s1, s2}
MCListeners == {l1, l2, l3}

MeshSetup ==
    [device |-> (l1 :> "mesh") @@ (l2 :> "sideways") @@ (l3 :> "sideways"),
     own |-> (l1 :> NoServer) @@ (l2 :> s1) @@ (l3 :> s2)]

ReceptionSetup ==
    [device |-> (l1 :> "front") @@ (l2 :> "back") @@ (l3 :> "back"),
     own |-> [l \in MCListeners |-> NoServer]]

WebSetup ==
    [device |-> (l1 :> "router") @@ (l2 :> "none") @@ (l3 :> "none"),
     own |-> [l \in MCListeners |-> NoServer]]

MCSetups == {MeshSetup, ReceptionSetup, WebSetup}
=============================================================================
