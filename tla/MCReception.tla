---------------------------- MODULE MCReception ----------------------------
(* Two departments; one backend mounts the root and then a route below it,   *)
(* the other the contract department, and the same the other way round, with *)
(* a supplier that prepares itself in front.  Requests are for a url below   *)
(* both routes, for the other department and for none, and for a url that a  *)
(* layer takes by case and dot and the reception looks up elsewhere.         *)
EXTENDS Reception, TLC

CONSTANTS b1, b2, q1, q2

At(d, p) == [department |-> d, path |-> p]

Users == At("warehouse", <<"db", "users">>)

MCMounts ==
    (b1 :> <<At("warehouse", <<>>), Users>>)
      @@ (b2 :> <<At("contract", <<>>), Users, At("warehouse", <<>>)>>)

MCSlow == {<<b2, Users>>}

MCAddresses == {At("warehouse", <<"db", "users", "1">>), At("contract", <<>>),
                At(NoDepartment, <<"db">>), At("warehouse", <<"DB", "users.json">>)}

MCAlike == {<<"db", "DB">>, <<"DB", "db">>}

MCDotted == {<<"users", "users.json">>}
=============================================================================
