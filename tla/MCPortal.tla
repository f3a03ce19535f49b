----------------------------- MODULE MCPortal -----------------------------
(* A supplier with a radio beside it at client a, and at client b a portal   *)
(* on the top of the tree and one on the container below, all on one         *)
(* switchboard or on two.  The tree is four deep.  Either everything is set  *)
(* up and there are MaxMessages messages, or there is one change with wires, *)
(* subscriptions and the listeners of the lower one that come and go around  *)
(* it.                                                                       *)
EXTENDS Portal

VARIABLE settled   \* which of the two

mcvars == <<vars, settled>>

MCContainers == {"root", "A", "B", "C"}
MCPlace == [root |-> <<>>, A |-> <<"0">>, B |-> <<"0", "1">>,
            C |-> <<"0", "1", "0">>]
MCPortals == {"p", "q", "r"}
MCHome == [p |-> "b", q |-> "b", r |-> "a"]
MCOwn == [p |-> "root", q |-> "A", r |-> "A"]
MCListeners == {<<"deep", "any">>, <<"shallow", "any">>, <<"shallow", "post">>}
MCKeys == {Route(mode, method, t) : mode \in Modes,
               method \in Kinds \cup {"any"}, t \in MCContainers}
          \cup {RadioRoute(t) : t \in MCContainers}

RootSync == Route("deep", "any", "root")
DeepSync == Route("deep", "any", "A")
ShallowSync == Route("shallow", "any", "A")
Appended == Route("shallow", "post", "A")

\* Everybody is connected, to one server or to two that are paired, and every
\* subscription has arrived.
SetUp ==
    /\ \/ at = [c \in Clients |-> "s1"] /\ pairs = [s \in Servers |-> {}]
       \/ /\ at = [c \in Clients |-> IF c = "a" THEN "s1" ELSE "s2"]
          /\ pairs = [s \in Servers |-> Servers \ {s}]
    /\ linked = Clients
    /\ hooks = stack
    /\ keys = [c \in Clients |-> UNION {hooks[p] : p \in {o \in Portals : Home[o] = c}}]
    /\ subs = keys

MCInit ==
    \/ settled = FALSE /\ PortalInit /\ serial /\ db["C"] = Absent
    \/ /\ settled = TRUE
       /\ \E P \in {{DeepSync}, {ShallowSync, Appended}} :
             stack = [p |-> {RootSync}, q |-> P, r |-> {RadioRoute("A")}]
       /\ SetUp
       /\ LinksInit
       /\ TreeInit
       /\ db["B"] = db["C"]

\* The server of the supplier is the first; the other one is the same.
MCNext ==
    /\ Next
    /\ settled' = settled
    /\ settled =>
          /\ UNCHANGED <<pairs, hooks>>
          /\ closed' = closed \/ ended' # ended
          /\ \A m, o \in DOMAIN log' :
                log'[m].kind = "talk" <=> log'[o].kind = "talk"
    /\ ~settled =>
          /\ at'["a"] \in {Nowhere, "s1"}
          /\ Len(log') <= 1
          /\ \A m \in DOMAIN log' : log'[m].kind # "talk" /\ log'[m].of # "C"
          /\ Appended \notin hooks'["q"]
          /\ \A p \in Portals \ {"q"} : hooks'[p] = {}

MCSpec == MCInit /\ [][MCNext]_mcvars /\ WF_vars(Deliver)
===========================================================================
