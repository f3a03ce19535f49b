----------------------------- MODULE Discovery -----------------------------
(***************************************************************************)
(* How the jobs of a stack find the servers of one department              *)
(* (network/tools/dns.js and heartbeat.js): a server broadcasts a message  *)
(* with its addresses once a second over the switchboard of the HQ, and a  *)
(* job that listens keeps a table of them, tells its device of the servers *)
(* that are new to the table, and looks once a second for entries that     *)
(* have not been renewed for `Worry' seconds.  Five devices listen:        *)
(*                                                                         *)
(*   mesh      a switchboard client, which picks one server                *)
(*             (switchboard/meshclient.js)                                 *)
(*   sideways  a switchboard server, which pairs with the others           *)
(*             (switchboard/meshserver.js)                                 *)
(*   front     a client of the receptions (reception/frontclient.js)       *)
(*   back      a worker behind the receptions (reception/backclient.js)    *)
(*   router    the proxy in front of the web servers (http/router.js)      *)
(*                                                                         *)
(* The table goes by the id of a message, and what the jobs register has   *)
(* none (IdOf).  A server that restarts is another server: its addresses   *)
(* are new.  Time is counted in seconds: a Tick ends one, and in each      *)
(* second every server that runs has broadcast and is heard.               *)
(***************************************************************************)
EXTENDS Naturals, FiniteSets

CONSTANTS Servers,   \* of the one department
          Listeners,
          Setups,    \* who listens: the device of each listener, and the
                     \* server in the process of a sideways one
          Worry,     \* worrydelay, in seconds
          NoServer, NoId

Devices == {"mesh", "sideways", "front", "back", "router"}

ASSUME ConstantsAssumption ==
    /\ NoServer \notin Servers
    /\ Setups \subseteq [device : [Listeners -> Devices \cup {"none"}],
                         own : [Listeners -> Servers \cup {NoServer}]]
    /\ \A s \in Setups : \A l \in Listeners :
           s.device[l] = "sideways" <=> s.own[l] # NoServer
    /\ Worry \in Nat \ {0, 1, 2}  \* dns.js throws on less

VARIABLES
    setup,     \* who listens here
    server,    \* server -> "off", "up" or "gone"
    beaten,    \* the servers that have broadcast in this second
    wire,      \* messages in the switchboard of the HQ
    listener,  \* listener -> "off", "on", or "dead" of an exception
    heard,     \* listener -> id -> the last server heard under it
    age,       \* listener -> id -> seconds since then, up to Worry + 1
    pool,      \* mesh listener -> id -> the server added under it
    picking,   \* mesh listeners whose timer before the pick runs
    linked,    \* listener -> the servers its wires lead to
    silence    \* seconds that ended without a server up, up to Worry + 1
               \* (history)

servers == <<server, beaten>>
table == <<heard, age>>
devices == <<pool, picking, linked>>
vars == <<setup, servers, wire, listener, table, devices, silence>>

\* The id of a message: the endpoints of receptions and switchboards hold none,
\* and nothing on the way puts one in.
IdOf(s) == NoId

Keys == {IdOf(s) : s \in Servers}

Device(l) == setup.device[l]

Own(l) == setup.own[l]

Init ==
    /\ setup \in Setups
    /\ server = [s \in Servers |-> "off"]
    /\ beaten = {}
    /\ wire = {}
    /\ listener = [l \in Listeners |-> "off"]
    /\ heard = [l \in Listeners |-> [k \in Keys |-> NoServer]]
    /\ age = [l \in Listeners |-> [k \in Keys |-> 0]]
    /\ pool = [l \in Listeners |-> [k \in Keys |-> NoServer]]
    /\ picking = {}
    /\ linked = [l \in Listeners |-> {}]
    /\ silence = 0

Up == {s \in Servers : server[s] = "up"}

On == {l \in Listeners : listener[l] = "on"}

-----------------------------------------------------------------------------
(* Servers and time.                                                         *)

\* switchboard.broadcast of the addresses: a copy for everyone who listens.
Broadcast(s) ==
    /\ beaten' = beaten \cup {s}
    /\ wire' = wire \cup [to : On, from : {s}]

\* The first beat.
Start(s) ==
    /\ server[s] = "off"
    /\ server' = [server EXCEPT ![s] = "up"]
    /\ Broadcast(s)
    /\ UNCHANGED <<setup, listener, table, devices, silence>>

Beat(s) ==
    /\ s \in Up \ beaten
    /\ Broadcast(s)
    /\ UNCHANGED <<setup, server, listener, table, devices, silence>>

\* The device that listens in the process of a switchboard goes with it.
Crash(s) ==
    /\ s \in Up
    /\ server' = [server EXCEPT ![s] = "gone"]
    /\ listener' = [l \in Listeners |-> IF Own(l) = s THEN "off" ELSE listener[l]]
    /\ wire' = {m \in wire : Own(m.to) # s}
    /\ UNCHANGED <<setup, beaten, table, devices, silence>>

Capped(n) == IF n > Worry THEN n ELSE n + 1

Tick ==
    /\ wire = {}
    /\ Up \subseteq beaten
    /\ beaten' = {}
    /\ age' = [l \in Listeners |-> [k \in Keys |-> Capped(age[l][k])]]
    /\ silence' = IF Up = {} THEN Capped(silence) ELSE 0
    /\ UNCHANGED <<setup, server, wire, listener, heard, devices>>

-----------------------------------------------------------------------------
(* Listeners.                                                                *)

Listen(l) ==
    /\ listener[l] = "off"
    /\ Device(l) # "none"
    /\ Own(l) # NoServer => server[Own(l)] = "up"
    /\ listener' = [listener EXCEPT ![l] = "on"]
    /\ UNCHANGED <<setup, servers, wire, table, devices, silence>>

\* Variant: no timer is started.
AddToMeshOnly(l, s) ==
    /\ pool' = [pool EXCEPT ![l][IdOf(s)] = s]
    /\ UNCHANGED <<picking, linked>>

\* addconnection of meshclient.js: the timer is started once, since the id that
\* is picked is no id.
AddToMesh(l, s) ==
    /\ pool' = [pool EXCEPT ![l][IdOf(s)] = s]
    /\ picking' = IF linked[l] = {} THEN picking \cup {l} ELSE picking
    /\ UNCHANGED linked

\* addswitchboard: not itself, and one pair to an id.
AddSideways(l, s) ==
    /\ linked' = IF s = Own(l) THEN linked
                 ELSE [linked EXCEPT ![l] =
                           {q \in @ : IdOf(q) # IdOf(s)} \cup {s}]
    /\ UNCHANGED <<pool, picking>>

\* addconnection of frontclient.js: a wire is plugged in once.
AddToFront(l, s) ==
    /\ linked' = [linked EXCEPT ![l] = IF @ = {} THEN {s} ELSE @]
    /\ UNCHANGED <<pool, picking>>

\* addconnection of backclient.js: a wire for every reception.
AddToBack(l, s) ==
    /\ linked' = [linked EXCEPT ![l] = @ \cup {s}]
    /\ UNCHANGED <<pool, picking>>

\* addweb: the server is one more route for each of its domains.
AddRoute(l, s) ==
    /\ linked' = [linked EXCEPT ![l] = @ \cup {s}]
    /\ UNCHANGED <<pool, picking>>

Added(l, s) ==
    \/ Device(l) = "mesh" /\ AddToMesh(l, s)
    \/ Device(l) = "sideways" /\ AddSideways(l, s)
    \/ Device(l) = "front" /\ AddToFront(l, s)
    \/ Device(l) = "back" /\ AddToBack(l, s)
    \/ Device(l) = "router" /\ AddRoute(l, s)

\* Variant: an entry keeps the time it was made.
RenewedOnce(l, k) ==
    IF heard[l][k] = NoServer THEN [age EXCEPT ![l][k] = 0] ELSE age

\* message.timestamp.
Renewed(l, k) == [age EXCEPT ![l][k] = 0]

\* The listener of dns.js: the device is told of a server whose id is not in
\* the table.
Hear(m) ==
    /\ m \in wire
    /\ wire' = wire \ {m}
    /\ LET l == m.to
           k == IdOf(m.from)
       IN  /\ heard' = [heard EXCEPT ![l][k] = m.from]
           /\ age' = Renewed(l, k)
           /\ \/ heard[l][k] = NoServer /\ Added(l, m.from)
              \/ heard[l][k] # NoServer /\ UNCHANGED devices
    /\ UNCHANGED <<setup, servers, listener, silence>>

\* pickconnection: wires to any server of the pool, in place of those there
\* were.
Pick(l) ==
    /\ l \in picking
    /\ \E k \in Keys :
           /\ pool[l][k] # NoServer
           /\ linked' = [linked EXCEPT ![l] = {pool[l][k]}]
    /\ picking' = picking \ {l}
    /\ UNCHANGED <<setup, servers, wire, listener, table, pool, silence>>

IsStale(l, k) == heard[l][k] # NoServer /\ age[l][k] > Worry

\* check(): the entry is looked up in the table of departments, where there is
\* none under its id, so that the device is told of undefined and the entry
\* stays.  backclient.js reads the id of undefined and removeweb its domains,
\* and both throw, in a timer; the others do nothing.
Check(l) ==
    /\ l \in On
    /\ \E k \in Keys : IsStale(l, k)
    /\ Device(l) \in {"back", "router"}
    /\ listener' = [listener EXCEPT ![l] = "dead"]
    /\ wire' = {m \in wire : m.to # l}
    /\ UNCHANGED <<setup, servers, table, devices, silence>>

-----------------------------------------------------------------------------
\* What goes on as long as nothing new happens.
Goes ==
    \/ Tick
    \/ \E s \in Servers : Beat(s)
    \/ \E m \in wire : Hear(m)

Next ==
    \/ \E s \in Servers : Start(s) \/ Crash(s)
    \/ \E l \in Listeners : Listen(l) \/ Pick(l) \/ Check(l)
    \/ Goes

Spec == Init /\ [][Next]_vars

\* Timers fire and broadcasts arrive.
FairSpec ==
    /\ Spec
    /\ WF_vars(Tick)
    /\ \A s \in Servers : WF_vars(Beat(s))
    /\ WF_vars(\E m \in wire : Hear(m))
    /\ \A l \in Listeners : WF_vars(Pick(l)) /\ WF_vars(Check(l))

-----------------------------------------------------------------------------
\* The variables keep their types.
TypeOK ==
    /\ setup \in Setups
    /\ server \in [Servers -> {"off", "up", "gone"}]
    /\ beaten \subseteq Servers
    /\ wire \subseteq [to : Listeners, from : Servers]
    /\ listener \in [Listeners -> {"off", "on", "dead"}]
    /\ heard \in [Listeners -> [Keys -> Servers \cup {NoServer}]]
    /\ age \in [Listeners -> [Keys -> 0..Worry + 1]]
    /\ pool \in [Listeners -> [Keys -> Servers \cup {NoServer}]]
    /\ picking \subseteq Listeners
    /\ linked \in [Listeners -> SUBSET Servers]
    /\ silence \in 0..Worry + 1

\* check() worries only after no server of the department was up for Worry
\* seconds: a missed second, a late message or another server's crash is no
\* reason ("the map client worry delay must be at least 3 times the talk
\* delay", dns.js L56-58).
NoFalseAlarm ==
    /\ TypeOK
    /\ \A l \in On : (\E k \in Keys : IsStale(l, k)) => silence >= Worry

\* A mesh client, a front client, a worker or a router that listens gets wires
\* to a server once one is up and stays.
ListenerConnects ==
    \A l \in Listeners : Device(l) # "sideways" =>
        (listener[l] = "on" /\ Up # {} ~> linked[l] # {} \/ Up = {}
                                            \/ listener[l] = "dead")

(* What the code says of itself.                                             *)

\* "yikes - we have lost our current selection, get another one if possible"
\* (meshclient.js L168-169): a mesh client does not stay on a switchboard that
\* is gone while another is up.
MeshMovesOn ==
    \A l \in Listeners : Device(l) = "mesh" =>
        (linked[l] # {} /\ linked[l] \cap Up = {} /\ Up # {}
             ~> linked[l] \cap Up # {} \/ Up = {})
=============================================================================
