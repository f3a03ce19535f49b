---------------------------- MODULE Switchboard ----------------------------
(***************************************************************************)
(* The switchboards of a stack and their clients (network/device/          *)
(* switchboard/client.js, meshclient.js, meshserver.js).  A client that    *)
(* broadcasts publishes to the one server it has picked; the server        *)
(* publishes to its own clients and to the servers it is paired with,      *)
(* which publish to theirs and no further.  Links keep the order of each   *)
(* sender, and a client gets of them what it has subscribed to.            *)
(*                                                                         *)
(* The sockets are zeromq: what is published before the other end has      *)
(* connected, or has the subscription, is lost.  Which servers a client    *)
(* or a server hears of is the subject of Discovery: a client picks once   *)
(* and a server pairs once, since heartbeats carry no id.                  *)
(***************************************************************************)
EXTENDS SequencesExt

CONSTANTS Servers, Clients,
          Keys,       \* routing keys: sequences of what is between the dots
          Bodies,     \* what a packet may hold
          Nowhere     \* the dummy wires of a client that has not picked yet

ASSUME MeshAssumption ==
    /\ Nowhere \notin Servers
    /\ Keys \subseteq Seq(STRING)

VARIABLES
    at,       \* client -> the server its wires lead to
    linked,   \* the clients whose pub wire has connected
    pairs,    \* server -> the servers it publishes to sideways
    keys,     \* client -> the routing keys it has callbacks for
    subs,     \* client -> those of them its server knows of
    up,       \* packets on the way to the server of their sender
    side,     \* server -> packets on the way to its sideways wire
    down,     \* client -> packets on the way to it
    sent,     \* client -> how many packets it has broadcast (history)
    heard     \* client -> sender -> the last packet of it (history)

wiring == <<at, linked, pairs, keys, subs>>
links == <<up, side, down>>
mesh == <<wiring, links, sent, heard>>

Packet == [from : Clients, n : Nat \ {0}, key : Keys, body : Bodies]

WiresInit ==
    /\ at = [c \in Clients |-> Nowhere]
    /\ linked = {}
    /\ pairs = [s \in Servers |-> {}]
    /\ keys = [c \in Clients |-> {}]
    /\ subs = [c \in Clients |-> {}]

LinksInit ==
    /\ up = {}
    /\ side = [s \in Servers |-> {}]
    /\ down = [c \in Clients |-> {}]
    /\ sent = [c \in Clients |-> 0]
    /\ heard = [c \in Clients |-> [d \in Clients |-> 0]]

MeshInit == WiresInit /\ LinksInit

-----------------------------------------------------------------------------
(* Wires *)

\* A timer after the first heartbeat: the client gets wires to a server and
\* subscribes again to all it listens to, which the server has yet to hear of.
Pick(c, s) ==
    /\ at[c] = Nowhere
    /\ at' = [at EXCEPT ![c] = s]
    /\ UNCHANGED <<linked, pairs, keys, subs, links, sent, heard>>

\* Another server is told of: its sideways wire gets a publisher here.
Pair(s, t) ==
    /\ t # s
    /\ pairs[s] = {}
    /\ pairs' = [pairs EXCEPT ![s] = {t}]
    /\ UNCHANGED <<at, linked, keys, subs, links, sent, heard>>

Listen(c, k) ==
    /\ keys' = [keys EXCEPT ![c] = @ \cup {k}]
    /\ UNCHANGED <<at, linked, pairs, subs, links, sent, heard>>

Subscribed(c, k) ==
    /\ at[c] # Nowhere
    /\ k \in keys[c] \ subs[c]
    /\ subs' = [subs EXCEPT ![c] = @ \cup {k}]
    /\ UNCHANGED <<at, linked, pairs, keys, links, sent, heard>>

-----------------------------------------------------------------------------
(* Packets *)

\* Variant: the wires of a client keep no order.
AnyOf(link, x) == x \in link

\* x is next on a link: nothing of the same sender is before it.
First(link, x) ==
    /\ x \in link
    /\ \A y \in link : y.from = x.from => x.n <= y.n

\* The packets of the keys ks, numbered on, the first `lost' of them left out.
Sendings(d, ks, body, lost) ==
    {[from |-> d, n |-> sent[d] + i, key |-> ks[i], body |-> body] :
        i \in (lost + 1)..Len(ks)}

\* One turn of the event loop broadcasts body to the keys ks, in this order.
\* Without wires it is all lost, and so is what comes before the pub wire has
\* connected.
Broadcast(d, ks, body) ==
    /\ ks # <<>>
    /\ \E lost \in 0..Len(ks) :
          /\ d \in linked => lost = 0
          /\ at[d] = Nowhere => lost = Len(ks)
          /\ up' = up \cup Sendings(d, ks, body, lost)
          /\ linked' = IF lost < Len(ks) THEN linked \cup {d} ELSE linked
    /\ sent' = [sent EXCEPT ![d] = @ + Len(ks)]
    /\ UNCHANGED <<at, pairs, keys, subs, side, down, heard>>

\* A server's pub wire: to every client with a subscription that is a prefix.
Published(s, x) ==
    [c \in Clients |->
        IF at[c] = s /\ \E k \in subs[c] : IsPrefix(k, x.key)
        THEN down[c] \cup {x} ELSE down[c]]

\* Variant: the other servers are left out.
ServerKeeps(x) ==
    /\ First(up, x)
    /\ up' = up \ {x}
    /\ down' = Published(at[x.from], x)
    /\ UNCHANGED <<wiring, side, sent, heard>>

\* sub.on('message') of a server.
ServerHears(x) ==
    /\ First(up, x)
    /\ up' = up \ {x}
    /\ down' = Published(at[x.from], x)
    /\ side' = [t \in Servers |->
                   IF t \in pairs[at[x.from]] THEN side[t] \cup {x}
                   ELSE side[t]]
    /\ UNCHANGED <<wiring, sent, heard>>

\* Variant: what comes sideways is passed on sideways, too.
SidewaysGoesOn(s, x) ==
    /\ First(side[s], x)
    /\ side' = [t \in Servers |->
                   IF t \in pairs[s] THEN side[t] \cup {x}
                   ELSE IF t = s THEN side[t] \ {x} ELSE side[t]]
    /\ down' = Published(s, x)
    /\ UNCHANGED <<wiring, up, sent, heard>>

\* sidewayssub.on('message') of a server, which passes it on to its clients
\* only.
SidewaysHears(s, x) ==
    /\ First(side[s], x)
    /\ side' = [side EXCEPT ![s] = @ \ {x}]
    /\ down' = Published(s, x)
    /\ UNCHANGED <<wiring, up, sent, heard>>

\* sub.on('message') of a client; whom it calls is up to who listens.
Take(c, x) ==
    /\ First(down[c], x)
    /\ down' = [down EXCEPT ![c] = @ \ {x}]
    /\ heard' = [heard EXCEPT ![c] = [@ EXCEPT ![x.from] = x.n]]
    /\ UNCHANGED <<wiring, up, side, sent>>

\* What the servers and the sockets do, whoever the clients are.
Carry ==
    \/ \E x \in up : ServerHears(x)
    \/ \E s \in Servers : \E x \in side[s] : SidewaysHears(s, x)

Wire ==
    \/ \E c \in Clients, s \in Servers : Pick(c, s)
    \/ \E s, t \in Servers : Pair(s, t)
    \/ \E c \in Clients : \E k \in keys[c] : Subscribed(c, k)

MeshNext ==
    \/ Wire
    \/ Carry
    \/ \E c \in Clients, k \in Keys : Listen(c, k)
    \/ \E d \in Clients, ks \in Seq(Keys), body \in Bodies :
          Broadcast(d, ks, body)
    \/ \E c \in Clients : \E x \in down[c] : Take(c, x)

MeshSpec == MeshInit /\ [][MeshNext]_mesh

-----------------------------------------------------------------------------
(* Properties *)

MeshTypeOK ==
    /\ at \in [Clients -> Servers \cup {Nowhere}]
    /\ linked \subseteq Clients
    /\ pairs \in [Servers -> SUBSET Servers]
    /\ keys \in [Clients -> SUBSET Keys]
    /\ subs \in [Clients -> SUBSET Keys]
    /\ up \subseteq Packet
    /\ side \in [Servers -> SUBSET Packet]
    /\ down \in [Clients -> SUBSET Packet]
    /\ sent \in [Clients -> Nat]
    /\ heard \in [Clients -> [Clients -> Nat]]

\* The packets of a sender take one way to each client, and what comes
\* sideways to a server was not sent by its own clients (meshserver.js).
OneWay ==
    /\ \A s \in Servers : s \notin pairs[s]
    /\ \A x \in up : at[x.from] # Nowhere
    /\ \A s \in Servers : \A x \in side[s] : at[x.from] \notin {s, Nowhere}
    /\ \A c \in Clients : \A x \in down[c] : at[x.from] # Nowhere
    /\ \A c \in Clients : at[c] = Nowhere =>
          down[c] = {} /\ \A d \in Clients : heard[c][d] = 0

Numbered(link) ==
    \A x, y \in link : x.from = y.from /\ x.n = y.n => x = y

\* All that comes of the sender of x on a link is later than x.
Later(link, x) == \A y \in link : y.from = x.from => x.n < y.n

\* On the way to a client, every link holds later packets of each sender than
\* the next one, and all of them later ones than the client has heard.
InOrder ==
    /\ Numbered(up)
    /\ \A x \in up : x.n <= sent[x.from]
    /\ \A s \in Servers :
          /\ Numbered(side[s])
          /\ \A x \in side[s] : x.n <= sent[x.from] /\ Later(up, x)
    /\ \A c \in Clients :
          /\ \A d \in Clients : heard[c][d] <= sent[d]
          /\ Numbered(down[c])
          /\ \A x \in down[c] :
                /\ x.n <= sent[x.from] /\ heard[c][x.from] < x.n
                /\ Later(up, x)
                /\ \A s \in Servers : at[c] = s => Later(side[s], x)
          /\ \A x \in up : heard[c][x.from] < x.n
          /\ \A s \in Servers : at[c] = s =>
                \A x \in side[s] : heard[c][x.from] < x.n

\* The inductive invariant behind KeepsBus.
MeshInv == MeshTypeOK /\ OneWay /\ InOrder

\* Servers and clients are a bus: nothing is heard that was not broadcast,
\* twice, or out of the order of its sender, whoever pairs with whom and
\* whenever wires and subscriptions come (client.js, meshserver.js).
B == INSTANCE Bus

KeepsBus == B!Spec
=============================================================================
