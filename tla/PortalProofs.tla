--------------------------- MODULE PortalProofs ---------------------------
(***************************************************************************)
(* Proofs about the mesh of the switchboards, for any servers, clients and *)
(* keys, and about portals over it, for any portals, radios, trees and     *)
(* number of messages.                                                     *)
(*                                                                         *)
(* The mesh: MeshInv is inductive, and servers and clients are a bus.      *)
(*                                                                         *)
(* Portals use the switchboards as they are meant to be used: every step   *)
(* of Portal is one of the mesh of Switchboard or leaves it alone, so that *)
(* what is proved of the mesh holds below them (PortalStep).               *)
(*                                                                         *)
(* A portal runs on the first route.  Its client has subscribed to each    *)
(* route on which a message must come to it, its server is led to, and the *)
(* copy of the message for that route stays on the way until the portal is *)
(* called for one of them (Tracked).  The copies are numbered in the order *)
(* of the routes and the mesh keeps the order of a sender, so that the one *)
(* the portal is called for is no later than any (HearRuns).               *)
(*                                                                         *)
(* A copy is in line.  Some history D tells what the tree was after each   *)
(* message, and the copy of a portal is D[k], where all changes to its     *)
(* tree up to k have been heard and all later ones are still to come, if   *)
(* they were broadcast (InStep).  With one worker, and one change          *)
(* broadcast before the next is made, what is heard is the next of them    *)
(* (NextRelevant), and changes elsewhere leave the tree (Steady).          *)
(***************************************************************************)
EXTENDS Portal, SequenceTheorems, WellFoundedInduction, TLAPS

-----------------------------------------------------------------------------
(* The mesh.                                                               *)

\* Before a client has picked a server nothing is on any link.
LEMMA InitMesh == MeshInit => MeshInv
<1> SUFFICES ASSUME MeshInit PROVE MeshInv
  OBVIOUS
<1> USE DEF MeshInit, WiresInit, LinksInit
<1>1. MeshTypeOK
  BY DEF MeshTypeOK
<1>2. OneWay
  BY DEF OneWay
<1>3. InOrder
  BY DEF InOrder, Numbered, Later
<1> QED
  BY <1>1, <1>2, <1>3 DEF MeshInv

\* A client that picks a server has heard nothing and sent nothing before.
LEMMA PickMesh == ASSUME MeshInv, NEW c \in Clients, NEW s \in Servers, Pick(c, s)
                  PROVE  MeshInv'
<1> USE MeshAssumption DEF MeshInv, Pick, links
<1>1. MeshTypeOK'
  BY DEF MeshTypeOK
<1>2. OneWay'
  BY DEF OneWay, MeshTypeOK, Packet
<1>3. InOrder'
  <2>1. \A x \in down[c] : FALSE
    BY DEF OneWay
  <2>2. \A d \in Clients : heard[c][d] = 0
    BY DEF OneWay
  <2>3. \A t \in Servers : \A x \in side[t] : x.from \in Clients /\ x.n > 0
    BY DEF MeshTypeOK, Packet
  <2> QED
    BY <2>1, <2>2, <2>3 DEF InOrder, Numbered, Later, MeshTypeOK
<1> QED
  BY <1>1, <1>2, <1>3

\* Pairing touches no link, and no server pairs with itself.
LEMMA PairMesh == ASSUME MeshInv, NEW s \in Servers, NEW t \in Servers, Pair(s, t)
                  PROVE  MeshInv'
<1> USE DEF MeshInv, Pair, links
<1>1. MeshTypeOK'
  BY DEF MeshTypeOK
<1>2. OneWay'
  BY DEF OneWay, MeshTypeOK
<1>3. InOrder'
  BY DEF InOrder, Numbered, Later
<1> QED
  BY <1>1, <1>2, <1>3

\* Callbacks and subscriptions touch no link.
LEMMA ListenMesh ==
    ASSUME MeshInv, NEW c \in Clients, NEW k \in Keys,
           Listen(c, k) \/ Subscribed(c, k)
    PROVE  MeshInv'
<1> USE DEF MeshInv, Listen, Subscribed, links
<1>1. MeshTypeOK'
  <2>1. CASE Listen(c, k)
    BY <2>1 DEF MeshTypeOK
  <2>2. CASE Subscribed(c, k)
    BY <2>2 DEF MeshTypeOK
  <2> QED
    BY <2>1, <2>2
<1>2. OneWay'
  BY DEF OneWay
<1>3. InOrder'
  BY DEF InOrder, Numbered, Later
<1> QED
  BY <1>1, <1>2, <1>3

\* What is broadcast has later numbers than all that is under way.
LEMMA BroadcastMesh ==
    ASSUME MeshInv, NEW d \in Clients, NEW ks \in Seq(Keys), NEW body \in Bodies,
           Broadcast(d, ks, body)
    PROVE  MeshInv'
<1> USE DEF MeshInv, Broadcast
<1> PICK lost \in 0..Len(ks) :
        /\ at[d] = Nowhere => lost = Len(ks)
        /\ up' = up \cup Sendings(d, ks, body, lost)
        /\ linked' \subseteq linked \cup {d}
  OBVIOUS
<1>n. Len(ks) \in Nat /\ sent[d] \in Nat /\ sent \in [Clients -> Nat]
  BY DEF MeshTypeOK
<1>1. \A x \in Sendings(d, ks, body, lost) :
          /\ x \in Packet
          /\ x.from = d
          /\ sent[d] < x.n /\ x.n <= sent[d] + Len(ks)
          /\ at[d] # Nowhere
  BY <1>n DEF Sendings, Packet
<1>2. Numbered(Sendings(d, ks, body, lost))
  BY <1>n DEF Sendings, Numbered
<1>3. /\ sent' \in [Clients -> Nat]
      /\ \A c \in Clients : sent'[c] = IF c = d THEN sent[d] + Len(ks) ELSE sent[c]
  BY <1>n
<1>4. MeshTypeOK'
  BY <1>1, <1>3 DEF MeshTypeOK
<1>5. OneWay'
  BY <1>1 DEF OneWay
<1>6. InOrder'
  <2>1. up \subseteq Packet /\ side \in [Servers -> SUBSET Packet]
        /\ down \in [Clients -> SUBSET Packet] /\ heard \in [Clients -> [Clients -> Nat]]
    BY DEF MeshTypeOK
  <2> USE <2>1, <1>n DEF Packet
  <2>2. Numbered(up')
    BY <1>1, <1>2 DEF InOrder, Numbered
  <2>3. \A x \in up' : x.n <= sent'[x.from]
    BY <1>1, <1>3 DEF InOrder
  <2>4. \A s \in Servers : \A x \in side[s] : x.n <= sent'[x.from] /\ Later(up', x)
    BY <1>1, <1>3 DEF InOrder, Later
  <2>5. ASSUME NEW c \in Clients, NEW x \in down[c]
        PROVE  x.n <= sent'[x.from] /\ Later(up', x)
    <3>1. x.n <= sent[x.from] /\ Later(up, x) /\ x \in Packet
      <4>1. x \in Packet
        BY DEF MeshTypeOK
      <4>2. x.n <= sent[x.from] /\ Later(up, x)
        <5> HIDE DEF Packet, Broadcast
        <5> QED
          BY DEF InOrder
      <4> QED
        BY <4>1, <4>2
    <3>2. up' = up \cup Sendings(d, ks, body, lost) /\ up \subseteq Packet
      OBVIOUS
    <3> HIDE DEF MeshInv, Broadcast
    <3>3. x.n <= sent'[x.from]
      <4>1. x.from \in Clients /\ x.n \in Nat
        BY <3>1
      <4>2. sent'[x.from] = IF x.from = d THEN sent[d] + Len(ks)
                            ELSE sent[x.from]
        BY <4>1, <1>3
      <4> QED
        BY <4>1, <4>2, <3>1, <1>n
    <3>4. ASSUME NEW y \in Sendings(d, ks, body, lost), y.from = x.from
          PROVE  x.n < y.n
      <4>1. sent[d] < y.n /\ y.from = d /\ y.n \in Nat
        BY <1>1
      <4> QED
        BY <4>1, <3>4, <3>1, <1>n
    <3> QED
      BY <3>1, <3>2, <3>3, <3>4 DEF Later
  <2>6. ASSUME NEW c \in Clients
        PROVE  /\ \A e \in Clients : heard[c][e] <= sent'[e]
               /\ \A x \in up' : heard[c][x.from] < x.n
    <3>1. \A e \in Clients : heard[c][e] \in Nat /\ heard[c][e] <= sent[e]
      <4> USE DEF InOrder
      <4> HIDE DEF Packet, Broadcast
      <4> QED
        BY <2>1
    <3>2. \A x \in up : heard[c][x.from] < x.n
      BY DEF InOrder
    <3>3. up' = up \cup Sendings(d, ks, body, lost)
      OBVIOUS
    <3> HIDE DEF MeshInv, Broadcast
    <3>4. \A x \in Sendings(d, ks, body, lost) : heard[c][x.from] < x.n
      BY <3>1, <1>1, <1>n
    <3>5. ASSUME NEW e \in Clients PROVE heard[c][e] <= sent'[e]
      <4>1. sent'[e] = IF e = d THEN sent[d] + Len(ks) ELSE sent[e]
        BY <1>3
      <4>2. heard[c][e] \in Nat /\ heard[c][e] <= sent[e] /\ sent[e] \in Nat
        BY <3>1, <1>n
      <4> QED
        BY <4>1, <4>2, <1>n
    <3> QED
      BY <3>2, <3>3, <3>4, <3>5
  <2>7. ASSUME NEW c \in Clients
        PROVE  /\ Numbered(down[c])
               /\ \A x \in down[c] :
                     /\ heard[c][x.from] < x.n
                     /\ \A s \in Servers : at[c] = s => Later(side[s], x)
               /\ \A s \in Servers : at[c] = s =>
                     \A x \in side[s] : heard[c][x.from] < x.n
    BY DEF InOrder
  <2>8. \A s \in Servers : Numbered(side[s])
    BY DEF InOrder
  <2> HIDE DEF MeshInv
  <2> QED
    BY <2>2, <2>3, <2>4, <2>5, <2>6, <2>7, <2>8 DEF InOrder
<1> QED
  BY <1>4, <1>5, <1>6

\* What a server publishes reaches links on which all of its sender is earlier.
LEMMA PublishMesh ==
    ASSUME MeshInv, NEW s \in Servers, NEW x \in Packet, x.n <= sent[x.from],
           at[x.from] # Nowhere,
           \A c \in Clients : at[c] = s =>
               /\ heard[c][x.from] < x.n
               /\ \A y \in down[c] : y.from = x.from => y.n < x.n,
           down' = Published(s, x)
    PROVE  /\ down' \in [Clients -> SUBSET Packet]
           /\ \A c \in Clients :
                 /\ down'[c] \subseteq down[c] \cup {x}
                 /\ at[c] # s => down'[c] = down[c]
                 /\ Numbered(down'[c])
                 /\ \A y \in down'[c] :
                       /\ y.n <= sent[y.from] /\ heard[c][y.from] < y.n
                       /\ at[y.from] # Nowhere
<1> USE DEF MeshInv
<1>1. \A c \in Clients :
          /\ down[c] \subseteq Packet
          /\ Numbered(down[c])
          /\ \A y \in down[c] :
                /\ y.n <= sent[y.from] /\ heard[c][y.from] < y.n
                /\ at[y.from] # Nowhere
  BY DEF MeshTypeOK, InOrder, OneWay
<1>2. /\ DOMAIN down' = Clients
      /\ \A c \in Clients :
            \/ down'[c] = down[c]
            \/ at[c] = s /\ down'[c] = down[c] \cup {x}
  BY DEF Published
<1>3. down' \in [Clients -> SUBSET Packet]
  BY <1>1, <1>2 DEF Published
<1>4. ASSUME NEW c \in Clients, at[c] = s, down'[c] = down[c] \cup {x}
      PROVE  Numbered(down'[c])
  BY <1>1, <1>4 DEF Numbered, Packet
<1> QED
  BY <1>1, <1>2, <1>3, <1>4

\* A server takes the first packet of a sender: it goes down to the clients of
\* that server and sideways to others, where the earlier ones went.
LEMMA ServerHearsMesh == ASSUME MeshInv, NEW x \in up, ServerHears(x) PROVE MeshInv'
<1> USE DEF MeshInv
<1> DEFINE s == at[x.from]
<1>1. /\ x \in Packet /\ x.from \in Clients /\ x.n \in Nat
      /\ s \in Servers /\ x.n <= sent[x.from]
  BY DEF MeshTypeOK, OneWay, InOrder, Packet
<1>2. /\ up' = up \ {x} /\ down' = Published(s, x)
      /\ UNCHANGED <<wiring, sent, heard>>
      /\ side' = [t \in Servers |-> IF t \in pairs[s] THEN side[t] \cup {x} ELSE side[t]]
  BY DEF ServerHears
<1>3. Later(up', x)
  <2> SUFFICES ASSUME NEW y \in up', y.from = x.from PROVE x.n < y.n
    BY DEF Later
  <2>1. y \in up /\ y # x /\ y \in Packet
    BY <1>2 DEF MeshTypeOK
  <2>2. x.n <= y.n
    BY <2>1 DEF ServerHears, First
  <2>3. x.n # y.n
    BY <2>1 DEF InOrder, Numbered
  <2> QED
    BY <2>1, <2>2, <2>3, <1>1 DEF Packet
<1>4. \A c \in Clients :
          /\ heard[c][x.from] < x.n
          /\ \A y \in down[c] : y.from = x.from => y.n < x.n
  BY DEF InOrder, Later
<1>5. \A t \in Servers : \A y \in side[t] : y.from = x.from => y.n < x.n
  BY DEF InOrder, Later
<1>6. /\ down' \in [Clients -> SUBSET Packet]
      /\ \A c \in Clients :
            /\ down'[c] \subseteq down[c] \cup {x}
            /\ at[c] # s => down'[c] = down[c]
            /\ Numbered(down'[c])
            /\ \A y \in down'[c] :
                  /\ y.n <= sent[y.from] /\ heard[c][y.from] < y.n
                  /\ at[y.from] # Nowhere
  BY <1>1, <1>2, <1>4, PublishMesh, MeshAssumption
<1>7. /\ \A t \in Servers : side'[t] \subseteq side[t] \cup {x}
      /\ side'[s] = side[s]
      /\ side' \in [Servers -> SUBSET Packet]
  BY <1>1, <1>2 DEF MeshTypeOK, OneWay
<1>8. MeshTypeOK'
  BY <1>2, <1>6, <1>7 DEF MeshTypeOK, wiring
<1>9. OneWay'
  <2>1. \A t \in Servers : \A y \in side'[t] : at[y.from] \notin {t, Nowhere}
    BY <1>1, <1>7, MeshAssumption DEF OneWay
  <2>2. \A c \in Clients : at[c] = Nowhere => down'[c] = {}
    BY <1>1, <1>6, MeshAssumption DEF OneWay
  <2> QED
    BY <1>2, <1>6, <2>1, <2>2 DEF OneWay, wiring
<1>10. InOrder'
  <2>1. Numbered(up') /\ \A y \in up' : y.n <= sent[y.from]
    BY <1>2 DEF InOrder, Numbered
  <2>2. ASSUME NEW t \in Servers
        PROVE  /\ Numbered(side'[t])
               /\ \A y \in side'[t] : y.n <= sent[y.from] /\ Later(up', y)
    <3>1. Numbered(side[t]) /\ \A y \in side[t] : y.n <= sent[y.from] /\ Later(up, y)
      BY DEF InOrder
    <3>2. side[t] \subseteq Packet
      BY DEF MeshTypeOK
    <3>3. Numbered(side'[t])
      BY <1>1, <1>5, <1>7, <3>1, <3>2 DEF Numbered, Packet
    <3> QED
      BY <1>1, <1>2, <1>3, <1>7, <3>1, <3>3 DEF Later
  <2>3. ASSUME NEW c \in Clients, NEW y \in down'[c]
        PROVE  Later(up', y)
    <3>1. y = x \/ (y \in down[c] /\ Later(up, y))
      BY <1>6 DEF InOrder
    <3> QED
      BY <3>1, <1>2, <1>3 DEF Later
  <2>4. ASSUME NEW c \in Clients, NEW y \in down'[c], NEW t \in Servers, at[c] = t
        PROVE  Later(side'[t], y)
    <3>1. CASE t = s
      <4>1. \A z \in side[t] : z.from # x.from
        BY <3>1 DEF OneWay
      <4>2. y \in down[c] => Later(side[t], y)
        BY <2>4 DEF InOrder
      <4> QED
        BY <3>1, <4>1, <4>2, <1>6, <1>7 DEF Later
    <3>2. CASE t # s
      <4>1. y \in down[c] /\ Later(side[t], y)
        BY <3>2, <2>4, <1>6 DEF InOrder
      <4> QED
        BY <4>1, <1>4, <1>7 DEF Later
    <3> QED
      BY <3>1, <3>2
  <2>5. ASSUME NEW c \in Clients
        PROVE  /\ \A d \in Clients : heard[c][d] <= sent[d]
               /\ \A y \in up' : heard[c][y.from] < y.n
               /\ \A t \in Servers : at[c] = t =>
                     \A y \in side'[t] : heard[c][y.from] < y.n
    BY <1>2, <1>4, <1>7 DEF InOrder
  <2> HIDE DEF MeshInv
  <2>6. UNCHANGED <<at, sent, heard>>
    BY <1>2 DEF wiring
  <2> QED
    BY <1>6, <2>1, <2>2, <2>3, <2>4, <2>5, <2>6 DEF InOrder
<1> QED
  BY <1>8, <1>9, <1>10

\* What comes sideways is of a sender elsewhere and goes down only.
LEMMA SidewaysHearsMesh ==
    ASSUME MeshInv, NEW s \in Servers, NEW x \in side[s], SidewaysHears(s, x)
    PROVE  MeshInv'
<1> USE DEF MeshInv
<1>1. /\ x \in Packet /\ x.from \in Clients /\ x.n \in Nat
      /\ at[x.from] # Nowhere /\ x.n <= sent[x.from] /\ Later(up, x)
  BY DEF MeshTypeOK, OneWay, InOrder, Packet
<1>2. /\ side' = [side EXCEPT ![s] = @ \ {x}] /\ down' = Published(s, x)
      /\ UNCHANGED <<wiring, up, sent, heard>>
  BY DEF SidewaysHears
<1>3. \A t \in Servers : side'[t] = IF t = s THEN side[s] \ {x} ELSE side[t]
  BY <1>2 DEF MeshTypeOK
<1>4. Later(side'[s], x)
  <2> SUFFICES ASSUME NEW y \in side'[s], y.from = x.from PROVE x.n < y.n
    BY DEF Later
  <2>1. y \in side[s] /\ y # x /\ y \in Packet
    BY <1>3 DEF MeshTypeOK
  <2>2. x.n <= y.n
    BY <2>1 DEF SidewaysHears, First
  <2>3. x.n # y.n
    BY <2>1 DEF InOrder, Numbered
  <2> QED
    BY <2>1, <2>2, <2>3, <1>1 DEF Packet
<1>5. \A c \in Clients : at[c] = s =>
          /\ heard[c][x.from] < x.n
          /\ \A y \in down[c] : y.from = x.from => y.n < x.n
  BY DEF InOrder, Later
<1>6. /\ down' \in [Clients -> SUBSET Packet]
      /\ \A c \in Clients :
            /\ down'[c] \subseteq down[c] \cup {x}
            /\ at[c] # s => down'[c] = down[c]
            /\ Numbered(down'[c])
            /\ \A y \in down'[c] :
                  /\ y.n <= sent[y.from] /\ heard[c][y.from] < y.n
                  /\ at[y.from] # Nowhere
  BY <1>1, <1>2, <1>5, PublishMesh
<1>7. MeshTypeOK'
  BY <1>2, <1>6 DEF MeshTypeOK, wiring
<1>8. OneWay'
  <2>1. \A c \in Clients : at[c] = Nowhere => down'[c] = {}
    BY <1>1, <1>6, MeshAssumption DEF OneWay
  <2> QED
    BY <1>2, <1>3, <1>6, <2>1 DEF OneWay, wiring
<1>9. InOrder'
  <2>1. \A t \in Servers :
            /\ Numbered(side'[t])
            /\ \A y \in side'[t] : y.n <= sent[y.from] /\ Later(up, y)
    BY <1>3 DEF InOrder, Numbered
  <2>2. ASSUME NEW c \in Clients, NEW y \in down'[c]
        PROVE  Later(up, y)
    BY <1>1, <1>6 DEF InOrder
  <2>3. ASSUME NEW c \in Clients, NEW y \in down'[c], NEW t \in Servers, at[c] = t
        PROVE  Later(side'[t], y)
    <3>1. CASE y \in down[c]
      BY <3>1, <2>3, <1>3 DEF InOrder, Later
    <3>2. CASE y \notin down[c]
      BY <3>2, <2>3, <1>4, <1>6
    <3> QED
      BY <3>1, <3>2
  <2>4. \A c \in Clients :
            /\ \A d \in Clients : heard[c][d] <= sent[d]
            /\ \A y \in up : heard[c][y.from] < y.n
            /\ \A t \in Servers : at[c] = t =>
                  \A y \in side'[t] : heard[c][y.from] < y.n
    BY <1>3 DEF InOrder
  <2>5. Numbered(up) /\ \A y \in up : y.n <= sent[y.from]
    BY DEF InOrder
  <2> HIDE DEF MeshInv
  <2>6. UNCHANGED <<at, up, sent, heard>>
    BY <1>2 DEF wiring
  <2> QED
    BY <1>6, <2>1, <2>2, <2>3, <2>4, <2>5, <2>6 DEF InOrder
<1> QED
  BY <1>7, <1>8, <1>9

\* A client takes the first packet of a sender: all that is left is later.
LEMMA TakeMesh ==
    ASSUME MeshInv, NEW c \in Clients, NEW x \in down[c], Take(c, x)
    PROVE  MeshInv' /\ B!Hear(c, x.from)
<1> USE DEF MeshInv
<1>1. /\ x \in Packet /\ x.from \in Clients /\ x.n \in Nat
      /\ at[x.from] # Nowhere /\ x.n <= sent[x.from] /\ heard[c][x.from] < x.n
  BY DEF MeshTypeOK, OneWay, InOrder, Packet
<1>2. /\ down' = [down EXCEPT ![c] = @ \ {x}]
      /\ heard' = [heard EXCEPT ![c] = [@ EXCEPT ![x.from] = x.n]]
      /\ UNCHANGED <<wiring, up, side, sent>>
  BY DEF Take
<1>3. \A e \in Clients : down'[e] = IF e = c THEN down[c] \ {x} ELSE down[e]
  BY <1>2 DEF MeshTypeOK
<1>4. /\ heard' \in [Clients -> [Clients -> Nat]]
      /\ \A e, d \in Clients :
            heard'[e][d] = IF e = c /\ d = x.from THEN x.n ELSE heard[e][d]
  BY <1>1, <1>2 DEF MeshTypeOK
<1>5. Later(down'[c], x)
  <2> SUFFICES ASSUME NEW y \in down'[c], y.from = x.from PROVE x.n < y.n
    BY DEF Later
  <2>1. y \in down[c] /\ y # x /\ y \in Packet
    BY <1>3 DEF MeshTypeOK
  <2>2. x.n <= y.n
    BY <2>1 DEF Take, First
  <2>3. x.n # y.n
    BY <2>1 DEF InOrder, Numbered
  <2> QED
    BY <2>1, <2>2, <2>3, <1>1 DEF Packet
<1>6. MeshTypeOK'
  BY <1>2, <1>4 DEF MeshTypeOK, wiring
<1>7. OneWay'
  <2>1. at[c] # Nowhere
    BY DEF OneWay
  <2> QED
    BY <1>2, <1>3, <1>4, <2>1 DEF OneWay, wiring
<1>8. InOrder'
  <2>1. \A e \in Clients :
            /\ Numbered(down'[e])
            /\ \A y \in down'[e] :
                  /\ y.n <= sent[y.from] /\ Later(up, y)
                  /\ \A t \in Servers : at[e] = t => Later(side[t], y)
    BY <1>3 DEF InOrder, Numbered
  <2>2. ASSUME NEW e \in Clients
        PROVE  /\ \A d \in Clients : heard'[e][d] <= sent[d]
               /\ \A y \in up : heard'[e][y.from] < y.n
               /\ \A t \in Servers : at[e] = t =>
                     \A y \in side[t] : heard'[e][y.from] < y.n
    <3>1. /\ \A d \in Clients : heard[e][d] <= sent[d]
          /\ \A y \in up : heard[e][y.from] < y.n
          /\ \A t \in Servers : at[e] = t =>
                \A y \in side[t] : heard[e][y.from] < y.n
      BY DEF InOrder
    <3>2. CASE e # c
      <4>1. heard'[e] = heard[e]
        BY <3>2, <1>4 DEF MeshTypeOK
      <4> HIDE DEF MeshInv
      <4> QED
        BY <4>1, <3>1
    <3>3. CASE e = c
      <4>1. /\ x.n <= sent[x.from]
            /\ Later(up, x)
            /\ \A t \in Servers : at[c] = t => Later(side[t], x)
        BY DEF InOrder
      <4>2. \A d \in Clients : heard'[c][d] = IF d = x.from THEN x.n
                                              ELSE heard[c][d]
        BY <1>1, <1>4 DEF MeshTypeOK
      <4>3. (\A y \in up : y.from \in Clients)
            /\ \A t \in Servers : \A y \in side[t] : y.from \in Clients
        BY DEF MeshTypeOK, Packet
      <4> HIDE DEF MeshInv, Take
      <4>4. \A d \in Clients : heard'[c][d] <= sent[d]
        BY <3>1, <3>3, <4>1, <4>2
      <4>5. \A y \in up : heard'[c][y.from] < y.n
        BY <3>1, <3>3, <4>1, <4>2, <4>3 DEF Later
      <4>6. \A t \in Servers : at[c] = t =>
               \A y \in side[t] : heard'[c][y.from] < y.n
        BY <3>1, <3>3, <4>1, <4>2, <4>3 DEF Later
      <4> QED
        BY <3>3, <4>4, <4>5, <4>6
    <3> QED
      BY <3>2, <3>3
  <2>3. ASSUME NEW e \in Clients, NEW y \in down'[e]
        PROVE  heard'[e][y.from] < y.n
    <3>1. y \in down[e] /\ heard[e][y.from] < y.n
      BY <1>3 DEF InOrder
    <3>2. CASE e # c
      <4>1. heard'[e] = heard[e]
        BY <3>2, <1>4 DEF MeshTypeOK
      <4> HIDE DEF MeshInv
      <4> QED
        BY <4>1, <3>1
    <3>3. CASE e = c
      <4>1. y.from \in Clients
        BY <3>1 DEF MeshTypeOK, Packet
      <4>2. heard'[c][y.from] = IF y.from = x.from THEN x.n
                                ELSE heard[c][y.from]
        BY <4>1, <1>1, <1>4 DEF MeshTypeOK
      <4>3. y.from = x.from => x.n < y.n
        BY <3>3, <1>5 DEF Later
      <4> QED
        BY <3>1, <3>3, <4>2, <4>3
    <3> QED
      BY <3>2, <3>3
  <2>4. Numbered(up) /\ (\A y \in up : y.n <= sent[y.from])
        /\ \A t \in Servers : Numbered(side[t])
               /\ \A y \in side[t] : y.n <= sent[y.from] /\ Later(up, y)
    BY DEF InOrder
  <2> HIDE DEF MeshInv
  <2>5. UNCHANGED <<at, up, side, sent>>
    BY <1>2 DEF wiring
  <2> QED
    BY <2>1, <2>2, <2>3, <2>4, <2>5 DEF InOrder
<1>9. B!Hear(c, x.from)
  BY <1>1, <1>2, <1>4 DEF B!Hear, MeshTypeOK
<1> QED
  BY <1>6, <1>7, <1>8, <1>9

\* Every step of the mesh keeps the invariant, and is a step of the bus or one
\* that the bus does not see.
LEMMA StepMesh ==
    ASSUME MeshInv, [MeshNext]_mesh
    PROVE  MeshInv' /\ [B!Next]_(B!vars)
<1>1. CASE \E c \in Clients, s \in Servers : Pick(c, s)
  BY <1>1, PickMesh DEF Pick, B!vars
<1>2. CASE \E s, t \in Servers : Pair(s, t)
  BY <1>2, PairMesh DEF Pair, B!vars
<1>3. CASE \E c \in Clients : \E k \in keys[c] : Subscribed(c, k)
  <2> PICK c \in Clients : \E k \in keys[c] : Subscribed(c, k)
    BY <1>3
  <2> PICK k \in keys[c] : Subscribed(c, k)
    OBVIOUS
  <2>1. k \in Keys
    BY DEF MeshInv, MeshTypeOK
  <2> QED
    BY <2>1, ListenMesh DEF Subscribed, B!vars
<1>4. CASE \E x \in up : ServerHears(x)
  BY <1>4, ServerHearsMesh DEF ServerHears, B!vars
<1>5. CASE \E s \in Servers : \E x \in side[s] : SidewaysHears(s, x)
  BY <1>5, SidewaysHearsMesh DEF SidewaysHears, B!vars
<1>6. CASE \E c \in Clients, k \in Keys : Listen(c, k)
  BY <1>6, ListenMesh DEF Listen, B!vars
<1>7. CASE \E d \in Clients, ks \in Seq(Keys), body \in Bodies : Broadcast(d, ks, body)
  <2> PICK d \in Clients, ks \in Seq(Keys), body \in Bodies : Broadcast(d, ks, body)
    BY <1>7
  <2>1. B!Broadcast(d)
    <3>1. /\ Len(ks) \in Nat \ {0}
          /\ sent' = [sent EXCEPT ![d] = @ + Len(ks)] /\ heard' = heard
      BY DEF Broadcast
    <3>2. sent \in [Clients -> Nat]
      BY DEF MeshInv, MeshTypeOK
    <3> QED
      BY <3>1, <3>2 DEF B!Broadcast
  <2> QED
    BY <2>1, BroadcastMesh DEF B!Next
<1>8. CASE \E c \in Clients : \E x \in down[c] : Take(c, x)
  <2> PICK c \in Clients : \E x \in down[c] : Take(c, x)
    BY <1>8
  <2> PICK x \in down[c] : Take(c, x)
    OBVIOUS
  <2>1. x.from \in Clients
    BY DEF MeshInv, MeshTypeOK, Packet
  <2> QED
    BY <2>1, TakeMesh DEF B!Next
<1>9. CASE UNCHANGED mesh
  BY <1>9 DEF mesh, wiring, links, MeshInv, MeshTypeOK, OneWay, InOrder,
              Numbered, Later, B!vars
<1> QED
  BY <1>1, <1>2, <1>3, <1>4, <1>5, <1>6, <1>7, <1>8, <1>9
     DEF MeshNext, Wire, Carry

\* The invariant of the mesh, whoever its clients are.
THEOREM MeshInvariance == MeshSpec => []MeshInv
<1>1. MeshInv /\ [MeshNext]_mesh => MeshInv'
  BY StepMesh
<1> QED
  BY <1>1, InitMesh, PTL DEF MeshSpec

\* The mesh is a bus: no client hears a packet twice, out of the order of its
\* sender, or one that was not sent, however wires and subscriptions come.
THEOREM MeshIsBus == MeshSpec => KeepsBus
<1>1. MeshInit => B!Init
  BY DEF MeshInit, LinksInit, B!Init
<1>2. MeshInv /\ [MeshNext]_mesh => [B!Next]_(B!vars)
  BY StepMesh
<1> QED
  BY <1>1, <1>2, MeshInvariance, PTL DEF MeshSpec, KeepsBus, B!Spec

-----------------------------------------------------------------------------
(* Portals.                                                                *)

\* The messages logged are messages, and those still to be broadcast are among
\* them.  Nothing is changed about the top of a supplier itself.
LogOK ==
    /\ log \in Seq(Message)
    /\ Len(log) <= MaxMessages
    /\ pending \subseteq DOMAIN log
    /\ \A m \in DOMAIN log : log[m].kind # "talk" => log[m].of # Root

\* The routes of a message are routing keys, and there are some.
LEMMA RoutesAreKeys ==
    ASSUME NEW msg \in Message, msg.kind = "post" => msg.of # Root
    PROVE  Routes(msg) \in Seq(Keys) /\ Routes(msg) # <<>>
<1>1. Target(msg) \in Containers /\ Placed(msg) \in Containers
  BY PortalAssumption, PlaceAssumption DEF Target, Placed, Message, Parent
<1> DEFINE t == Target(msg)
           u == Placed(msg)
<1>2. CASE msg.kind = "talk"
  <2>1. Routes(msg) = <<RadioRoute(t)>>
    BY <1>2 DEF Routes
  <2>2. RadioRoute(t) \in Keys
    BY <1>1, PortalAssumption
  <2> HIDE DEF t
  <2> QED
    BY <2>1, <2>2
<1>3. CASE msg.kind # "talk"
  <2>1. /\ Route("shallow", "any", t) \in Keys /\ Route("deep", "any", u) \in Keys
        /\ Route("shallow", msg.kind, t) \in Keys
        /\ Route("deep", msg.kind, u) \in Keys
    BY <1>1, PortalAssumption DEF Message, Modes
  <2>2. Routes(msg) =
           IF t = Root
           THEN <<Route("shallow", "any", t), Route("shallow", msg.kind, t)>>
           ELSE << Route("shallow", "any", t), Route("deep", "any", u),
                   Route("shallow", msg.kind, t), Route("deep", msg.kind, u) >>
    BY <1>3 DEF Routes
  <2> HIDE DEF t, u
  <2> QED
    BY <2>1, <2>2
<1> QED
  BY <1>2, <1>3

\* A message that is sent is a broadcast of the mesh.
LEMMA SendIsMesh ==
    ASSUME NEW msg \in Message, msg.kind = "post" => msg.of # Root,
           NEW m \in Messages, Send(m, msg)
    PROVE  MeshNext
<1>1. Broadcast(msg.by, Routes(msg), m)
  BY DEF Send
<1>2. msg.by \in Clients /\ Routes(msg) \in Seq(Keys) /\ m \in Bodies
  BY RoutesAreKeys, PortalAssumption DEF Message
<1> QED
  BY <1>1, <1>2 DEF MeshNext

\* The log grows by messages only.
LEMMA LogGrows ==
    ASSUME LogOK, NEW msg \in Message, msg.kind # "talk" => msg.of # Root,
           Len(log) < MaxMessages, log' = Append(log, msg),
           pending' \subseteq pending \cup {Len(log) + 1}
    PROVE  LogOK'
<1>1. /\ log' \in Seq(Message)
      /\ Len(log') = Len(log) + 1
      /\ DOMAIN log' = 1..(Len(log) + 1)
      /\ \A m \in DOMAIN log' :
            log'[m] = IF m = Len(log) + 1 THEN msg ELSE log[m]
  BY DEF LogOK
<1>2. Len(log') <= MaxMessages
  BY <1>1, PortalAssumption DEF LogOK
<1>3. pending' \subseteq DOMAIN log'
  BY <1>1 DEF LogOK
<1>4. \A m \in DOMAIN log' : log'[m].kind # "talk" => log'[m].of # Root
  BY <1>1 DEF LogOK
<1> QED
  BY <1>1, <1>2, <1>3, <1>4 DEF LogOK

\* Every step of portals is one of the mesh, or leaves it alone.
LEMMA PortalStep ==
    ASSUME LogOK, [Next]_vars
    PROVE  LogOK' /\ [MeshNext]_mesh
<1>1. CASE Carry /\ UNCHANGED <<store, portal, reach, missed, ended>>
  BY <1>1 DEF MeshNext, LogOK, store
<1>2. ASSUME NEW m \in pending, Respond(m)
      PROVE  LogOK' /\ MeshNext
  <2>1. /\ log[m] \in Message
        /\ log[m].kind # "talk" => log[m].of # Root
        /\ m \in Messages
    BY PortalAssumption DEF LogOK, Messages
  <2>2. Send(m, log[m]) /\ pending' = pending \ {m} /\ log' = log
    BY <1>2 DEF Respond
  <2>3. MeshNext
    BY <2>1, <2>2, SendIsMesh
  <2> QED
    BY <2>2, <2>3 DEF LogOK
<1>3. ASSUME NEW c \in Clients, NEW x \in down[c], Hear(c, x)
      PROVE  LogOK' /\ MeshNext
  BY <1>3 DEF Hear, Heard, MeshNext, LogOK, store
<1>11. ASSUME NEW c \in Clients, NEW x \in down[c], Fail(c, x)
       PROVE  LogOK' /\ MeshNext
  BY <1>11 DEF Fail, Heard, MeshNext, LogOK, store
<1>4. CASE Wire /\ UNCHANGED <<store, portal, reach, missed, ended>>
  BY <1>4 DEF MeshNext, LogOK, store
<1>5. ASSUME NEW p \in Portals, Register(p)
      PROVE  LogOK' /\ MeshNext
  <2>1. PICK r \in Keys : Listening(p, r)
    <3>1. CASE p \in Radios
      BY <1>5, <3>1, PortalAssumption DEF Register
    <3>2. CASE p \notin Radios
      <4>1. PICK ch \in Listeners : Listening(p, Route(ch[1], ch[2], Own[p]))
        BY <1>5, <3>2 DEF Register
      <4>2. ch[1] \in Modes /\ ch[2] \in Kinds \cup {"any"}
        BY PortalAssumption
      <4>3. Route(ch[1], ch[2], Own[p]) \in Keys
        BY <4>2, PortalAssumption
      <4> QED
        BY <4>1, <4>3
    <3> QED
      BY <3>1, <3>2
  <2>2. Listen(Home[p], r) /\ Home[p] \in Clients /\ UNCHANGED store
    BY <2>1, PortalAssumption DEF Listening
  <2> QED
    BY <2>2 DEF MeshNext, LogOK, store
<1>6. ASSUME NEW p \in Portals, Close(p)
      PROVE  LogOK' /\ UNCHANGED mesh
  BY <1>6 DEF Close, LogOK, store
<1>7. ASSUME NEW d \in Workers, NEW t \in Containers,
             NEW kind \in {"post", "put", "delete"}, Change(d, kind, t)
      PROVE  LogOK' /\ UNCHANGED mesh
  <2> DEFINE msg == [kind |-> kind, of |-> t, by |-> d]
  <2>1. msg \in Message /\ msg.kind = kind /\ msg.of = t
    BY PortalAssumption DEF Message, Kinds
  <2>2. /\ Len(log) < MaxMessages /\ log' = Append(log, msg)
        /\ pending' = pending \cup {Len(log) + 1}
        /\ UNCHANGED mesh /\ t # Root
    BY <1>7 DEF Change
  <2> HIDE DEF msg
  <2> QED
    BY <2>1, <2>2, LogGrows
<1>8. ASSUME NEW d \in Clients, NEW t \in {Own[p] : p \in Radios},
             Talk(d, t)
      PROVE  LogOK' /\ MeshNext
  <2> DEFINE msg == [kind |-> "talk", of |-> t, by |-> d]
  <2>1. msg \in Message /\ msg.kind = "talk"
    BY PortalAssumption DEF Message, Kinds
  <2>2. /\ Len(log) < MaxMessages /\ log' = Append(log, msg)
        /\ pending' = pending /\ Send(Len(log) + 1, msg)
    BY <1>8 DEF Talk
  <2> HIDE DEF msg
  <2>3. Len(log) + 1 \in Messages
    BY <2>2, PortalAssumption DEF LogOK, Messages
  <2>4. MeshNext
    BY <2>1, <2>2, <2>3, SendIsMesh
  <2> QED
    BY <2>1, <2>2, <2>4, LogGrows
<1>9. ASSUME NEW p \in Portals, NEW m \in donemessages[p], Forget(p, m)
      PROVE  LogOK' /\ UNCHANGED mesh
  BY <1>9 DEF Forget, LogOK, store
<1>10. CASE UNCHANGED vars
  BY <1>10 DEF vars, store, LogOK
<1> QED
  BY <1>1, <1>2, <1>3, <1>4, <1>5, <1>6, <1>7, <1>8, <1>9, <1>10, <1>11
     DEF Next, Deliver

\* Whatever portals and radios do, the switchboards below them take steps of
\* the mesh and no others.
THEOREM PortalIsMesh == Spec => MeshSpec
<1>1. PortalInit => LogOK /\ MeshInit
  BY PortalAssumption DEF PortalInit, TreeInit, LogOK
<1>2. LogOK /\ [Next]_vars => LogOK' /\ [MeshNext]_mesh
  BY PortalStep
<1> QED
  BY <1>1, <1>2, PTL DEF Spec, MeshSpec

\* Below portals, too, no packet is heard that was not broadcast, twice, or out
\* of the order of its sender, and the invariant of the mesh holds.
THEOREM PortalKeepsBus == Spec => KeepsBus /\ []MeshInv
  BY PortalIsMesh, MeshIsBus, MeshInvariance, PTL

-----------------------------------------------------------------------------
(* Places.                                                                   *)

\* A prefix agrees with what it is a prefix of.
LEMMA PrefixIs ==
    ASSUME NEW S, NEW s \in Seq(S), NEW t \in Seq(S)
    PROVE  IsPrefix(s, t) <=> Len(s) <= Len(t) /\ \A i \in 1..Len(s) : s[i] = t[i]
<1>1. PICK n \in Nat, m \in Nat : n = Len(s) /\ m = Len(t)
  OBVIOUS
<1>2. n <= m => SubSeq(s, 1, n) = s /\ SubSeq(t, 1, n) \in Seq(S) /\ Len(SubSeq(t, 1, n)) = n
                /\ \A i \in 1..n : SubSeq(t, 1, n)[i] = t[i]
  BY <1>1
<1>3. n <= m => (SubSeq(t, 1, n) = s <=> \A i \in 1..n : s[i] = t[i])
  BY <1>1, <1>2, SeqEqual
<1> QED
  BY <1>1, <1>2, <1>3 DEF IsPrefix

\* The front of a sequence.
LEMMA FrontIs ==
    ASSUME NEW S, NEW s \in Seq(S), s # <<>>
    PROVE  /\ Front(s) \in Seq(S) /\ Len(Front(s)) = Len(s) - 1
           /\ \A i \in 1..(Len(s) - 1) : Front(s)[i] = s[i]
<1>1. PICK n \in Nat : n = Len(s) - 1
  BY EmptySeq
<1>2. /\ SubSeq(s, 1, n) \in Seq(S) /\ Len(SubSeq(s, 1, n)) = n
      /\ \A i \in 1..n : SubSeq(s, 1, n)[i] = s[i]
  BY <1>1
<1> QED
  BY <1>1, <1>2 DEF Front

\* A container is right below its parent.
LEMMA ParentIs ==
    ASSUME NEW t \in Containers \ {Root}
    PROVE  Parent(t) \in Containers /\ Place[Parent(t)] = Front(Place[t]) /\ Place[t] # <<>>
BY PlaceAssumption DEF Parent

\* What a place is a prefix of.
LEMMA PlaceIs ==
    ASSUME NEW u \in Containers, NEW v \in Containers
    PROVE  /\ Place[u] \in Seq(STRING) /\ Len(Place[u]) \in Nat
           /\ IsPrefix(Place[u], Place[v]) <=>
                 Len(Place[u]) <= Len(Place[v]) /\ \A i \in 1..Len(Place[u]) : Place[u][i] = Place[v][i]
<1>1. Place[u] \in Seq(STRING) /\ Place[v] \in Seq(STRING)
  BY PlaceAssumption
<1>2. PICK s \in Seq(STRING), t \in Seq(STRING) : s = Place[u] /\ t = Place[v]
  BY <1>1
<1>3. IsPrefix(s, t) <=> Len(s) <= Len(t) /\ \A i \in 1..Len(s) : s[i] = t[i]
  BY PrefixIs
<1> QED
  BY <1>2, <1>3

\* What is below is below what is above.
LEMMA BelowIs ==
    ASSUME NEW t \in Containers
    PROVE  /\ t \in Below(t)
           /\ Below(t) \subseteq Containers
           /\ \A u \in Below(t) : Below(u) \subseteq Below(t)
           /\ \A v \in Below(t) \ {t} : v # Root /\ Parent(v) \in Below(t)
           /\ \A v \in Containers \ {Root} : Parent(v) \in Below(t) => v \in Below(t)
           /\ t # Root => Parent(t) \notin Below(t)
<1>1. \A u \in Containers : Place[u] \in Seq(STRING)
  BY PlaceAssumption
<1>2. \A u, v \in Containers : IsPrefix(Place[u], Place[v]) <=>
          Len(Place[u]) <= Len(Place[v]) /\ \A i \in 1..Len(Place[u]) : Place[u][i] = Place[v][i]
  BY PlaceIs
<1>3. \A u \in Containers : Len(Place[u]) \in Nat
  BY PlaceIs
<1>4. Below(t) \subseteq Containers /\ t \in Below(t)
  BY <1>2, <1>3 DEF Below
<1>5. \A u \in Below(t) : Below(u) \subseteq Below(t)
  <2> SUFFICES ASSUME NEW u \in Below(t), NEW v \in Below(u)
               PROVE  v \in Below(t)
    OBVIOUS
  <2>1. u \in Containers /\ v \in Containers /\ IsPrefix(Place[t], Place[u]) /\ IsPrefix(Place[u], Place[v])
    BY DEF Below
  <2>2. Len(Place[t]) <= Len(Place[v]) /\ \A i \in 1..Len(Place[t]) : Place[t][i] = Place[v][i]
    BY <1>2, <1>3, <2>1
  <2> QED
    BY <1>2, <2>1, <2>2 DEF Below
<1>6. ASSUME NEW v \in Containers \ {Root}
      PROVE  /\ Parent(v) \in Containers /\ Len(Place[v]) = Len(Place[Parent(v)]) + 1
             /\ \A i \in 1..Len(Place[Parent(v)]) : Place[v][i] = Place[Parent(v)][i]
  <2>1. Parent(v) \in Containers /\ Place[Parent(v)] = Front(Place[v]) /\ Place[v] # <<>>
    BY ParentIs
  <2>2. Place[v] \in Seq(STRING)
    BY <1>1
  <2>3. Len(Place[Parent(v)]) = Len(Place[v]) - 1 /\ Len(Place[v]) \in Nat
    BY <2>1, <2>2, FrontIs
  <2>4. \A i \in 1..(Len(Place[v]) - 1) : Place[Parent(v)][i] = Place[v][i]
    BY <2>1, <2>2, FrontIs
  <2> QED
    BY <2>1, <2>3, <2>4
<1>7. ASSUME NEW v \in Containers \ {Root}, Parent(v) \in Below(t)
      PROVE  v \in Below(t)
  <2>1. IsPrefix(Place[t], Place[Parent(v)]) /\ Parent(v) \in Containers
    BY <1>7 DEF Below
  <2>2. Len(Place[t]) <= Len(Place[Parent(v)])
        /\ \A i \in 1..Len(Place[t]) : Place[t][i] = Place[Parent(v)][i]
    BY <1>2, <2>1
  <2>3. Len(Place[t]) <= Len(Place[v]) /\ \A i \in 1..Len(Place[t]) : Place[t][i] = Place[v][i]
    BY <1>3, <1>6, <2>1, <2>2
  <2> QED
    BY <1>2, <2>3 DEF Below
<1>8. ASSUME NEW v \in Below(t) \ {t}
      PROVE  v # Root /\ Parent(v) \in Below(t)
  <2>1. v \in Containers /\ IsPrefix(Place[t], Place[v]) /\ v # t /\ Place[t] # Place[v]
    BY <1>8, PlaceAssumption DEF Below
  <2>2. /\ Len(Place[t]) <= Len(Place[v])
        /\ \A i \in 1..Len(Place[t]) : Place[t][i] = Place[v][i]
    BY <1>2, <2>1
  <2>3. Len(Place[t]) < Len(Place[v])
    <3>1. ASSUME Len(Place[t]) = Len(Place[v])
          PROVE  FALSE
      <4>1. PICK a, b : a = Place[t] /\ b = Place[v]
        OBVIOUS
      <4>2. a \in Seq(STRING) /\ b \in Seq(STRING) /\ Len(a) = Len(b) /\ \A i \in 1..Len(a) : a[i] = b[i]
        BY <1>1, <2>1, <2>2, <3>1, <4>1
      <4>3. a = b
        BY <4>2, SeqEqual
      <4> QED
        BY <2>1, <4>1, <4>3
    <3> QED
      BY <1>3, <2>1, <2>2, <3>1
  <2>4. v # Root
    <3>1. Len(Place[v]) > 0
      BY <1>3, <2>1, <2>3
    <3> QED
      BY <3>1, PlaceAssumption
  <2>5. /\ Parent(v) \in Containers /\ Len(Place[v]) = Len(Place[Parent(v)]) + 1
        /\ \A i \in 1..Len(Place[Parent(v)]) : Place[v][i] = Place[Parent(v)][i]
    BY <1>6, <2>1, <2>4
  <2>6. Len(Place[t]) <= Len(Place[Parent(v)])
        /\ \A i \in 1..Len(Place[t]) : Place[t][i] = Place[Parent(v)][i]
    BY <1>3, <2>1, <2>2, <2>3, <2>5
  <2> QED
    BY <1>2, <2>4, <2>5, <2>6 DEF Below
<1>9. ASSUME t # Root
      PROVE  Parent(t) \notin Below(t)
  <2>1. Parent(t) \in Containers /\ Len(Place[t]) = Len(Place[Parent(t)]) + 1
    BY <1>6, <1>9
  <2>2. ~ (Len(Place[t]) <= Len(Place[Parent(t)]))
    BY <1>3, <2>1
  <2> QED
    BY <1>2, <2>1, <2>2 DEF Below
<1> QED
  BY <1>4, <1>5, <1>7, <1>8, <1>9

-----------------------------------------------------------------------------
(* What is under way.                                                        *)

\* The packets on any link.
Packets == up \cup (UNION {side[s] : s \in Servers}) \cup (UNION {down[c] : c \in Clients})

\* A packet is on the way to a client.
OnWay(x, c) == x \in up \/ (at[c] \in Servers /\ x \in side[at[c]]) \/ x \in down[c]

\* What d broadcasts comes to the server of c.
Led(d, c) == at[d] # Nowhere /\ at[c] \in {at[d]} \cup pairs[at[d]]

\* Copy i of a message of which the packets are numbered from b on.
CopyOf(msg, m, b, i) ==
    [from |-> msg.by, n |-> b + i, key |-> Routes(msg)[i], body |-> m]

\* A message was sent with these numbers.
SentFrom(msg, m, b) ==
    \A x \in Packets : x.body = m =>
        /\ x.from = msg.by
        /\ \E i \in DOMAIN Routes(msg) : x.n = b + i /\ x.key = Routes(msg)[i]

\* A portal is bound to hear a message on a route.
Bound(msg, p, r) ==
    /\ r \in hooks[p] /\ r \in subs[Home[p]]
    /\ Led(msg.by, Home[p])
    /\ Earliest(msg, r) \in DOMAIN Routes(msg)
    /\ IsPrefix(r, Routes(msg)[Earliest(msg, r)])

\* A portal has been called for a message.
Had(p, m) == m \in donemessages[p] \/ \A x \in Packets : x.body # m

\* The first copy that a portal can hear on a route is on the way to it, unless
\* it has been called.
Comes(msg, m, p, r, b) ==
    msg.kind # "talk" => Had(p, m) \/ OnWay(CopyOf(msg, m, b, Earliest(msg, r)), Home[p])

\* Nothing is known of a message that was not broadcast.
Unsent(m) ==
    /\ \A x \in Packets : x.body # m
    /\ \A p \in Portals : reach[m][p] = {} /\ ran[p][m] = <<>> /\ m \notin donemessages[p]

\* A message that was broadcast keeps its numbers, and stays on the way to every
\* portal that it must come to until the portal is called for it.
Tracked(m) ==
    IF m \in DOMAIN log /\ m \notin pending
    THEN \E b \in Nat : /\ SentFrom(log[m], m, b)
                        /\ \A p \in Portals : \A r \in reach[m][p] :
                               Bound(log[m], p, r) /\ Comes(log[m], m, p, r, b)
    ELSE Unsent(m)

\* A portal runs for a message when it is called, and on the earliest route.
RanWell(p, m) ==
    /\ Len(ran[p][m]) <= 1
    /\ ran[p][m] # <<>> => Had(p, m)
    /\ m \in DOMAIN log => \A i \in DOMAIN ran[p][m] : \A r \in reach[m][p] :
           Earliest(log[m], ran[p][m][i]) <= Earliest(log[m], r)

\* Types; a function has its route hooked.
PortalTypes ==
    /\ stack \in [Portals -> SUBSET Keys]
    /\ hooks \in [Portals -> SUBSET Keys]
    /\ \A p \in Portals : stack[p] \subseteq hooks[p]
    /\ donemessages \in [Portals -> SUBSET Messages]
    /\ ran \in [Portals -> [Messages -> Seq(Keys)]]
    /\ reach \in [Messages -> [Portals -> SUBSET Keys]]
    /\ copy \in [Portals -> [Containers -> Nat]]
    /\ missed \subseteq Portals /\ closed \subseteq Portals

\* A copy is a tree on the container of its portal.
CopyWell(p) ==
    /\ \A t \in Containers \ Below(Own[p]) : copy[p][t] = Absent
    /\ copy[p][Own[p]] # Absent
    /\ \A t \in Below(Own[p]) \ {Own[p]} : copy[p][t] # Absent => copy[p][Parent(t)] # Absent

\* The inductive invariant.
PInv ==
    /\ LogOK /\ MeshInv /\ PortalTypes
    /\ \A d \in linked : at[d] # Nowhere
    /\ \A x \in Packets : x.body \in DOMAIN log
    /\ \A m \in Messages : Tracked(m)
    /\ \A p \in Portals, m \in Messages : RanWell(p, m)
    /\ \A p \in Portals : CopyWell(p)

\* The packets are those on the links.
LEMMA PacketsAre ==
    /\ \A x : x \in Packets <=> (x \in up \/ (\E s \in Servers : x \in side[s]) \/ (\E c \in Clients : x \in down[c]))
    /\ \A x : x \in Packets' <=> (x \in up' \/ (\E s \in Servers : x \in side'[s]) \/ (\E c \in Clients : x \in down'[c]))
<1>1. PICK A, C : A = UNION {side[s] : s \in Servers} /\ C = UNION {down[c] : c \in Clients}
  OBVIOUS
<1>2. Packets = up \cup A \cup C
  BY <1>1 DEF Packets
<1>3. \A x : x \in A <=> \E s \in Servers : x \in side[s]
  BY <1>1
<1>4. \A x : x \in C <=> \E c \in Clients : x \in down[c]
  BY <1>1
<1>5. PICK AA, CC : AA = UNION {side'[s] : s \in Servers} /\ CC = UNION {down'[c] : c \in Clients}
  OBVIOUS
<1>6. Packets' = up' \cup AA \cup CC
  BY <1>5 DEF Packets
<1>7. \A x : x \in AA <=> \E s \in Servers : x \in side'[s]
  BY <1>5
<1>8. \A x : x \in CC <=> \E c \in Clients : x \in down'[c]
  BY <1>5
<1>9. ASSUME NEW x
      PROVE  x \in Packets <=> (x \in up \/ (\E s \in Servers : x \in side[s]) \/ (\E c \in Clients : x \in down[c]))
  <2>1. x \in Packets <=> x \in up \/ x \in A \/ x \in C
    BY <1>2
  <2> QED
    BY <1>3, <1>4, <2>1
<1>10. ASSUME NEW x
       PROVE  x \in Packets' <=> (x \in up' \/ (\E s \in Servers : x \in side'[s]) \/ (\E c \in Clients : x \in down'[c]))
  <2>1. x \in Packets' <=> x \in up' \/ x \in AA \/ x \in CC
    BY <1>6
  <2> QED
    BY <1>7, <1>8, <2>1
<1> QED
  BY <1>9, <1>10

\* The order of the packets of a sender on the way to a client.
LEMMA NextIsFirst ==
    ASSUME MeshInv, NEW c \in Clients, NEW x \in down[c], First(down[c], x),
           NEW y, OnWay(y, c), y.from = x.from
    PROVE  x.n <= y.n
<1>1. /\ Later(up, x) /\ x \in Packet
      /\ \A s \in Servers : at[c] = s => Later(side[s], x)
  BY DEF MeshInv, InOrder, MeshTypeOK
<1>2. CASE y \in up
  <2>1. x.n < y.n
    BY <1>1, <1>2 DEF Later
  <2>2. y \in Packet
    BY <1>2 DEF MeshInv, MeshTypeOK
  <2> QED
    BY <1>1, <2>1, <2>2 DEF Packet
<1>3. CASE at[c] \in Servers /\ y \in side[at[c]]
  <2>1. x.n < y.n
    BY <1>1, <1>3 DEF Later
  <2>2. y \in Packet
    BY <1>3 DEF MeshInv, MeshTypeOK
  <2> QED
    BY <1>1, <2>1, <2>2 DEF Packet
<1>4. CASE y \in down[c]
  BY <1>4 DEF First
<1> QED
  BY <1>2, <1>3, <1>4 DEF OnWay

\* The same after a step.
OnWayNext(x, c) == x \in up' \/ (at'[c] \in Servers /\ x \in side'[at'[c]]) \/ x \in down'[c]

\* Where it leads after a step.
LedNext(d, c) == at'[d] # Nowhere /\ at'[c] \in {at'[d]} \cup pairs'[at'[d]]

\* The mesh carries packets on to whom they are led.
Carries ==
    /\ \A x \in Packets' : x \in Packets
    /\ \A d, c \in Clients : Led(d, c) => LedNext(d, c)
    /\ \A c \in Clients : subs[c] \subseteq subs'[c]
    /\ \A c \in Clients : \A r \in subs[c] : \A y :
           IsPrefix(r, y.key) /\ y.from \in Clients /\ Led(y.from, c) /\ OnWay(y, c) => OnWayNext(y, c)

\* A new wire, pair, subscription or listener takes nothing away.
LEMMA WireCarries ==
    ASSUME MeshInv, Wire \/ UNCHANGED mesh \/ \E c \in Clients, k \in Keys : Listen(c, k)
    PROVE  Carries
<1>1. /\ up' = up /\ side' = side /\ down' = down
      /\ \A c \in Clients : subs[c] \subseteq subs'[c]
      /\ \A c \in Clients : at[c] # Nowhere => at'[c] = at[c]
      /\ \A s \in Servers : pairs[s] # {} => pairs'[s] = pairs[s]
  BY DEF Wire, Pick, Pair, Subscribed, Listen, mesh, wiring, links, MeshInv, MeshTypeOK
<1>2. \A d \in Clients : at[d] \in Servers \cup {Nowhere}
  BY DEF MeshInv, MeshTypeOK
<1>3. Packets' = Packets
  BY <1>1 DEF Packets
<1>4. ASSUME NEW d \in Clients, NEW c \in Clients, Led(d, c)
      PROVE  LedNext(d, c) /\ at'[c] = at[c] /\ at[c] \in Servers
  <2>1. at[d] \in Servers /\ at[d] # Nowhere /\ at'[d] = at[d]
    BY <1>1, <1>2, <1>4 DEF Led, LedNext
  <2>2. pairs[at[d]] \subseteq Servers
    BY <2>1 DEF MeshInv, MeshTypeOK
  <2>3. at[c] \in Servers
    BY <1>4, <2>1, <2>2 DEF Led, LedNext
  <2>4. at[c] # Nowhere
    BY <2>3, MeshAssumption
  <2> QED
    BY <1>1, <1>4, <2>1, <2>3, <2>4 DEF Led, LedNext
<1>5. ASSUME NEW y, NEW c \in Clients, y.from \in Clients, Led(y.from, c), OnWay(y, c)
      PROVE  OnWayNext(y, c)
  BY <1>1, <1>4, <1>5 DEF OnWay, OnWayNext
<1>6. \A c \in Clients : \A r \in subs[c] : \A y :
           IsPrefix(r, y.key) /\ y.from \in Clients /\ Led(y.from, c) /\ OnWay(y, c) => OnWayNext(y, c)
  BY <1>5
<1>7. \A d, c \in Clients : Led(d, c) => LedNext(d, c)
  BY <1>4
<1> QED
  BY <1>1, <1>3, <1>6, <1>7 DEF Carries

\* A server passes a packet on to its clients and sideways.
LEMMA ServerCarries ==
    ASSUME MeshInv, NEW x \in up, ServerHears(x)
    PROVE  Carries
<1>1. /\ at' = at /\ subs' = subs /\ pairs' = pairs
      /\ up' = up \ {x}
      /\ down' = [c \in Clients |-> IF at[c] = at[x.from] /\ \E k \in subs[c] : IsPrefix(k, x.key)
                                    THEN down[c] \cup {x} ELSE down[c]]
      /\ side' = [t \in Servers |-> IF t \in pairs[at[x.from]] THEN side[t] \cup {x} ELSE side[t]]
  BY DEF ServerHears, Published, wiring
<1>2. ASSUME NEW y \in Packets'
      PROVE  y \in Packets
  <2>1. CASE y \in up'
    BY <1>1, <2>1, PacketsAre
  <2>2. CASE \E s \in Servers : y \in side'[s]
    BY <1>1, <2>2, PacketsAre
  <2>3. CASE \E c \in Clients : y \in down'[c]
    BY <1>1, <2>3, PacketsAre
  <2> QED
    BY <1>2, <2>1, <2>2, <2>3, PacketsAre
<1>3. \A d, c \in Clients : Led(d, c) => LedNext(d, c)
  BY <1>1 DEF Led, LedNext
<1>4. ASSUME NEW y, NEW c, NEW r, c \in Clients, r \in subs[c], IsPrefix(r, y.key),
             y.from \in Clients, Led(y.from, c), OnWay(y, c)
      PROVE  OnWayNext(y, c)
  <2>1. at[y.from] \in Servers
    BY <1>4 DEF Led, LedNext, MeshInv, MeshTypeOK
  <2>2. pairs[at[y.from]] \subseteq Servers
    BY <2>1 DEF MeshInv, MeshTypeOK
  <2>3. CASE y = x
    <3>1. CASE at[c] = at[x.from]
      BY <1>1, <1>4, <2>3, <3>1 DEF OnWay, OnWayNext
    <3>2. CASE at[c] \in pairs[at[x.from]]
      BY <1>1, <2>2, <2>3, <3>2 DEF OnWay, OnWayNext
    <3> QED
      BY <1>4, <2>3, <3>1, <3>2 DEF Led, LedNext
  <2>4. CASE y # x
    BY <1>1, <1>4, <2>4 DEF OnWay, OnWayNext
  <2> QED
    BY <2>3, <2>4
<1>5. \A c \in Clients : \A r \in subs[c] : \A y :
           IsPrefix(r, y.key) /\ y.from \in Clients /\ Led(y.from, c) /\ OnWay(y, c) => OnWayNext(y, c)
  BY <1>4
<1>6. \A c \in Clients : subs[c] \subseteq subs'[c]
  BY <1>1
<1> QED
  BY <1>2, <1>3, <1>5, <1>6 DEF Carries

\* A server passes what came sideways on to its clients.
LEMMA SidewaysCarries ==
    ASSUME MeshInv, NEW s \in Servers, NEW x \in side[s], SidewaysHears(s, x)
    PROVE  Carries
<1>1. /\ at' = at /\ subs' = subs /\ pairs' = pairs /\ up' = up
      /\ down' = [c \in Clients |-> IF at[c] = s /\ \E k \in subs[c] : IsPrefix(k, x.key)
                                    THEN down[c] \cup {x} ELSE down[c]]
      /\ side' = [side EXCEPT ![s] = @ \ {x}]
  BY DEF SidewaysHears, Published, wiring
<1>2. ASSUME NEW y \in Packets'
      PROVE  y \in Packets
  <2>1. side \in [Servers -> SUBSET Packet]
    BY DEF MeshInv, MeshTypeOK
  <2>2. CASE y \in up'
    BY <1>1, <2>2, PacketsAre
  <2>3. CASE \E t \in Servers : y \in side'[t]
    BY <1>1, <2>1, <2>3, PacketsAre
  <2>4. CASE \E c \in Clients : y \in down'[c]
    BY <1>1, <2>4, PacketsAre
  <2> QED
    BY <1>2, <2>2, <2>3, <2>4, PacketsAre
<1>3. \A d, c \in Clients : Led(d, c) => LedNext(d, c)
  BY <1>1 DEF Led, LedNext
<1>4. ASSUME NEW y, NEW c, NEW r, c \in Clients, r \in subs[c], IsPrefix(r, y.key),
             y.from \in Clients, Led(y.from, c), OnWay(y, c)
      PROVE  OnWayNext(y, c)
  <2>1. side \in [Servers -> SUBSET Packet]
    BY DEF MeshInv, MeshTypeOK
  <2>2. CASE y \in up \/ y \in down[c]
    BY <1>1, <1>4, <2>2 DEF OnWay, OnWayNext
  <2>3. CASE at[c] \in Servers /\ y \in side[at[c]]
    <3>1. CASE at[c] = s /\ y = x
      BY <1>1, <1>4, <3>1 DEF OnWay, OnWayNext
    <3>2. CASE ~ (at[c] = s /\ y = x)
      BY <1>1, <1>4, <2>1, <2>3, <3>2 DEF OnWay, OnWayNext
    <3> QED
      BY <3>1, <3>2
  <2> QED
    BY <1>4, <2>2, <2>3 DEF OnWay, OnWayNext
<1>5. \A c \in Clients : \A r \in subs[c] : \A y :
           IsPrefix(r, y.key) /\ y.from \in Clients /\ Led(y.from, c) /\ OnWay(y, c) => OnWayNext(y, c)
  BY <1>4
<1>6. \A c \in Clients : subs[c] \subseteq subs'[c]
  BY <1>1
<1> QED
  BY <1>2, <1>3, <1>5, <1>6 DEF Carries

\* A client takes a packet: that one, and no other, is not on the way to it any
\* more.
LEMMA TakeCarries ==
    ASSUME MeshInv, NEW c \in Clients, NEW x \in down[c], Take(c, x)
    PROVE  /\ \A y \in Packets' : y \in Packets
           /\ \A d, b \in Clients : Led(d, b) => LedNext(d, b)
           /\ subs' = subs
           /\ \A y, b : b \in Clients /\ OnWay(y, b) /\ (b # c \/ y # x) => OnWayNext(y, b)
           /\ First(down[c], x) /\ OnWay(x, c) /\ x \in Packets
<1>1. /\ at' = at /\ subs' = subs /\ pairs' = pairs /\ up' = up /\ side' = side
      /\ down' = [down EXCEPT ![c] = @ \ {x}] /\ First(down[c], x)
  BY DEF Take, wiring
<1>2. down \in [Clients -> SUBSET Packet]
  BY DEF MeshInv, MeshTypeOK
<1>3. \A b \in Clients : \A y : (b # c \/ y # x) /\ y \in down[b] => y \in down'[b]
  BY <1>1, <1>2
<1>4. \A b \in Clients : down'[b] \subseteq down[b]
  BY <1>1, <1>2
<1>5. \A y \in Packets' : y \in Packets
  BY <1>1, <1>4, PacketsAre
<1>6. \A d, b \in Clients : Led(d, b) => LedNext(d, b)
  BY <1>1 DEF Led, LedNext
<1>7. \A y, b : b \in Clients /\ OnWay(y, b) /\ (b # c \/ y # x) => OnWayNext(y, b)
  BY <1>1, <1>3 DEF OnWay, OnWayNext
<1>8. OnWay(x, c) /\ x \in Packets
  <2>1. x \in down[c]
    OBVIOUS
  <2>2. x \in Packets
    BY <2>1, PacketsAre
  <2> QED
    BY <2>1, <2>2 DEF OnWay
<1> QED
  BY <1>1, <1>5, <1>6, <1>7, <1>8

\* A broadcast puts its own packets on the way, all of them from a client that
\* is connected.
LEMMA BroadcastCarries ==
    ASSUME MeshInv, NEW d \in Clients, NEW ks \in Seq(Keys), NEW body, Broadcast(d, ks, body)
    PROVE  /\ at' = at /\ subs' = subs /\ pairs' = pairs
           /\ \A x \in Packets' : x \in Packets
                  \/ /\ x.from = d /\ x.body = body
                     /\ \E i \in DOMAIN ks : x.n = sent[d] + i /\ x.key = ks[i]
           /\ \A y, c : OnWay(y, c) => OnWayNext(y, c)
           /\ d \in linked => \A c : \A i \in DOMAIN ks :
                  \A y : y = [from |-> d, n |-> sent[d] + i, key |-> ks[i], body |-> body] => OnWayNext(y, c)
           /\ \A c \in linked' : c \in linked \/ (c = d /\ at[d] # Nowhere)
<1>1. PICK lost \in 0..Len(ks) :
          /\ d \in linked => lost = 0
          /\ at[d] = Nowhere => lost = Len(ks)
          /\ up' = up \cup Sendings(d, ks, body, lost)
          /\ linked' = IF lost < Len(ks) THEN linked \cup {d} ELSE linked
  BY DEF Broadcast
<1>2. at' = at /\ subs' = subs /\ pairs' = pairs /\ side' = side /\ down' = down
  BY DEF Broadcast
<1>3. Len(ks) \in Nat /\ DOMAIN ks = 1..Len(ks)
  OBVIOUS
<1>4. \A x \in Sendings(d, ks, body, lost) :
          /\ x.from = d /\ x.body = body
          /\ \E i \in DOMAIN ks : x.n = sent[d] + i /\ x.key = ks[i]
  BY <1>3 DEF Sendings
<1>5. \A x \in Packets' : x \in Packets \/ x \in Sendings(d, ks, body, lost)
  BY <1>1, <1>2 DEF Packets
<1>6. \A y, c : OnWay(y, c) => OnWayNext(y, c)
  BY <1>1, <1>2 DEF OnWay, OnWayNext
<1>7. ASSUME d \in linked, NEW c, NEW i \in DOMAIN ks,
             NEW y, y = [from |-> d, n |-> sent[d] + i, key |-> ks[i], body |-> body]
      PROVE  OnWayNext(y, c)
  <2>1. i \in (lost + 1)..Len(ks)
    BY <1>1, <1>3, <1>7
  <2>2. y \in Sendings(d, ks, body, lost)
    BY <1>7, <2>1 DEF Sendings
  <2> QED
    BY <1>1, <2>2 DEF OnWay, OnWayNext
<1>8. \A c \in linked' : c \in linked \/ (c = d /\ at[d] # Nowhere)
  <2>1. CASE lost < Len(ks)
    <3>1. lost # Len(ks)
      <4>1. PICK n \in Nat : n = Len(ks)
        BY <1>3
      <4>2. lost \in 0..n /\ lost < n
        BY <1>1, <2>1, <4>1
      <4> QED
        BY <4>1, <4>2
    <3>2. at[d] # Nowhere
      BY <1>1, <3>1
    <3> QED
      BY <1>1, <2>1, <3>2
  <2>2. CASE ~ (lost < Len(ks))
    BY <1>1, <2>2
  <2> QED
    BY <2>1, <2>2
<1> QED
  BY <1>2, <1>4, <1>5, <1>6, <1>7, <1>8

-----------------------------------------------------------------------------
(* Helpers.                                                                  *)

\* A set of numbers has a least one.
LEMMA Least ==
    ASSUME NEW S \in SUBSET Nat, S # {}
    PROVE  \E k \in S : \A j \in S : k <= j
<1> DEFINE R == {p \in Nat \X Nat : p[1] < p[2]}
<1>1. R = OpToRel(<, Nat)
  BY Zenon DEF OpToRel
<1>2. IsWellFoundedOn(R, Nat)
  BY <1>1, NatLessThanWellFounded
<1>3. PICK k \in S : \A j \in S : <<j, k>> \notin R
  <2> HIDE DEF R
  <2> QED
    BY <1>2, WFMin, Zenon
<1>4. ASSUME NEW j \in S
      PROVE  ~ (j < k)
  <2>1. <<j, k>> \in Nat \X Nat /\ <<j, k>>[1] = j /\ <<j, k>>[2] = k
    OBVIOUS
  <2> QED
    BY <1>3, <2>1
<1> QED
  BY <1>3, <1>4

\* A bounded set of numbers has a greatest one.
LEMMA Greatest ==
    ASSUME NEW n \in Nat, NEW S \in SUBSET (0..n), S # {}
    PROVE  \E k \in S : \A j \in S : j <= k
<1> DEFINE T == {n - k : k \in S}
<1>1. T \in SUBSET Nat /\ T # {}
  <2>1. \A k \in S : k \in 0..n /\ n - k \in Nat
    OBVIOUS
  <2>2. T # {}
    OBVIOUS
  <2> QED
    BY <2>1, <2>2
<1>2. PICK t \in T : \A u \in T : t <= u
  <2> HIDE DEF T
  <2> QED
    BY <1>1, Least
<1>3. PICK k \in S : t = n - k
  OBVIOUS
<1>4. ASSUME NEW j \in S
      PROVE  j <= k
  <2>1. n - j \in T
    OBVIOUS
  <2>2. n - k <= n - j
    BY <1>2, <1>3, <2>1
  <2> QED
    BY <2>2
<1> QED
  BY <1>4

-----------------------------------------------------------------------------
(* Messages and routes.                                                      *)

\* A message has at most four routes, and what is said on the radio has one.
LEMMA FewRoutes ==
    ASSUME NEW msg \in Message, msg.kind # "talk" => msg.of # Root
    PROVE  /\ Routes(msg) \in Seq(Keys) /\ Routes(msg) # <<>>
           /\ DOMAIN Routes(msg) = 1..Len(Routes(msg)) /\ Len(Routes(msg)) \in 1..4
           /\ msg.kind = "talk" => Len(Routes(msg)) = 1
<1>1. Routes(msg) \in Seq(Keys) /\ Routes(msg) # <<>>
  BY RoutesAreKeys
<1>2. DOMAIN Routes(msg) = 1..Len(Routes(msg)) /\ Len(Routes(msg)) \in Nat
  BY <1>1
<1>3. PICK t, u : t = Target(msg) /\ u = Placed(msg)
  OBVIOUS
<1>4. CASE msg.kind = "talk"
  <2>1. Routes(msg) = <<RadioRoute(t)>>
    BY <1>3, <1>4 DEF Routes
  <2>2. Len(Routes(msg)) = 1
    BY <2>1
  <2> QED
    BY <1>1, <1>2, <2>2
<1>5. CASE msg.kind # "talk" /\ t = Root
  <2>1. Routes(msg) = <<Route("shallow", "any", t), Route("shallow", msg.kind, t)>>
    BY <1>3, <1>5 DEF Routes
  <2>2. Len(Routes(msg)) = 2
    BY <2>1
  <2> QED
    BY <1>1, <1>2, <1>5, <2>2
<1>6. CASE msg.kind # "talk" /\ t # Root
  <2>1. Routes(msg) = << Route("shallow", "any", t), Route("deep", "any", u),
                         Route("shallow", msg.kind, t), Route("deep", msg.kind, u) >>
    BY <1>3, <1>6 DEF Routes
  <2>2. Len(Routes(msg)) = 4
    BY <2>1
  <2> QED
    BY <1>1, <1>2, <1>6, <2>2
<1> QED
  BY <1>4, <1>5, <1>6

\* The first route of a message on which a listener hears it.
LEMMA EarliestIs ==
    ASSUME NEW msg \in Message, msg.kind # "talk" => msg.of # Root, NEW r,
           NEW i \in DOMAIN Routes(msg), IsPrefix(r, Routes(msg)[i])
    PROVE  /\ Earliest(msg, r) \in DOMAIN Routes(msg) /\ Earliest(msg, r) <= i
           /\ IsPrefix(r, Routes(msg)[Earliest(msg, r)])
<1>1. PICK hits : hits = {j \in DOMAIN Routes(msg) : IsPrefix(r, Routes(msg)[j])}
  OBVIOUS
<1>2. hits \subseteq DOMAIN Routes(msg) /\ i \in hits
  BY <1>1
<1>3. hits \in SUBSET Nat /\ hits # {}
  BY <1>2, FewRoutes
<1>4. PICK l \in hits : \A j \in hits : l <= j
  BY <1>3, Least
<1>5. \A j \in hits : j \in Nat
  BY <1>3
<1>6. Min(hits) \in hits /\ \A j \in hits : Min(hits) <= j
  BY <1>4 DEF Min
<1>7. Earliest(msg, r) = Min(hits)
  BY <1>1, <1>2 DEF Earliest
<1> QED
  BY <1>1, <1>2, <1>6, <1>7

\* A portal is called for one of the routes on which it can hear a packet.
LEMMA HitIs ==
    ASSUME NEW p, hooks[p] \subseteq Keys, NEW key \in Keys, Hits(p, key) # {}
    PROVE  Hit(p, key) \in hooks[p] /\ IsPrefix(Hit(p, key), key)
<1>1. \A r \in Hits(p, key) : r \in hooks[p] /\ r \in Seq(STRING) /\ IsPrefix(r, key)
  BY MeshAssumption DEF Hits
<1>2. PICK n \in Nat : n = Len(key)
  BY MeshAssumption
<1>3. \A r \in Hits(p, key) : Len(r) \in 0..n
  BY <1>1, <1>2 DEF IsPrefix
<1>4. PICK S : S = {Len(r) : r \in Hits(p, key)}
  OBVIOUS
<1>5. S \in SUBSET (0..n) /\ S # {}
  BY <1>3, <1>4
<1>6. PICK l \in S : \A j \in S : j <= l
  BY <1>5, Greatest
<1>7. PICK r \in Hits(p, key) : l = Len(r)
  BY <1>4, <1>6
<1>8. \A q \in Hits(p, key) : Len(q) <= Len(r)
  BY <1>4, <1>6, <1>7
<1>9. Hit(p, key) \in Hits(p, key)
  BY <1>7, <1>8 DEF Hit
<1> QED
  BY <1>1, <1>9

-----------------------------------------------------------------------------
(* What is known of a message stays.                                         *)

\* A portal stays bound to hear a message.
LEMMA BoundStays ==
    ASSUME NEW msg, NEW p \in Portals, NEW r, Bound(msg, p, r),
           hooks[p] \subseteq hooks'[p], subs[Home[p]] \subseteq subs'[Home[p]],
           Led(msg.by, Home[p]) => LedNext(msg.by, Home[p])
    PROVE  Bound(msg, p, r)'
BY DEF Bound, Led, LedNext

\* A copy stays on the way, or the portal has been called.
LEMMA ComesStays ==
    ASSUME NEW msg, NEW m, NEW p \in Portals, NEW r, NEW b, Comes(msg, m, p, r, b),
           NEW y, y = CopyOf(msg, m, b, Earliest(msg, r)), OnWay(y, Home[p]) => OnWayNext(y, Home[p]) \/ Had(p, m)',
           Had(p, m) => Had(p, m)'
    PROVE  Comes(msg, m, p, r, b)'
BY DEF Comes, OnWay, OnWayNext

\* What the log holds.
LEMMA Logged ==
    ASSUME LogOK, NEW m \in DOMAIN log
    PROVE  /\ log[m] \in Message /\ (log[m].kind # "talk" => log[m].of # Root)
           /\ m \in Messages /\ m \in Nat /\ m # 0 /\ m \in Bodies /\ log[m].by \in Clients
<1>1. /\ log[m] \in Message /\ (log[m].kind # "talk" => log[m].of # Root)
      /\ m \in Messages /\ m \in Nat /\ m # 0
  BY PortalAssumption DEF LogOK, Messages
<1> QED
  BY <1>1, PortalAssumption DEF Message

\* A step in which nothing is sent or heard.
LEMMA StillTracked ==
    ASSUME PInv, Carries, ran' = ran, reach' = reach,
           \A p \in Portals : hooks[p] \subseteq hooks'[p] /\ donemessages'[p] \subseteq donemessages[p],
           \A p \in Portals : \A m \in donemessages[p] :
               m \in donemessages'[p] \/ \A x \in Packets' : x.body # m,
           \A m \in DOMAIN log : m \in DOMAIN log' /\ log'[m] = log[m],
           \A m : (m \in DOMAIN log' /\ m \notin pending') <=> (m \in DOMAIN log /\ m \notin pending)
    PROVE  /\ \A x \in Packets' : x.body \in DOMAIN log'
           /\ \A m \in Messages : Tracked(m)'
           /\ \A p \in Portals, m \in Messages : RanWell(p, m)'
<1>1. \A x \in Packets' : x.body \in DOMAIN log'
  BY DEF PInv, Carries
<1>2. ASSUME NEW p \in Portals, NEW m, Had(p, m)
      PROVE  Had(p, m)'
  BY <1>2 DEF Had, Carries
<1>3. ASSUME NEW m \in Messages
      PROVE  Tracked(m)'
  <2>1. CASE m \in DOMAIN log /\ m \notin pending
    <3>1. PICK msg : msg = log[m] /\ msg = log'[m] /\ msg \in Message /\ msg.by \in Clients
          /\ (msg.kind # "talk" => msg.of # Root)
      BY <2>1, Logged DEF PInv
    <3>2. PICK b \in Nat : /\ SentFrom(msg, m, b)
                           /\ \A p \in Portals : \A r \in reach[m][p] :
                                  Bound(msg, p, r) /\ Comes(msg, m, p, r, b)
      BY <2>1, <3>1 DEF PInv, Tracked
    <3>3. SentFrom(msg, m, b)'
      BY <3>2 DEF SentFrom, Carries
    <3>4. ASSUME NEW p \in Portals, NEW r \in reach[m][p]
          PROVE  Bound(msg, p, r)' /\ Comes(msg, m, p, r, b)'
      <4>1. Bound(msg, p, r) /\ Comes(msg, m, p, r, b)
        BY <3>2
      <4>2. Home[p] \in Clients
        BY PortalAssumption
      <4>3. /\ subs[Home[p]] \subseteq subs'[Home[p]]
            /\ Led(msg.by, Home[p]) => LedNext(msg.by, Home[p])
        BY <3>1, <4>2 DEF Carries
      <4>4. Bound(msg, p, r)'
        BY <4>1, <4>3, BoundStays
      <4>5. PICK y : y = CopyOf(msg, m, b, Earliest(msg, r))
        OBVIOUS
      <4>6. /\ r \in subs[Home[p]] /\ IsPrefix(r, y.key) /\ y.from \in Clients /\ Led(y.from, Home[p])
        BY <3>1, <4>1, <4>5 DEF Bound, CopyOf
      <4>7. OnWay(y, Home[p]) => OnWayNext(y, Home[p])
        BY <4>2, <4>6 DEF Carries
      <4>8. Comes(msg, m, p, r, b)'
        BY <1>2, <4>1, <4>5, <4>7, ComesStays
      <4> QED
        BY <4>4, <4>8
    <3>5. \A p \in Portals : \A r \in reach'[m][p] : Bound(msg, p, r)' /\ Comes(msg, m, p, r, b)'
      BY <3>4
    <3>6. m \in DOMAIN log' /\ m \notin pending'
      BY <2>1
    <3> QED
      BY <3>1, <3>3, <3>5, <3>6 DEF Tracked
  <2>2. CASE ~ (m \in DOMAIN log /\ m \notin pending)
    <3>1. Unsent(m)
      BY <2>2 DEF PInv, Tracked
    <3>2. Unsent(m)'
      BY <3>1 DEF Unsent, Carries
    <3>3. ~ (m \in DOMAIN log' /\ m \notin pending')
      BY <2>2
    <3> QED
      BY <3>2, <3>3 DEF Tracked
  <2> QED
    BY <2>1, <2>2
<1>4. ASSUME NEW p \in Portals, NEW m \in Messages
      PROVE  RanWell(p, m)'
  <2>1. RanWell(p, m)
    BY DEF PInv
  <2>2. ran[p][m] # <<>> => Had(p, m)'
    BY <1>2, <2>1 DEF RanWell
  <2>3. CASE m \in DOMAIN log
    BY <2>1, <2>2, <2>3 DEF RanWell
  <2>4. CASE m \notin DOMAIN log
    <3>1. ran[p][m] = <<>>
      BY <2>4 DEF PInv, Tracked, Unsent
    <3> QED
      BY <2>1, <2>2, <3>1 DEF RanWell
  <2> QED
    BY <2>3, <2>4
<1> QED
  BY <1>1, <1>3, <1>4

-----------------------------------------------------------------------------
(* Hearing.                                                                  *)

\* What a client hears was sent, by the one who logged it.
LEMMA HeardIs ==
    ASSUME PInv, NEW c \in Clients, NEW x \in down[c]
    PROVE  /\ x \in Packets /\ x.body \in DOMAIN log /\ x.body \notin pending
           /\ x.body \in Messages /\ x.key \in Keys
<1>1. x \in Packets
  <2>1. x \in down[c]
    OBVIOUS
  <2> QED
    BY <2>1, PacketsAre
<1>2. x.body \in DOMAIN log
  BY <1>1 DEF PInv
<1>3. x.body \in Messages
  BY <1>2, Logged DEF PInv
<1>4. x \in Packet
  BY DEF PInv, MeshInv, MeshTypeOK
<1>5. x.body \notin pending
  <2>1. Tracked(x.body)
    BY <1>3 DEF PInv
  <2> QED
    BY <1>1, <2>1 DEF Tracked, Unsent
<1> QED
  BY <1>1, <1>2, <1>3, <1>4, <1>5 DEF Packet

\* What hearing a packet does to a portal, whether or not the process lives on.
LEMMA HearDoes ==
    ASSUME PInv, NEW c \in Clients, NEW x \in down[c], Hear(c, x) \/ Fail(c, x)
    PROVE  /\ log' = log /\ pending' = pending /\ reach' = reach /\ hooks' = hooks
           /\ Hear(c, x) => stack' = stack
           /\ \A p \in Portals : donemessages'[p] =
                  IF p \in Called(c, x) THEN donemessages[p] \cup {x.body} ELSE donemessages[p]
           /\ \A p \in Portals, m \in Messages : ran'[p][m] = ran[p][m]
                  \/ (m = x.body /\ p \in Called(c, x) /\ ran'[p][m] = Append(ran[p][m], Hit(p, x.key)))
           /\ Called(c, x) \subseteq Portals
<1>1. /\ log' = log /\ pending' = pending /\ reach' = reach /\ hooks' = hooks
      /\ donemessages' = [p \in Portals |->
             IF p \in Called(c, x) THEN donemessages[p] \cup {x.body} ELSE donemessages[p]]
  BY DEF Hear, Fail, Heard, store
<1>2. Called(c, x) \subseteq Portals
  BY DEF Called
<1>3. ran \in [Portals -> [Messages -> Seq(Keys)]]
  BY DEF PInv, PortalTypes
<1>4. x.body \in Messages
  BY HeardIs
<1>5. CASE Fail(c, x)
  <2>1. ran' = ran
    BY <1>5 DEF Fail
  <2>2. Hear(c, x) => stack' = stack
    BY DEF Hear
  <2> QED
    BY <1>1, <1>2, <2>1, <2>2
<1>6. CASE Hear(c, x)
  <2>1. stack' = stack
    BY <1>6 DEF Hear
  <2>2. ran' = [p \in Portals |->
            IF p \in Called(c, x) /\ Runs(p, x)
            THEN [ran[p] EXCEPT ![x.body] = Append(@, Hit(p, x.key))] ELSE ran[p]]
    BY <1>6 DEF Hear
  <2>3. ASSUME NEW p \in Portals, NEW m \in Messages
        PROVE  ran'[p][m] = ran[p][m]
                   \/ (m = x.body /\ p \in Called(c, x) /\ ran'[p][m] = Append(ran[p][m], Hit(p, x.key)))
    <3>1. PICK h : h = Hit(p, x.key)
      OBVIOUS
    <3>2. PICK f \in [Messages -> Seq(Keys)] : f = ran[p]
      BY <1>3
    <3>3. ran'[p] = f \/ (p \in Called(c, x) /\ ran'[p] = [f EXCEPT ![x.body] = Append(@, h)])
      BY <2>2, <3>1, <3>2
    <3> QED
      BY <3>1, <3>2, <3>3
  <2> QED
    BY <1>1, <1>2, <2>1, <2>3
<1> QED
  BY <1>5, <1>6

\* A copy that is still to come to a portal stays so, or the portal is called.
LEMMA HearComes ==
    ASSUME PInv, NEW c \in Clients, NEW x \in down[c], Hear(c, x) \/ Fail(c, x),
           NEW m \in DOMAIN log, m \notin pending, NEW msg, msg = log[m],
           NEW b \in Nat, NEW p \in Portals, NEW r,
           Bound(msg, p, r), Comes(msg, m, p, r, b)
    PROVE  Comes(msg, m, p, r, b)'
<1>1. Take(c, x) /\ MeshInv
  BY DEF Hear, Fail, Heard, PInv
<1>2. Home[p] \in Clients
  BY PortalAssumption
<1>8. \A q \in Portals : donemessages'[q] =
          IF q \in Called(c, x) THEN donemessages[q] \cup {x.body} ELSE donemessages[q]
  BY HearDoes
<1>3. Had(p, m) => Had(p, m)'
  <2>1. donemessages[p] \subseteq donemessages'[p]
    BY <1>8
  <2>2. \A y \in Packets' : y \in Packets
    BY <1>1, TakeCarries
  <2> QED
    BY <2>1, <2>2 DEF Had
<1>4. PICK y : y = CopyOf(msg, m, b, Earliest(msg, r))
  OBVIOUS
<1>5. CASE msg.kind = "talk"
  BY <1>5 DEF Comes
<1>6. CASE msg.kind # "talk" /\ Home[p] = c /\ y = x
  <2>1. x.body = m /\ IsPrefix(r, x.key)
    BY <1>4, <1>6 DEF CopyOf, Bound
  <2>2. Hits(p, x.key) # {}
    BY <2>1 DEF Hits, Bound
  <2>3. m \in donemessages'[p]
    <3>1. CASE Done(p, m)
      <4>1. PICK o \in donemessages[p] : SameId(m, o)
        BY <3>1 DEF Done
      <4>2. m = o
        BY <1>6, <4>1 DEF SameId
      <4> QED
        BY <1>8, <4>1, <4>2
    <3>2. CASE ~ Done(p, m)
      <4>1. p \in Called(c, x)
        BY <1>6, <2>1, <2>2, <3>2 DEF Called
      <4> QED
        BY <1>8, <2>1, <4>1
    <3> QED
      BY <3>1, <3>2
  <2>4. Had(p, m)'
    BY <2>3 DEF Had
  <2> QED
    BY <2>4 DEF Comes
<1>7. CASE Home[p] # c \/ y # x
  <2>1. OnWay(y, Home[p]) => OnWayNext(y, Home[p])
    BY <1>1, <1>2, <1>7, TakeCarries
  <2> QED
    BY <1>3, <1>4, <2>1, ComesStays
<1> QED
  BY <1>5, <1>6, <1>7

\* A portal that is called has the message for the first time, and on the
\* earliest of the routes that it can hear it on.
LEMMA HearRuns ==
    ASSUME PInv, NEW c \in Clients, NEW x \in down[c], Hear(c, x) \/ Fail(c, x),
           NEW p \in Called(c, x), NEW m, m = x.body
    PROVE  /\ ran[p][m] = <<>>
           /\ \A r \in reach[m][p] : Earliest(log[m], Hit(p, x.key)) <= Earliest(log[m], r)
<1>1. /\ p \in Portals /\ Home[p] = c /\ Hits(p, x.key) # {} /\ ~ Done(p, m)
  BY DEF Called
<1>2. x \in Packets /\ m \in DOMAIN log /\ m \notin pending /\ m \in Messages /\ x.key \in Keys
  BY HeardIs
<1>3. ~ Had(p, m)
  <2>1. m \notin donemessages[p]
    BY <1>1 DEF Done, SameId
  <2> QED
    BY <1>2, <2>1 DEF Had
<1>4. ran[p][m] = <<>>
  BY <1>1, <1>2, <1>3 DEF PInv, RanWell
<1>5. PICK msg : msg = log[m] /\ msg \in Message /\ (msg.kind # "talk" => msg.of # Root)
  BY <1>2, Logged DEF PInv
<1>6. PICK b \in Nat : /\ SentFrom(msg, m, b)
                       /\ \A q \in Portals : \A r \in reach[m][q] :
                              Bound(msg, q, r) /\ Comes(msg, m, q, r, b)
  BY <1>2, <1>5 DEF PInv, Tracked
<1>7. PICK i \in DOMAIN Routes(msg) : x.n = b + i /\ x.key = Routes(msg)[i] /\ x.from = msg.by
  BY <1>2, <1>6 DEF SentFrom
<1>8. hooks[p] \subseteq Keys
  BY <1>1 DEF PInv, PortalTypes
<1>9. PICK h : h = Hit(p, x.key)
  OBVIOUS
<1>10. IsPrefix(h, Routes(msg)[i])
  BY <1>1, <1>2, <1>7, <1>8, <1>9, HitIs
<1>11. Earliest(msg, h) \in DOMAIN Routes(msg) /\ Earliest(msg, h) <= i
  BY <1>5, <1>10, EarliestIs
<1>12. DOMAIN Routes(msg) = 1..Len(Routes(msg)) /\ Len(Routes(msg)) \in 1..4
       /\ (msg.kind = "talk" => Len(Routes(msg)) = 1)
  BY <1>5, FewRoutes
<1>13. ASSUME NEW r \in reach[m][p]
       PROVE  Earliest(msg, h) <= Earliest(msg, r)
  <2>1. Bound(msg, p, r) /\ Comes(msg, m, p, r, b)
    BY <1>1, <1>6
  <2>2. Earliest(msg, r) \in DOMAIN Routes(msg)
    BY <2>1 DEF Bound
  <2>3. CASE msg.kind = "talk"
    BY <1>11, <1>12, <2>2, <2>3
  <2>4. CASE msg.kind # "talk"
    <3>1. PICK y : y = CopyOf(msg, m, b, Earliest(msg, r))
      OBVIOUS
    <3>2. OnWay(y, c)
      BY <1>1, <1>3, <2>1, <2>4, <3>1 DEF Comes
    <3>3. y.from = x.from /\ y.n = b + Earliest(msg, r)
      BY <1>7, <3>1 DEF CopyOf
    <3>4. MeshInv /\ First(down[c], x)
      BY DEF PInv, Hear, Fail, Heard, Take
    <3>5. x.n <= y.n
      BY <3>2, <3>3, <3>4, NextIsFirst
    <3>6. i <= Earliest(msg, r)
      BY <1>7, <1>12, <2>2, <3>3, <3>5
    <3> QED
      BY <1>7, <1>11, <1>12, <2>2, <3>6
  <2> QED
    BY <2>3, <2>4
<1> QED
  BY <1>4, <1>5, <1>9, <1>13

\* Hearing a packet keeps track of the messages.
LEMMA HearTracked ==
    ASSUME PInv, NEW c \in Clients, NEW x \in down[c], Hear(c, x) \/ Fail(c, x)
    PROVE  /\ \A y \in Packets' : y.body \in DOMAIN log'
           /\ \A m \in Messages : Tracked(m)'
           /\ \A p \in Portals, m \in Messages : RanWell(p, m)'
<1>1. Take(c, x) /\ MeshInv
  BY DEF Hear, Fail, Heard, PInv
<1>2. /\ \A y \in Packets' : y \in Packets
      /\ \A d, e \in Clients : Led(d, e) => LedNext(d, e)
      /\ subs' = subs
  BY <1>1, TakeCarries
<1>3. /\ log' = log /\ pending' = pending /\ reach' = reach /\ hooks' = hooks
      /\ \A p \in Portals : donemessages'[p] =
             IF p \in Called(c, x) THEN donemessages[p] \cup {x.body} ELSE donemessages[p]
      /\ \A p \in Portals, m \in Messages : ran'[p][m] = ran[p][m]
             \/ (m = x.body /\ p \in Called(c, x) /\ ran'[p][m] = Append(ran[p][m], Hit(p, x.key)))
  BY HearDoes
<1>4. \A y \in Packets' : y.body \in DOMAIN log'
  BY <1>2, <1>3 DEF PInv
<1>5. ASSUME NEW m \in Messages
      PROVE  Tracked(m)'
  <2>1. CASE m \in DOMAIN log /\ m \notin pending
    <3>1. PICK msg : msg = log[m] /\ msg \in Message /\ msg.by \in Clients
      BY <2>1, Logged DEF PInv
    <3>2. PICK b \in Nat : /\ SentFrom(msg, m, b)
                           /\ \A p \in Portals : \A r \in reach[m][p] :
                                  Bound(msg, p, r) /\ Comes(msg, m, p, r, b)
      BY <2>1, <3>1 DEF PInv, Tracked
    <3>3. SentFrom(msg, m, b)'
      BY <1>2, <3>2 DEF SentFrom
    <3>4. ASSUME NEW p \in Portals, NEW r \in reach[m][p]
          PROVE  Bound(msg, p, r)' /\ Comes(msg, m, p, r, b)'
      <4>1. Bound(msg, p, r) /\ Comes(msg, m, p, r, b)
        BY <3>2
      <4>2. Home[p] \in Clients
        BY PortalAssumption
      <4>3. Led(msg.by, Home[p]) => LedNext(msg.by, Home[p])
        BY <1>2, <3>1, <4>2
      <4>4. hooks[p] \subseteq hooks'[p] /\ subs[Home[p]] \subseteq subs'[Home[p]]
        BY <1>2, <1>3
      <4>5. Bound(msg, p, r)'
        BY <4>1, <4>3, <4>4, BoundStays
      <4>6. Comes(msg, m, p, r, b)'
        BY <2>1, <3>1, <4>1, HearComes
      <4> QED
        BY <4>5, <4>6
    <3>5. \A p \in Portals : \A r \in reach'[m][p] : Bound(msg, p, r)' /\ Comes(msg, m, p, r, b)'
      BY <1>3, <3>4
    <3> QED
      BY <1>3, <2>1, <3>1, <3>3, <3>5 DEF Tracked
  <2>2. CASE ~ (m \in DOMAIN log /\ m \notin pending)
    <3>1. Unsent(m)
      BY <2>2 DEF PInv, Tracked
    <3>2. m # x.body
      BY <2>2, HeardIs
    <3>3. /\ \A y \in Packets' : y.body # m
          /\ \A p \in Portals : ran'[p][m] = <<>>
          /\ \A p \in Portals : m \notin donemessages'[p]
          /\ \A p \in Portals : reach'[m][p] = {}
      <4>1. \A y \in Packets' : y.body # m
        BY <1>2, <3>1 DEF Unsent
      <4>2. \A p \in Portals : ran'[p][m] = ran[p][m]
        BY <1>3, <3>2
      <4>3. ASSUME NEW p \in Portals
            PROVE  m \notin donemessages'[p]
        <5>1. donemessages'[p] = donemessages[p] \cup {x.body} \/ donemessages'[p] = donemessages[p]
          BY <1>3
        <5>2. m \notin donemessages[p]
          BY <3>1 DEF Unsent
        <5> QED
          BY <3>2, <5>1, <5>2
      <4> QED
        BY <1>3, <3>1, <4>1, <4>2, <4>3 DEF Unsent
    <3>4. Unsent(m)'
      BY <3>3 DEF Unsent
    <3> QED
      BY <1>3, <2>2, <3>4 DEF Tracked
  <2> QED
    BY <2>1, <2>2
<1>6. ASSUME NEW p \in Portals, NEW m \in Messages
      PROVE  RanWell(p, m)'
  <2>1. RanWell(p, m)
    BY DEF PInv
  <2>2. Had(p, m) => Had(p, m)'
    BY <1>2, <1>3 DEF Had
  <2>3. CASE ran'[p][m] = ran[p][m]
    BY <1>3, <2>1, <2>2, <2>3 DEF RanWell
  <2>4. CASE m = x.body /\ p \in Called(c, x) /\ ran'[p][m] = Append(ran[p][m], Hit(p, x.key))
    <3>1. PICK h : h = Hit(p, x.key)
      OBVIOUS
    <3>2. /\ ran[p][m] = <<>>
          /\ \A r \in reach[m][p] : Earliest(log[m], h) <= Earliest(log[m], r)
      BY <2>4, <3>1, HearRuns
    <3>3. ran'[p][m] = <<h>>
      BY <2>4, <3>1, <3>2
    <3>4. Had(p, m)'
      BY <1>3, <2>4 DEF Had
    <3>5. Len(ran'[p][m]) <= 1 /\ DOMAIN ran'[p][m] = {1} /\ ran'[p][m][1] = h
      BY <3>3
    <3> QED
      BY <1>3, <3>2, <3>4, <3>5 DEF RanWell
  <2> QED
    BY <1>3, <2>3, <2>4
<1> QED
  BY <1>4, <1>5, <1>6

-----------------------------------------------------------------------------
(* Copies.                                                                   *)

\* f holds a tree on t.
TreeOn(f, t) ==
    /\ f \in [Containers -> Nat]
    /\ \A u \in Containers \ Below(t) : f[u] = Absent
    /\ f[t] # Absent
    /\ \A u \in Below(t) \ {t} : f[u] # Absent => f[Parent(u)] # Absent

\* The parent of what is loaded, or is made into what is loaded, is on the tree.
LEMMA OnTree ==
    ASSUME NEW t \in Containers, NEW f, TreeOn(f, t), NEW u \in Containers, f[u] # Absent
    PROVE  /\ u \in Below(t)
           /\ \A v \in Containers \ {Root} : Parent(v) = u => v \in Below(t)
BY BelowIs DEF TreeOn

\* A container is written that has a parent, or is the top.
LEMMA WrittenTree ==
    ASSUME NEW t \in Containers, NEW f, TreeOn(f, t), NEW u \in Below(t), NEW m \in Nat, m # Absent,
           u = t \/ f[Parent(u)] # Absent, NEW g, g = [f EXCEPT ![u] = m]
    PROVE  TreeOn(g, t)
<1>1. Below(t) \subseteq Containers /\ \A v \in Below(t) \ {t} : Parent(v) \in Below(t)
  BY BelowIs
<1>2. /\ g \in [Containers -> Nat]
      /\ g[u] # Absent
      /\ \A v \in Containers : v # u => g[v] = f[v]
  BY <1>1 DEF TreeOn
<1>3. \A v \in Containers : f[v] # Absent => g[v] # Absent
  BY <1>2
<1>4. \A v \in Containers \ Below(t) : g[v] = Absent
  BY <1>2 DEF TreeOn
<1>5. g[t] # Absent
  BY <1>3 DEF TreeOn
<1>6. ASSUME NEW v \in Below(t) \ {t}, g[v] # Absent
      PROVE  g[Parent(v)] # Absent
  <2>1. f[Parent(v)] # Absent
    BY <1>1, <1>2, <1>6 DEF TreeOn
  <2> QED
    BY <1>1, <1>3, <2>1
<1> QED
  BY <1>2, <1>4, <1>5, <1>6 DEF TreeOn

\* A container below the top is taken away with all below it.
LEMMA CutTree ==
    ASSUME NEW t \in Containers, NEW f, TreeOn(f, t), NEW u \in Containers \ {Root}, Parent(u) \in Below(t),
           NEW g, g = [v \in Containers |-> IF v \in Below(u) THEN Absent ELSE f[v]]
    PROVE  TreeOn(g, t)
<1>1. t \notin Below(u)
  BY BelowIs
<1>2. g \in [Containers -> Nat] /\ \A v \in Containers : g[v] = IF v \in Below(u) THEN Absent ELSE f[v]
  BY DEF TreeOn, Absent
<1>3. \A v \in Containers \ Below(t) : g[v] = Absent
  BY <1>2 DEF TreeOn
<1>4. g[t] # Absent
  BY <1>1, <1>2 DEF TreeOn
<1>5. ASSUME NEW v \in Below(t) \ {t}, g[v] # Absent
      PROVE  g[Parent(v)] # Absent
  <2>1. v \in Containers /\ v # Root /\ Parent(v) \in Below(t) /\ Parent(v) \in Containers
    BY BelowIs
  <2>2. v \notin Below(u) /\ f[v] # Absent
    BY <1>2, <1>5, <2>1
  <2>3. Parent(v) \notin Below(u)
    BY <2>1, <2>2, BelowIs
  <2>4. f[Parent(v)] # Absent
    BY <2>2 DEF TreeOn
  <2> QED
    BY <1>2, <2>1, <2>3, <2>4
<1> QED
  BY <1>2, <1>3, <1>4, <1>5 DEF TreeOn

\* To sync a tree leaves a tree.
LEMMA SyncedIsTree ==
    ASSUME LogOK, NEW m \in DOMAIN log, NEW t \in Containers, NEW f, TreeOn(f, t), NEW deep \in BOOLEAN
    PROVE  TreeOn(Synced(f, t, m, deep), t)
<1>1. PICK u, kind : u = log[m].of /\ kind = log[m].kind
  OBVIOUS
<1>2. /\ log[m] \in Message /\ (kind # "talk" => u # Root) /\ m \in Nat /\ m # Absent
  BY <1>1, Logged DEF Absent
<1>3. u \in Containers /\ kind \in Kinds
  BY <1>1, <1>2 DEF Message
<1>4. t \in Below(t) /\ f[t] # Absent
  BY BelowIs DEF TreeOn
<1>5. CASE kind = "post"
  <2>1. u # Root /\ Parent(u) \in Containers
    BY <1>2, <1>3, <1>5, ParentIs
  <2>2. CASE (IF deep THEN f[Parent(u)] # Absent ELSE Parent(u) = t) /\ f[u] = Absent
    <3>1. Synced(f, t, m, deep) = [f EXCEPT ![u] = m]
      BY <1>1, <1>5, <2>2 DEF Synced
    <3>2. f[Parent(u)] # Absent
      BY <1>4, <2>2
    <3>3. u \in Below(t)
      BY <1>3, <2>1, <3>2, OnTree
    <3> QED
      BY <1>2, <3>1, <3>2, <3>3, WrittenTree
  <2>3. CASE ~ ((IF deep THEN f[Parent(u)] # Absent ELSE Parent(u) = t) /\ f[u] = Absent)
    <3>1. Synced(f, t, m, deep) = f
      BY <1>1, <1>5, <2>3 DEF Synced
    <3> QED
      BY <3>1
  <2> QED
    BY <2>2, <2>3
<1>6. CASE kind = "put"
  <2>1. CASE IF deep THEN f[u] # Absent ELSE u = t
    <3>1. Synced(f, t, m, deep) = [f EXCEPT ![u] = m]
      BY <1>1, <1>6, <2>1 DEF Synced
    <3>2. f[u] # Absent
      BY <1>4, <2>1
    <3>3. u \in Below(t)
      BY <1>3, <3>2, OnTree
    <3>4. u = t \/ f[Parent(u)] # Absent
      BY <3>2, <3>3 DEF TreeOn
    <3> QED
      BY <1>2, <3>1, <3>3, <3>4, WrittenTree
  <2>2. CASE ~ (IF deep THEN f[u] # Absent ELSE u = t)
    <3>1. Synced(f, t, m, deep) = f
      BY <1>1, <1>6, <2>2 DEF Synced
    <3> QED
      BY <3>1
  <2> QED
    BY <2>1, <2>2
<1>7. CASE kind = "delete"
  <2>1. u # Root /\ Parent(u) \in Containers
    BY <1>2, <1>3, <1>7, ParentIs
  <2>2. CASE IF deep THEN f[Parent(u)] # Absent ELSE Parent(u) = t
    <3>1. Synced(f, t, m, deep) = [v \in Containers |-> IF v \in Below(u) THEN Absent ELSE f[v]]
      BY <1>1, <1>7, <2>2 DEF Synced
    <3>2. f[Parent(u)] # Absent
      BY <1>4, <2>2
    <3>3. Parent(u) \in Below(t)
      BY <2>1, <3>2, OnTree
    <3> QED
      BY <1>3, <2>1, <3>1, <3>3, CutTree
  <2>3. CASE ~ (IF deep THEN f[Parent(u)] # Absent ELSE Parent(u) = t)
    <3>1. Synced(f, t, m, deep) = f
      BY <1>1, <1>7, <2>3 DEF Synced
    <3> QED
      BY <3>1
  <2> QED
    BY <2>2, <2>3
<1>8. CASE kind = "talk"
  <2>1. Synced(f, t, m, deep) = f
    BY <1>1, <1>8 DEF Synced
  <2> QED
    BY <2>1
<1> QED
  BY <1>3, <1>5, <1>6, <1>7, <1>8 DEF Kinds

\* The copies are trees.
Copies == copy \in [Portals -> [Containers -> Nat]] /\ \A p \in Portals : TreeOn(copy[p], Own[p])

\* The two ways to say so.
LEMMA CopiesAre == PortalTypes /\ (\A p \in Portals : CopyWell(p)) => Copies
BY PortalAssumption DEF PortalTypes, CopyWell, Copies, TreeOn

\* Hearing leaves the copies trees.
LEMMA HearCopies ==
    ASSUME PInv, Copies, NEW c \in Clients, NEW x \in down[c], Hear(c, x)
    PROVE  Copies'
<1>1. x.body \in DOMAIN log /\ LogOK
  BY HeardIs DEF PInv
<1>3. copy' = [p \in Portals |->
          IF p \in Called(c, x) /\ Runs(p, x) /\ SyncsOn(p, x)
          THEN Synced(copy[p], Own[p], x.body, Hit(p, x.key) = DeepAny(p)) ELSE copy[p]]
  BY DEF Hear
<1>4. ASSUME NEW p \in Portals
      PROVE  TreeOn(copy'[p], Own[p]) /\ copy'[p] \in [Containers -> Nat]
  <2>1. Own[p] \in Containers /\ TreeOn(copy[p], Own[p])
    BY PortalAssumption DEF Copies
  <2>2. PICK deep \in BOOLEAN : deep = (Hit(p, x.key) = DeepAny(p))
    OBVIOUS
  <2>3. copy'[p] = Synced(copy[p], Own[p], x.body, deep) \/ copy'[p] = copy[p]
    BY <1>3, <2>2
  <2>4. TreeOn(copy'[p], Own[p])
    BY <1>1, <2>1, <2>3, SyncedIsTree
  <2> QED
    BY <2>4 DEF TreeOn
<1>5. copy' \in [Portals -> [Containers -> Nat]]
  <2>1. copy' = [p \in Portals |-> copy'[p]]
    BY <1>3
  <2> QED
    BY <1>4, <2>1
<1> QED
  BY <1>4, <1>5 DEF Copies, TreeOn

-----------------------------------------------------------------------------
(* Sending.                                                                  *)

\* What is sent was not before, and is kept track of from then on.
LEMMA SendTracked ==
    ASSUME PInv, NEW m \in Messages, NEW msg \in Message, msg.kind # "talk" => msg.of # Root,
           Send(m, msg), Unsent(m), m \in DOMAIN log', log'[m] = msg, m \notin pending',
           \A o \in DOMAIN log : o # m => o \in DOMAIN log' /\ log'[o] = log[o],
           \A o : o # m => ((o \in DOMAIN log' /\ o \notin pending') <=> (o \in DOMAIN log /\ o \notin pending)),
           \A o \in DOMAIN log' : o # m => o \in DOMAIN log
    PROVE  /\ \A y \in Packets' : y.body \in DOMAIN log'
           /\ \A o \in Messages : Tracked(o)'
           /\ \A p \in Portals, o \in Messages : RanWell(p, o)'
           /\ \A d \in linked' : at'[d] # Nowhere
           /\ reach' \in [Messages -> [Portals -> SUBSET Keys]] /\ missed' \subseteq Portals
<1>1. /\ Broadcast(msg.by, Routes(msg), m)
      /\ reach' = [reach EXCEPT ![m] = [p \in Portals |-> Reached(msg.by, p, msg)]]
      /\ missed' = missed \cup {p \in Portals : Misses(p, msg.by, msg)}
      /\ hooks' = hooks /\ donemessages' = donemessages /\ ran' = ran /\ stack' = stack
  BY DEF Send, portal
<1>2. PICK d : d = msg.by /\ d \in Clients
  BY PortalAssumption DEF Message
<1>3. PICK b \in Nat : b = sent[d]
  BY <1>2 DEF PInv, MeshInv, MeshTypeOK
<1>4. PICK ks \in Seq(Keys) : ks = Routes(msg)
  BY FewRoutes
<1>5. /\ at' = at /\ subs' = subs /\ pairs' = pairs
      /\ \A x \in Packets' : x \in Packets
             \/ /\ x.from = d /\ x.body = m
                /\ \E i \in DOMAIN ks : x.n = b + i /\ x.key = ks[i]
      /\ \A y, c : OnWay(y, c) => OnWayNext(y, c)
      /\ d \in linked => \A c : \A i \in DOMAIN ks :
             \A y : y = [from |-> d, n |-> b + i, key |-> ks[i], body |-> m] => OnWayNext(y, c)
      /\ \A c \in linked' : c \in linked \/ (c = d /\ at[d] # Nowhere)
  <2>1. Broadcast(d, ks, m) /\ MeshInv
    BY <1>1, <1>2, <1>4 DEF PInv
  <2> QED
    BY <1>2, <1>3, <1>4, <2>1, BroadcastCarries
<1>6. \A p \in Portals : Reached(d, p, msg) \subseteq Keys
  BY DEF Reached, PInv, PortalTypes
<1>7. reach' \in [Messages -> [Portals -> SUBSET Keys]] /\ missed' \subseteq Portals
  <2>1. [p \in Portals |-> Reached(d, p, msg)] \in [Portals -> SUBSET Keys]
    BY <1>6
  <2>2. reach \in [Messages -> [Portals -> SUBSET Keys]] /\ missed \subseteq Portals
    BY DEF PInv, PortalTypes
  <2> QED
    BY <1>1, <1>2, <2>1, <2>2
<1>8. /\ \A p \in Portals : reach'[m][p] = Reached(d, p, msg)
      /\ \A o \in Messages : o # m => reach'[o] = reach[o]
  BY <1>1, <1>2 DEF PInv, PortalTypes
<1>9. \A y \in Packets' : y.body \in DOMAIN log'
  BY <1>5 DEF PInv
<1>10. \A c \in linked' : at'[c] # Nowhere
  BY <1>5 DEF PInv
<1>11. ASSUME NEW y \in Clients, NEW z \in Clients
       PROVE  Led(y, z) => LedNext(y, z)
  BY <1>5 DEF Led, LedNext
<1>12. ASSUME NEW o, o # m, NEW p \in Portals, Had(p, o)
       PROVE  Had(p, o)'
  BY <1>1, <1>5, <1>12 DEF Had
<1>13. Tracked(m)'
  <2>1. SentFrom(msg, m, b)'
    <3>1. ASSUME NEW x \in Packets', x.body = m
          PROVE  x.from = d /\ \E i \in DOMAIN ks : x.n = b + i /\ x.key = ks[i]
      <4>1. x \notin Packets
        BY <3>1 DEF Unsent
      <4> QED
        BY <1>5, <4>1
    <3> QED
      BY <1>2, <1>4, <3>1 DEF SentFrom
  <2>2. ASSUME NEW p \in Portals, NEW r \in reach'[m][p]
        PROVE  Bound(msg, p, r)' /\ Comes(msg, m, p, r, b)'
    <3>1. /\ r \in stack[p] /\ r \in subs[Home[p]] /\ d \in linked
          /\ at[Home[p]] \in {at[d]} \cup pairs[at[d]]
          /\ \E i \in DOMAIN Routes(msg) : IsPrefix(r, Routes(msg)[i])
      BY <1>8 DEF Reached
    <3>2. PICK i \in DOMAIN Routes(msg) : IsPrefix(r, Routes(msg)[i])
      BY <3>1
    <3>3. Earliest(msg, r) \in DOMAIN Routes(msg) /\ IsPrefix(r, Routes(msg)[Earliest(msg, r)])
      BY <3>2, EarliestIs
    <3>4. at[d] # Nowhere /\ stack[p] \subseteq hooks[p]
      BY <3>1 DEF PInv, PortalTypes
    <3>5. Bound(msg, p, r)'
      BY <1>1, <1>2, <1>5, <3>1, <3>3, <3>4 DEF Bound, Led
    <3>6. PICK e : e = Earliest(msg, r) /\ e \in DOMAIN ks
      BY <1>4, <3>3
    <3>7. PICK y : y = [from |-> d, n |-> b + e, key |-> ks[e], body |-> m]
      OBVIOUS
    <3>8. OnWayNext(y, Home[p])
      BY <1>5, <3>1, <3>6, <3>7
    <3>9. CopyOf(msg, m, b, Earliest(msg, r)) = y
      BY <1>2, <1>4, <3>6, <3>7 DEF CopyOf
    <3>10. OnWayNext(CopyOf(msg, m, b, Earliest(msg, r)), Home[p])
      BY <3>8, <3>9
    <3>11. Comes(msg, m, p, r, b)'
      BY <3>10 DEF Comes, OnWay, OnWayNext
    <3> QED
      BY <3>5, <3>11
  <2>3. \A p \in Portals : \A r \in reach'[m][p] : Bound(msg, p, r)' /\ Comes(msg, m, p, r, b)'
    BY <2>2
  <2> QED
    BY <2>1, <2>3 DEF Tracked
<1>14. ASSUME NEW o \in Messages, o # m
       PROVE  Tracked(o)'
  <2>1. CASE o \in DOMAIN log /\ o \notin pending
    <3>1. PICK om : om = log[o] /\ om = log'[o] /\ om \in Message /\ om.by \in Clients
      BY <1>14, <2>1, Logged DEF PInv
    <3>2. PICK ob \in Nat : /\ SentFrom(om, o, ob)
                            /\ \A p \in Portals : \A r \in reach[o][p] :
                                   Bound(om, p, r) /\ Comes(om, o, p, r, ob)
      BY <2>1, <3>1 DEF PInv, Tracked
    <3>3. SentFrom(om, o, ob)'
      BY <1>5, <1>14, <3>2 DEF SentFrom
    <3>4. ASSUME NEW p \in Portals, NEW r \in reach[o][p]
          PROVE  Bound(om, p, r)' /\ Comes(om, o, p, r, ob)'
      <4>1. Bound(om, p, r) /\ Comes(om, o, p, r, ob)
        BY <3>2
      <4>2. Home[p] \in Clients
        BY PortalAssumption
      <4>3. Bound(om, p, r)'
        BY <1>1, <1>5, <1>11, <3>1, <4>1, <4>2, BoundStays
      <4>4. PICK y : y = CopyOf(om, o, ob, Earliest(om, r))
        OBVIOUS
      <4>5. OnWay(y, Home[p]) => OnWayNext(y, Home[p])
        BY <1>5
      <4>6. Had(p, o) => Had(p, o)'
        BY <1>12, <1>14
      <4>7. Comes(om, o, p, r, ob)'
        BY <4>1, <4>4, <4>5, <4>6, ComesStays
      <4> QED
        BY <4>3, <4>7
    <3>5. \A p \in Portals : \A r \in reach'[o][p] : Bound(om, p, r)' /\ Comes(om, o, p, r, ob)'
      BY <1>8, <1>14, <3>4
    <3>6. o \in DOMAIN log' /\ o \notin pending'
      BY <1>14, <2>1
    <3> QED
      BY <3>1, <3>3, <3>5, <3>6 DEF Tracked
  <2>2. CASE ~ (o \in DOMAIN log /\ o \notin pending)
    <3>1. Unsent(o)
      BY <2>2 DEF PInv, Tracked
    <3>2. \A x \in Packets' : x.body # o
      BY <1>5, <1>14, <3>1 DEF Unsent
    <3>3. Unsent(o)'
      BY <1>1, <1>8, <1>14, <3>1, <3>2 DEF Unsent
    <3>4. ~ (o \in DOMAIN log' /\ o \notin pending')
      BY <1>14, <2>2
    <3> QED
      BY <3>3, <3>4 DEF Tracked
  <2> QED
    BY <2>1, <2>2
<1>15. ASSUME NEW p \in Portals, NEW o \in Messages
       PROVE  RanWell(p, o)'
  <2>1. RanWell(p, o)
    BY DEF PInv
  <2>2. CASE ran[p][o] = <<>>
    <3>1. ran'[p][o] = <<>>
      BY <1>1, <2>2
    <3> QED
      BY <2>1, <3>1 DEF RanWell
  <2>3. CASE ran[p][o] # <<>>
    <3>1. o # m
      BY <2>3 DEF Unsent
    <3>2. Had(p, o)'
      BY <1>12, <2>1, <2>3, <3>1 DEF RanWell
    <3>3. reach'[o] = reach[o] /\ (o \in DOMAIN log' => o \in DOMAIN log /\ log'[o] = log[o])
      BY <1>8, <3>1
    <3> QED
      BY <1>1, <2>1, <3>2, <3>3 DEF RanWell
  <2> QED
    BY <2>2, <2>3
<1>16. \A o \in Messages : Tracked(o)'
  BY <1>13, <1>14
<1> QED
  BY <1>7, <1>9, <1>10, <1>15, <1>16

-----------------------------------------------------------------------------
(* Every step.                                                               *)

\* The clients whose wire has connected have picked a server.
Linked == \A d \in linked : at[d] # Nowhere

\* What a step owes, besides the log and the mesh.
Kept ==
    /\ PortalTypes /\ Linked
    /\ \A x \in Packets : x.body \in DOMAIN log
    /\ \A m \in Messages : Tracked(m)
    /\ \A p \in Portals, m \in Messages : RanWell(p, m)
    /\ \A p \in Portals : CopyWell(p)

\* The invariant in three parts.
LEMMA PInvIs == /\ PInv <=> (LogOK /\ MeshInv /\ Kept)
                /\ PInv' <=> (LogOK' /\ MeshInv' /\ Kept')
BY DEF PInv, Kept, Linked

\* The mesh alone keeps the wires that have connected.
LEMMA LinkedStays ==
    ASSUME MeshInv, Linked, Carry \/ Wire \/ UNCHANGED mesh \/ \E c \in Clients, k \in Keys : Listen(c, k)
    PROVE  Linked'
<1>1. linked' = linked /\ linked \subseteq Clients
  BY DEF Carry, ServerHears, SidewaysHears, Wire, Pick, Pair, Subscribed, Listen, mesh, wiring, links, MeshInv, MeshTypeOK
<1>2. \A c \in Clients : at[c] # Nowhere => at'[c] = at[c]
  BY DEF Carry, ServerHears, SidewaysHears, Wire, Pick, Pair, Subscribed, Listen, mesh, wiring, links, MeshInv, MeshTypeOK
<1> QED
  BY <1>1, <1>2 DEF Linked

\* A step in which nothing is sent or heard.
LEMMA PlainStep ==
    ASSUME PInv, Carries, Linked', ran' = ran, reach' = reach, copy' = copy, missed' = missed, closed' \subseteq Portals,
           stack' \in [Portals -> SUBSET Keys], hooks' \in [Portals -> SUBSET Keys],
           \A p \in Portals : hooks[p] \subseteq hooks'[p] /\ stack'[p] \subseteq hooks'[p],
           donemessages' \in [Portals -> SUBSET Messages],
           \A p \in Portals : donemessages'[p] \subseteq donemessages[p],
           \A p \in Portals : \A m \in donemessages[p] :
               m \in donemessages'[p] \/ \A x \in Packets' : x.body # m,
           \A m \in DOMAIN log : m \in DOMAIN log' /\ log'[m] = log[m],
           \A m : (m \in DOMAIN log' /\ m \notin pending') <=> (m \in DOMAIN log /\ m \notin pending)
    PROVE  Kept'
<1>1. /\ \A x \in Packets' : x.body \in DOMAIN log'
      /\ \A m \in Messages : Tracked(m)'
      /\ \A p \in Portals, m \in Messages : RanWell(p, m)'
  BY StillTracked
<1>2. PortalTypes'
  BY DEF PInv, PortalTypes
<1>3. \A p \in Portals : CopyWell(p)'
  BY DEF PInv, CopyWell
<1> QED
  BY <1>1, <1>2, <1>3 DEF Kept

\* Carry and Wire.
LEMMA CarryKeeps ==
    ASSUME PInv, Carry \/ Wire \/ UNCHANGED mesh, UNCHANGED <<store, portal, reach, missed, ended>>
    PROVE  Kept'
<1>1. Carries
  <2>1. MeshInv
    BY DEF PInv
  <2>2. CASE Carry
    BY <2>1, <2>2, ServerCarries, SidewaysCarries DEF Carry
  <2>3. CASE Wire \/ UNCHANGED mesh
    BY <2>1, <2>3, WireCarries
  <2> QED
    BY <2>2, <2>3
<1>2. Linked'
  BY LinkedStays DEF PInv, Linked
<1>3. UNCHANGED <<log, pending, stack, hooks, donemessages, copy, ran, closed, reach, missed>>
  BY DEF store, portal
<1>4. PortalTypes
  BY DEF PInv
<1> QED
  BY <1>1, <1>2, <1>3, <1>4, PlainStep DEF PortalTypes

\* Register.
LEMMA RegisterKeeps ==
    ASSUME PInv, NEW p \in Portals, Register(p)
    PROVE  Kept'
<1>1. PICK r \in Keys : Listening(p, r)
  <2>1. CASE p \in Radios
    BY <2>1, PortalAssumption DEF Register
  <2>2. CASE p \notin Radios
    <3>1. PICK ch \in Listeners : Listening(p, Route(ch[1], ch[2], Own[p]))
      BY <2>2 DEF Register
    <3>2. ch[1] \in Modes /\ ch[2] \in Kinds \cup {"any"}
      BY PortalAssumption
    <3>3. Route(ch[1], ch[2], Own[p]) \in Keys
      BY <3>2, PortalAssumption
    <3> QED
      BY <3>1, <3>3
  <2> QED
    BY <2>1, <2>2
<1>2. /\ stack' = [stack EXCEPT ![p] = @ \cup {r}] /\ hooks' = [hooks EXCEPT ![p] = @ \cup {r}]
      /\ Listen(Home[p], r) /\ Home[p] \in Clients
      /\ UNCHANGED <<log, pending, donemessages, copy, ran, closed, reach, missed>>
  BY <1>1, PortalAssumption DEF Listening, store
<1>3. PortalTypes /\ MeshInv /\ Linked
  BY DEF PInv, Linked
<1>4. Carries
  BY <1>2, <1>3, WireCarries
<1>5. Linked'
  BY <1>2, <1>3, LinkedStays
<1>6. stack' \in [Portals -> SUBSET Keys] /\ hooks' \in [Portals -> SUBSET Keys]
  BY <1>2, <1>3 DEF PortalTypes
<1>7. \A q \in Portals : hooks[q] \subseteq hooks'[q] /\ stack'[q] \subseteq hooks'[q]
  <2>1. \A q \in Portals : (q = p /\ stack'[q] = stack[q] \cup {r} /\ hooks'[q] = hooks[q] \cup {r})
            \/ (stack'[q] = stack[q] /\ hooks'[q] = hooks[q])
    BY <1>2, <1>3 DEF PortalTypes
  <2>2. \A q \in Portals : stack[q] \subseteq hooks[q]
    BY <1>3 DEF PortalTypes
  <2> QED
    BY <2>1, <2>2
<1>8. donemessages' \in [Portals -> SUBSET Messages] /\ closed' \subseteq Portals
  BY <1>2, <1>3 DEF PortalTypes
<1> QED
  BY <1>2, <1>4, <1>5, <1>6, <1>7, <1>8, PlainStep

\* Close: the hooks stay.
LEMMA CloseKeeps ==
    ASSUME PInv, NEW p \in Portals, Close(p)
    PROVE  Kept'
<1>1. /\ stack' = [stack EXCEPT ![p] = {}] /\ closed' = closed \cup {p}
      /\ UNCHANGED mesh /\ UNCHANGED <<log, pending, hooks, donemessages, copy, ran, reach, missed>>
  BY DEF Close, store
<1>2. PortalTypes /\ MeshInv /\ Linked
  BY DEF PInv, Linked
<1>3. Carries
  BY <1>1, <1>2, WireCarries
<1>4. Linked'
  BY <1>1, <1>2, LinkedStays
<1>5. stack' \in [Portals -> SUBSET Keys] /\ hooks' \in [Portals -> SUBSET Keys]
  BY <1>1, <1>2 DEF PortalTypes
<1>6. \A q \in Portals : hooks[q] \subseteq hooks'[q] /\ stack'[q] \subseteq hooks'[q]
  BY <1>1, <1>2 DEF PortalTypes
<1>7. donemessages' \in [Portals -> SUBSET Messages] /\ closed' \subseteq Portals
  BY <1>1, <1>2 DEF PortalTypes
<1> QED
  BY <1>1, <1>3, <1>4, <1>5, <1>6, <1>7, PlainStep

\* Forget: nothing of the message is under way.
LEMMA ForgetKeeps ==
    ASSUME PInv, NEW p \in Portals, NEW m \in donemessages[p], Forget(p, m)
    PROVE  Kept'
<1>1. /\ donemessages' = [donemessages EXCEPT ![p] = @ \ {m}]
      /\ UNCHANGED mesh /\ UNCHANGED <<log, pending, stack, hooks, copy, ran, closed, reach, missed>>
      /\ \A x \in Packets : x.body # m
  BY DEF Forget, store, Packets
<1>2. PortalTypes /\ MeshInv /\ Linked
  BY DEF PInv, Linked
<1>3. Carries
  BY <1>1, <1>2, WireCarries
<1>4. Linked'
  BY <1>1, <1>2, LinkedStays
<1>5. donemessages' \in [Portals -> SUBSET Messages]
  BY <1>1, <1>2 DEF PortalTypes
<1>6. \A x \in Packets' : x.body # m
  BY <1>1, <1>3 DEF Carries
<1>7. /\ \A q \in Portals : donemessages'[q] \subseteq donemessages[q]
      /\ \A q \in Portals : \A o \in donemessages[q] :
             o \in donemessages'[q] \/ \A x \in Packets' : x.body # o
  <2>1. \A q \in Portals : donemessages'[q] = donemessages[q] \/ donemessages'[q] = donemessages[q] \ {m}
    BY <1>1, <1>2 DEF PortalTypes
  <2> QED
    BY <1>6, <2>1
<1>8. /\ closed' \subseteq Portals /\ stack' \in [Portals -> SUBSET Keys] /\ hooks' \in [Portals -> SUBSET Keys]
      /\ \A q \in Portals : hooks[q] \subseteq hooks'[q] /\ stack'[q] \subseteq hooks'[q]
  BY <1>1, <1>2 DEF PortalTypes
<1> QED
  BY <1>1, <1>3, <1>4, <1>5, <1>7, <1>8, PlainStep

\* How the log grows.
LEMMA Appended ==
    ASSUME LogOK, NEW msg, log' = Append(log, msg)
    PROVE  /\ DOMAIN log' = DOMAIN log \cup {Len(log) + 1} /\ Len(log) + 1 \notin DOMAIN log
           /\ log'[Len(log) + 1] = msg /\ \A m \in DOMAIN log : log'[m] = log[m]
           /\ Len(log) < MaxMessages => Len(log) + 1 \in Messages
<1>1. PICK n \in Nat : n = Len(log) /\ DOMAIN log = 1..n
  BY DEF LogOK
<1>2. log \in Seq(Message \cup {msg})
  BY DEF LogOK
<1>3. /\ DOMAIN log' = 1..(n + 1) /\ log'[n + 1] = msg /\ \A m \in 1..n : log'[m] = log[m]
  BY <1>1, <1>2
<1>4. 1..(n + 1) = 1..n \cup {n + 1} /\ n + 1 \notin 1..n
  BY <1>1
<1>5. n < MaxMessages => n + 1 \in Messages
  BY PortalAssumption DEF Messages
<1> QED
  BY <1>1, <1>3, <1>4, <1>5

\* Change: the message is still to be broadcast.
LEMMA ChangeKeeps ==
    ASSUME PInv, NEW d \in Workers, NEW t \in Containers, NEW kind \in {"post", "put", "delete"}, Change(d, kind, t)
    PROVE  Kept'
<1>1. /\ log' = Append(log, [kind |-> kind, of |-> t, by |-> d])
      /\ pending' = pending \cup {Len(log) + 1}
      /\ UNCHANGED mesh /\ UNCHANGED <<stack, hooks, donemessages, copy, ran, closed, reach, missed>>
  BY DEF Change, portal
<1>2. PortalTypes /\ MeshInv /\ Linked /\ LogOK
  BY DEF PInv, Linked
<1>3. Carries
  BY <1>1, <1>2, WireCarries
<1>4. Linked'
  BY <1>1, <1>2, LinkedStays
<1>5. /\ \A m \in DOMAIN log : m \in DOMAIN log' /\ log'[m] = log[m]
      /\ \A m : (m \in DOMAIN log' /\ m \notin pending') <=> (m \in DOMAIN log /\ m \notin pending)
  BY <1>1, <1>2, Appended
<1>6. /\ closed' \subseteq Portals /\ stack' \in [Portals -> SUBSET Keys] /\ hooks' \in [Portals -> SUBSET Keys]
      /\ \A q \in Portals : hooks[q] \subseteq hooks'[q] /\ stack'[q] \subseteq hooks'[q]
      /\ donemessages' \in [Portals -> SUBSET Messages]
      /\ \A q \in Portals : donemessages'[q] \subseteq donemessages[q]
      /\ \A q \in Portals : \A o \in donemessages[q] :
             o \in donemessages'[q] \/ \A x \in Packets' : x.body # o
  BY <1>1, <1>2 DEF PortalTypes
<1> QED
  BY <1>1, <1>3, <1>4, <1>5, <1>6, PlainStep

\* What sending leaves of the types and the copies.
LEMMA SendKeeps ==
    ASSUME PInv, NEW m, NEW msg, Send(m, msg),
           /\ \A y \in Packets' : y.body \in DOMAIN log'
           /\ \A o \in Messages : Tracked(o)'
           /\ \A p \in Portals, o \in Messages : RanWell(p, o)'
           /\ \A d \in linked' : at'[d] # Nowhere
           /\ reach' \in [Messages -> [Portals -> SUBSET Keys]] /\ missed' \subseteq Portals
    PROVE  Kept'
<1>1. UNCHANGED <<stack, hooks, donemessages, copy, ran, closed>>
  BY DEF Send, portal
<1>2. PortalTypes'
  BY <1>1 DEF PInv, PortalTypes
<1>3. \A p \in Portals : CopyWell(p)'
  BY <1>1 DEF PInv, CopyWell
<1>4. Linked'
  BY DEF Linked
<1> QED
  BY <1>2, <1>3, <1>4 DEF Kept

\* Respond: it is broadcast.
LEMMA RespondKeeps ==
    ASSUME PInv, NEW m \in pending, Respond(m)
    PROVE  Kept'
<1>1. Send(m, log[m]) /\ pending' = pending \ {m} /\ log' = log
  BY DEF Respond
<1>2. m \in DOMAIN log /\ LogOK
  BY DEF PInv, LogOK
<1>3. /\ log[m] \in Message /\ (log[m].kind # "talk" => log[m].of # Root) /\ m \in Messages
  BY <1>2, Logged
<1>4. Unsent(m)
  BY <1>3 DEF PInv, Tracked
<1>5. PICK msg : msg = log[m]
  OBVIOUS
<1>6. Send(m, msg) /\ msg \in Message /\ (msg.kind # "talk" => msg.of # Root)
  BY <1>1, <1>3, <1>5
<1>7. /\ m \in DOMAIN log' /\ log'[m] = msg /\ m \notin pending'
      /\ \A o \in DOMAIN log : o # m => o \in DOMAIN log' /\ log'[o] = log[o]
      /\ \A o : o # m => ((o \in DOMAIN log' /\ o \notin pending') <=> (o \in DOMAIN log /\ o \notin pending))
      /\ \A o \in DOMAIN log' : o # m => o \in DOMAIN log
  BY <1>1, <1>2, <1>5
<1>8. /\ \A y \in Packets' : y.body \in DOMAIN log'
      /\ \A o \in Messages : Tracked(o)'
      /\ \A p \in Portals, o \in Messages : RanWell(p, o)'
      /\ \A d \in linked' : at'[d] # Nowhere
      /\ reach' \in [Messages -> [Portals -> SUBSET Keys]] /\ missed' \subseteq Portals
  BY <1>3, <1>4, <1>6, <1>7, SendTracked
<1> QED
  BY <1>6, <1>8, SendKeeps

\* Talk.
LEMMA TalkKeeps ==
    ASSUME PInv, NEW d \in Clients, NEW t \in {Own[p] : p \in Radios}, Talk(d, t)
    PROVE  Kept'
<1>1. PICK msg : msg = [kind |-> "talk", of |-> t, by |-> d]
  OBVIOUS
<1>2. t \in Containers
  BY PortalAssumption
<1>3. msg \in Message /\ msg.kind = "talk"
  BY <1>1, <1>2 DEF Message, Kinds
<1>4. PICK m : m = Len(log) + 1
  OBVIOUS
<1>5. /\ log' = Append(log, msg) /\ pending' = pending /\ Send(m, msg) /\ Len(log) < MaxMessages
  BY <1>1, <1>4 DEF Talk
<1>6. LogOK
  BY DEF PInv
<1>7. /\ DOMAIN log' = DOMAIN log \cup {m} /\ m \notin DOMAIN log
      /\ log'[m] = msg /\ \A o \in DOMAIN log : log'[o] = log[o]
      /\ m \in Messages
  BY <1>4, <1>5, <1>6, Appended
<1>8. Unsent(m)
  BY <1>7 DEF PInv, Tracked
<1>9. pending \subseteq DOMAIN log
  BY <1>6 DEF LogOK
<1>10. /\ m \in DOMAIN log' /\ log'[m] = msg /\ m \notin pending'
       /\ \A o \in DOMAIN log : o # m => o \in DOMAIN log' /\ log'[o] = log[o]
       /\ \A o : o # m => ((o \in DOMAIN log' /\ o \notin pending') <=> (o \in DOMAIN log /\ o \notin pending))
       /\ \A o \in DOMAIN log' : o # m => o \in DOMAIN log
  BY <1>5, <1>7, <1>9
<1>11. /\ \A y \in Packets' : y.body \in DOMAIN log'
       /\ \A o \in Messages : Tracked(o)'
       /\ \A p \in Portals, o \in Messages : RanWell(p, o)'
       /\ \A c \in linked' : at'[c] # Nowhere
       /\ reach' \in [Messages -> [Portals -> SUBSET Keys]] /\ missed' \subseteq Portals
  BY <1>3, <1>5, <1>7, <1>8, <1>10, SendTracked
<1> QED
  BY <1>5, <1>11, SendKeeps

\* Hear.
LEMMA HearKeeps ==
    ASSUME PInv, NEW c \in Clients, NEW x \in down[c], Hear(c, x)
    PROVE  Kept'
<1>1. /\ \A y \in Packets' : y.body \in DOMAIN log'
      /\ \A m \in Messages : Tracked(m)'
      /\ \A p \in Portals, m \in Messages : RanWell(p, m)'
  BY HearTracked
<1>2. Copies
  BY CopiesAre DEF PInv
<1>3. Copies'
  BY <1>2, HearCopies
<1>4. \A p \in Portals : CopyWell(p)'
  BY <1>3 DEF Copies, CopyWell, TreeOn
<1>5. copy' \in [Portals -> [Containers -> Nat]]
  BY <1>3 DEF Copies
<1>6. UNCHANGED <<stack, hooks, closed, reach, missed, linked, at>>
  BY DEF Hear, Heard, Take, wiring
<1>7. PortalTypes
  BY DEF PInv
<1>8. donemessages' \in [Portals -> SUBSET Messages]
  <2>1. x.body \in Messages
    BY HeardIs
  <2> QED
    BY <1>7, <2>1 DEF Hear, Heard, PortalTypes
<1>9. ran' \in [Portals -> [Messages -> Seq(Keys)]]
  <2>1. ran' = [p \in Portals |->
            IF p \in Called(c, x) /\ Hit(p, x.key) \in stack[p]
            THEN [ran[p] EXCEPT ![x.body] = Append(@, Hit(p, x.key))] ELSE ran[p]]
    BY DEF Hear, Runs
  <2>2. ASSUME NEW p \in Portals
        PROVE  (IF p \in Called(c, x) /\ Hit(p, x.key) \in stack[p]
                THEN [ran[p] EXCEPT ![x.body] = Append(@, Hit(p, x.key))] ELSE ran[p]) \in [Messages -> Seq(Keys)]
    <3>1. PICK f \in [Messages -> Seq(Keys)] : f = ran[p]
      BY <1>7 DEF PortalTypes
    <3>2. PICK h : h = Hit(p, x.key)
      OBVIOUS
    <3>3. ASSUME h \in stack[p]
          PROVE  [f EXCEPT ![x.body] = Append(@, h)] \in [Messages -> Seq(Keys)]
      <4>1. h \in Keys /\ x.body \in Messages
        BY <1>7, <3>3, HeardIs DEF PortalTypes
      <4>2. Append(f[x.body], h) \in Seq(Keys)
        BY <4>1
      <4> QED
        BY <4>2
    <3> QED
      BY <3>1, <3>2, <3>3
  <2> QED
    BY <2>1, <2>2
<1>10. PortalTypes'
  BY <1>5, <1>6, <1>7, <1>8, <1>9 DEF PortalTypes
<1>11. Linked'
  BY <1>6 DEF PInv, Linked
<1> QED
  BY <1>1, <1>4, <1>10, <1>11 DEF Kept

\* Fail: nothing runs, and the portals of the client have no functions any more.
LEMMA FailKeeps ==
    ASSUME PInv, NEW c \in Clients, NEW x \in down[c], Fail(c, x)
    PROVE  Kept'
<1>1. /\ \A y \in Packets' : y.body \in DOMAIN log'
      /\ \A m \in Messages : Tracked(m)'
      /\ \A p \in Portals, m \in Messages : RanWell(p, m)'
  BY HearTracked
<1>2. UNCHANGED <<hooks, copy, ran, reach, missed, linked, at>>
  BY DEF Fail, Heard, Take, wiring
<1>3. PortalTypes
  BY DEF PInv
<1>4. donemessages' \in [Portals -> SUBSET Messages]
  <2>1. x.body \in Messages
    BY HeardIs
  <2> QED
    BY <1>3, <2>1 DEF Fail, Heard, PortalTypes
<1>5. /\ stack' \in [Portals -> SUBSET Keys] /\ closed' \subseteq Portals
      /\ \A p \in Portals : stack'[p] \subseteq hooks[p]
  BY <1>3 DEF Fail, PortalTypes
<1>6. PortalTypes'
  BY <1>2, <1>3, <1>4, <1>5 DEF PortalTypes
<1>7. \A p \in Portals : CopyWell(p)'
  BY <1>2 DEF PInv, CopyWell
<1>8. Linked'
  BY <1>2 DEF PInv, Linked
<1> QED
  BY <1>1, <1>6, <1>7, <1>8 DEF Kept

\* The invariant is inductive.
LEMMA PortalInductive ==
    ASSUME PInv, [Next]_vars
    PROVE  PInv'
<1>1. LogOK /\ MeshInv
  BY DEF PInv
<1>2. LogOK' /\ [MeshNext]_mesh
  BY <1>1, PortalStep
<1>3. MeshInv'
  BY <1>1, <1>2, StepMesh
<1>4. Kept'
  <2>1. CASE (Carry \/ Wire) /\ UNCHANGED <<store, portal, reach, missed, ended>>
    BY <2>1, CarryKeeps
  <2>2. CASE UNCHANGED vars
    <3>1. UNCHANGED mesh /\ UNCHANGED <<store, portal, reach, missed, ended>>
      BY <2>2 DEF vars
    <3> QED
      BY <3>1, CarryKeeps
  <2>3. CASE Next
    <3>1. CASE Deliver
      BY <2>1, <3>1, RespondKeeps, HearKeeps, FailKeeps DEF Deliver
    <3>2. CASE \E p \in Portals : Register(p) \/ Close(p)
      BY <3>2, RegisterKeeps, CloseKeeps
    <3>3. CASE \E d \in Workers, t \in Containers :
                   Change(d, "post", t) \/ Change(d, "put", t) \/ Change(d, "delete", t)
      BY <3>3, ChangeKeeps
    <3>4. CASE \E d \in Clients, t \in {Own[p] : p \in Radios} : Talk(d, t)
      BY <3>4, TalkKeeps
    <3>5. CASE \E p \in Portals : \E m \in donemessages[p] : Forget(p, m)
      BY <3>5, ForgetKeeps
    <3>6. CASE Wire /\ UNCHANGED <<store, portal, reach, missed, ended>>
      BY <2>1, <3>6
    <3> QED
      BY <2>3, <3>1, <3>2, <3>3, <3>4, <3>5, <3>6 DEF Next
  <2> QED
    BY <2>2, <2>3
<1> QED
  BY <1>2, <1>3, <1>4, PInvIs

\* It holds at first.
LEMMA PortalInitial == PortalInit => PInv
<1> SUFFICES ASSUME PortalInit PROVE PInv
  OBVIOUS
<1>1. MeshInv /\ LogOK
  BY InitMesh, PortalAssumption DEF PortalInit, TreeInit, LogOK
<1>2. /\ linked = {} /\ up = {} /\ side = [s \in Servers |-> {}] /\ down = [c \in Clients |-> {}]
  BY DEF PortalInit, MeshInit, WiresInit, LinksInit
<1>3. Packets = {}
  BY <1>2, PacketsAre
<1>4. /\ log = <<>> /\ pending = {}
      /\ donemessages = [p \in Portals |-> {}]
      /\ ran = [p \in Portals |-> [m \in Messages |-> <<>>]]
      /\ reach = [m \in Messages |-> [p \in Portals |-> {}]]
      /\ missed = {} /\ closed = {} /\ stack = [p \in Portals |-> {}] /\ hooks = stack
  BY DEF PortalInit, TreeInit
<1>5. \A m \in Messages : Tracked(m)
  BY <1>3, <1>4 DEF Tracked, Unsent
<1>6. \A p \in Portals, m \in Messages : RanWell(p, m)
  BY <1>4 DEF RanWell
<1>7. /\ db \in [Containers -> {Absent, MaxMessages + 1}]
      /\ IsTree(db) /\ \A p \in Portals : db[Own[p]] # Absent
      /\ copy = [p \in Portals |-> [t \in Containers |-> IF t \in Below(Own[p]) THEN db[t] ELSE Absent]]
  BY DEF PortalInit, TreeInit
<1>8. \A t \in Containers : db[t] \in Nat /\ Absent \in Nat
  BY <1>7, PortalAssumption DEF Absent
<1>9. copy \in [Portals -> [Containers -> Nat]]
  BY <1>7, <1>8
<1>10. ASSUME NEW p \in Portals
       PROVE  CopyWell(p)
  <2>1. Own[p] \in Containers
    BY PortalAssumption
  <2>2. \A t \in Containers : copy[p][t] = IF t \in Below(Own[p]) THEN db[t] ELSE Absent
    BY <1>7
  <2>3. Own[p] \in Below(Own[p]) /\ Below(Own[p]) \subseteq Containers
        /\ \A v \in Below(Own[p]) \ {Own[p]} : v # Root /\ Parent(v) \in Below(Own[p])
    BY <2>1, BelowIs
  <2>4. \A t \in Containers \ {Root} : db[t] # Absent => db[Parent(t)] # Absent
    BY <1>7 DEF IsTree
  <2>5. copy[p][Own[p]] # Absent
    BY <1>7, <2>1, <2>2, <2>3
  <2>6. ASSUME NEW t \in Below(Own[p]) \ {Own[p]}, copy[p][t] # Absent
        PROVE  copy[p][Parent(t)] # Absent
    BY <2>2, <2>3, <2>4, <2>6
  <2> QED
    BY <2>2, <2>5, <2>6 DEF CopyWell
<1>11. PortalTypes
  BY <1>4, <1>9 DEF PortalTypes
<1> QED
  BY <1>1, <1>2, <1>3, <1>5, <1>6, <1>10, <1>11 DEF PInv

\* The inductive invariant of portals holds, whatever is hooked, subscribed,
\* paired, closed or forgotten on the way.
THEOREM PortalInvariance == Spec => []PInv
<1>1. PInv /\ [Next]_vars => PInv'
  BY PortalInductive
<1> QED
  BY <1>1, PortalInitial, PTL DEF Spec

\* A portal runs its functions for a message on one route only, the earliest of
\* those on which it must come (run_stack of portal/proto.js).
THEOREM RunsOnce == Spec => []FirstRouteWins
<1>1. PInv => FirstRouteWins
  <2> SUFFICES ASSUME PInv, NEW p \in Portals, NEW m \in DOMAIN log
               PROVE  /\ Len(ran[p][m]) <= 1
                      /\ \A i \in DOMAIN ran[p][m] : \A r \in reach[m][p] :
                             Earliest(log[m], ran[p][m][i]) <= Earliest(log[m], r)
    BY DEF FirstRouteWins
  <2>1. m \in Messages
    BY Logged DEF PInv
  <2> QED
    BY <2>1 DEF PInv, RanWell
<1> QED
  BY <1>1, PortalInvariance, PTL

\* A synced copy is a tree, whatever is lost on the way (syncmethods of
\* portal/proto.js).
THEOREM CopiesAreTrees == Spec => []CopyIsTree
<1>1. PInv => CopyIsTree
  BY DEF PInv, CopyWell, CopyIsTree
<1> QED
  BY <1>1, PortalInvariance, PTL

-----------------------------------------------------------------------------
(* Copies in line.                                                           *)

\* What change m makes of a tree, and that it can.
Makes(f, g, m, msg) ==
    /\ f \in [Containers -> Nat] /\ g \in [Containers -> Nat]
    /\ CASE msg.kind = "post" -> /\ f[Parent(msg.of)] # Absent /\ f[msg.of] = Absent
                                 /\ g = [f EXCEPT ![msg.of] = m]
         [] msg.kind = "put" -> f[msg.of] # Absent /\ g = [f EXCEPT ![msg.of] = m]
         [] msg.kind = "delete" -> /\ f[Parent(msg.of)] # Absent
                                   /\ g = [v \in Containers |-> IF v \in Below(msg.of) THEN Absent ELSE f[v]]
         [] OTHER -> g = f

\* A change on the container of a portal or below it.
Relevant(p, m) == log[m].kind # "talk" /\ log[m].of \in Below(Own[p])

\* A portal that only syncs its tree and can.
Syncs(p) == p \notin Radios \cup missed \cup closed /\ stack[p] \subseteq {DeepAny(p)}

\* A message is still to be heard by a portal on its deep route.
StillComes(p, m) ==
    /\ m \notin donemessages[p]
    /\ \E y \in Packets : y.body = m /\ OnWay(y, Home[p]) /\ IsPrefix(DeepAny(p), y.key)

\* A copy is f, as all changes up to k were heard and none since.
InStep(p, f, k) ==
    /\ \A t \in Below(Own[p]) : copy[p][t] = f[t]
    /\ \A m \in DOMAIN log : Relevant(p, m) =>
          /\ m <= k => m \notin pending /\ Had(p, m)
          /\ k < m /\ m \notin pending => StillComes(p, m)

\* D tells what the tree was after each message.
History(D) ==
    /\ D[Len(log)] = db
    /\ \A m \in DOMAIN log : Makes(D[m - 1], D[m], m, log[m])
    /\ \A p \in Portals : Syncs(p) => \E k \in 0..Len(log) : InStep(p, D[k], k)

\* The tree is one, changes come from workers, a portal that was not closed has
\* a function for all it has hooked, and one that missed nothing is reached by
\* all changes to its tree.
Told ==
    /\ db \in [Containers -> Nat] /\ IsTree(db)
    /\ \A m \in DOMAIN log : log[m].kind # "talk" => log[m].by \in Workers
    /\ \A p \in Portals \ closed : hooks[p] = stack[p]
    /\ \A p \in Portals \ missed : \A m \in (DOMAIN log) \ pending :
          /\ Relevant(p, m) => DeepAny(p) \in reach[m][p]
          /\ log[m].kind = "delete" => Own[p] \notin Below(log[m].of)
          /\ log[m].kind = "post" => Own[p] # log[m].of

\* One change is broadcast before the next is made.
InTurn ==
    /\ \A m \in pending, o \in DOMAIN log : m < o => log[o].kind = "talk"
    /\ \A x, y \in Packets :
          /\ log[x.body].kind # "talk" /\ log[y.body].kind # "talk"
          /\ x.body < y.body /\ x.from = y.from
          => x.n < y.n

\* On the way to a client is under way.
LEMMA OnWayIs ==
    ASSUME NEW c \in Clients, NEW y
    PROVE  (OnWay(y, c) => y \in Packets) /\ (OnWayNext(y, c) => y \in Packets')
BY PacketsAre DEF OnWay, OnWayNext

\* What is still to be heard is led to the client, that has subscribed to it.
LEMMA ComingIs ==
    ASSUME PInv, Told, NEW p \in Portals \ missed, NEW m \in (DOMAIN log) \ pending,
           Relevant(p, m), StillComes(p, m)
    PROVE  /\ DeepAny(p) \in hooks[p] /\ DeepAny(p) \in subs[Home[p]] /\ Home[p] \in Clients
           /\ \E y \in Packets : /\ y.body = m /\ OnWay(y, Home[p]) /\ IsPrefix(DeepAny(p), y.key)
                                 /\ y.from = log[m].by /\ y.from \in Clients /\ Led(y.from, Home[p])
<1>1. DeepAny(p) \in reach[m][p]
  BY DEF Told
<1>2. m \in Messages /\ log[m].by \in Clients
  BY Logged DEF PInv
<1>3. PICK b \in Nat : /\ SentFrom(log[m], m, b)
                       /\ \A q \in Portals : \A r \in reach[m][q] : Bound(log[m], q, r)
  BY <1>2 DEF PInv, Tracked
<1>4. Bound(log[m], p, DeepAny(p))
  BY <1>1, <1>3
<1>5. PICK y \in Packets : y.body = m /\ OnWay(y, Home[p]) /\ IsPrefix(DeepAny(p), y.key)
  BY DEF StillComes
<1>6. y.from = log[m].by
  BY <1>3, <1>5 DEF SentFrom
<1>7. Home[p] \in Clients
  BY PortalAssumption
<1> QED
  BY <1>2, <1>4, <1>5, <1>6, <1>7 DEF Bound

\* The copies stay while nothing is heard.
LEMMA HistoryGoes ==
    ASSUME NEW D, NEW E, LogOK, LogOK', History(D), copy' = copy,
           \A p \in Portals : Syncs(p)' => Syncs(p),
           \A m \in DOMAIN log : m \in DOMAIN log' /\ log'[m] = log[m],
           \A m \in (DOMAIN log) \ pending : m \notin pending',
           \A p \in Portals : \A m \in (DOMAIN log) \ pending : Syncs(p)' /\ Relevant(p, m) =>
               (Had(p, m) => Had(p, m)') /\ (StillComes(p, m) => StillComes(p, m)'),
           \A p \in Portals : \A m \in DOMAIN log' : Syncs(p)' /\ Relevant(p, m)' /\ m \notin pending' =>
               m \in (DOMAIN log) \ pending \/ StillComes(p, m)',
           \A k \in 0..Len(log) : E[k] = D[k],
           E[Len(log')] = db', \A m \in DOMAIN log' : Makes(E[m - 1], E[m], m, log'[m])
    PROVE  History(E)'
<1>1. PICK n \in Nat, nn \in Nat : n = Len(log) /\ nn = Len(log') /\ DOMAIN log = 1..n /\ DOMAIN log' = 1..nn
  BY DEF LogOK
<1>2. n <= nn
  BY <1>1
<1>3. ASSUME NEW p \in Portals, Syncs(p)'
      PROVE  \E k \in 0..Len(log') : InStep(p, E[k], k)'
  <2>1. PICK k \in 0..n : InStep(p, D[k], k)
    BY <1>1, <1>3 DEF History
  <2>2. k \in 0..nn /\ E[k] = D[k]
    BY <1>1, <1>2
  <2>3. \A t \in Below(Own[p]) : copy'[p][t] = E[k][t]
    BY <2>1, <2>2 DEF InStep
  <2>4. ASSUME NEW m \in DOMAIN log', Relevant(p, m)', m <= k
        PROVE  m \notin pending' /\ Had(p, m)'
    <3>1. m \in DOMAIN log
      BY <1>1, <2>4
    <3>2. Relevant(p, m)
      BY <2>4, <3>1 DEF Relevant
    <3>3. m \notin pending /\ Had(p, m)
      BY <2>1, <2>4, <3>1, <3>2 DEF InStep
    <3> QED
      BY <1>3, <3>1, <3>2, <3>3
  <2>5. ASSUME NEW m \in DOMAIN log', Relevant(p, m)', k < m, m \notin pending'
        PROVE  StillComes(p, m)'
    <3>1. CASE m \in (DOMAIN log) \ pending
      <4>1. Relevant(p, m)
        BY <2>5, <3>1 DEF Relevant
      <4>2. StillComes(p, m)
        BY <2>1, <2>5, <3>1, <4>1 DEF InStep
      <4> QED
        BY <1>3, <3>1, <4>1, <4>2
    <3>2. CASE m \notin (DOMAIN log) \ pending
      BY <1>3, <2>5, <3>2
    <3> QED
      BY <3>1, <3>2
  <2>6. InStep(p, E[k], k)'
    BY <2>3, <2>4, <2>5 DEF InStep
  <2> QED
    BY <1>1, <2>2, <2>6
<1> QED
  BY <1>3 DEF History

\* Nothing is lost on the way to a portal that syncs.
LEMMA ComingStays ==
    ASSUME PInv, Told, Carries, NEW p \in Portals, p \notin missed, NEW m \in (DOMAIN log) \ pending,
           Relevant(p, m), donemessages'[p] \subseteq donemessages[p],
           m \in donemessages[p] => m \in donemessages'[p] \/ \A x \in Packets' : x.body # m
    PROVE  (Had(p, m) => Had(p, m)') /\ (StillComes(p, m) => StillComes(p, m)')
<1>1. Had(p, m) => Had(p, m)'
  BY DEF Had, Carries
<1>2. ASSUME StillComes(p, m)
      PROVE  StillComes(p, m)'
  <2>1. /\ DeepAny(p) \in subs[Home[p]] /\ Home[p] \in Clients
        /\ \E y \in Packets : /\ y.body = m /\ OnWay(y, Home[p]) /\ IsPrefix(DeepAny(p), y.key)
                              /\ y.from = log[m].by /\ y.from \in Clients /\ Led(y.from, Home[p])
    BY <1>2, ComingIs
  <2>2. PICK y \in Packets : /\ y.body = m /\ OnWay(y, Home[p]) /\ IsPrefix(DeepAny(p), y.key)
                             /\ y.from \in Clients /\ Led(y.from, Home[p])
    BY <2>1
  <2>3. OnWayNext(y, Home[p])
    BY <2>1, <2>2 DEF Carries
  <2>4. y \in Packets' /\ OnWay(y, Home[p])'
    BY <2>1, <2>3, OnWayIs DEF OnWay, OnWayNext
  <2>5. m \notin donemessages'[p]
    BY <1>2 DEF StillComes
  <2> QED
    BY <2>2, <2>4, <2>5 DEF StillComes
<1> QED
  BY <1>1, <1>2

\* What makes copies stay in line.
LineInv == Told /\ (serial => InTurn /\ \E D : History(D))

\* Steps in which nothing is changed, sent or heard.
LEMMA PlainLine ==
    ASSUME PInv, LineInv, LogOK', Carries, UNCHANGED <<serial, log, pending, db, copy, reach, missed>>,
           \A p \in Portals : Syncs(p)' => Syncs(p),
           \A p \in Portals \ closed' : hooks'[p] = stack'[p],
           \A p \in Portals : donemessages'[p] \subseteq donemessages[p],
           \A p \in Portals : \A m \in donemessages[p] :
               m \in donemessages'[p] \/ \A x \in Packets' : x.body # m
    PROVE  LineInv'
<1>1. Told'
  <2>1. Told
    BY DEF LineInv
  <2>2. \A p \in Portals \ missed' : \A m \in (DOMAIN log') \ pending' :
          /\ Relevant(p, m)' => DeepAny(p) \in reach'[m][p]
          /\ log'[m].kind = "delete" => Own[p] \notin Below(log'[m].of)
          /\ log'[m].kind = "post" => Own[p] # log'[m].of
    BY <2>1 DEF Told, Relevant
  <2>3. /\ db' \in [Containers -> Nat] /\ IsTree(db')
        /\ \A m \in DOMAIN log' : log'[m].kind # "talk" => log'[m].by \in Workers
    BY <2>1 DEF Told
  <2> QED
    BY <2>2, <2>3 DEF Told
<1>2. ASSUME serial, InTurn
      PROVE  InTurn'
  <2>1. \A x \in Packets' : x \in Packets
    BY DEF Carries
  <2> QED
    BY <1>2, <2>1 DEF InTurn
<1>3. ASSUME NEW D, History(D)
      PROVE  History(D)'
  <2>1. \A m \in DOMAIN log' : Makes(D[m - 1], D[m], m, log'[m])
    BY <1>3 DEF History
  <2>2. LogOK /\ Told
    BY DEF PInv, LineInv
  <2>3. \A p \in Portals : \A m \in (DOMAIN log) \ pending : Syncs(p)' /\ Relevant(p, m) =>
               (Had(p, m) => Had(p, m)') /\ (StillComes(p, m) => StillComes(p, m)')
    <3>1. ASSUME NEW p \in Portals, NEW m \in (DOMAIN log) \ pending, Syncs(p)', Relevant(p, m)
          PROVE  (Had(p, m) => Had(p, m)') /\ (StillComes(p, m) => StillComes(p, m)')
      <4>1. p \notin missed
        BY <3>1 DEF Syncs
      <4> QED
        BY <2>2, <3>1, <4>1, ComingStays
    <3> QED
      BY <3>1
  <2>4. \A p \in Portals : \A m \in DOMAIN log' : Syncs(p)' /\ Relevant(p, m)' /\ m \notin pending' =>
               m \in (DOMAIN log) \ pending \/ StillComes(p, m)'
    OBVIOUS
  <2>5. D[Len(log')] = db' /\ \A k \in 0..Len(log) : D[k] = D[k]
    BY <1>3 DEF History
  <2> QED
    BY <1>3, <2>1, <2>2, <2>3, <2>4, <2>5, HistoryGoes
<1>4. serial' => InTurn' /\ \E D : History(D)'
  BY <1>2, <1>3 DEF LineInv
<1> QED
  BY <1>1, <1>4 DEF LineInv

\* Carry and Wire.
LEMMA CarryLine ==
    ASSUME PInv, LineInv, LogOK', Carry \/ Wire \/ UNCHANGED mesh, UNCHANGED <<store, portal, reach, missed, ended>>
    PROVE  LineInv'
<1>1. Carries
  <2>1. MeshInv
    BY DEF PInv
  <2>2. CASE Carry
    BY <2>1, <2>2, ServerCarries, SidewaysCarries DEF Carry
  <2>3. CASE Wire \/ UNCHANGED mesh
    BY <2>1, <2>3, WireCarries
  <2> QED
    BY <2>2, <2>3
<1>2. UNCHANGED <<serial, log, pending, db, stack, hooks, donemessages, copy, ran, closed, reach, missed>>
  BY DEF store, portal
<1>3. \A p \in Portals : Syncs(p)' => Syncs(p)
  BY <1>2 DEF Syncs
<1>4. \A p \in Portals \ closed' : hooks'[p] = stack'[p]
  BY <1>2 DEF LineInv, Told
<1> QED
  BY <1>1, <1>2, <1>3, <1>4, PlainLine

\* Register.
LEMMA RegisterLine ==
    ASSUME PInv, LineInv, LogOK', NEW p \in Portals, NEW r \in Keys, Listening(p, r)
    PROVE  LineInv'
<1>1. /\ stack' = [stack EXCEPT ![p] = @ \cup {r}] /\ hooks' = [hooks EXCEPT ![p] = @ \cup {r}]
      /\ Listen(Home[p], r) /\ Home[p] \in Clients
      /\ UNCHANGED <<serial, log, pending, db, donemessages, copy, ran, closed, reach, missed>>
  BY PortalAssumption DEF Listening, store
<1>2. Carries
  BY <1>1, WireCarries DEF PInv
<1>3. \A q \in Portals : (stack'[q] = stack[q] \cup {r} /\ hooks'[q] = hooks[q] \cup {r})
          \/ (stack'[q] = stack[q] /\ hooks'[q] = hooks[q])
  BY <1>1 DEF PInv, PortalTypes
<1>4. \A q \in Portals : Syncs(q)' => Syncs(q)
  BY <1>1, <1>3 DEF Syncs
<1>5. \A q \in Portals \ closed' : hooks'[q] = stack'[q]
  BY <1>1, <1>3 DEF LineInv, Told
<1> QED
  BY <1>1, <1>2, <1>4, <1>5, PlainLine

\* Close: nothing is claimed of the portal any more.
LEMMA CloseLine ==
    ASSUME PInv, LineInv, LogOK', NEW p \in Portals, Close(p)
    PROVE  LineInv'
<1>1. /\ stack' = [stack EXCEPT ![p] = {}] /\ closed' = closed \cup {p}
      /\ UNCHANGED mesh /\ UNCHANGED <<serial, log, pending, db, hooks, donemessages, copy, ran, reach, missed>>
  BY DEF Close, store
<1>2. Carries
  BY <1>1, WireCarries DEF PInv
<1>3. \A q \in Portals \ closed' : q \notin closed /\ stack'[q] = stack[q]
  BY <1>1 DEF PInv, PortalTypes
<1>4. \A q \in Portals : Syncs(q)' => Syncs(q)
  BY <1>1, <1>3 DEF Syncs
<1>5. \A q \in Portals \ closed' : hooks'[q] = stack'[q]
  BY <1>1, <1>3 DEF LineInv, Told
<1> QED
  BY <1>1, <1>2, <1>4, <1>5, PlainLine

\* Forget: the message was heard, and none of it is under way.
LEMMA ForgetLine ==
    ASSUME PInv, LineInv, LogOK', NEW p \in Portals, NEW m \in donemessages[p], Forget(p, m)
    PROVE  LineInv'
<1>1. /\ donemessages' = [donemessages EXCEPT ![p] = @ \ {m}]
      /\ UNCHANGED mesh /\ UNCHANGED <<serial, log, pending, db, stack, hooks, copy, ran, closed, reach, missed>>
      /\ \A x \in Packets : x.body # m
  BY DEF Forget, store, Packets
<1>2. Carries
  BY <1>1, WireCarries DEF PInv
<1>3. \A x \in Packets' : x.body # m
  BY <1>1, <1>2 DEF Carries
<1>4. /\ \A q \in Portals : donemessages'[q] \subseteq donemessages[q]
      /\ \A q \in Portals : \A o \in donemessages[q] :
             o \in donemessages'[q] \/ \A x \in Packets' : x.body # o
  <2>1. \A q \in Portals : donemessages'[q] = donemessages[q] \/ donemessages'[q] = donemessages[q] \ {m}
    BY <1>1 DEF PInv, PortalTypes
  <2> QED
    BY <1>3, <2>1
<1>5. \A q \in Portals : Syncs(q)' => Syncs(q)
  BY <1>1 DEF Syncs
<1>6. \A q \in Portals \ closed' : hooks'[q] = stack'[q]
  BY <1>1 DEF LineInv, Told
<1> QED
  BY <1>1, <1>2, <1>4, <1>5, <1>6, PlainLine

-----------------------------------------------------------------------------
(* Changes.                                                                  *)

\* A change leaves a tree.
LEMMA ChangeMakes ==
    ASSUME Told, LogOK, NEW d, NEW t \in Containers, NEW kind \in {"post", "put", "delete"}, Change(d, kind, t),
           NEW m, m = Len(log) + 1, NEW msg, msg = [kind |-> kind, of |-> t, by |-> d]
    PROVE  Makes(db, db', m, msg) /\ db' \in [Containers -> Nat] /\ IsTree(db')
<1>1. m \in Nat /\ m # Absent
  <2>1. PICK n \in Nat : n = Len(log)
    BY DEF LogOK
  <2> QED
    BY <2>1 DEF Absent
<1>2. db \in [Containers -> Nat] /\ IsTree(db)
  BY DEF Told
<1>3. /\ t # Root /\ msg.kind = kind /\ msg.of = t
      /\ \A u \in Containers \ {Root} : Parent(u) \in Containers
      /\ Parent(t) \in Containers /\ Parent(t) # t
  <2>1. t # Root
    BY DEF Change
  <2>2. t \in Below(t) /\ Parent(t) \notin Below(t)
    BY <2>1, BelowIs
  <2> QED
    BY <2>1, <2>2, ParentIs
<1>4. CASE kind \in {"post", "put"}
  <2>1. /\ db' = [db EXCEPT ![t] = m]
        /\ kind = "post" => db[Parent(t)] # Absent /\ db[t] = Absent
        /\ kind = "put" => db[t] # Absent
    BY <1>4 DEF Change
  <2>2. db[Parent(t)] # Absent
    BY <1>2, <1>3, <1>4, <2>1 DEF IsTree
  <2>3. db' \in [Containers -> Nat] /\ \A u \in Containers : db[u] # Absent => db'[u] # Absent
    BY <1>1, <1>2, <2>1
  <2>4. Makes(db, db', m, msg)
    BY <1>2, <1>3, <1>4, <2>1, <2>3 DEF Makes
  <2>5. \A u \in Containers : u # t => db'[u] = db[u]
    BY <1>2, <2>1
  <2>6. IsTree(db')
    BY <1>2, <1>3, <2>2, <2>3, <2>5 DEF IsTree
  <2> QED
    BY <2>4, <2>3, <2>6
<1>5. CASE kind = "delete"
  <2>1. db' = [v \in Containers |-> IF v \in Below(t) THEN Absent ELSE db[v]] /\ db[t] # Absent
    BY <1>5 DEF Change
  <2>2. db[Parent(t)] # Absent
    BY <1>2, <1>3, <2>1 DEF IsTree
  <2>3. db' \in [Containers -> Nat]
    BY <1>2, <2>1 DEF Absent
  <2>4. Makes(db, db', m, msg)
    BY <1>2, <1>3, <1>5, <2>1, <2>2, <2>3 DEF Makes
  <2>5. ASSUME NEW u \in Containers \ {Root}, db'[u] # Absent
        PROVE  db'[Parent(u)] # Absent
    <3>1. u \notin Below(t) /\ db[u] # Absent
      BY <2>1, <2>5
    <3>2. Parent(u) \notin Below(t)
      BY <3>1, BelowIs
    <3>3. db[Parent(u)] # Absent
      BY <1>2, <3>1 DEF IsTree
    <3> QED
      BY <1>3, <2>1, <3>2, <3>3
  <2> QED
    BY <2>4, <2>3, <2>5 DEF IsTree
<1> QED
  BY <1>4, <1>5

\* A history goes on with a message.
LEMMA HistoryOn ==
    ASSUME NEW D, LogOK, History(D), NEW msg, log' = Append(log, msg), Makes(db, db', Len(log) + 1, msg),
           NEW E, E = [k \in Nat |-> IF k = Len(log) + 1 THEN db' ELSE D[k]]
    PROVE  /\ \A k \in 0..Len(log) : E[k] = D[k]
           /\ E[Len(log')] = db' /\ \A m \in DOMAIN log' : Makes(E[m - 1], E[m], m, log'[m])
<1>1. PICK n \in Nat : n = Len(log) /\ DOMAIN log = 1..n
  BY DEF LogOK
<1>2. /\ DOMAIN log' = DOMAIN log \cup {n + 1} /\ Len(log') = n + 1
      /\ log'[n + 1] = msg /\ \A m \in DOMAIN log : log'[m] = log[m]
  <2>1. Len(log') = n + 1
    BY <1>1 DEF LogOK
  <2> QED
    BY <1>1, <2>1, Appended
<1>3. \A k \in 0..n : E[k] = D[k]
  BY <1>1
<1>4. E[n + 1] = db' /\ D[n] = db /\ E[n] = db
  BY <1>1 DEF History
<1>5. ASSUME NEW m \in 1..n
      PROVE  Makes(E[m - 1], E[m], m, log'[m])
  <2>1. E[m - 1] = D[m - 1] /\ E[m] = D[m] /\ log'[m] = log[m] /\ m \in DOMAIN log
    BY <1>1, <1>2, <1>3
  <2> QED
    BY <2>1 DEF History
<1>6. Makes(E[(n + 1) - 1], E[n + 1], n + 1, log'[n + 1])
  <2>1. (n + 1) - 1 = n
    OBVIOUS
  <2> QED
    BY <1>1, <1>2, <1>4, <2>1
<1> QED
  BY <1>1, <1>2, <1>3, <1>4, <1>5, <1>6

\* Change: the history goes on, the copies wait.
LEMMA ChangeLine ==
    ASSUME PInv, LineInv, LogOK', NEW d \in Workers, NEW t \in Containers,
           NEW kind \in {"post", "put", "delete"}, Change(d, kind, t)
    PROVE  LineInv'
<1>1. PICK msg : msg = [kind |-> kind, of |-> t, by |-> d]
  OBVIOUS
<1>2. PICK m : m = Len(log) + 1
  OBVIOUS
<1>3. /\ log' = Append(log, msg) /\ pending' = pending \cup {m} /\ (serial => pending = {})
      /\ UNCHANGED mesh /\ UNCHANGED <<serial, stack, hooks, donemessages, copy, ran, closed, reach, missed>>
  BY <1>1, <1>2 DEF Change, portal
<1>4. Told /\ LogOK
  BY DEF LineInv, PInv
<1>5. Makes(db, db', m, msg) /\ db' \in [Containers -> Nat] /\ IsTree(db')
  BY <1>1, <1>2, <1>4, ChangeMakes
<1>6. /\ DOMAIN log' = DOMAIN log \cup {m} /\ m \notin DOMAIN log
      /\ log'[m] = msg /\ \A o \in DOMAIN log : log'[o] = log[o]
  BY <1>2, <1>3, <1>4, Appended
<1>7. Carries
  BY <1>3, WireCarries DEF PInv
<1>8. Told'
  <2>1. \A o \in DOMAIN log' : log'[o].kind # "talk" => log'[o].by \in Workers
    BY <1>1, <1>4, <1>6 DEF Told
  <2>2. \A p \in Portals \ missed' : \A o \in (DOMAIN log') \ pending' :
          /\ Relevant(p, o)' => DeepAny(p) \in reach'[o][p]
          /\ log'[o].kind = "delete" => Own[p] \notin Below(log'[o].of)
          /\ log'[o].kind = "post" => Own[p] # log'[o].of
    <3>1. \A o \in (DOMAIN log') \ pending' : o \in (DOMAIN log) \ pending /\ log'[o] = log[o]
      BY <1>3, <1>6
    <3> QED
      BY <1>3, <1>4, <3>1 DEF Told, Relevant
  <2>3. \A p \in Portals \ closed' : hooks'[p] = stack'[p]
    BY <1>3, <1>4 DEF Told
  <2> QED
    BY <1>5, <2>1, <2>2, <2>3 DEF Told
<1>9. ASSUME serial, InTurn
      PROVE  InTurn'
  <2>1. pending' = {m}
    BY <1>3, <1>9
  <2>2. \A o \in DOMAIN log' : ~ (m < o)
    <3>1. PICK n \in Nat : n = Len(log) /\ DOMAIN log = 1..n
      BY <1>4 DEF LogOK
    <3> QED
      BY <1>2, <1>6, <3>1
  <2>3. \A x \in Packets' : x \in Packets /\ x.body \in DOMAIN log
    BY <1>7 DEF Carries, PInv
  <2>4. \A x, y \in Packets' :
          /\ log'[x.body].kind # "talk" /\ log'[y.body].kind # "talk"
          /\ x.body < y.body /\ x.from = y.from
          => x.n < y.n
    BY <1>6, <1>9, <2>3 DEF InTurn
  <2> QED
    BY <2>1, <2>2, <2>4 DEF InTurn
<1>10. ASSUME NEW D, History(D)
       PROVE  \E E : History(E)'
  <2>1. PICK E : E = [k \in Nat |-> IF k = Len(log) + 1 THEN db' ELSE D[k]]
    OBVIOUS
  <2>2. /\ \A k \in 0..Len(log) : E[k] = D[k]
        /\ E[Len(log')] = db' /\ \A o \in DOMAIN log' : Makes(E[o - 1], E[o], o, log'[o])
    <3>1. Makes(db, db', Len(log) + 1, msg) /\ log' = Append(log, msg) /\ LogOK /\ History(D)
      BY <1>2, <1>3, <1>4, <1>5, <1>10
    <3> QED
      BY <2>1, <3>1, HistoryOn
  <2>3. \A p \in Portals : Syncs(p)' => Syncs(p)
    BY <1>3 DEF Syncs
  <2>4. \A p \in Portals : \A o \in (DOMAIN log) \ pending : Syncs(p)' /\ Relevant(p, o) =>
               (Had(p, o) => Had(p, o)') /\ (StillComes(p, o) => StillComes(p, o)')
    <3>1. ASSUME NEW p \in Portals, NEW o \in (DOMAIN log) \ pending, Syncs(p)', Relevant(p, o)
          PROVE  (Had(p, o) => Had(p, o)') /\ (StillComes(p, o) => StillComes(p, o)')
      <4>1. p \notin missed
        BY <1>3, <3>1 DEF Syncs
      <4> QED
        BY <1>3, <1>4, <1>7, <3>1, <4>1, ComingStays
    <3> QED
      BY <3>1
  <2>5. \A p \in Portals : \A o \in DOMAIN log' : Syncs(p)' /\ Relevant(p, o)' /\ o \notin pending' =>
               o \in (DOMAIN log) \ pending \/ StillComes(p, o)'
    BY <1>3, <1>6
  <2>6. \A o \in DOMAIN log : o \in DOMAIN log' /\ log'[o] = log[o]
    BY <1>6
  <2>7. \A o \in (DOMAIN log) \ pending : o \notin pending'
    BY <1>3, <1>6
  <2>8. History(E)'
    BY <1>3, <1>4, <1>10, <2>2, <2>3, <2>4, <2>5, <2>6, <2>7, HistoryGoes
  <2> QED
    BY <2>8
<1>11. serial' => InTurn' /\ \E D : History(D)'
  BY <1>3, <1>9, <1>10 DEF LineInv
<1> QED
  BY <1>8, <1>11 DEF LineInv

-----------------------------------------------------------------------------
(* Sending.                                                                  *)

\* The premises of a step that sends m.
Sends(m, msg) ==
    /\ m \in Messages /\ msg \in Message /\ (msg.kind # "talk" => msg.of # Root)
    /\ msg.kind # "talk" => msg.by \in Workers /\ m \in pending
    /\ Send(m, msg) /\ Unsent(m)
    /\ m \in DOMAIN log' /\ log'[m] = msg
    /\ pending' = pending \ {m} /\ db' = db /\ serial' = serial
    /\ DOMAIN log' = DOMAIN log \cup {m} /\ \A o \in DOMAIN log : log'[o] = log[o]

\* What is on the links after it.
LEMMA SendOnWay ==
    ASSUME PInv, NEW m, NEW msg, Sends(m, msg)
    PROVE  /\ \A x \in Packets' : (x \in Packets /\ x.body # m)
                  \/ (x.from = msg.by /\ x.body = m /\ \E i \in Nat \ {0} : x.n = sent[msg.by] + i)
           /\ \A y, c : OnWay(y, c) => OnWayNext(y, c)
           /\ \A p \in Portals : \A r \in reach'[m][p] : StillComes(p, m)' \/ r # DeepAny(p)
<1>1. /\ Broadcast(msg.by, Routes(msg), m)
      /\ reach' = [reach EXCEPT ![m] = [p \in Portals |-> Reached(msg.by, p, msg)]]
      /\ donemessages' = donemessages /\ m \in Messages /\ msg \in Message
      /\ (msg.kind # "talk" => msg.of # Root) /\ Unsent(m)
  BY DEF Sends, Send, portal
<1>2. PICK d : d = msg.by /\ d \in Clients
  BY <1>1, PortalAssumption DEF Message
<1>3. PICK ks \in Seq(Keys) : ks = Routes(msg) /\ DOMAIN ks = 1..Len(ks) /\ Len(ks) \in 1..4
  BY <1>1, FewRoutes
<1>4. PICK b \in Nat : b = sent[d]
  BY <1>2 DEF PInv, MeshInv, MeshTypeOK
<1>5. /\ \A x \in Packets' : x \in Packets
             \/ /\ x.from = d /\ x.body = m
                /\ \E i \in DOMAIN ks : x.n = b + i /\ x.key = ks[i]
      /\ \A y, c : OnWay(y, c) => OnWayNext(y, c)
      /\ d \in linked => \A c : \A i \in DOMAIN ks :
             \A y : y = [from |-> d, n |-> b + i, key |-> ks[i], body |-> m] => OnWayNext(y, c)
  <2>1. Broadcast(d, ks, m) /\ MeshInv
    BY <1>1, <1>2, <1>3 DEF PInv
  <2> QED
    BY <1>2, <1>3, <1>4, <2>1, BroadcastCarries
<1>6. \A x \in Packets' : (x \in Packets /\ x.body # m)
          \/ (x.from = d /\ x.body = m /\ \E i \in Nat \ {0} : x.n = b + i)
  <2>1. \A x \in Packets : x.body # m
    BY <1>1 DEF Unsent
  <2>2. DOMAIN ks \subseteq Nat \ {0}
    BY <1>3
  <2> QED
    BY <1>5, <2>1, <2>2
<1>7. ASSUME NEW p \in Portals, NEW r \in reach'[m][p], r = DeepAny(p)
      PROVE  StillComes(p, m)'
  <2>1. reach'[m][p] = Reached(d, p, msg)
    BY <1>1, <1>2 DEF PInv, PortalTypes
  <2>2. d \in linked /\ \E i \in DOMAIN Routes(msg) : IsPrefix(r, Routes(msg)[i])
    BY <1>7, <2>1 DEF Reached
  <2>3. PICK i \in DOMAIN ks : IsPrefix(r, ks[i])
    BY <1>3, <2>2
  <2>4. PICK y : y = [from |-> d, n |-> b + i, key |-> ks[i], body |-> m]
    OBVIOUS
  <2>5. OnWayNext(y, Home[p]) /\ Home[p] \in Clients
    BY <1>5, <2>2, <2>3, <2>4, PortalAssumption
  <2>6. y \in Packets' /\ OnWay(y, Home[p])'
    BY <2>5, OnWayIs DEF OnWay, OnWayNext
  <2>7. m \notin donemessages'[p]
    BY <1>1 DEF Unsent
  <2>8. y.body = m /\ IsPrefix(DeepAny(p), y.key)
    BY <1>7, <2>3, <2>4
  <2> QED
    BY <2>6, <2>7, <2>8 DEF StillComes
<1> QED
  BY <1>2, <1>4, <1>5, <1>6, <1>7

\* A portal that does not miss the message is reached by it.
LEMMA SendTold ==
    ASSUME PInv, Told, NEW m, NEW msg, Sends(m, msg)
    PROVE  Told'
<1>1. /\ reach' = [reach EXCEPT ![m] = [p \in Portals |-> Reached(msg.by, p, msg)]]
      /\ missed' = missed \cup {p \in Portals : Misses(p, msg.by, msg)}
      /\ UNCHANGED <<stack, hooks, closed, db>> /\ m \in Messages
      /\ pending' = pending \ {m} /\ log'[m] = msg
      /\ DOMAIN log' = DOMAIN log \cup {m} /\ \A o \in DOMAIN log : log'[o] = log[o]
      /\ msg.kind # "talk" => msg.by \in Workers
  BY DEF Sends, Send, portal
<1>2. /\ \A p \in Portals : reach'[m][p] = Reached(msg.by, p, msg)
      /\ \A o \in Messages : o # m => reach'[o] = reach[o]
  BY <1>1 DEF PInv, PortalTypes
<1>3. ASSUME NEW p \in Portals \ missed', NEW o \in (DOMAIN log') \ pending'
      PROVE  /\ Relevant(p, o)' => DeepAny(p) \in reach'[o][p]
             /\ log'[o].kind = "delete" => Own[p] \notin Below(log'[o].of)
             /\ log'[o].kind = "post" => Own[p] # log'[o].of
  <2>1. CASE o = m
    <3>1. ~ Misses(p, msg.by, msg)
      BY <1>1
    <3>2. Relevant(p, o)' => msg.kind # "talk" /\ msg.of \in Below(Own[p])
      BY <1>1, <2>1 DEF Relevant
    <3> QED
      BY <1>1, <1>2, <2>1, <3>1, <3>2 DEF Misses
  <2>2. CASE o # m
    <3>1. o \in (DOMAIN log) \ pending /\ log'[o] = log[o] /\ p \in Portals \ missed
      BY <1>1, <1>3, <2>2
    <3>2. reach'[o] = reach[o]
      BY <1>2, <2>2, <3>1, Logged DEF PInv
    <3>3. Relevant(p, o)' => Relevant(p, o)
      BY <3>1 DEF Relevant
    <3> QED
      BY <3>1, <3>2, <3>3 DEF Told
  <2> QED
    BY <2>1, <2>2
<1>4. \A o \in DOMAIN log' : log'[o].kind # "talk" => log'[o].by \in Workers
  BY <1>1 DEF Told
<1>5. \A p \in Portals \ closed' : hooks'[p] = stack'[p]
  BY <1>1 DEF Told
<1>6. db' \in [Containers -> Nat] /\ IsTree(db')
  BY <1>1 DEF Told
<1> QED
  BY <1>3, <1>4, <1>5, <1>6 DEF Told

\* What is under way was numbered before.
LEMMA Numbers ==
    ASSUME MeshInv, NEW x \in Packets
    PROVE  x.n <= sent[x.from] /\ x.n \in Nat /\ x.from \in Clients /\ sent[x.from] \in Nat
<1>1. x \in Packet /\ x.n <= sent[x.from]
  <2>1. x \in up \/ (\E s \in Servers : x \in side[s]) \/ (\E c \in Clients : x \in down[c])
    BY PacketsAre
  <2>2. CASE x \in up
    BY <2>2 DEF MeshInv, MeshTypeOK, InOrder
  <2>3. CASE \E s \in Servers : x \in side[s]
    BY <2>3 DEF MeshInv, MeshTypeOK, InOrder
  <2>4. CASE \E c \in Clients : x \in down[c]
    BY <2>4 DEF MeshInv, MeshTypeOK, InOrder
  <2> QED
    BY <2>1, <2>2, <2>3, <2>4
<1> QED
  BY <1>1 DEF Packet, MeshInv, MeshTypeOK

\* A broadcast is numbered after all others of its sender.
LEMMA SendInTurn ==
    ASSUME PInv, InTurn, NEW m, NEW msg, Sends(m, msg), m \notin DOMAIN log => msg.kind = "talk"
    PROVE  InTurn'
<1>1. /\ pending' = pending \ {m} /\ log'[m] = msg
      /\ DOMAIN log' = DOMAIN log \cup {m} /\ \A o \in DOMAIN log : log'[o] = log[o]
      /\ msg.kind # "talk" => m \in pending
      /\ m \in Messages
  BY DEF Sends
<1>2. \A x \in Packets' : (x \in Packets /\ x.body # m)
          \/ (x.from = msg.by /\ x.body = m /\ \E i \in Nat \ {0} : x.n = sent[msg.by] + i)
  BY SendOnWay
<1>3. \A o \in pending', q \in DOMAIN log' : o < q => log'[q].kind = "talk"
  BY <1>1 DEF InTurn
<1>4. ASSUME NEW x \in Packets', NEW y \in Packets',
             log'[x.body].kind # "talk", log'[y.body].kind # "talk", x.body < y.body, x.from = y.from
      PROVE  x.n < y.n
  <2>1. CASE x \in Packets /\ y \in Packets /\ x.body # m /\ y.body # m
    <3>1. log'[x.body] = log[x.body] /\ log'[y.body] = log[y.body]
      BY <1>1, <2>1 DEF PInv
    <3> QED
      BY <1>4, <2>1, <3>1 DEF InTurn
  <2>2. CASE x.body = m /\ y \in Packets /\ y.body # m
    <3>1. y.body \in DOMAIN log /\ log'[y.body] = log[y.body]
      BY <1>1, <2>2 DEF PInv
    <3>2. m \in pending
      BY <1>1, <1>4, <2>2
    <3>3. log[y.body].kind = "talk"
      BY <1>4, <2>2, <3>1, <3>2 DEF InTurn
    <3> QED
      BY <1>4, <3>1, <3>3
  <2>3. CASE x \in Packets /\ x.body # m /\ y.body = m
    <3>1. PICK i \in Nat \ {0} : y.n = sent[msg.by] + i /\ y.from = msg.by
      BY <1>2, <2>3
    <3>2. x.n <= sent[x.from] /\ x.n \in Nat /\ sent[x.from] \in Nat
      BY <2>3, Numbers DEF PInv
    <3> QED
      BY <1>4, <3>1, <3>2
  <2>4. CASE x.body = m /\ y.body = m
    BY <1>1, <1>4, <2>4 DEF Messages
  <2> QED
    BY <1>2, <2>1, <2>2, <2>3, <2>4
<1> QED
  BY <1>3, <1>4 DEF InTurn

\* What the other messages are to a portal.
LEMMA SendOthers ==
    ASSUME PInv, NEW m, NEW msg, Sends(m, msg), NEW p \in Portals, NEW o, o # m
    PROVE  (Had(p, o) => Had(p, o)') /\ (StillComes(p, o) => StillComes(p, o)')
<1>1. donemessages' = donemessages
  BY DEF Sends, Send, portal
<1>2. /\ \A x \in Packets' : x \in Packets \/ x.body = m
      /\ \A y, c : OnWay(y, c) => OnWayNext(y, c)
  BY SendOnWay
<1>3. Had(p, o) => Had(p, o)'
  BY <1>1, <1>2 DEF Had
<1>4. ASSUME StillComes(p, o)
      PROVE  StillComes(p, o)'
  <2>1. PICK y \in Packets : y.body = o /\ OnWay(y, Home[p]) /\ IsPrefix(DeepAny(p), y.key)
    BY <1>4 DEF StillComes
  <2>2. OnWayNext(y, Home[p]) /\ Home[p] \in Clients
    BY <1>2, <2>1, PortalAssumption
  <2>3. y \in Packets' /\ OnWay(y, Home[p])'
    BY <2>2, OnWayIs DEF OnWay, OnWayNext
  <2>4. o \notin donemessages'[p]
    BY <1>1, <1>4 DEF StillComes
  <2> QED
    BY <2>1, <2>3, <2>4 DEF StillComes
<1> QED
  BY <1>3, <1>4

\* The message is on its way to the copies that have to take it.
LEMMA SendHistory ==
    ASSUME PInv, Told, LogOK', NEW D, History(D), NEW m, NEW msg, Sends(m, msg),
           NEW E, \A k \in 0..Len(log) : E[k] = D[k],
           E[Len(log')] = db', \A o \in DOMAIN log' : Makes(E[o - 1], E[o], o, log'[o]),
           m \notin (DOMAIN log) \ pending
    PROVE  History(E)'
<1>1. /\ missed' = missed \cup {p \in Portals : Misses(p, msg.by, msg)}
      /\ UNCHANGED <<stack, hooks, closed, db, copy>>
      /\ pending' = pending \ {m}
      /\ DOMAIN log' = DOMAIN log \cup {m} /\ \A o \in DOMAIN log : log'[o] = log[o]
  BY DEF Sends, Send, portal
<1>2. \A p \in Portals : Syncs(p)' => Syncs(p)
  BY <1>1 DEF Syncs
<1>3. \A o \in DOMAIN log : o \in DOMAIN log' /\ log'[o] = log[o]
  BY <1>1
<1>4. \A o \in (DOMAIN log) \ pending : o \notin pending'
  BY <1>1
<1>5. \A p \in Portals : \A o \in (DOMAIN log) \ pending : Syncs(p)' /\ Relevant(p, o) =>
               (Had(p, o) => Had(p, o)') /\ (StillComes(p, o) => StillComes(p, o)')
  BY SendOthers
<1>6. ASSUME NEW p \in Portals, NEW o \in DOMAIN log', Syncs(p)', Relevant(p, o)', o \notin pending'
      PROVE  o \in (DOMAIN log) \ pending \/ StillComes(p, o)'
  <2>1. CASE o = m
    <3>1. Told'
      BY SendTold
    <3>2. p \notin missed'
      BY <1>6 DEF Syncs
    <3>3. DeepAny(p) \in reach'[m][p]
      BY <1>6, <2>1, <3>1, <3>2 DEF Told
    <3> QED
      BY <2>1, <3>3, SendOnWay
  <2>2. CASE o # m
    BY <1>1, <1>6, <2>2
  <2> QED
    BY <2>1, <2>2
<1>7. LogOK /\ copy' = copy
  BY <1>1 DEF PInv
<1>8. \A p \in Portals : \A o \in DOMAIN log' : Syncs(p)' /\ Relevant(p, o)' /\ o \notin pending' =>
               o \in (DOMAIN log) \ pending \/ StillComes(p, o)'
  BY <1>6
<1> QED
  BY <1>2, <1>3, <1>4, <1>5, <1>7, <1>8, HistoryGoes

\* Respond.
LEMMA RespondLine ==
    ASSUME PInv, LineInv, LogOK', NEW m \in pending, Respond(m)
    PROVE  LineInv'
<1>1. Send(m, log[m]) /\ pending' = pending \ {m} /\ log' = log /\ db' = db /\ serial' = serial
  BY DEF Respond
<1>2. m \in DOMAIN log /\ LogOK /\ Told
  BY DEF PInv, LogOK, LineInv
<1>3. /\ log[m] \in Message /\ (log[m].kind # "talk" => log[m].of # Root) /\ m \in Messages
  BY <1>2, Logged
<1>4. Unsent(m)
  BY <1>3 DEF PInv, Tracked
<1>5. PICK msg : msg = log[m]
  OBVIOUS
<1>6. Sends(m, msg)
  BY <1>1, <1>2, <1>3, <1>4, <1>5 DEF Sends, Told
<1>7. Told'
  BY <1>2, <1>6, SendTold
<1>8. InTurn => InTurn'
  BY <1>2, <1>6, SendInTurn
<1>9. ASSUME NEW D, History(D)
      PROVE  History(D)'
  <2>1. /\ \A k \in 0..Len(log) : D[k] = D[k]
        /\ D[Len(log')] = db' /\ \A o \in DOMAIN log' : Makes(D[o - 1], D[o], o, log'[o])
    BY <1>1, <1>9 DEF History
  <2>2. m \notin (DOMAIN log) \ pending
    OBVIOUS
  <2> QED
    BY <1>2, <1>6, <1>9, <2>1, <2>2, SendHistory
<1>10. serial' => InTurn' /\ \E D : History(D)'
  BY <1>1, <1>8, <1>9 DEF LineInv
<1> QED
  BY <1>7, <1>10 DEF LineInv

\* Talk: the history goes on without a change.
LEMMA TalkLine ==
    ASSUME PInv, LineInv, LogOK', NEW d \in Clients, NEW t \in {Own[p] : p \in Radios}, Talk(d, t)
    PROVE  LineInv'
<1>1. PICK msg : msg = [kind |-> "talk", of |-> t, by |-> d]
  OBVIOUS
<1>2. t \in Containers
  BY PortalAssumption
<1>3. msg \in Message /\ msg.kind = "talk"
  BY <1>1, <1>2 DEF Message, Kinds
<1>4. PICK m : m = Len(log) + 1
  OBVIOUS
<1>5. /\ log' = Append(log, msg) /\ pending' = pending /\ Send(m, msg) /\ Len(log) < MaxMessages
      /\ db' = db /\ serial' = serial
  BY <1>1, <1>4 DEF Talk
<1>6. LogOK /\ Told
  BY DEF PInv, LineInv
<1>7. /\ DOMAIN log' = DOMAIN log \cup {m} /\ m \notin DOMAIN log
      /\ log'[m] = msg /\ \A o \in DOMAIN log : log'[o] = log[o]
      /\ m \in Messages
  BY <1>4, <1>5, <1>6, Appended
<1>8. Unsent(m)
  BY <1>7 DEF PInv, Tracked
<1>9. pending' = pending \ {m}
  BY <1>5, <1>6, <1>7 DEF LogOK
<1>10. Sends(m, msg)
  BY <1>3, <1>5, <1>7, <1>8, <1>9 DEF Sends
<1>11. Told'
  BY <1>6, <1>10, SendTold
<1>12. InTurn => InTurn'
  BY <1>3, <1>10, SendInTurn
<1>13. ASSUME NEW D, History(D)
       PROVE  \E E : History(E)'
  <2>1. PICK E : E = [k \in Nat |-> IF k = Len(log) + 1 THEN db' ELSE D[k]]
    OBVIOUS
  <2>2. Makes(db, db', Len(log) + 1, msg)
    BY <1>3, <1>5, <1>6 DEF Makes, Told
  <2>3. /\ \A k \in 0..Len(log) : E[k] = D[k]
        /\ E[Len(log')] = db' /\ \A o \in DOMAIN log' : Makes(E[o - 1], E[o], o, log'[o])
    BY <1>5, <1>6, <1>13, <2>1, <2>2, HistoryOn
  <2>4. m \notin (DOMAIN log) \ pending
    BY <1>7
  <2>5. History(E)'
    BY <1>6, <1>10, <1>13, <2>3, <2>4, SendHistory
  <2> QED
    BY <2>5
<1>14. serial' => InTurn' /\ \E D : History(D)'
  BY <1>5, <1>12, <1>13 DEF LineInv
<1> QED
  BY <1>11, <1>14 DEF LineInv

-----------------------------------------------------------------------------
(* Hearing.                                                                  *)

\* A supplier answers in one process.
OneWorker == \A d, e \in Workers : d = e

\* Of two containers above a third, one is above the other.
LEMMA BelowBoth ==
    ASSUME NEW a \in Containers, NEW b \in Containers, NEW t \in Below(a) \cap Below(b)
    PROVE  b \in Below(a) \/ a \in Below(b)
<1>1. \A u \in Containers : Place[u] \in Seq(STRING) /\ Len(Place[u]) \in Nat
  BY PlaceIs
<1>2. \A u, v \in Containers : IsPrefix(Place[u], Place[v]) <=>
          Len(Place[u]) <= Len(Place[v]) /\ \A i \in 1..Len(Place[u]) : Place[u][i] = Place[v][i]
  BY PlaceIs
<1>3. t \in Containers /\ IsPrefix(Place[a], Place[t]) /\ IsPrefix(Place[b], Place[t])
  BY DEF Below
<1>4. /\ \A i \in 1..Len(Place[a]) : Place[a][i] = Place[t][i]
      /\ \A i \in 1..Len(Place[b]) : Place[b][i] = Place[t][i]
  BY <1>2, <1>3
<1>5. CASE Len(Place[a]) <= Len(Place[b])
  <2>1. \A i \in 1..Len(Place[a]) : Place[a][i] = Place[b][i]
    BY <1>1, <1>4, <1>5
  <2> QED
    BY <1>2, <1>5, <2>1 DEF Below
<1>6. CASE Len(Place[b]) <= Len(Place[a])
  <2>1. \A i \in 1..Len(Place[b]) : Place[b][i] = Place[a][i]
    BY <1>1, <1>4, <1>6
  <2> QED
    BY <1>2, <1>6, <2>1 DEF Below
<1> QED
  BY <1>1, <1>5, <1>6

\* A change elsewhere leaves what is below a container.
LEMMA Elsewhere ==
    ASSUME NEW f, NEW g, NEW m, NEW msg \in Message, msg.kind # "talk" => msg.of # Root, Makes(f, g, m, msg),
           NEW a \in Containers, msg.kind # "talk" => msg.of \notin Below(a),
           msg.kind = "delete" => a \notin Below(msg.of), NEW t \in Below(a)
    PROVE  g[t] = f[t]
<1>1. t \in Containers /\ msg.of \in Containers /\ msg.kind \in Kinds
  BY DEF Below, Message
<1>2. CASE msg.kind = "talk"
  BY <1>2 DEF Makes
<1>3. CASE msg.kind \in {"post", "put"}
  BY <1>1, <1>3 DEF Makes
<1>4. CASE msg.kind = "delete"
  <2>1. t \notin Below(msg.of)
    BY <1>1, <1>4, BelowBoth
  <2> QED
    BY <1>1, <1>4, <2>1 DEF Makes
<1> QED
  BY <1>1, <1>2, <1>3, <1>4 DEF Kinds

\* A tree that is not changed below a container for a while.
LEMMA Steady ==
    ASSUME LogOK, Told, NEW D, \A m \in DOMAIN log : Makes(D[m - 1], D[m], m, log[m]),
           NEW p \in Portals \ missed, NEW a \in Nat, NEW b \in a..Len(log),
           \A j \in (a + 1)..b : ~ Relevant(p, j) /\ (log[j].kind = "talk" \/ j \notin pending)
    PROVE  \A t \in Below(Own[p]) : D[b][t] = D[a][t]
<1>1. PICK n \in Nat : n = Len(log) /\ DOMAIN log = 1..n
  BY DEF LogOK
<1>2. PICK S : S = {j \in a..b : \E t \in Below(Own[p]) : D[j][t] # D[a][t]}
  OBVIOUS
<1>3. S \in SUBSET Nat
  BY <1>1, <1>2
<1>4. ASSUME S # {}
      PROVE  FALSE
  <2>1. PICK j \in S : \A i \in S : j <= i
    BY <1>3, <1>4, Least
  <2>2. j # a /\ j \in a..b
    BY <1>2, <2>1
  <2>3. j - 1 \in a..b /\ j \in (a + 1)..b /\ j \in 1..n /\ ~ (j <= j - 1)
    BY <1>1, <2>2
  <2>4. j - 1 \notin S
    BY <2>1, <2>3
  <2>5. \A t \in Below(Own[p]) : D[j - 1][t] = D[a][t]
    BY <1>2, <2>3, <2>4
  <2>6. j \in DOMAIN log /\ Makes(D[j - 1], D[j], j, log[j]) /\ ~ Relevant(p, j)
        /\ (log[j].kind = "talk" \/ j \notin pending)
    BY <1>1, <2>3
  <2>7. /\ log[j] \in Message /\ (log[j].kind # "talk" => log[j].of # Root)
        /\ (log[j].kind # "talk" => log[j].of \notin Below(Own[p]))
        /\ (log[j].kind = "delete" => Own[p] \notin Below(log[j].of))
        /\ Own[p] \in Containers
    <3>1. log[j] \in Message /\ (log[j].kind # "talk" => log[j].of # Root)
      BY <2>6, Logged
    <3>2. log[j].kind # "talk" => log[j].of \notin Below(Own[p])
      BY <2>6 DEF Relevant
    <3>3. log[j].kind = "delete" => Own[p] \notin Below(log[j].of)
      BY <2>6 DEF Told
    <3> QED
      BY <3>1, <3>2, <3>3, PortalAssumption
  <2>8. \A t \in Below(Own[p]) : D[j][t] = D[j - 1][t]
    BY <2>6, <2>7, Elsewhere
  <2>9. j \notin S
    BY <1>2, <2>5, <2>8
  <2> QED
    BY <2>1, <2>9
<1>5. b \in a..b
  BY <1>1
<1> QED
  BY <1>2, <1>4, <1>5

\* What is elsewhere is not synced.
LEMMA SyncedNothing ==
    ASSUME LogOK, NEW m \in DOMAIN log, NEW t \in Containers, NEW f, TreeOn(f, t), NEW deep \in BOOLEAN,
           log[m].kind = "talk" \/ log[m].of \notin Below(t)
    PROVE  Synced(f, t, m, deep) = f
<1>1. PICK u, kind : u = log[m].of /\ kind = log[m].kind
  OBVIOUS
<1>2. log[m] \in Message /\ (kind # "talk" => u # Root)
  BY <1>1, Logged
<1>3. u \in Containers /\ kind \in Kinds
  BY <1>1, <1>2 DEF Message
<1>4. t \in Below(t) /\ f[t] # Absent
  BY BelowIs DEF TreeOn
<1>5. CASE kind = "talk"
  BY <1>1, <1>5 DEF Synced
<1>6. CASE kind # "talk"
  <2>1. u # Root /\ Parent(u) \in Containers /\ u \notin Below(t)
    BY <1>1, <1>2, <1>3, <1>6, ParentIs
  <2>2. Parent(u) \notin Below(t)
    BY <1>3, <2>1, BelowIs
  <2>3. f[u] = Absent /\ f[Parent(u)] = Absent
    BY <1>3, <2>1, <2>2 DEF TreeOn
  <2>4. u # t /\ Parent(u) # t
    BY <1>4, <2>1, <2>2
  <2>5. ~ (IF deep THEN f[u] # Absent ELSE u = t) /\ ~ (IF deep THEN f[Parent(u)] # Absent ELSE Parent(u) = t)
    BY <2>3, <2>4
  <2> QED
    BY <1>1, <2>5 DEF Synced
<1> QED
  BY <1>5, <1>6

\* A copy synced on its deep route.
SyncedDeep(f, a, m) == Synced(f, a, m, TRUE)

\* A copy f of a tree on a agrees with g, and can follow it to h.
Agrees(f, g, h, m, a) ==
    /\ TreeOn(f, a) /\ Makes(g, h, m, log[m]) /\ \A t \in Below(a) : f[t] = g[t]
    /\ log[m].kind # "talk" /\ log[m].of \in Below(a)
    /\ log[m].kind = "delete" => a \notin Below(log[m].of)
    /\ log[m].kind = "post" => a # log[m].of

\* A copy in step takes the change that the tree took.
LEMMA SyncedSame ==
    ASSUME LogOK, NEW m \in DOMAIN log, NEW a \in Containers, NEW f, NEW g, NEW h, Agrees(f, g, h, m, a)
    PROVE  \A t \in Below(a) : SyncedDeep(f, a, m)[t] = h[t]
<1> USE DEF Agrees, SyncedDeep
<1>1. PICK u, kind : u = log[m].of /\ kind = log[m].kind
  OBVIOUS
<1>2. log[m] \in Message /\ u # Root /\ u \in Containers /\ kind \in Kinds
  <2>1. log[m] \in Message /\ u # Root
    BY <1>1, Logged
  <2> QED
    BY <1>1, <2>1 DEF Message
<1>3. Below(a) \subseteq Containers /\ u \in Below(u)
  BY <1>2, BelowIs
<1>4. f \in [Containers -> Nat] /\ g \in [Containers -> Nat]
  BY DEF TreeOn, Makes
<1>5. u # a => Parent(u) \in Below(a)
  BY <1>1, <1>2, BelowIs
<1>6. CASE kind = "post"
  <2>1. g[Parent(u)] # Absent /\ g[u] = Absent /\ h = [g EXCEPT ![u] = m]
    BY <1>1, <1>6 DEF Makes
  <2>2. f[Parent(u)] # Absent /\ f[u] = Absent
    BY <1>1, <1>5, <1>6, <2>1
  <2>3. Synced(f, a, m, TRUE) = [f EXCEPT ![u] = m]
    BY <1>1, <1>6, <2>2 DEF Synced
  <2> QED
    BY <1>2, <1>3, <1>4, <2>1, <2>3
<1>7. CASE kind = "put"
  <2>1. g[u] # Absent /\ h = [g EXCEPT ![u] = m]
    BY <1>1, <1>7 DEF Makes
  <2>2. f[u] # Absent
    BY <1>1, <2>1
  <2>3. Synced(f, a, m, TRUE) = [f EXCEPT ![u] = m]
    BY <1>1, <1>7, <2>2 DEF Synced
  <2> QED
    BY <1>2, <1>3, <1>4, <2>1, <2>3
<1>8. CASE kind = "delete"
  <2>1. g[Parent(u)] # Absent /\ h = [v \in Containers |-> IF v \in Below(u) THEN Absent ELSE g[v]]
    BY <1>1, <1>8 DEF Makes
  <2>2. u # a
    BY <1>1, <1>3, <1>8
  <2>3. f[Parent(u)] # Absent
    BY <1>5, <2>1, <2>2
  <2>4. Synced(f, a, m, TRUE) = [v \in Containers |-> IF v \in Below(u) THEN Absent ELSE f[v]]
    BY <1>1, <1>8, <2>3 DEF Synced
  <2> QED
    BY <1>3, <2>1, <2>4
<1> QED
  BY <1>1, <1>2, <1>6, <1>7, <1>8 DEF Kinds

\* The message that a portal is called for is the next change to it.
LEMMA NextRelevant ==
    ASSUME PInv, Told, InTurn, OneWorker, NEW c \in Clients, NEW x \in down[c], Hear(c, x),
           NEW p \in Called(c, x), Syncs(p), NEW m, m = x.body, Relevant(p, m), NEW f, NEW k, InStep(p, f, k),
           k \in Nat
    PROVE  k < m /\ \A o \in DOMAIN log : k < o /\ o < m => ~ Relevant(p, o) /\ (log[o].kind = "talk" \/ o \notin pending)
<1>1. x \in Packets /\ m \in DOMAIN log /\ m \notin pending /\ m \in Nat
  BY HeardIs, Logged DEF PInv
<1>2. p \in Portals /\ Home[p] = c /\ ~ Done(p, m)
  BY DEF Called
<1>3. k < m
  <2>1. ~ Had(p, m)
    BY <1>1, <1>2 DEF Had, Done, SameId
  <2>2. ~ (m <= k)
    BY <1>1, <2>1 DEF InStep
  <2> QED
    BY <1>1, <2>2
<1>4. ASSUME NEW o \in DOMAIN log, k < o, o < m
      PROVE  ~ Relevant(p, o) /\ (log[o].kind = "talk" \/ o \notin pending)
  <2>1. o \notin pending
    BY <1>1, <1>4 DEF InTurn, Relevant
  <2>2. ASSUME Relevant(p, o)
        PROVE  FALSE
    <3>1. StillComes(p, o)
      BY <1>4, <2>1, <2>2 DEF InStep
    <3>2. p \in Portals \ missed
      BY <1>2 DEF Syncs
    <3>3. PICK y \in Packets : y.body = o /\ OnWay(y, c) /\ y.from = log[o].by
      BY <1>2, <2>1, <2>2, <3>1, <3>2, ComingIs
    <3>4. x.from = log[m].by
      <4>1. m \in Messages
        BY HeardIs
      <4>2. Tracked(m)
        BY <4>1 DEF PInv
      <4> QED
        BY <1>1, <4>2 DEF Tracked, SentFrom
    <3>5. y.from = x.from
      BY <1>1, <2>2, <3>3, <3>4 DEF Told, OneWorker, Relevant
    <3>6. y.n < x.n
      BY <1>1, <1>4, <2>2, <3>3, <3>5 DEF InTurn, Relevant
    <3>7. x.n <= y.n
      BY <3>3, <3>5, NextIsFirst DEF PInv, Hear, Heard, Take
    <3>8. x.n \in Nat /\ y.n \in Nat
      BY <1>1, <3>3, Numbers DEF PInv
    <3> QED
      BY <3>6, <3>7, <3>8
  <2> QED
    BY <2>1, <2>2
<1> QED
  BY <1>3, <1>4

\* What was heard stays heard, and what is to come stays to come.
LEMMA HearStays ==
    ASSUME PInv, Told, NEW c \in Clients, NEW x \in down[c], Hear(c, x) \/ Fail(c, x), NEW p \in Portals, Syncs(p),
           NEW m \in (DOMAIN log) \ pending, Relevant(p, m)
    PROVE  /\ Had(p, m) => Had(p, m)'
           /\ StillComes(p, m) /\ (p \notin Called(c, x) \/ m # x.body) => StillComes(p, m)'
<1>1. Take(c, x) /\ MeshInv
  BY DEF Hear, Fail, Heard, PInv
<1>2. /\ \A y \in Packets' : y \in Packets
      /\ \A y, b : b \in Clients /\ OnWay(y, b) /\ (b # c \/ y # x) => OnWayNext(y, b)
  BY <1>1, TakeCarries
<1>3. /\ donemessages'[p] = IF p \in Called(c, x) THEN donemessages[p] \cup {x.body} ELSE donemessages[p]
  BY HearDoes
<1>4. Had(p, m) => Had(p, m)'
  BY <1>2, <1>3 DEF Had
<1>5. ASSUME StillComes(p, m), p \notin Called(c, x) \/ m # x.body
      PROVE  StillComes(p, m)'
  <2>1. p \in Portals \ missed
    BY DEF Syncs
  <2>2. /\ DeepAny(p) \in hooks[p] /\ Home[p] \in Clients
        /\ \E y \in Packets : y.body = m /\ OnWay(y, Home[p]) /\ IsPrefix(DeepAny(p), y.key)
    BY <1>5, <2>1, ComingIs
  <2>3. PICK y \in Packets : y.body = m /\ OnWay(y, Home[p]) /\ IsPrefix(DeepAny(p), y.key)
    BY <2>2
  <2>4. m \notin donemessages[p] /\ m \notin donemessages'[p]
    BY <1>3, <1>5 DEF StillComes
  <2>5. Home[p] # c \/ y # x
    <3>1. ASSUME Home[p] = c, y = x
          PROVE  FALSE
      <4>1. Hits(p, x.key) # {}
        BY <2>2, <2>3, <3>1 DEF Hits
      <4>2. ~ Done(p, x.body)
        BY <2>3, <2>4, <3>1 DEF Done, SameId, Relevant
      <4>3. p \in Called(c, x)
        BY <3>1, <4>1, <4>2 DEF Called
      <4> QED
        BY <1>5, <2>3, <3>1, <4>3
    <3> QED
      BY <3>1
  <2>6. OnWayNext(y, Home[p])
    BY <1>2, <2>2, <2>3, <2>5
  <2>7. y \in Packets' /\ OnWay(y, Home[p])'
    BY <2>2, <2>6, OnWayIs DEF OnWay, OnWayNext
  <2> QED
    BY <2>3, <2>4, <2>7 DEF StillComes
<1> QED
  BY <1>4, <1>5

\* What hearing does to a copy.
LEMMA HearCopy ==
    ASSUME PInv, Told, NEW c \in Clients, NEW x \in down[c], Hear(c, x), NEW p \in Portals, Syncs(p)
    PROVE  /\ p \notin Called(c, x) => copy'[p] = copy[p]
           /\ p \in Called(c, x) => copy'[p] = Synced(copy[p], Own[p], x.body, TRUE)
<1>1. PICK h : h = Hit(p, x.key)
  OBVIOUS
<1>2. copy' = [q \in Portals |->
          IF q \in Called(c, x) /\ Runs(q, x) /\ SyncsOn(q, x)
          THEN Synced(copy[q], Own[q], x.body, Hit(q, x.key) = DeepAny(q)) ELSE copy[q]]
  BY DEF Hear
<1>3. CASE p \in Called(c, x)
  <2>1. Hits(p, x.key) # {}
    BY <1>3 DEF Called
  <2>2. hooks[p] = stack[p] /\ stack[p] \subseteq {DeepAny(p)} /\ p \notin Radios
    BY DEF Told, Syncs
  <2>3. hooks[p] \subseteq Keys /\ x.key \in Keys
    BY HeardIs DEF PInv, PortalTypes
  <2>4. h \in stack[p] /\ h = DeepAny(p)
    BY <1>1, <2>1, <2>2, <2>3, HitIs
  <2>5. Runs(p, x) /\ SyncsOn(p, x)
    BY <1>1, <2>2, <2>4 DEF DeepAny, Runs, SyncsOn, Modes
  <2> QED
    BY <1>1, <1>2, <1>3, <2>4, <2>5
<1>4. CASE p \notin Called(c, x)
  BY <1>2, <1>4
<1> QED
  BY <1>3, <1>4

\* The copy of a portal takes the next change that concerns it, or nothing.
LEMMA HearInStep ==
    ASSUME PInv, Told, InTurn, OneWorker, NEW c \in Clients, NEW x \in down[c], Hear(c, x),
           NEW D, \A m \in DOMAIN log : Makes(D[m - 1], D[m], m, log[m]),
           NEW p \in Portals, Syncs(p), NEW k \in 0..Len(log), InStep(p, D[k], k)
    PROVE  \E j \in 0..Len(log) : InStep(p, D[j], j)'
<1>1. log' = log /\ pending' = pending
  BY HearDoes
<1>2. PICK n \in Nat : n = Len(log) /\ DOMAIN log = 1..n
  BY DEF PInv, LogOK
<1>3. x \in Packets /\ x.body \in DOMAIN log /\ x.body \notin pending
  BY HeardIs
<1>4. LogOK /\ Own[p] \in Containers /\ p \in Portals \ missed
  BY PortalAssumption DEF PInv, Syncs
<1>5. TreeOn(copy[p], Own[p])
  BY CopiesAre DEF PInv, Copies
<1>6. \A m \in DOMAIN log : Relevant(p, m)' <=> Relevant(p, m)
  BY <1>1 DEF Relevant
<1>7. CASE p \in Called(c, x) /\ Relevant(p, x.body)
  <2>1. PICK m : m = x.body /\ m \in 1..n
    BY <1>2, <1>3
  <2>2. k < m /\ \A o \in DOMAIN log : k < o /\ o < m => ~ Relevant(p, o) /\ (log[o].kind = "talk" \/ o \notin pending)
    BY <1>7, <2>1, NextRelevant
  <2>3. m - 1 \in k..n /\ k \in Nat /\ \A o \in (k + 1)..(m - 1) : o \in DOMAIN log /\ k < o /\ o < m
    BY <1>2, <2>1, <2>2
  <2>4. \A t \in Below(Own[p]) : D[m - 1][t] = D[k][t]
    <3>1. PICK b \in Nat : b = m - 1
      BY <2>1, <2>3
    <3>2. b \in k..Len(log)
      BY <1>2, <2>3, <3>1
    <3>3. \A o \in (k + 1)..b : ~ Relevant(p, o) /\ (log[o].kind = "talk" \/ o \notin pending)
      BY <2>2, <2>3, <3>1
    <3>4. \A t \in Below(Own[p]) : D[b][t] = D[k][t]
      BY <1>4, <2>3, <3>2, <3>3, Steady
    <3> QED
      BY <3>1, <3>4
  <2>5. \A t \in Below(Own[p]) : copy[p][t] = D[m - 1][t]
    BY <2>4 DEF InStep
  <2>6. /\ log[m].kind # "talk" /\ log[m].of \in Below(Own[p])
        /\ log[m].kind = "delete" => Own[p] \notin Below(log[m].of)
        /\ log[m].kind = "post" => Own[p] # log[m].of
    BY <1>3, <1>4, <1>7, <2>1 DEF Told, Relevant
  <2>7. m \in DOMAIN log /\ Makes(D[m - 1], D[m], m, log[m])
    BY <1>2, <2>1
  <2>8. \A t \in Below(Own[p]) : Synced(copy[p], Own[p], m, TRUE)[t] = D[m][t]
    <3>1. PICK g, h, f, a : g = D[m - 1] /\ h = D[m] /\ f = copy[p] /\ a = Own[p]
      OBVIOUS
    <3>2. Agrees(f, g, h, m, a)
      BY <1>5, <2>5, <2>6, <2>7, <3>1 DEF Agrees
    <3>3. LogOK /\ m \in DOMAIN log /\ a \in Containers
      BY <1>4, <2>7, <3>1
    <3>4. \A t \in Below(a) : SyncedDeep(f, a, m)[t] = h[t]
      BY <3>2, <3>3, SyncedSame
    <3> QED
      BY <3>1, <3>4 DEF SyncedDeep
  <2>9. copy'[p] = Synced(copy[p], Own[p], m, TRUE)
    BY <1>7, <2>1, HearCopy
  <2>10. \A t \in Below(Own[p]) : copy'[p][t] = D[m][t]
    BY <2>8, <2>9
  <2>11. ASSUME NEW o \in DOMAIN log', Relevant(p, o)', o <= m
         PROVE  o \notin pending' /\ Had(p, o)'
    <3>1. o \in 1..n /\ Relevant(p, o)
      BY <1>1, <1>2, <1>6, <2>11
    <3>2. CASE o <= k
      <4>1. o \notin pending /\ Had(p, o)
        BY <1>2, <3>1, <3>2 DEF InStep
      <4>2. o \in (DOMAIN log) \ pending
        BY <1>2, <3>1, <4>1
      <4> QED
        BY <1>1, <3>1, <4>1, <4>2, HearStays
    <3>3. CASE o = m
      <4>1. m \in donemessages'[p]
        BY <1>7, <2>1, HearDoes
      <4> QED
        BY <1>1, <1>3, <2>1, <3>3, <4>1 DEF Had
    <3>4. CASE k < o /\ o < m
      BY <1>2, <2>2, <3>1, <3>4
    <3> QED
      BY <1>2, <2>1, <2>11, <3>1, <3>2, <3>3, <3>4
  <2>12. ASSUME NEW o \in DOMAIN log', Relevant(p, o)', m < o, o \notin pending'
         PROVE  StillComes(p, o)'
    <3>1. o \in 1..n /\ Relevant(p, o) /\ o \notin pending /\ o \in (DOMAIN log) \ pending
      BY <1>1, <1>2, <1>6, <2>12
    <3>2. k < o /\ o # x.body
      BY <1>2, <2>1, <2>2, <2>12, <3>1
    <3>3. StillComes(p, o)
      BY <3>1, <3>2 DEF InStep
    <3> QED
      BY <3>1, <3>2, <3>3, HearStays
  <2>13. InStep(p, D[m], m)'
    BY <2>10, <2>11, <2>12 DEF InStep
  <2>14. m \in 0..Len(log)
    BY <1>2, <2>1
  <2> QED
    BY <2>13, <2>14
<1>8. CASE ~ (p \in Called(c, x) /\ Relevant(p, x.body))
  <2>1. copy'[p] = copy[p]
    <3>1. CASE p \in Called(c, x)
      <4>1. log[x.body].kind = "talk" \/ log[x.body].of \notin Below(Own[p])
        BY <1>8, <3>1 DEF Relevant
      <4>2. TRUE \in BOOLEAN
        OBVIOUS
      <4>3. Synced(copy[p], Own[p], x.body, TRUE) = copy[p]
        BY <1>3, <1>4, <1>5, <4>1, <4>2, SyncedNothing
      <4> QED
        BY <3>1, <4>3, HearCopy
    <3>2. CASE p \notin Called(c, x)
      BY <3>2, HearCopy
    <3> QED
      BY <3>1, <3>2
  <2>2. \A t \in Below(Own[p]) : copy'[p][t] = D[k][t]
    BY <2>1 DEF InStep
  <2>3. ASSUME NEW o \in DOMAIN log', Relevant(p, o)', o <= k
        PROVE  o \notin pending' /\ Had(p, o)'
    <3>1. o \in DOMAIN log /\ Relevant(p, o)
      BY <1>1, <1>6, <2>3
    <3>2. o \notin pending /\ Had(p, o)
      BY <2>3, <3>1 DEF InStep
    <3>3. o \in (DOMAIN log) \ pending
      BY <3>1, <3>2
    <3> QED
      BY <1>1, <3>1, <3>2, <3>3, HearStays
  <2>4. ASSUME NEW o \in DOMAIN log', Relevant(p, o)', k < o, o \notin pending'
        PROVE  StillComes(p, o)'
    <3>1. o \in (DOMAIN log) \ pending /\ Relevant(p, o)
      BY <1>1, <1>6, <2>4
    <3>2. StillComes(p, o)
      BY <2>4, <3>1 DEF InStep
    <3>3. p \notin Called(c, x) \/ o # x.body
      BY <1>8, <3>1
    <3> QED
      BY <3>1, <3>2, <3>3, HearStays
  <2>5. InStep(p, D[k], k)'
    BY <2>2, <2>3, <2>4 DEF InStep
  <2> QED
    BY <2>5
<1> QED
  BY <1>7, <1>8

\* Hear.
LEMMA HearLine ==
    ASSUME PInv, LineInv, OneWorker, NEW c \in Clients, NEW x \in down[c], Hear(c, x)
    PROVE  LineInv'
<1>1. UNCHANGED <<serial, log, pending, db, stack, hooks, closed, reach, missed>>
  BY DEF Hear, Heard, store
<1>2. \A y \in Packets' : y \in Packets
  BY TakeCarries DEF Hear, Heard, PInv
<1>3. Told'
  <2>1. Told
    BY DEF LineInv
  <2>2. \A p \in Portals \ missed' : \A m \in (DOMAIN log') \ pending' :
          /\ Relevant(p, m)' => DeepAny(p) \in reach'[m][p]
          /\ log'[m].kind = "delete" => Own[p] \notin Below(log'[m].of)
          /\ log'[m].kind = "post" => Own[p] # log'[m].of
    BY <1>1, <2>1 DEF Told, Relevant
  <2>3. /\ db' \in [Containers -> Nat] /\ IsTree(db')
        /\ \A m \in DOMAIN log' : log'[m].kind # "talk" => log'[m].by \in Workers
        /\ \A p \in Portals \ closed' : hooks'[p] = stack'[p]
    BY <1>1, <2>1 DEF Told
  <2> QED
    BY <2>2, <2>3 DEF Told
<1>4. InTurn => InTurn'
  BY <1>1, <1>2 DEF InTurn
<1>5. ASSUME NEW D, History(D), InTurn
      PROVE  History(D)'
  <2>1. ASSUME NEW p \in Portals, Syncs(p)'
        PROVE  \E k \in 0..Len(log') : InStep(p, D[k], k)'
    <3>1. Syncs(p)
      BY <1>1, <2>1 DEF Syncs
    <3>2. PICK k \in 0..Len(log) : InStep(p, D[k], k)
      BY <1>5, <3>1 DEF History
    <3>3. \A m \in DOMAIN log : Makes(D[m - 1], D[m], m, log[m])
      BY <1>5 DEF History
    <3>4. \E j \in 0..Len(log) : InStep(p, D[j], j)'
      BY <1>5, <3>1, <3>2, <3>3, HearInStep DEF LineInv
    <3> QED
      BY <1>1, <3>4
  <2>2. D[Len(log')] = db' /\ \A m \in DOMAIN log' : Makes(D[m - 1], D[m], m, log'[m])
    BY <1>1, <1>5 DEF History
  <2> QED
    BY <2>1, <2>2 DEF History
<1>6. serial' => InTurn' /\ \E D : History(D)'
  BY <1>1, <1>4, <1>5 DEF LineInv
<1> QED
  BY <1>3, <1>6 DEF LineInv

\* Fail: it is all the same to the portals of the other clients.
LEMMA FailLine ==
    ASSUME PInv, LineInv, NEW c \in Clients, NEW x \in down[c], Fail(c, x)
    PROVE  LineInv'
<1>1. /\ UNCHANGED <<serial, log, pending, db, hooks, copy, reach, missed>>
      /\ closed' = closed \cup {p \in Portals : Home[p] = c}
      /\ stack' = [p \in Portals |-> IF Home[p] = c THEN {} ELSE stack[p]]
  BY DEF Fail, Heard, store
<1>2. \A y \in Packets' : y \in Packets
  BY TakeCarries DEF Fail, Heard, PInv
<1>3. \A p \in Portals \ closed' : Home[p] # c /\ p \notin closed /\ stack'[p] = stack[p]
  BY <1>1
<1>4. Told'
  <2>1. Told
    BY DEF LineInv
  <2>2. \A p \in Portals \ missed' : \A m \in (DOMAIN log') \ pending' :
          /\ Relevant(p, m)' => DeepAny(p) \in reach'[m][p]
          /\ log'[m].kind = "delete" => Own[p] \notin Below(log'[m].of)
          /\ log'[m].kind = "post" => Own[p] # log'[m].of
    BY <1>1, <2>1 DEF Told, Relevant
  <2>3. /\ db' \in [Containers -> Nat] /\ IsTree(db')
        /\ \A m \in DOMAIN log' : log'[m].kind # "talk" => log'[m].by \in Workers
    BY <1>1, <2>1 DEF Told
  <2>4. \A p \in Portals \ closed' : hooks'[p] = stack'[p]
    BY <1>1, <1>3, <2>1 DEF Told
  <2> QED
    BY <2>2, <2>3, <2>4 DEF Told
<1>5. InTurn => InTurn'
  BY <1>1, <1>2 DEF InTurn
<1>6. ASSUME NEW D, History(D)
      PROVE  History(D)'
  <2>1. ASSUME NEW p \in Portals, Syncs(p)'
        PROVE  \E k \in 0..Len(log') : InStep(p, D[k], k)'
    <3>1. Syncs(p) /\ Home[p] # c
      BY <1>1, <1>3, <2>1 DEF Syncs
    <3>2. PICK k \in 0..Len(log) : InStep(p, D[k], k)
      BY <1>6, <3>1 DEF History
    <3>3. p \notin Called(c, x)
      BY <3>1 DEF Called
    <3>4. \A m \in DOMAIN log : Relevant(p, m)' <=> Relevant(p, m)
      BY <1>1 DEF Relevant
    <3>5. ASSUME NEW m \in (DOMAIN log) \ pending, Relevant(p, m)
          PROVE  (Had(p, m) => Had(p, m)') /\ (StillComes(p, m) => StillComes(p, m)')
      BY <3>1, <3>3, <3>5, HearStays DEF LineInv
    <3>6. \A t \in Below(Own[p]) : copy'[p][t] = D[k][t]
      BY <1>1, <3>2 DEF InStep
    <3>7. ASSUME NEW m \in DOMAIN log', Relevant(p, m)'
          PROVE  /\ m <= k => m \notin pending' /\ Had(p, m)'
                 /\ k < m /\ m \notin pending' => StillComes(p, m)'
      <4>1. m \in DOMAIN log /\ Relevant(p, m)
        BY <1>1, <3>4, <3>7
      <4>2. /\ m <= k => m \notin pending /\ Had(p, m)
            /\ k < m /\ m \notin pending => StillComes(p, m)
        BY <3>2, <4>1 DEF InStep
      <4>3. m \notin pending => m \in (DOMAIN log) \ pending
        BY <4>1
      <4> QED
        BY <1>1, <3>5, <4>1, <4>2, <4>3
    <3>8. InStep(p, D[k], k)'
      BY <3>6, <3>7 DEF InStep
    <3> QED
      BY <1>1, <3>8
  <2>2. D[Len(log')] = db' /\ \A m \in DOMAIN log' : Makes(D[m - 1], D[m], m, log'[m])
    BY <1>1, <1>6 DEF History
  <2> QED
    BY <2>1, <2>2 DEF History
<1>7. serial' => InTurn' /\ \E D : History(D)'
  BY <1>1, <1>5, <1>6 DEF LineInv
<1> QED
  BY <1>4, <1>7 DEF LineInv

\* The invariant of the copies is inductive.
LEMMA LineInductive ==
    ASSUME PInv, LineInv, OneWorker, [Next]_vars
    PROVE  LineInv'
<1>1. LogOK'
  BY PortalInductive, PInvIs
<1>2. CASE (Carry \/ Wire) /\ UNCHANGED <<store, portal, reach, missed, ended>>
  BY <1>1, <1>2, CarryLine
<1>3. CASE UNCHANGED vars
  <2>1. UNCHANGED mesh /\ UNCHANGED <<store, portal, reach, missed, ended>>
    BY <1>3 DEF vars
  <2> QED
    BY <1>1, <2>1, CarryLine
<1>4. ASSUME NEW p \in Portals, Register(p)
      PROVE  LineInv'
  <2>1. CASE p \in Radios
    <3>1. RadioRoute(Own[p]) \in Keys
      BY PortalAssumption
    <3> QED
      BY <1>1, <1>4, <2>1, <3>1, RegisterLine DEF Register
  <2>2. CASE p \notin Radios
    <3>1. PICK ch \in Listeners : Listening(p, Route(ch[1], ch[2], Own[p]))
      BY <1>4, <2>2 DEF Register
    <3>2. ch[1] \in Modes /\ ch[2] \in Kinds \cup {"any"}
      BY PortalAssumption
    <3>3. Route(ch[1], ch[2], Own[p]) \in Keys
      BY <3>2, PortalAssumption
    <3> QED
      BY <1>1, <3>1, <3>3, RegisterLine
  <2> QED
    BY <2>1, <2>2
<1>5. CASE Next
  <2>1. CASE Deliver
    BY <1>1, <1>2, <2>1, RespondLine, HearLine, FailLine DEF Deliver
  <2>2. CASE \E p \in Portals : Register(p) \/ Close(p)
    BY <1>1, <1>4, <2>2, CloseLine
  <2>3. CASE \E d \in Workers, t \in Containers :
                 Change(d, "post", t) \/ Change(d, "put", t) \/ Change(d, "delete", t)
    BY <1>1, <2>3, ChangeLine
  <2>4. CASE \E d \in Clients, t \in {Own[p] : p \in Radios} : Talk(d, t)
    BY <1>1, <2>4, TalkLine
  <2>5. CASE \E p \in Portals : \E m \in donemessages[p] : Forget(p, m)
    BY <1>1, <2>5, ForgetLine
  <2>6. CASE Wire /\ UNCHANGED <<store, portal, reach, missed, ended>>
    BY <1>2, <2>6
  <2> QED
    BY <1>5, <2>1, <2>2, <2>3, <2>4, <2>5, <2>6 DEF Next
<1> QED
  BY <1>3, <1>5

\* It holds at first: the copies have just been loaded.
LEMMA LineInitial == PortalInit => LineInv
<1> SUFFICES ASSUME PortalInit PROVE LineInv
  OBVIOUS
<1>1. /\ log = <<>> /\ pending = {}
      /\ db \in [Containers -> {Absent, MaxMessages + 1}] /\ IsTree(db)
      /\ copy = [p \in Portals |-> [t \in Containers |-> IF t \in Below(Own[p]) THEN db[t] ELSE Absent]]
      /\ hooks = stack
  BY DEF PortalInit, TreeInit
<1>2. DOMAIN log = {} /\ Len(log) = 0
  BY <1>1
<1>3. db \in [Containers -> Nat]
  BY <1>1, PortalAssumption DEF Absent
<1>4. Told
  BY <1>1, <1>2, <1>3 DEF Told
<1>5. Packets = {}
  <2>1. /\ up = {} /\ side = [s \in Servers |-> {}] /\ down = [c \in Clients |-> {}]
    BY DEF PortalInit, MeshInit, LinksInit
  <2> QED
    BY <2>1, PacketsAre
<1>6. InTurn
  BY <1>1, <1>5 DEF InTurn
<1>7. PICK D : D = [k \in {0} |-> db]
  OBVIOUS
<1>8. \A p \in Portals : InStep(p, D[0], 0)
  <2>1. \A p \in Portals : \A t \in Below(Own[p]) : t \in Containers /\ copy[p][t] = db[t]
    BY <1>1 DEF Below
  <2> QED
    BY <1>2, <1>7, <2>1 DEF InStep
<1>9. History(D)
  BY <1>2, <1>7, <1>8 DEF History
<1> QED
  BY <1>4, <1>6, <1>9 DEF LineInv

\* Nothing under way.
LEMMA QuietInLine ==
    ASSUME PInv, LineInv
    PROVE  InLine
<1> SUFFICES ASSUME NEW p \in Portals \ (Radios \cup missed \cup closed), Quiet, serial, stack[p] = {DeepAny(p)},
                    NEW t \in Below(Own[p])
             PROVE  copy[p][t] = db[t]
  BY DEF InLine
<1>1. PICK D : History(D)
  BY DEF LineInv
<1>2. Syncs(p) /\ Told /\ LogOK
  BY DEF Syncs, LineInv, PInv
<1>3. PICK k \in 0..Len(log) : InStep(p, D[k], k)
  BY <1>1, <1>2 DEF History
<1>4. PICK n \in Nat : n = Len(log) /\ DOMAIN log = 1..n
  BY <1>2 DEF LogOK
<1>5. Packets = {}
  BY PacketsAre DEF Quiet
<1>6. pending = {}
  BY DEF Quiet
<1>7. ASSUME NEW j \in (k + 1)..n
      PROVE  ~ Relevant(p, j) /\ (log[j].kind = "talk" \/ j \notin pending)
  <2>1. ~ StillComes(p, j)
    BY <1>5 DEF StillComes
  <2>2. j \in DOMAIN log /\ k < j
    BY <1>4
  <2> QED
    BY <1>3, <1>6, <2>1, <2>2 DEF InStep
<1>8. k \in Nat /\ n \in k..Len(log)
  BY <1>4
<1>9. \A m \in DOMAIN log : Makes(D[m - 1], D[m], m, log[m])
  BY <1>1 DEF History
<1>10. p \in Portals \ missed
  OBVIOUS
<1>11. D[n][t] = D[k][t]
  BY <1>2, <1>7, <1>8, <1>9, <1>10, Steady
<1>12. D[n] = db
  BY <1>1, <1>4 DEF History
<1> QED
  BY <1>3, <1>11, <1>12 DEF InStep

\* A portal that only syncs its tree and could hear of every change to it has a
\* copy in line with the tree of the supplier whenever nothing is under way
\* (syncmethods of portal/proto.js), if the supplier has one worker; with two,
\* their broadcasts may overtake each other.  On the top of a supplier a portal
\* can hear of every change, below it of deletes only.
THEOREM CopiesInLine == OneWorker /\ Spec => []InLine
<1>1. PInv /\ LineInv => InLine
  BY QuietInLine
<1>2. PortalInit => LineInv
  BY LineInitial
<1>3. CASE OneWorker
  <2>1. PInv /\ LineInv /\ [Next]_vars => LineInv'
    BY <1>3, LineInductive
  <2>2. Spec => []InLine
    BY <1>1, <1>2, <2>1, PortalInvariance, PTL DEF Spec
  <2> QED
    BY <2>2
<1> QED
  BY <1>3
=============================================================================
