-------------------------- MODULE DiscoveryProofs --------------------------
(***************************************************************************)
(* Nobody is worried about a department that has a server up, for any      *)
(* servers, any listeners with any of the devices, and any delay that      *)
(* dns.js accepts.  Timers need not be fair for it: only time, which does  *)
(* not go on before who is up has broadcast and was heard.                 *)
(***************************************************************************)
EXTENDS Discovery, TLAPS

Known(l, k) == heard[l][k] # NoServer

\* Who is not on and may still be has heard nothing.
NothingHeardBefore ==
    \A l \in Listeners :
        listener[l] = "off" /\ (Own(l) # NoServer => server[Own(l)] # "gone") =>
            \A k \in Keys : ~ Known(l, k)

\* Messages go to listeners that are on.
WireToOn == \A m \in wire : m.to \in On

\* Once somebody has broadcast in a second, everybody has heard of it or will.
BeatIsHeard ==
    beaten # {} =>
        \A l \in On, k \in Keys :
            Known(l, k) => age[l][k] = 0 \/ \E m \in wire : m.to = l

\* An entry is at most a second older than the silence.
AgeIsSilence ==
    \A l \in On, k \in Keys : Known(l, k) => age[l][k] <= silence + 1

\* The inductive invariant.
DInv ==
    /\ TypeOK
    /\ NothingHeardBefore
    /\ WireToOn
    /\ BeatIsHeard
    /\ AgeIsSilence

USE DEF Known

\* Messages have no id: there is one key.
LEMMA OneKey ==
    ASSUME NEW k \in Keys, NEW s \in Servers
    PROVE  k = IdOf(s)
BY DEF Keys, IdOf

\* What is capped grows by one until it stops above Worry.
LEMMA CappedType ==
    ASSUME NEW n \in 0..Worry + 1
    PROVE  /\ Capped(n) \in 0..Worry + 1
           /\ Capped(n) <= n + 1
           /\ n < Worry + 1 => Capped(n) = n + 1
           /\ n = Worry + 1 => Capped(n) = n
BY ConstantsAssumption DEF Capped

\* The invariant holds at the start.
LEMMA InitDInv ==
    ASSUME Init
    PROVE  DInv
BY ConstantsAssumption DEF Init, DInv, TypeOK, NothingHeardBefore, WireToOn, BeatIsHeard,
   AgeIsSilence, On

-----------------------------------------------------------------------------
(* Type correctness.                                                         *)

\* A broadcast puts messages to listeners on the wire.
LEMMA BroadcastType ==
    ASSUME TypeOK, NEW s \in Servers, Broadcast(s)
    PROVE  beaten' \subseteq Servers /\ wire' \subseteq [to : Listeners, from : Servers]
BY DEF TypeOK, Broadcast, On

\* Devices are told of servers.
LEMMA AddedType ==
    ASSUME TypeOK, NEW l \in Listeners, NEW s \in Servers, Added(l, s)
    PROVE  /\ pool' \in [Listeners -> [Keys -> Servers \cup {NoServer}]]
           /\ picking' \subseteq Listeners
           /\ linked' \in [Listeners -> SUBSET Servers]
<1>1. IdOf(s) \in Keys
  BY DEF Keys
<1>2. CASE Device(l) = "mesh" /\ AddToMesh(l, s)
  BY <1>1, <1>2 DEF TypeOK, AddToMesh
<1>3. CASE Device(l) = "sideways" /\ AddSideways(l, s)
  BY <1>3 DEF TypeOK, AddSideways
<1>4. CASE Device(l) = "front" /\ AddToFront(l, s)
  BY <1>4 DEF TypeOK, AddToFront
<1>5. CASE Device(l) = "back" /\ AddToBack(l, s)
  BY <1>5 DEF TypeOK, AddToBack
<1>6. CASE Device(l) = "router" /\ AddRoute(l, s)
  BY <1>6 DEF TypeOK, AddRoute
<1> QED
  BY <1>2, <1>3, <1>4, <1>5, <1>6 DEF Added

\* A message renews an entry and may tell a device.
LEMMA HearType ==
    ASSUME TypeOK, NEW m \in wire, Hear(m)
    PROVE  TypeOK'
<1> DEFINE l == m.to
           s == m.from
<1>1. l \in Listeners /\ s \in Servers
  BY DEF TypeOK
<1>2. IdOf(s) \in Keys
  BY <1>1 DEF Keys
<1>3. heard' \in [Listeners -> [Keys -> Servers \cup {NoServer}]]
  BY <1>1, <1>2 DEF TypeOK, Hear
<1>4. age' \in [Listeners -> [Keys -> 0..Worry + 1]]
  <2>1. 0 \in 0..Worry + 1
    BY ConstantsAssumption
  <2>2. age' = [age EXCEPT ![l][IdOf(s)] = 0]
    BY DEF Hear, Renewed
  <2> QED
    BY <1>1, <1>2, <2>1, <2>2 DEF TypeOK
<1>5. /\ pool' \in [Listeners -> [Keys -> Servers \cup {NoServer}]]
      /\ picking' \subseteq Listeners
      /\ linked' \in [Listeners -> SUBSET Servers]
  <2>1. Added(l, s) \/ UNCHANGED devices
    BY DEF Hear
  <2>2. CASE Added(l, s)
    BY <1>1, <2>2, AddedType
  <2>3. CASE UNCHANGED devices
    BY <2>3 DEF devices, TypeOK
  <2> QED
    BY <2>1, <2>2, <2>3
<1>6. /\ wire' \subseteq [to : Listeners, from : Servers]
      /\ UNCHANGED <<setup, server, beaten, listener, silence>>
  BY DEF Hear, servers, TypeOK
<1> HIDE DEF l, s
<1> QED
  BY <1>3, <1>4, <1>5, <1>6 DEF TypeOK

\* Ages and the silence are capped.
LEMMA TickType ==
    ASSUME TypeOK, Tick
    PROVE  TypeOK'
<1>1. age' \in [Listeners -> [Keys -> 0..Worry + 1]]
  BY CappedType DEF TypeOK, Tick
<1>2. silence' \in 0..Worry + 1
  BY CappedType, ConstantsAssumption DEF TypeOK, Tick
<1> QED
  BY <1>1, <1>2 DEF TypeOK, Tick, devices

\* A mesh client picks a server of its pool.
LEMMA PickType ==
    ASSUME TypeOK, NEW l \in Listeners, Pick(l)
    PROVE  TypeOK'
<1>1. linked' \in [Listeners -> SUBSET Servers]
  <2>1. PICK k \in Keys : pool[l][k] # NoServer /\ linked' = [linked EXCEPT ![l] = {pool[l][k]}]
    BY DEF Pick
  <2>2. pool[l][k] \in Servers
    BY <2>1 DEF TypeOK
  <2> QED
    BY <2>1, <2>2 DEF TypeOK
<1> QED
  BY <1>1 DEF TypeOK, Pick, servers, table

\* Every step keeps the types.
LEMMA StepType ==
    ASSUME TypeOK, [Next]_vars
    PROVE  TypeOK'
<1>1. ASSUME NEW s \in Servers, Start(s)
      PROVE  TypeOK'
  BY <1>1, BroadcastType DEF TypeOK, Start, table, devices
<1>2. ASSUME NEW s \in Servers, Crash(s)
      PROVE  TypeOK'
  BY <1>2 DEF TypeOK, Crash, table, devices
<1>3. ASSUME NEW l \in Listeners, Listen(l)
      PROVE  TypeOK'
  BY <1>3 DEF TypeOK, Listen, servers, table, devices
<1>4. ASSUME NEW l \in Listeners, Check(l)
      PROVE  TypeOK'
  BY <1>4 DEF TypeOK, Check, servers, table, devices
<1>5. ASSUME NEW s \in Servers, Beat(s)
      PROVE  TypeOK'
  BY <1>5, BroadcastType DEF TypeOK, Beat, table, devices
<1>6. CASE UNCHANGED vars
  BY <1>6 DEF TypeOK, vars, servers, table, devices
<1> QED
  BY <1>1, <1>2, <1>3, <1>4, <1>5, <1>6, HearType, TickType, PickType DEF Next, Goes

-----------------------------------------------------------------------------
(* The other conjuncts, action by action.                                    *)

\* A broadcast goes to everybody that is on.
LEMMA BroadcastDInv ==
    ASSUME DInv, NEW s \in Servers, Broadcast(s),
           UNCHANGED <<setup, listener, table, silence>>,
           \A q \in Servers : server'[q] = "gone" <=> server[q] = "gone"
    PROVE  NothingHeardBefore' /\ WireToOn' /\ BeatIsHeard' /\ AgeIsSilence'
<1>1. On' = On
  BY DEF On
<1>2. NothingHeardBefore'
  <2> SUFFICES ASSUME NEW l \in Listeners, listener'[l] = "off",
                      Own(l)' # NoServer => server'[Own(l)'] # "gone",
                      NEW k \in Keys
               PROVE  heard'[l][k] = NoServer
    BY DEF NothingHeardBefore
  <2>1. Own(l)' = Own(l)
    BY DEF Own
  <2>2. Own(l) \in Servers \cup {NoServer}
    BY ConstantsAssumption DEF Own, DInv, TypeOK
  <2> QED
    BY <2>1, <2>2 DEF table, DInv, NothingHeardBefore
<1>3. WireToOn'
  BY <1>1 DEF Broadcast, DInv, WireToOn
<1>4. BeatIsHeard'
  <2> SUFFICES ASSUME NEW l \in On
               PROVE  \E m \in wire' : m.to = l
    BY <1>1 DEF BeatIsHeard
  <2>1. [to |-> l, from |-> s] \in wire'
    BY DEF Broadcast
  <2> QED
    BY <2>1
<1>5. AgeIsSilence'
  BY <1>1 DEF table, DInv, AgeIsSilence
<1> QED
  BY <1>2, <1>3, <1>4, <1>5

\* A server broadcasts when it starts.
LEMMA StartDInv ==
    ASSUME DInv, NEW s \in Servers, Start(s)
    PROVE  NothingHeardBefore' /\ WireToOn' /\ BeatIsHeard' /\ AgeIsSilence'
<1>1. \A q \in Servers : server'[q] = "gone" <=> server[q] = "gone"
  BY DEF Start, DInv, TypeOK
<1> QED
  BY <1>1, BroadcastDInv DEF Start

\* A beat is a broadcast.
LEMMA BeatDInv ==
    ASSUME DInv, NEW s \in Servers, Beat(s)
    PROVE  NothingHeardBefore' /\ WireToOn' /\ BeatIsHeard' /\ AgeIsSilence'
BY BroadcastDInv DEF Beat

\* A server that goes takes its own listener with it, and no other.
LEMMA CrashDInv ==
    ASSUME DInv, NEW s \in Servers, Crash(s)
    PROVE  NothingHeardBefore' /\ WireToOn' /\ BeatIsHeard' /\ AgeIsSilence'
<1>1. \A l \in Listeners : Own(l)' = Own(l)
  BY DEF Crash, Own
<1>2. On' = {l \in On : Own(l) # s}
  BY DEF On, Crash
<1>3. NothingHeardBefore'
  <2> SUFFICES ASSUME NEW l \in Listeners, listener'[l] = "off",
                      Own(l) # NoServer => server'[Own(l)] # "gone",
                      NEW k \in Keys
               PROVE  heard'[l][k] = NoServer
    BY <1>1 DEF NothingHeardBefore
  <2>1. Own(l) \in Servers \cup {NoServer} /\ NoServer \notin Servers
    BY ConstantsAssumption DEF Own, DInv, TypeOK
  <2>2. Own(l) # s
    BY <2>1 DEF Crash, DInv, TypeOK
  <2>3. listener[l] = "off" /\ (Own(l) # NoServer => server[Own(l)] # "gone")
    BY <2>1, <2>2 DEF Crash, DInv, TypeOK
  <2> QED
    BY <2>3 DEF Crash, table, DInv, NothingHeardBefore
<1>4. WireToOn'
  BY <1>2 DEF Crash, DInv, WireToOn
<1>5. BeatIsHeard'
  <2> SUFFICES ASSUME beaten # {}, NEW l \in On, Own(l) # s, NEW k \in Keys,
                      heard[l][k] # NoServer, age[l][k] # 0
               PROVE  \E m \in wire' : m.to = l
    BY <1>2 DEF BeatIsHeard, Crash, table
  <2>1. PICK m \in wire : m.to = l
    BY DEF DInv, BeatIsHeard
  <2> QED
    BY <2>1 DEF Crash
<1>6. AgeIsSilence'
  BY <1>2 DEF Crash, table, DInv, AgeIsSilence
<1> QED
  BY <1>3, <1>4, <1>5, <1>6

\* What is older than a second goes with silence: when a server is up at the end
\* of a second, everybody has heard of it, and otherwise both get older.
LEMMA TickDInv ==
    ASSUME DInv, Tick
    PROVE  NothingHeardBefore' /\ WireToOn' /\ BeatIsHeard' /\ AgeIsSilence'
<1>1. On' = On /\ \A l \in Listeners : Own(l)' = Own(l)
  BY DEF Tick, On, Own
<1>2. NothingHeardBefore'
  BY <1>1 DEF Tick, DInv, NothingHeardBefore
<1>3. WireToOn' /\ BeatIsHeard'
  BY <1>1 DEF Tick, DInv, WireToOn, BeatIsHeard
<1>4. AgeIsSilence'
  <2> SUFFICES ASSUME NEW l \in On, NEW k \in Keys, heard[l][k] # NoServer
               PROVE  age'[l][k] <= silence' + 1
    BY <1>1 DEF AgeIsSilence, Tick
  <2>1. l \in Listeners
    BY DEF On
  <2>2. age[l][k] \in 0..Worry + 1 /\ silence \in 0..Worry + 1
    BY <2>1 DEF DInv, TypeOK
  <2>3. age'[l][k] = Capped(age[l][k])
    BY <2>1 DEF Tick
  <2>4. CASE Up = {}
    <3>1. silence' = Capped(silence)
      BY <2>4 DEF Tick
    <3>2. age[l][k] <= silence + 1
      BY DEF DInv, AgeIsSilence
    <3> QED
      BY <2>2, <2>3, <3>1, <3>2, CappedType, ConstantsAssumption
  <2>5. CASE Up # {}
    <3>1. silence' = 0 /\ beaten # {} /\ wire = {}
      BY <2>5 DEF Tick
    <3>2. age[l][k] = 0
      BY <3>1 DEF DInv, BeatIsHeard
    <3> QED
      BY <2>2, <2>3, <3>1, <3>2, CappedType, ConstantsAssumption
  <2> QED
    BY <2>4, <2>5
<1> QED
  BY <1>2, <1>3, <1>4

\* Who begins to listen knows of nobody.
LEMMA ListenDInv ==
    ASSUME DInv, NEW l \in Listeners, Listen(l)
    PROVE  NothingHeardBefore' /\ WireToOn' /\ BeatIsHeard' /\ AgeIsSilence'
<1>1. On' = On \cup {l} /\ \A q \in Listeners : Own(q)' = Own(q)
  BY DEF Listen, On, Own, DInv, TypeOK
<1>2. \A k \in Keys : heard[l][k] = NoServer
  BY DEF Listen, DInv, NothingHeardBefore
<1>3. NothingHeardBefore'
  BY <1>1 DEF Listen, servers, table, DInv, TypeOK, NothingHeardBefore
<1>4. WireToOn'
  BY <1>1 DEF Listen, DInv, WireToOn
<1>5. BeatIsHeard' /\ AgeIsSilence'
  BY <1>1, <1>2 DEF Listen, servers, table, DInv, BeatIsHeard, AgeIsSilence
<1> QED
  BY <1>3, <1>4, <1>5

\* What is heard is fresh.
LEMMA HearDInv ==
    ASSUME DInv, NEW m \in wire, Hear(m)
    PROVE  NothingHeardBefore' /\ WireToOn' /\ BeatIsHeard' /\ AgeIsSilence'
<1> DEFINE l == m.to
<1>1. On' = On /\ \A q \in Listeners : Own(q)' = Own(q)
  BY DEF Hear, On, Own
<1>2. l \in On /\ l \in Listeners /\ m.from \in Servers
  BY DEF DInv, WireToOn, TypeOK
<1>3. /\ \A q \in Listeners \ {l} : heard'[q] = heard[q] /\ age'[q] = age[q]
      /\ \A k \in Keys : age'[l][k] = 0
  BY <1>2, OneKey DEF Hear, Renewed, DInv, TypeOK
<1>4. NothingHeardBefore'
  <2>1. listener[l] # "off"
    BY <1>2 DEF On
  <2> QED
    BY <1>1, <1>3, <2>1 DEF Hear, servers, DInv, NothingHeardBefore
<1>5. WireToOn'
  BY <1>1 DEF Hear, DInv, WireToOn
<1>6. BeatIsHeard'
  <2> SUFFICES ASSUME beaten # {}, NEW q \in On, q # l, NEW k \in Keys,
                      heard[q][k] # NoServer, age[q][k] # 0
               PROVE  \E x \in wire' : x.to = q
    BY <1>1, <1>3 DEF BeatIsHeard, Hear, servers, On
  <2>1. PICK x \in wire : x.to = q
    BY DEF DInv, BeatIsHeard
  <2> QED
    BY <2>1 DEF Hear
<1>7. AgeIsSilence'
  <2> SUFFICES ASSUME NEW q \in On, NEW k \in Keys, heard'[q][k] # NoServer
               PROVE  age'[q][k] <= silence + 1
    BY <1>1 DEF AgeIsSilence, Hear
  <2>1. CASE q = l
    BY <1>3, <2>1 DEF DInv, TypeOK
  <2>2. CASE q # l
    BY <1>3, <2>2 DEF DInv, AgeIsSilence, On
  <2> QED
    BY <2>1, <2>2
<1> QED
  BY <1>4, <1>5, <1>6, <1>7

\* A worker or a router that is told of undefined throws, and is on no more.
LEMMA CheckDInv ==
    ASSUME DInv, NEW l \in Listeners, Check(l)
    PROVE  NothingHeardBefore' /\ WireToOn' /\ BeatIsHeard' /\ AgeIsSilence'
<1>1. On' = On \ {l} /\ \A q \in Listeners : Own(q)' = Own(q)
  BY DEF Check, On, Own, DInv, TypeOK
<1>2. NothingHeardBefore'
  BY <1>1 DEF Check, servers, table, DInv, TypeOK, NothingHeardBefore
<1>3. WireToOn'
  BY <1>1 DEF Check, DInv, WireToOn
<1>4. BeatIsHeard'
  <2> SUFFICES ASSUME beaten # {}, NEW q \in On, q # l, NEW k \in Keys,
                      heard[q][k] # NoServer, age[q][k] # 0
               PROVE  \E x \in wire' : x.to = q
    BY <1>1 DEF BeatIsHeard, Check, servers, table
  <2>1. PICK x \in wire : x.to = q
    BY DEF DInv, BeatIsHeard
  <2> QED
    BY <2>1 DEF Check
<1>5. AgeIsSilence'
  BY <1>1 DEF Check, table, DInv, AgeIsSilence
<1> QED
  BY <1>2, <1>3, <1>4, <1>5

\* Devices matter to none of it.
LEMMA StutterDInv ==
    ASSUME DInv, UNCHANGED <<setup, servers, wire, listener, table, silence>>
    PROVE  NothingHeardBefore' /\ WireToOn' /\ BeatIsHeard' /\ AgeIsSilence'
<1>1. On' = On /\ \A q \in Listeners : Own(q)' = Own(q)
  BY DEF On, Own
<1> QED
  BY <1>1 DEF servers, table, DInv, NothingHeardBefore, WireToOn, BeatIsHeard, AgeIsSilence

\* Every step keeps the invariant.
LEMMA StepDInv ==
    ASSUME DInv, [Next]_vars
    PROVE  DInv'
<1>1. TypeOK'
  BY StepType DEF DInv
<1>2. NothingHeardBefore' /\ WireToOn' /\ BeatIsHeard' /\ AgeIsSilence'
  <2>1. ASSUME NEW l \in Listeners, Pick(l)
        PROVE  UNCHANGED <<setup, servers, wire, listener, table, silence>>
    BY <2>1 DEF Pick
  <2>2. CASE UNCHANGED vars
    BY <2>2, StutterDInv DEF vars
  <2> QED
    BY <2>1, <2>2, StutterDInv, StartDInv, BeatDInv, CrashDInv, TickDInv, ListenDInv, HearDInv,
       CheckDInv DEF Next, Goes
<1> QED
  BY <1>1, <1>2 DEF DInv

-----------------------------------------------------------------------------
\* The tables, wires and timers keep together (dns.js, heartbeat.js).
THEOREM TableInvariance == Spec => []DInv
<1>1. Init => DInv
  BY InitDInv
<1>2. DInv /\ [Next]_vars => DInv'
  BY StepDInv
<1> QED
  BY <1>1, <1>2, PTL DEF Spec

\* check() of dns.js worries about a department only after no server of it was
\* up for worrydelay, whoever starts, listens and crashes.
THEOREM NobodyWorriesEarly == Spec => []NoFalseAlarm
<1>1. DInv => NoFalseAlarm
  <2> SUFFICES ASSUME DInv, NEW l \in On, NEW k \in Keys, IsStale(l, k)
               PROVE  silence >= Worry
    BY DEF NoFalseAlarm, DInv
  <2>1. age[l][k] \in 0..Worry + 1 /\ silence \in 0..Worry + 1
    BY DEF DInv, TypeOK, On
  <2>2. age[l][k] > Worry /\ age[l][k] <= silence + 1
    BY DEF IsStale, DInv, AgeIsSilence
  <2> QED
    BY <2>1, <2>2, ConstantsAssumption
<1> QED
  BY <1>1, TableInvariance, PTL
=============================================================================
