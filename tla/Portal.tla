------------------------------- MODULE Portal -------------------------------
(***************************************************************************)
(* Portals: listeners of one container of a tree, over the switchboards    *)
(* (portal/proto.js, radio.js, container/router.js).  A change of the tree *)
(* is broadcast to up to four routes, by id and by place, for all methods  *)
(* and for its own, and a portal runs the functions of the route on which  *)
(* it hears of it first: copies on other routes find its id in             *)
(* donemessages.  A synced portal changes its local copy of the tree in    *)
(* the same way.  Radio messages go to one route and have no id.           *)
(*                                                                         *)
(* Only a delete knows the place of its container: an append or a save is  *)
(* broadcast with the id it was asked for, and its route by place is that  *)
(* of the whole supplier.  A portal that syncs without what is below it    *)
(* fails on a save of its container, and its process with it.              *)
(*                                                                         *)
(* A save carries its container alone: what its client has loaded below it *)
(* is not modelled.                                                        *)
(*                                                                         *)
(* The tree of the supplier is one variable and a change is made at once:  *)
(* QuarryDB says what is behind it.  No supplier of this commit installs   *)
(* the middleware that broadcasts changes (supplier/container.js:147);     *)
(* it is modelled as it stands.                                            *)
(***************************************************************************)
EXTENDS Switchboard

CONSTANTS
    Portals, Home, Own,      \* portals, their clients and their containers
    Radios,                  \* the portals that belong to a radio
    Containers, Root, Place, \* container -> its quarryportal, its places
    Workers,                 \* clients in whose process the supplier answers
    Listeners,                 \* what portals may listen to: <<mode, method>>
    MaxMessages              \* bound: messages sent

VARIABLES
    serial,        \* a change is broadcast before the next one is made
    log,           \* the messages so far
    pending,       \* changes made and not yet broadcast
    db,            \* container -> the message that wrote it, or Absent
    stack,         \* portal -> the routes it has functions for
    hooks,         \* portal -> the routes it has callbacks on the client for
    donemessages,  \* portal -> the messages of the last second
    copy,          \* portal -> what it has loaded of the tree
    ran,           \* portal -> message -> the routes it ran for (history)
    reach,         \* message -> portal -> the routes on which it must come
                   \* (history)
    missed,        \* portals whose copy could not be kept (history)
    closed,        \* portals that were closed, or whose process has ended
                   \* (history)
    ended          \* clients whose process has ended

store == <<serial, log, pending, db>>
portal == <<stack, hooks, donemessages, copy, ran, closed>>
vars == <<mesh, store, portal, reach, missed, ended>>

-----------------------------------------------------------------------------
(* The tree, its routes, and messages *)

Absent == 0

Messages == 1..MaxMessages

Parent(t) == CHOOSE u \in Containers : Place[u] = Front(Place[t])

Below(t) == {u \in Containers : IsPrefix(Place[t], Place[u])}

\* The router of a container; the top of a supplier has neither id nor place.
Shallow(t) == <<"supplier">> \o (IF t = Root THEN <<>> ELSE <<t>>)

Deep(t) == <<"supplier">> \o Place[t]

Route(mode, method, t) ==
    (IF method = "any" THEN <<>> ELSE <<method>>)
        \o (IF mode = "deep" THEN Deep(t) ELSE Shallow(t))

RadioRoute(t) == <<"radio">> \o Shallow(t)

DeepAny(p) == Route("deep", "any", Own[p])

\* The container a request goes to: to append is to post to the parent.
Target(msg) == IF msg.kind = "post" THEN Parent(msg.of) ELSE msg.of

\* The container whose place is in the skeleton: that of a delete is loaded,
\* and that of an append or a save has an id and a supplier.
Placed(msg) == IF msg.kind = "delete" THEN msg.of ELSE Root

\* The routes a message is broadcast to, in order, each once.
Routes(msg) ==
    LET t == Target(msg)
        u == Placed(msg)
    IN  IF msg.kind = "talk" THEN <<RadioRoute(t)>>
        ELSE IF t = Root
             THEN <<Route("shallow", "any", t), Route("shallow", msg.kind, t)>>
             ELSE << Route("shallow", "any", t), Route("deep", "any", u),
                     Route("shallow", msg.kind, t), Route("deep", msg.kind, u) >>

\* The first of the routes of a message that a listener of r hears.
Earliest(msg, r) ==
    LET hits == {i \in DOMAIN Routes(msg) : IsPrefix(r, Routes(msg)[i])}
    IN  IF hits = {} THEN Len(Routes(msg)) + 1 ELSE Min(hits)

Modes == {"shallow", "deep"}
Kinds == {"post", "put", "delete", "talk"}
Message == [kind : Kinds, of : Containers, by : Clients]

ASSUME PortalAssumption ==
    /\ Home \in [Portals -> Clients] /\ Own \in [Portals -> Containers]
    /\ Radios \subseteq Portals /\ Workers \subseteq Clients
    /\ MaxMessages \in Nat /\ Messages \subseteq Bodies
    /\ Listeners \subseteq Modes \X (Kinds \cup {"any"})
    /\ \A t \in Containers :
          /\ RadioRoute(t) \in Keys
          /\ \A mode \in Modes, method \in Kinds \cup {"any"} :
                Route(mode, method, t) \in Keys

\* A container has one place, below that of its parent, and the top of a
\* supplier has none (routes of QuarryDB).
ASSUME PlaceAssumption ==
    /\ Root \in Containers
    /\ Place \in [Containers -> Seq(STRING)]
    /\ \A t, u \in Containers : Place[t] = Place[u] => t = u
    /\ Place[Root] = <<>>
    /\ \A t \in Containers \ {Root} : \E u \in Containers : Place[u] = Front(Place[t])

IsTree(f) ==
    \A t \in Containers \ {Root} : f[t] # Absent => f[Parent(t)] # Absent

TreeInit ==
    /\ serial \in BOOLEAN
    /\ log = <<>>
    /\ pending = {}
    /\ db \in {f \in [Containers -> {Absent, MaxMessages + 1}] :
                  IsTree(f) /\ \A p \in Portals : f[Own[p]] # Absent}
    /\ donemessages = [p \in Portals |-> {}]
    /\ copy = [p \in Portals |-> [t \in Containers |->
                  IF t \in Below(Own[p]) THEN db[t] ELSE Absent]]
    /\ ran = [p \in Portals |-> [m \in Messages |-> <<>>]]
    /\ reach = [m \in Messages |-> [p \in Portals |-> {}]]
    /\ missed = {}
    /\ closed = {}
    /\ ended = {}

PortalInit ==
    /\ MeshInit
    /\ TreeInit
    /\ stack = [p \in Portals |-> {}]
    /\ hooks = stack

-----------------------------------------------------------------------------
(* Listening *)

\* _prependlisten: the first function for a route hooks the route.
Listening(p, r) ==
    /\ r \notin stack[p]
    /\ stack' = [stack EXCEPT ![p] = @ \cup {r}]
    /\ hooks' = [hooks EXCEPT ![p] = @ \cup {r}]
    /\ Listen(Home[p], r)
    /\ UNCHANGED <<store, donemessages, copy, ran, closed, reach, missed, ended>>

Register(p) ==
    /\ Home[p] \notin ended
    /\ \/ /\ p \notin Radios
          /\ \E ch \in Listeners : Listening(p, Route(ch[1], ch[2], Own[p]))
       \/ /\ p \in Radios
          /\ Listening(p, RadioRoute(Own[p]))

\* close() means to cancel the callbacks, but looks the routes up by their
\* functions and finds none.
Close(p) ==
    /\ p \notin closed
    /\ stack[p] # {}
    /\ stack' = [stack EXCEPT ![p] = {}]
    /\ closed' = closed \cup {p}
    /\ UNCHANGED <<mesh, store, hooks, donemessages, copy, ran, reach, missed, ended>>

-----------------------------------------------------------------------------
(* Sending *)

\* Routes of p on which what d broadcasts now is bound to come.
Reached(d, p, msg) ==
    {r \in stack[p] \cap subs[Home[p]] :
        /\ d \in linked
        /\ at[Home[p]] \in {at[d]} \cup pairs[at[d]]
        /\ \E i \in DOMAIN Routes(msg) : IsPrefix(r, Routes(msg)[i])}

\* What a synced portal cannot see: what is not brought to it, and what
\* happens to its own container and above.
Misses(p, d, msg) ==
    \/ /\ msg.kind # "talk" /\ msg.of \in Below(Own[p])
       /\ DeepAny(p) \notin Reached(d, p, msg)
    \/ msg.kind = "delete" /\ Own[p] \in Below(msg.of)
    \/ msg.kind = "post" /\ Own[p] = msg.of

Send(m, msg) ==
    /\ msg.by \notin ended
    /\ Broadcast(msg.by, Routes(msg), m)
    /\ reach' = [reach EXCEPT ![m] =
                    [p \in Portals |-> Reached(msg.by, p, msg)]]
    /\ missed' = missed \cup {p \in Portals : Misses(p, msg.by, msg)}
    /\ UNCHANGED <<portal, ended>>

\* A request changes the tree: its answer is under way.
Change(d, kind, t) ==
    /\ Len(log) < MaxMessages
    /\ d \notin ended
    /\ serial => pending = {}
    /\ LET m == Len(log) + 1 IN
       /\ \/ /\ kind = "post"
             /\ t # Root /\ db[t] = Absent /\ db[Parent(t)] # Absent
             /\ db' = [db EXCEPT ![t] = m]
          \/ /\ kind = "put"
             /\ t # Root /\ db[t] # Absent
             /\ db' = [db EXCEPT ![t] = m]
          \/ /\ kind = "delete"
             /\ t # Root /\ db[t] # Absent
             /\ db' = [u \in Containers |->
                          IF u \in Below(t) THEN Absent ELSE db[u]]
       /\ pending' = pending \cup {m}
    /\ log' = Append(log, [kind |-> kind, of |-> t, by |-> d])
    /\ UNCHANGED <<mesh, serial, portal, reach, missed, ended>>

\* beforesend of its response: the instruction, with an id, to its routes.
Respond(m) ==
    /\ m \in pending
    /\ pending' = pending \ {m}
    /\ Send(m, log[m])
    /\ UNCHANGED <<serial, log, db>>

\* radio.talk
Talk(d, t) ==
    /\ Len(log) < MaxMessages
    /\ LET msg == [kind |-> "talk", of |-> t, by |-> d] IN
       /\ log' = Append(log, msg)
       /\ Send(Len(log) + 1, msg)
    /\ UNCHANGED <<serial, pending, db>>

-----------------------------------------------------------------------------
(* Hearing *)

\* Variant: only the container itself is removed.
SyncedFlat(f, t, m, deep) ==
    LET kind == log[m].kind
        u == log[m].of
        Has(v) == IF deep THEN f[v] # Absent ELSE v = t
    IN  CASE kind = "put" /\ Has(u) -> [f EXCEPT ![u] = m]
          [] kind = "post" /\ Has(Parent(u)) -> [f EXCEPT ![u] = m]
          [] kind = "delete" /\ Has(Parent(u)) -> [f EXCEPT ![u] = Absent]
          [] OTHER -> f

\* Variant: what is appended is taken in, wherever it belongs.
SyncedBlind(f, t, m, deep) ==
    LET kind == log[m].kind
        u == log[m].of
        Has(v) == IF deep THEN f[v] # Absent ELSE v = t
    IN  CASE kind = "post" -> [f EXCEPT ![u] = m]
          [] kind = "put" /\ Has(u) -> [f EXCEPT ![u] = m]
          [] kind = "delete" /\ Has(Parent(u)) ->
                [v \in Containers |-> IF v \in Below(u) THEN Absent ELSE f[v]]
          [] OTHER -> f

\* syncmethods: f, the copy of container t, with the change m made to it, if
\* the container it is made to is loaded (deep) or is t (shallow).  What is there
\* already is not appended again.
Synced(f, t, m, deep) ==
    LET kind == log[m].kind
        u == log[m].of
        Has(v) == IF deep THEN f[v] # Absent ELSE v = t
    IN  CASE kind = "post" /\ Has(Parent(u)) /\ f[u] = Absent -> [f EXCEPT ![u] = m]
          [] kind = "put" /\ Has(u) -> [f EXCEPT ![u] = m]
          [] kind = "delete" /\ Has(Parent(u)) ->
                [v \in Containers |-> IF v \in Below(u) THEN Absent ELSE f[v]]
          [] OTHER -> f

\* An instruction has an id of its own; what is said on the radio has none,
\* which is one id.
SameId(m, o) ==
    \/ m = o
    \/ log[m].kind = "talk" /\ log[o].kind = "talk"

\* Variant: ids are not remembered.
NeverDone(p, m) == FALSE

Done(p, m) == \E o \in donemessages[p] : SameId(m, o)

\* The route p is called for first: handle() goes from the whole key to its
\* first part.
Hits(p, key) == {r \in hooks[p] : IsPrefix(r, key)}

Hit(p, key) == CHOOSE r \in Hits(p, key) :
                   \A q \in Hits(p, key) : Len(q) <= Len(r)

\* The portals of c that run_stack now; any further callback of theirs finds
\* the id done.
Called(c, x) ==
    {p \in Portals : Home[p] = c /\ Hits(p, x.key) # {} /\ ~Done(p, x.body)}

\* run_stack finds functions for the route.
Runs(p, x) == Hit(p, x.key) \in stack[p]

SyncsOn(p, x) ==
    /\ p \notin Radios
    /\ Hit(p, x.key) \in {Route(mode, "any", Own[p]) : mode \in Modes}

\* inject() is given what was saved as it is, and not as a container.
Throws(p, x) ==
    /\ Runs(p, x) /\ SyncsOn(p, x)
    /\ Hit(p, x.key) # DeepAny(p)
    /\ log[x.body].kind = "put" /\ log[x.body].of = Own[p]

\* A client hears a packet and calls its callbacks.
Heard(c, x) ==
    /\ Take(c, x)
    /\ donemessages' = [p \in Portals |->
           IF p \in Called(c, x) THEN donemessages[p] \cup {x.body}
           ELSE donemessages[p]]
    /\ UNCHANGED <<store, hooks, reach, missed>>

\* run_stack of its portals.
Hear(c, x) ==
    /\ \A p \in Called(c, x) : ~ Throws(p, x)
    /\ Heard(c, x)
    /\ ran' = [p \in Portals |->
           IF p \in Called(c, x) /\ Runs(p, x)
           THEN [ran[p] EXCEPT ![x.body] = Append(@, Hit(p, x.key))]
           ELSE ran[p]]
    /\ copy' = [p \in Portals |->
           IF p \in Called(c, x) /\ Runs(p, x) /\ SyncsOn(p, x)
           THEN Synced(copy[p], Own[p], x.body, Hit(p, x.key) = DeepAny(p))
           ELSE copy[p]]
    /\ UNCHANGED <<stack, closed, ended>>

\* A callback throws, in a turn of its own: the process ends, and what comes
\* for it from now on finds nothing to run.
Fail(c, x) ==
    /\ \E p \in Called(c, x) : Throws(p, x)
    /\ Heard(c, x)
    /\ stack' = [p \in Portals |-> IF Home[p] = c THEN {} ELSE stack[p]]
    /\ closed' = closed \cup {p \in Portals : Home[p] = c}
    /\ ended' = ended \cup {c}
    /\ UNCHANGED <<copy, ran>>

\* The timer of a message, a second after it was run.  No copy of it is under
\* way any more: a packet does not take a second.
Forget(p, m) ==
    /\ m \in donemessages[p]
    /\ \A x \in up \cup (UNION {side[s] : s \in Servers})
                   \cup (UNION {down[c] : c \in Clients}) : x.body # m
    /\ donemessages' = [donemessages EXCEPT ![p] = @ \ {m}]
    /\ UNCHANGED <<mesh, store, stack, hooks, copy, ran, closed, reach, missed, ended>>

-----------------------------------------------------------------------------
Deliver ==
    \/ Carry /\ UNCHANGED <<store, portal, reach, missed, ended>>
    \/ \E m \in pending : Respond(m)
    \/ \E c \in Clients : \E x \in down[c] : Hear(c, x) \/ Fail(c, x)

Next ==
    \/ Deliver
    \/ Wire /\ UNCHANGED <<store, portal, reach, missed, ended>>
    \/ \E p \in Portals : Register(p) \/ Close(p)
    \/ \E d \in Workers, t \in Containers :
          Change(d, "post", t) \/ Change(d, "put", t) \/ Change(d, "delete", t)
    \/ \E d \in Clients, t \in {Own[p] : p \in Radios} : Talk(d, t)
    \/ \E p \in Portals : \E m \in donemessages[p] : Forget(p, m)

Spec == PortalInit /\ [][Next]_vars

FairSpec == Spec /\ WF_vars(Deliver)
-----------------------------------------------------------------------------
(* Properties *)

Quiet ==
    /\ pending = {}
    /\ up = {}
    /\ \A s \in Servers : side[s] = {}
    /\ \A c \in Clients : down[c] = {}

\* A portal runs its functions for a message on one route only, though up to
\* four copies come, and on the earliest of those it listened to when the
\* message was broadcast (run_stack and broadcastinstruction of
\* portal/proto.js): whatever is hooked, subscribed, paired or closed on the
\* way.
FirstRouteWins ==
    \A p \in Portals : \A m \in DOMAIN log :
        /\ Len(ran[p][m]) <= 1
        /\ \A i \in DOMAIN ran[p][m] : \A r \in reach[m][p] :
              Earliest(log[m], ran[p][m][i]) <= Earliest(log[m], r)

\* A portal that only syncs its tree, as Container.portal makes it do, has a
\* copy in line with the tree of the supplier whenever nothing is under way
\* (syncmethods of portal/proto.js), if changes are made one at a time and it
\* could hear of each: on the top it can, and below the top of deletes only.
\* Nor must its own container be taken from under it.
InLine ==
    \A p \in Portals \ (Radios \cup missed \cup closed) :
        Quiet /\ serial /\ stack[p] = {DeepAny(p)} =>
            \A t \in Below(Own[p]) : copy[p][t] = db[t]

\* Whatever is lost or comes in the wrong order, a copy is a tree: nothing
\* hangs below what is not there (post and delete of syncmethods).
CopyIsTree ==
    \A p \in Portals : \A t \in Below(Own[p]) \ {Own[p]} :
        copy[p][t] # Absent => copy[p][Parent(t)] # Absent

\* What a portal can hear of reaches its functions, unless it is closed or its
\* process ends, which closes it; a radio may instead have been listening to
\* another message within the same second (run_stack of portal/proto.js, talk of
\* portal/radio.js).
Delivered ==
    \A p \in Portals, m \in Messages :
        reach[m][p] # {} ~>
            \/ ran[p][m] # <<>>
            \/ p \in closed
            \/ m \in DOMAIN log
                  /\ \E o \in (DOMAIN log) \ {m} : SameId(m, o) /\ ran[p][o] # <<>>
=============================================================================
