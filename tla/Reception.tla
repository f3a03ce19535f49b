----------------------------- MODULE Reception -----------------------------
(***************************************************************************)
(* The reception (network/device/reception) between the clients that ask   *)
(* (frontclient.js on rpc/client.js) and the worker processes that answer  *)
(* (backclient.js in front of a warehouse).  A worker mounts its suppliers *)
(* on routes one by one and tells the reception once a second which it     *)
(* has; the reception sends a request to one of the workers that told it   *)
(* the most specific route above the request's url, keeps a callback for   *)
(* the response, and passes that on.                                       *)
(*                                                                         *)
(* A supplier may have to prepare itself, a quarrydb by a connection to    *)
(* mongo: until then its warehouse holds the requests (warehouse/proto.js, *)
(* prepare), and one that fails has no handlers and passes all of them on  *)
(* to the layers of the worker that come after it.                         *)
(*                                                                         *)
(* A worker that goes takes what was sent to it with it, and its routes    *)
(* stay.  One that comes back is another backend: it has another socket    *)
(* id.                                                                     *)
(***************************************************************************)
EXTENDS Naturals, Sequences, FiniteSets, SequencesExt

CONSTANTS Backends,  \* worker processes, by the id of their back socket
          Mounts,    \* backend -> the routes it mounts, in this order
          Slow,      \* the mounts whose suppliers prepare themselves
          Requests,
          Addresses, \* what requests may be for
          Alike,     \* pairs of parts of a path that differ in case only
          Dotted,    \* pairs of a part and one that is it, in any case, a dot and more
          NoBackend, NotFound, NoDepartment

\* A department and a path, as the list of its parts.  A request may come without
\* the header that names a department.
Routes == UNION {ToSet(Mounts[b]) : b \in Backends}

ASSUME ConstantsAssumption ==
    /\ NoBackend \notin Backends
    /\ NotFound \notin Routes
    /\ \A r \in Routes : r.department # NoDepartment
    /\ Slow \subseteq {x \in Backends \X Routes : x[2] \in ToSet(Mounts[x[1]])}
    /\ \A b \in Backends : Mounts[b] \in Seq(ToSet(Mounts[b]))
    /\ \A r \in Routes \cup Addresses :
          /\ r = [department |-> r.department, path |-> r.path]
          /\ r.path \in Seq(ToSet(r.path))

VARIABLES
    up,               \* the backends that run
    mounted,          \* backend -> how many of its mounts are made
    prepared,         \* slow mount -> "no", "yes" or "failed"
    warehouse_routes, \* route -> the sockets that announced it
    requests,         \* the requests the reception has a callback for
    callbacks,        \* the requests their client has a callback for
    address,          \* request -> what it is for
    messages,         \* on the wires
    working,          \* what backends have been given to answer, or hold
    sentTo,           \* request -> the backend it was routed to (history)
    via,              \* request -> the route that was found for it (history)
    answers           \* request -> what its client was called back with (history)

vars == <<up, mounted, prepared, warehouse_routes, requests, callbacks, address, messages,
          working, sentTo, via, answers>>

backs == <<up, mounted, prepared>>
clients == <<callbacks, answers>>
routed == <<sentTo, via>>

Init ==
    /\ up = {}
    /\ mounted = [b \in Backends |-> 0]
    /\ prepared = [x \in Slow |-> "no"]
    /\ warehouse_routes = [r \in Routes |-> {}]
    /\ requests = {}
    /\ callbacks = {}
    /\ address \in [Requests -> Addresses]
    /\ messages = {}
    /\ working = {}
    /\ sentTo = [q \in Requests |-> NoBackend]
    /\ via = [q \in Requests |-> NotFound]
    /\ answers = [q \in Requests |-> <<>>]

Message(kind, q, b, body) == [kind |-> kind, req |-> q, back |-> b, body |-> body]

\* routingpacket(): where the reception looks.
Asked(a) == IF a.department = NoDepartment THEN "warehouse" ELSE a.department

\* What the reception finds: the same department and the same path, cut off
\* somewhere.
Covers(r, a) == r.department = Asked(a) /\ IsPrefix(r.path, a.path)

-----------------------------------------------------------------------------
(* Backends.                                                                 *)

Start(b) ==
    /\ b \notin up
    /\ mounted[b] = 0
    /\ up' = up \cup {b}
    /\ UNCHANGED <<mounted, prepared, warehouse_routes, requests, clients, address,
                   messages, working, routed>>

Mount(b) ==
    /\ b \in up
    /\ mounted[b] < Len(Mounts[b])
    /\ mounted' = [mounted EXCEPT ![b] = @ + 1]
    /\ UNCHANGED <<up, prepared, warehouse_routes, requests, clients, address,
                   messages, working, routed>>

\* get_mounts.
HasMounted(b) == {Mounts[b][k] : k \in 1..mounted[b]}

\* The heartbeat of a backend, and what the reception makes of it: routes are
\* added, and none is ever taken out.
Announce(b) ==
    /\ b \in up
    /\ warehouse_routes' = [r \in Routes |->
           IF r \in HasMounted(b) THEN warehouse_routes[r] \cup {b}
           ELSE warehouse_routes[r]]
    /\ UNCHANGED <<backs, requests, clients, address, messages, working, routed>>

Crash(b) ==
    /\ b \in up
    /\ mounted[b] > 0
    /\ up' = up \ {b}
    /\ messages' = {m \in messages : ~ (m.kind = "forward" /\ m.back = b)}
    /\ working' = {w \in working : w.back # b}
    /\ UNCHANGED <<mounted, prepared, warehouse_routes, requests, clients, address,
                   routed>>

\* P is prepared, before or after a step.
IsSlow(b, r, P, state) == <<b, r>> \in Slow /\ P[<<b, r>>] = state

\* What a layer takes: the department that the header names, and a url that
\* starts with its route, in any case, and goes on with a slash or a dot.
LayerFits(r, a) ==
    /\ r.department = a.department
    /\ Len(r.path) <= Len(a.path)
    /\ \A i \in DOMAIN r.path :
          \/ r.path[i] = a.path[i]
          \/ <<r.path[i], a.path[i]>> \in Alike
          \/ i = Len(r.path) /\ <<r.path[i], a.path[i]>> \in Dotted

\* Layers that fit a request, of suppliers that have handlers.
Fits(b, a, P) ==
    {k \in 1..mounted[b] :
        LayerFits(Mounts[b][k], a) /\ ~ IsSlow(b, Mounts[b][k], P, "failed")}

\* Variant: the layer mounted last.
LastMatch(b, a, P) ==
    LET fits == Fits(b, a, P)
    IN  IF fits = {} THEN NotFound
        ELSE Mounts[b][CHOOSE k \in fits : \A j \in fits : j <= k]

\* Variant: the department is not looked at.
AnyDepartment(b, a, P) ==
    LET fits == {k \in 1..mounted[b] : IsPrefix(Mounts[b][k].path, a.path)}
    IN  IF fits = {} THEN NotFound
        ELSE Mounts[b][CHOOSE k \in fits : \A j \in fits : k <= j]

\* The warehouse of a backend runs through its layers as they were mounted; the
\* first that fits gets the request, and 404 is sent if none does.
Handler(b, a, P) ==
    LET fits == Fits(b, a, P)
    IN  IF fits = {} THEN NotFound
        ELSE Mounts[b][CHOOSE k \in fits : \A j \in fits : k <= j]

Taken(q, b, P) == Message("work", q, b, Handler(b, address[q], P))

Handle(m) ==
    /\ m \in messages
    /\ m.kind = "forward"
    /\ messages' = messages \ {m}
    /\ working' = working \cup {Taken(m.req, m.back, prepared)}
    /\ UNCHANGED <<backs, warehouse_routes, requests, clients, address, routed>>

\* Requests in the _preparestack of a supplier.
Held(b, r) == {w \in working : w.back = b /\ w.body = r /\ IsSlow(b, r, prepared, "no")}

\* Variant: what was held is dropped.
ReleaseNothing(b, r) == working \ Held(b, r)

\* What was held is handled, or runs on to the next layer.
Release(b, r) == (working \ Held(b, r)) \cup {Taken(w.req, b, prepared') : w \in Held(b, r)}

Prepare(b, r) ==
    /\ b \in up
    /\ r \in HasMounted(b)
    /\ IsSlow(b, r, prepared, "no")
    /\ \E outcome \in {"yes", "failed"} : prepared' = [prepared EXCEPT ![<<b, r>>] = outcome]
    /\ UNCHANGED <<up, mounted, warehouse_routes, requests, clients, address, messages,
                   routed>>
    /\ working' = Release(b, r)

Respond(w) ==
    /\ w \in working \ Held(w.back, w.body)
    /\ working' = working \ {w}
    /\ messages' = messages \cup {[w EXCEPT !.kind = "response"]}
    /\ UNCHANGED <<backs, warehouse_routes, requests, clients, address, routed>>

-----------------------------------------------------------------------------
(* The reception.                                                            *)

Above(a, k) == [department |-> Asked(a), path |-> SubSeq(a.path, 1, k)]

IsKnown(r) == r \in Routes /\ warehouse_routes[r] # {}

\* Variant: from the top down.
FindFromTop(a) ==
    LET found == {k \in 0..Len(a.path) : IsKnown(Above(a, k))}
    IN  IF found = {} THEN NotFound
        ELSE Above(a, CHOOSE k \in found : \A j \in found : k <= j)

\* router(): the url itself, and then with one part less at a time.
Find(a) ==
    LET found == {k \in 0..Len(a.path) : IsKnown(Above(a, k))}
    IN  IF found = {} THEN NotFound
        ELSE Above(a, CHOOSE k \in found : \A j \in found : j <= k)

\* front.on('message').  What is sent to a socket that is gone is dropped.
Route(m) ==
    /\ m \in messages
    /\ m.kind = "request"
    /\ LET q == m.req
           route == Find(address[q])
           others == messages \ {m}
       IN  \/ /\ route = NotFound
              /\ messages' = others \cup {Message("answer", q, NoBackend, NotFound)}
              /\ UNCHANGED <<requests, routed>>
           \/ /\ route # NotFound
              /\ \E b \in warehouse_routes[route] :
                     /\ requests' = requests \cup {q}
                     /\ sentTo' = [sentTo EXCEPT ![q] = b]
                     /\ via' = [via EXCEPT ![q] = route]
                     /\ messages' = IF b \in up
                                    THEN others \cup {Message("forward", q, b, route)}
                                    ELSE others
    /\ UNCHANGED <<backs, warehouse_routes, clients, address, working>>

\* Variant: the callback is kept.
ForgetNothing(q) == requests

\* The callback of the response is called and deleted.
Forget(q) == requests \ {q}

PassOn(m) == IF m.req \in requests THEN {[m EXCEPT !.kind = "answer"]} ELSE {}

\* back.on('message') with a response.
TakeResponse(m) ==
    /\ m \in messages
    /\ m.kind = "response"
    /\ messages' = (messages \ {m}) \cup PassOn(m)
    /\ requests' = Forget(m.req)
    /\ UNCHANGED <<backs, warehouse_routes, clients, address, working, routed>>

-----------------------------------------------------------------------------
(* Clients.                                                                  *)

Ask(q) ==
    /\ q \notin callbacks
    /\ answers[q] = <<>>
    /\ callbacks' = callbacks \cup {q}
    /\ messages' = messages \cup {Message("request", q, NoBackend, NotFound)}
    /\ UNCHANGED <<backs, warehouse_routes, requests, address, working, routed,
                   answers>>

Deliver(m) ==
    /\ m \in messages
    /\ m.kind = "answer"
    /\ messages' = messages \ {m}
    /\ callbacks' = callbacks \ {m.req}
    /\ answers' = IF m.req \in callbacks
                  THEN [answers EXCEPT ![m.req] = Append(@, m.body)]
                  ELSE answers
    /\ UNCHANGED <<backs, warehouse_routes, requests, address, working, routed>>

-----------------------------------------------------------------------------
Carry ==
    \/ \E m \in messages : Handle(m) \/ Route(m) \/ TakeResponse(m) \/ Deliver(m)
    \/ \E w \in working : Respond(w)
    \/ \E x \in Slow : Prepare(x[1], x[2])

Next ==
    \/ \E b \in Backends : Start(b) \/ Mount(b) \/ Announce(b) \/ Crash(b)
    \/ \E q \in Requests : Ask(q)
    \/ Carry

Spec == Init /\ [][Next]_vars

\* The wires deliver, mongo connects or fails to, and a backend that runs answers.
FairSpec == Spec /\ WF_vars(Carry)

-----------------------------------------------------------------------------
Bodies == Routes \cup {NotFound}

\* The variables keep their types.
TypeOK ==
    /\ up \subseteq Backends
    /\ mounted \in [Backends -> Nat]
    /\ prepared \in [Slow -> {"no", "yes", "failed"}]
    /\ warehouse_routes \in [Routes -> SUBSET Backends]
    /\ requests \subseteq Requests
    /\ callbacks \subseteq Requests
    /\ address \in [Requests -> Addresses]
    /\ messages \subseteq [kind : {"request", "forward", "response", "answer"},
                           req : Requests, back : Backends \cup {NoBackend},
                           body : Bodies]
    /\ working \subseteq [kind : {"work"}, req : Requests, back : Backends,
                          body : Bodies]
    /\ sentTo \in [Requests -> Backends \cup {NoBackend}]
    /\ via \in [Requests -> Bodies]
    /\ answers \in [Requests -> Seq(Bodies)]

\* A request goes to a backend that announced a route above its url, and no
\* backend announced a longer one; it is answered with 404 by the reception
\* only when none announced any.
RoutedRight ==
    [][\A m \in messages \ messages' :
           m.kind = "request" =>
               LET q == m.req
                   fits == {r \in Routes : warehouse_routes[r] # {}
                                             /\ Covers(r, address[q])}
               IN  IF fits = {} THEN sentTo'[q] = NoBackend
                   ELSE \E r \in fits :
                            /\ \A s \in fits : Len(s.path) <= Len(r.path)
                            /\ sentTo'[q] \in warehouse_routes[r]]_vars

SpecificFirst(b) ==
    \A j, k \in DOMAIN Mounts[b] :
        Covers(Mounts[b][j], Mounts[b][k]) => k <= j

\* A backend has a layer for every request that it is sent and that names its
\* department, since a route is announced after it is mounted, and a layer takes
\* whatever the reception finds it for; and in a backend that mounts a route
\* before the ones above it, the supplier that handles a request is the one whose
\* route the reception found, or one mounted before it that fits by the case or
\* the dot only.  Unless the supplier that was found could not prepare itself:
\* then it is whatever is mounted above it, or nobody.  A request that names no
\* department is sent to a warehouse and answered with 404 there.
HandledAsRouted ==
    LET Gone(x) == IsSlow(x.back, via[x.req], prepared, "failed")
        Unnamed(x) == address[x.req].department = NoDepartment
    IN  /\ \A x \in messages \cup working :
              x.kind \in {"work", "response"} /\ x.body = NotFound => Gone(x) \/ Unnamed(x)
        /\ \A w \in working :
              SpecificFirst(w.back) /\ w.body # NotFound =>
                  \/ w.body = via[w.req] \/ Gone(w)
                  \/ ~ Covers(w.body, address[w.req])

\* A client is called back at most once, with 404 or by a supplier of the backend
\* that its request was sent to, in the department that its header named, above
\* its url.
AnsweredOnce ==
    \A q \in Requests :
        /\ Len(answers[q]) <= 1
        /\ \A k \in DOMAIN answers[q] :
               \/ answers[q][k] = NotFound
               \/ /\ LayerFits(answers[q][k], address[q])
                  /\ answers[q][k] \in ToSet(Mounts[sentTo[q]])

\* A callback stays in the reception only as long as its response is to come,
\* unless the backend it was sent to is gone.
NothingKept ==
    /\ TypeOK
    /\ \A q \in requests :
        \/ sentTo[q] \notin up
        \/ \E m \in messages \cup working : m.req = q /\ m.back = sentTo[q]

\* Every request is answered, unless the backend it was routed to goes or has
\* gone.
AnsweredUnlessLost ==
    \A q \in Requests :
        q \in callbacks ~> \/ answers[q] # <<>>
                           \/ sentTo[q] # NoBackend /\ sentTo[q] \notin up
=============================================================================
