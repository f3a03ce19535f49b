# quarry.io in TLA+

Specifications of the network core of quarry.io, the seventh generation of the
program (`src/v7_nodejs`, its library in `lib/`). A stack of node processes
keeps trees of *containers* in suppliers (mostly mongo) and serves them to
clients, which ship *contracts* - requests made of requests - down a *supply
chain* of ZeroMQ sockets. Paths below are relative to `src/v7_nodejs/lib`
unless they begin with `src/`.

`PROJECT.json` lists components, runs, mutants, the map from definitions to
lines, findings, hazards and theorems.

## 1. The system

### How a request travels

    client (container/proto.js, contract/*)
      | ships a contract: merge or pipe of requests
      v
    front client (reception/frontclient.js, rpc/client.js)      Reception
      |
      v
    reception (reception/server.js)  <--- routing tables ---+   Reception
      | the most specific route above the url               |
      +----------------------------+                        |
      v                            v                        |
    contract worker            warehouse worker ------------+   Reception
    (workers/contract.js,      (workers/warehouse.js,
     warehouse/                 warehouse/proto.js: mounts)
     resolvecontract.js)           |
      |  ContractResolver          v
      |  HoldingBay            selectors within selectors       Select
      |                        (warehouse/resolveselector.js)
      |                            |
      |                        supplier (supplier/quarrydb)     QuarryDB,
      |                            |                            NestedSet
      |<-- branch announcements ---+ warehouse/resolveevents.js HoldingBay
           over the switchboard                                 Switchboard

    a process that listens to a part of a tree has a portal     Portal
    on it, which hears its changes over the switchboard

    code of users runs in threads that send requests of
    their own (threadserver/*)                                  ThreadServer

    every process finds receptions and switchboards through the HQ
    switchboard (tools/dns.js, tools/heartbeat.js)              Discovery

### Components

For each: its state, its operations, what it talks to, what is hard about it,
and what makes it correct.

**Holding bay of the contract worker** (`network/workers/contract.js`,
`warehouse/resolveevents.js`).
State: the table `requests`; for each request the counters `branches`, the
collected `results` and the parent it branched from. Operations: accept a
request of a contract and send it in the next tick; hear an announcement and
add a branch; finish with an RPC response; finish a branch. It talks to the
suppliers over RPC and hears them over the switchboard, two networks without a
common order, either of which may lose. Hard: a response may overtake the
announcements it belongs to; a branch of a branch may be complete before its
parent's parent has heard of it; `complete` is emitted on the call stack of
another `complete`. Correct when no client is answered early, twice, or with a
result left out or doubled, and when each is answered at all.

**Contract resolver** (`warehouse/resolvecontract.js`, `contract/*`).
State: the response of every contract (status, body, errors) and the position
of `async.forEach` and `forEachSeries`. Operations: handle a contract, start a
merge or pipe, take the response of a part. Hard: parts answer in any order
and fail or come back empty, contracts nest, and each early return has to send
the response itself. Correct when a merge is the sum of its parts, a pipe runs
in order and stops at the first error or at nothing, errors reach the client,
and each response is sent once and left alone.

**QuarryDB supplier** (`supplier/quarrydb/*`, `supplier/container.js`,
`supplier/middleware/extractmeta.js`, `vendor/mongo.js`).
State: one mongo collection of containers with `quarryportal`, `parent_id`,
`left`, `right` and `next_child_position`; the copies of these that requests in
progress hold in memory. Operations: append (a cascade of updates and inserts
that fans out over the children), save, delete, select. Hard: every operation
is read, think, write with no lock or transaction, and a connection pool may
reorder what one request sends. Correct when places are unique, the counter of
a container covers its children, a delete takes the subtree and nothing else,
and every request is answered.

**Rational nested set** (`supplier/tools/rationalnestedset.js`,
`append.js:91-110`). Pure: a portal to a fraction to two padded decimal
strings. Correct when the comparisons of strings in the delete and tree queries
say what the tree says.

**Reception** (`network/device/reception/*`, `network/device/rpc/*`).
State: `warehouse_routes` (route to sockets), `requests` (callbacks of
responses to come), the callbacks of each client, the mounts of each worker.
Operations: take a request and route it, take a response and pass it on, take
a routing table; a worker starts, mounts, announces, answers, goes. Hard: what
the reception believes and what a worker can do differ, the two test a route in
ways of their own, and neither side has a timeout. Correct when a request goes to the most specific route anyone
announced, is handled by a supplier that covers it, and its client is answered
at most once and, unless a worker was lost, at least once.

**Service discovery** (`network/tools/dns.js`, `network/tools/heartbeat.js`,
`network/job.js` and the four devices that listen).
State: for each listener a table of the last message under each id, the pool
and wires of its device. Operations: broadcast, hear, check for stale entries,
pick. Hard: timeouts against late messages, servers that come and go. Correct
when nobody is taken for gone while it broadcasts, and devices follow what is
there.

**Switchboard mesh** (`network/device/switchboard/*`).
State: the wires and subscriptions of each client, the sideways pairs of each
server, packets on the way. Operations: pick a server, pair with another one,
listen, subscribe, broadcast, pass on to clients and sideways, hear. Hard:
sockets drop what comes before the other end has connected or subscribed, and a
packet may reach a client over its own server or over two. Correct when clients
see a bus: what they hear was broadcast, once, in the order of its sender.

**Portals** (`portal/*`, `container/router.js`,
`supplier/middleware/containerportals.js`).
State: the functions and callbacks of each portal by route, the ids of the last
second, the synced copy. Operations: listen, close, change the tree and
broadcast an instruction on up to four routes, talk on the radio, hear, fail,
forget an id. Hard: a message comes in up to four copies, to listeners that come and go
meanwhile. Correct when each message runs once, on the route that goes first,
what can be heard is, and a synced copy agrees with the tree as far as its portal
can hear of changes.

**Selector resolver** (`warehouse/resolveselector.js`) **and select**
(`supplier/quarrydb/select.js`, `ensure_skeleton.js`).
State: the stages to come, the phases of the running stage with the skeleton
each starts within, what was found. Operations: begin a stage, load a bare
skeleton, find, load the descendents, fail; branches are announced on the way.
Hard: each selector runs within what another one found some time ago, the phases
of a stage run side by side, any find may fail. Correct when a request finds
what its selectors mean, as far as the collection stayed as it was, and its
branches take along what is left to be done.

**Thread server** (`threadserver/*`).
State: the callbacks of the server, the queues between it and its threads, the
calls left of a thread's turn, the callbacks inside, the counters of each map.
Operations: run a script or a map, pass on a request, its response and a
result; in a thread, compile, call code, call `done`, send, throw. Hard: the end
of a map is counted by code of the user, which may call `done` late, twice or
never, and shares its thread with others. Correct when a caller is called once,
with everything, whatever the other jobs do.

**Not modelled.** The provider (looks a supplier up and makes it in one turn),
the login of the security supplier (a look-up and a creation in two requests to
a quarrydb: two logins at once make two users, which a model would only
restate) and rules of access (data); containers and their search (a data
structure of one process, whose output is the input of the models); proxying in
the HTTP router and web middleware (configuration and I/O); HQ and booters (they
write configuration once); file suppliers (I/O); the old holding bay (nothing
requires it); the earlier generations `src/v1php` to `src/v6_nodejs`, which this
one does not use; vendored, browser and static files, which are most of the
repository's lines.

## 2. Modules

| module | models | state and actions |
|---|---|---|
| `BranchJoin` | what the bay promises | `tree`, `served`, `reply` of each client |
| `HoldingBay` | contract.js, resolveevents.js, the two networks | one action per handler; `emitting` is the call stack |
| `HoldingBayProofs` | | theorems about `HoldingBay` |
| `ContractResolver` | resolvecontract.js, response.js | one action per turn of the event loop; `sending` is the response whose listener runs |
| `ContractResolverProofs` | | theorems about `ContractResolver` |
| `QuarryDB` | append.js, save.js, delete.js and what they load | one action per operation of mongo with its callback |
| `QuarryDBProofs` | | theorems about `QuarryDB` |
| `NestedSet` | rationalnestedset.js and the comparisons | operators, checked at every place of a tree |
| `Select` | resolveselector.js, select.js, ensure_skeleton.js | one action per find of mongo with its callback |
| `SelectProofs` | | theorems about `Select`, about `NestedSet`, and that what the first says of places is what the second finds of them |
| `Reception` | server.js, backclient.js, rpc/client.js, warehouse/proto.js, contract/request.js | one action per message handler |
| `ReceptionProofs` | | theorems about `Reception` |
| `Discovery` | dns.js, heartbeat.js and its listeners | one action per timer or message |
| `DiscoveryProofs` | | theorems about `Discovery` |
| `Bus` | what switchboards promise | how far each client has sent, and heard each other one |
| `Switchboard` | client.js, meshclient.js, meshserver.js | one action per socket event; a link is a set of numbered packets |
| `Portal` | portal/proto.js, radio.js, router.js, containerportals.js | extends `Switchboard`: a step of a portal is one of its client, or leaves the mesh alone |
| `PortalProofs` | | theorems about `Switchboard`, and about `Portal` from those |
| `ThreadServer` | server.js, threadcode.js | one action per message, and per call of code |
| `ThreadServerProofs` | | theorems about `ThreadServer` |
| `MC*` | instances | model values and small definitions |

An operator whose comment begins with "Variant:" is not part of a model: it is
a plausible mistake in the definition that follows it, and a run with it put in
place of the right one violates the property it is listed with.

### Correspondence with the code

*One process, one step.* All of it is node: what runs between two turns of the
event loop is atomic, and an action is such a stretch with everything it calls.
Where the code defers (`process.nextTick`, a timer, a callback of mongo) a new
action begins. Two modules make the call stack a variable because emitters call
their listeners synchronously: no other action of that process is enabled until
`emitting` or `sending` is empty.

*HoldingBay.* `count[i][b]` is `branches[b]` of `resolving_req` (contract.js
97-124), `requests` the table, `parent` the closure of `addbranch`. `stage`
joins what is spread over the network: where request and response are. A body
is abstracted to the id it came from, a list of results to how often it holds
each. A supplier that serves a request may branch any number of times while it
does, and so may each branch.

*ContractResolver.* Any tree of contracts (`Shapes`), in front of a warehouse
or of the bay (`shape.bay`), whose plain requests are answered with results, an
empty list, an error or no body. `TreeAssumption` is that what came over the
wire was parsed from text: a request is in one place of one contract, and none is
below itself. `Heard` is what the bay makes of an answer:
status 200, whatever the status was.

*QuarryDB.* `wire` holds the operations sent; mongo does one at a time and the
callback runs in the same action (it only touches the request's own memory and
sends more). A container's portal stands for its left and right values, which
is what `NestedSet` is about. `mem` and `held` are the JavaScript objects the
append shares between its callbacks: `Claim` is the `next_child_position++` on
them, and `Update` writes the whole object as it was when the operation was
sent. Any operation may fail, unless `granted` says otherwise: a load, a write or
a remove that fails ends its request with the error, and the callbacks of an
append do not look (append.js:147-206), so `CountRoots`, `UpdateParent` and
`InsertOne` go on either way, and a mapreduce without results means position 1.
A connection that breaks in a mapreduce throws (vendor/mongo.js:133) and takes
the process along, which is not modelled here. A request is for the top or for
one container: `x-json-skeleton` is sent by selects only
(container/proto.js:1561).

*NestedSet.* Numbers are exact fractions and strings have `Digits` digits
behind the point; in a run fewer than 32, since TLC counts to 2^31. The four in
front are kept. `Precise` says which trees that is enough for: those with root
positions up to 9998 (from 9999 on the string of a right value has a character
more) in which two denominators make at most 10^`Digits`. A denominator is at most
`(Width + 2)^(Depth - 1)`, so 32 digits are enough for trees 5 deep and 9998
wide, or 9 deep and 98 wide. The fraction is computed in doubles, which are exact
up to 2^53 only; no number is larger than the next root's position times the
largest denominator (`NumbersBounded`), so with the first hundred roots exact
numbers go as far as 9 deep and 53 wide. What the code does beyond that is not
modelled.

*Select.* A query is a list of strings (`strings` of the resolver, called stages
there), each a list of phases, each a list of selectors; parsing is left out: a
selector is the set of containers its tag, class or attributes fit (`want`), a
splitter, whether it asks for an id, and whether for trees. The parser makes
neither an empty string nor an empty phase (inspectselect.js). A container has a
line, the way down to it, and a place, the positions along that line. A place is
one container's at a time (`PlacesStayApart`), but a root that is appended after
the last one was deleted gets its position, and what comes below it the places of
what was there (`Added`). Children and parents are looked for by id, what is
further below or above by place (`FoundFrom`, `Covered`). What a request means
goes by lines (`Related`), and is `StagesWithin`: each phase starts within all that
the stage before means, and the first within the container the request is for,
which for one by url has to be there (`Start`). `runs` is one record for each phase
of the running stage, `found` its results. The collection changes
by whole appends and deletes between any two steps. `always` and `ever` are what
was there throughout and at some time: a request that is not alone can only be
right between the two.

*Reception.* Routes are records of a department and a path. `Announce` is a
routing table sent and taken at once: it only ever adds routes, so one that is
under way makes no more difference than one that is not sent yet. A crash takes
what was sent to the worker with it and leaves its routes, as the code does.
`Slow` are the mounts of suppliers that call `prepare`: what comes before they
are prepared is held, and runs on past them if they fail, since a quarrydb whose
collection cannot be opened sets up no handlers (quarrydb/index.js:98).
The two sides have tests of their own. `Covers` is that of the reception: the
department of the routing packet, `warehouse` if the header names none (`Asked`;
contract/request.js:106), and the very path, cut off at a slash. `LayerFits` is
that of a layer: the header itself (warehouse/proto.js, mount), and the path in
any case, with a slash or a dot behind it (warehouse/proto.js:224-227). Which
parts of paths differ in case only, and which are another one, a dot and more,
are relations (`Alike`, `Dotted`).

*Discovery.* A `Tick` ends a second; in each, every server that runs broadcasts
and is heard, which is the timing the code assumes (a delay of one second, a
worry of three). `IdOf` is where the module says what the jobs register.

*Switchboard.* A link is a set of packets numbered by their sender, taken in the
order of the numbers; `linked` and `subs` say what a socket knows of the other
end. `Broadcast` loses what comes before the pub wire has connected, `Published`
what has no subscription. A client picks one server and a server pairs once, as
`Discovery` shows. `cancel` is left out: it removes callbacks, and what is still
subscribed is heard by nobody.

*Portal.* `stack` are the functions of a portal by route, `hooks` its callbacks
on the client, `donemessages` what `run_stack` remembers, `Synced` is
`syncmethods`. `Change` makes a change and `Respond` broadcasts it when its
response is sent. `pending` is what is between, and with `serial` nothing else
happens to the tree in between. No supplier of this commit installs the
middleware (supplier/container.js:147); it is modelled as it stands. A container
has one place, below that of its parent (`PlaceAssumption`). `Routes` takes the
place from the skeleton of the request, as the middleware does
(containerportals.js:60): a delete writes what it loaded back into it
(ensure_skeleton.js:83), an append or a save does not (load_containers.js:69-78)
and has the supplier and the id only (extractmeta.js:97-115), so that its deep
routes are those of the top (`Placed`). `Fail` is a callback that throws, which
happens in a turn of its own: the process ends, with all of its portals (`closed`,
`ended`), and its sockets take what comes to nobody. The top of a supplier has one
route for both modes and is taken to be synced with what is below it. What a client
saves is one container; a save that brings along loaded children is not modelled.

*ThreadServer.* A job maps the containers of its input, which are told apart by
their place in it, from 1 to `total`. `turn` holds the calls a thread has yet to make in this turn of
its event loop, since `async.forEach` over synchronous code makes them all at
once. What code does in a call is left open: `Done` once or twice, `Ship`, `Idle`
(it returns and does nothing more) or `Throw`.

## 3. Runs

| run | asks | bounds |
|---|---|---|
| `holdingbay` | never early, final, no branch ignored, `PromiseInv`, implements `BranchJoin`, answered unless its own tree lost a message | `MaxIds` = 4 requests at a time, of 2 clients and 3 branches; both networks lose |
| `contract_answers` | merges add up, pipes run in order, errors reach the client, sent once, answered | 2 contracts, 4 requests, all shapes |
| `contract_bail` | violation, below | the same |
| `quarrydb` | unique places, counters, orphans, deletes, final places, whole bodies, answered | appends of 3 and of 2 containers, a save or delete, and a second one when requests come one at a time and nothing fails; five `Grants` |
| `quarrydb_roots` | violation, below | the same, requests together |
| `nestedset_trees` | fractions nest; delete, descendants and ancestors are exact | 5 trees, 4 deep, 3 wide |
| `select` | what is found lies between what was meant throughout and at some time; trees whole; branches take along the rest; answered | 6 containers, 3 deep, 2 roots, and a root that may take the place of one; up to 2 stages, 2 phases, 2 selectors; 2 changes |
| `reception_crash` | routing, single and right answers, nothing kept, lost only by crash | 2 workers with overlapping routes, one of them prepared late or never, 2 requests, each for one of 4 urls |
| `discovery` | no false alarm, who listens gets a server | 2 switchboards with their listeners and a mesh client, or 2 receptions, 2 workers, a front client, or 2 web servers and the router |
| `discovery_moves` | violation, below | the same |
| `portal` | a message runs once, on its first route; copies in line; delivered; the mesh is a bus | 2 switchboards, 2 clients, a portal on the top, one below it and a radio, a tree 4 deep; 2 messages when all is set up, 1 while it is not |
| `threads` | one whole answer, and one at all | 2 threads, 2 jobs of any kind of up to 2 containers, 2 requests of their own |

*Why the bounds are enough.* With four requests of the bay every shape that can
go wrong is there: one client with three branches, side by side or one below
the other, and two clients with two branches between them; a fifth only repeats
one of them (and the theorems hold for any number). Two nested contracts give
each resolver as the part of each, first or last among plain parts. A container
with two children and a body with two items exercise both fan-outs of append; a
third request finds any state between two operations of the other two, and a
fourth, one at a time, follows a save or delete with a delete. Two workers mount
routes in opposite orders, one above the other, in two departments; of the
suppliers only the one in front of another can hold requests or let them pass.
Their urls are one below both routes, one of the other department, one without a
department, and one that a layer takes by case and dot only.
Two servers of a department are one to lose and one to move to.

A select with two stages of two phases of two selectors has each way one
selector can hand on to another: within a phase, from all phases of a stage to
the next, and to the reply. Two changes are an append and a delete around any
find, or two of one kind; a root that goes and one that takes its place. Portals
hear on routes of one container: a tree four deep has the top, the lower portal's
own container, a child and a grandchild. When all is set up the portal on the top
syncs, the lower one syncs deeply, or without what is below it and listens to
appends as well, and the child and the grandchild are both there at first or
neither; otherwise only the lower portal listens, deeply or not, before or after
the change. That the mesh is a bus does not depend on how many there are (section 5); messages are
two, since only ids of the same second meet, and one while wires, subscriptions
and listeners come and go, since each message is for itself there. Two jobs on
one thread are enough to keep each other from being answered, and two on two
threads to be answered out of order; two containers, for `done` to be called
once too often before the last one.

`HoldingBay.cfg` has a state constraint, `Bounded`, which only keeps requests
from arriving or branching; `MayCome` of `MCQuarryDB` does the same for the
fourth request, and `MCNext` of `MCPortal` for messages, listeners and wires. No step that fairness speaks of is kept from happening, so every
behaviour that is left is a fair one of the specification.

`CHECK_DEADLOCK FALSE` is set in every run: requests are finite and a system in
which all are answered rightly stops.

### Fairness

- `HoldingBay`: weak fairness of `Due`, what follows from having accepted a
  request: node runs every event it gets, what is not lost is delivered, and a
  supplier responds. Nothing obliges a request to arrive or to branch, nor the
  network to lose or not to lose. Each of these steps is taken at most once for
  an id, so that one fairness condition serves them all. There is no retry or
  timeout anywhere (contract.js 135-143), so a client whose tree lost a message
  waits for ever; `EveryRootAnswered` says that it is the only one.
- `ContractResolver`: weak fairness of the next step: ticks run, and the supply
  chain answers. That it does is what `EveryRootAnswered` and `AnsweredUnlessLost` promise.
- `QuarryDB`: weak fairness of `Step`: timers fire and mongo does what it was
  sent. As each operation is done once and sends finitely many, which of them
  comes next does not matter.
- `Reception`: weak fairness of `Carry`: messages are delivered and a running
  worker answers. Starting, mounting, announcing and crashing are free.
- `Discovery`: weak fairness of beats, ticks, deliveries and timers; starting,
  listening and crashing are free.
- `Portal`: weak fairness of `Deliver`: sockets deliver what is on the way, and a
  response that is due is sent. Picking, pairing, subscribing, listening and
  closing are free: what is promised is only what could be heard when it was sent
  (`reach`). `Forget` waits until no copy of the message is under way: a packet
  takes less than the second for which ids are remembered.
- `Select`: weak fairness of `Resolve`: mongo calls back, with results or an
  error. Changes of the collection are free.
- `ThreadServer`: weak fairness of each thread, and of the server together with
  the supply chain, which may lose a request. Which calls code makes is left
  open, but it returns.

### What QuarryDB may rely on

The code has no lock, so what holds depends on what the surroundings grant. The
variable `granted`, one of `Grants` and fixed from the start, says so: `serial`
(one request at a time), `ordered` (mongo does operations in the order sent:
one connection; the driver's default is a pool of five), `fresh` (a client saves
what it just read), `sound` (mongo fails nothing). The run takes all four,
`serial` with `sound`, each of these alone, and `ordered` with `fresh`.

| property | needs |
|---|---|
| `LinksAgree`, `PlaceIsFinal`, `EveryRequestAnswered`; all of a body is sent before its answer (`AnsweredIsStored`) | nothing |
| containers of one item of a body, or of one body below a container that was found, are apart (`UniquePlaces`) | nothing |
| all of a body is stored (`AnsweredIsStored`) | `sound` |
| `NoOrphans` | `serial`, `sound` |
| all containers are apart (`UniquePlaces`), `ChildrenCounted`, `DeleteIsSubtree` | all four |

Two appends to one container read the same counter and give two children one
place; reordered updates of one parent leave a counter that is too low; a save
with a stale body sets it back; a delete in the middle of an append leaves
orphans. An update of a parent that fails is not looked at, so that the parent
has not counted a child that is then put in. What holds without any grant is
what is left then: `parent_id` and portal never contradict each other, an append
is answered, and only when mongo is done with all of its body, and no container
moves.

## 4. What the code does not do as it says

Three runs end in a violation of something the code says of itself.

1. `PipeBailsOut`: in front of the bay a pipe runs its next part on the text of
   an error, since the bay answers everything with status 200
   (contract.js:123, :176; resolvecontract.js:170).
2. `RootPositionAvailable`: two appends at the top take one position
   (append.js:56-89).
3. `MeshMovesOn`: a mesh client never leaves the switchboard it picked
   (dns.js:129, :151; meshclient.js:160).

The models show more of this kind, for which no run is kept:

- An append to a container that was deleted becomes a root and succeeds
  (append.js:212-222); see `LoadTarget`.
- A part of a merge without a body puts a null in front (`Members`), behind
  which `expect('array')` of the client finds nothing (contract/proto.js:204-225).
- A switchboard that hears itself first pairs with nobody (dns.js:129,
  meshserver.js:145); receptions that are silent for three seconds take all
  their workers with them (`Check`; dns.js:151, backclient.js:152); a front
  client stays on the first reception it heard, since a wire is plugged in once
  (`AddToFront`; core/wire.js, `plugged`); the router of the web servers knows
  the domains of the first one it heard, and ends after three silent seconds
  (`Check`; workers/router.js:75), so that what would remove a route
  (http/router.js:49) is never reached. These and `MeshMovesOn` have one
  root: heartbeats carry no id, and the table of one department is mistaken for
  the table of departments.
- From root 9999 on, the strings of right values are one digit longer, so that
  nothing is found below it; those of root 10000 sort among those of root 1000:
  deleting the one deletes the other (append.js:99).
- A selector that looks below or above what the last one found goes by left and
  right of some time ago (select.js:131-159). If the last root was deleted
  meanwhile and a new one appended, it finds what is below or above the new one:
  `NothingInvented` and `BranchesCarryTheRest` suppose that no place was used twice
  while the request ran (`Apart(ever)`); without that the run finds `<<`, from a
  child of the deleted root, answered with the new root. Trees are put together
  by id, and stay right (`TreesWhole`).
- A failed write of an append is answered as a success, and a mapreduce that
  fails gives position 1 (append.js:77-83, :136-206).
- A request that names no department, as those of `Container.api` and of loading
  (container/proto.js:1388-1468), is routed to a worker of the department
  `warehouse` (contract/request.js:106). No layer of it compares equal to a header
  that is not there, so that the answer is 404 while the supplier is up
  (`HandledAsRouted` excepts these). A layer also takes a url in another case or
  with a dot behind its route (warehouse/proto.js:224-227), which the reception
  looks up as another path (server.js:86-116): who answers then depends on which
  worker it was that announced something above, and the order of its mounts.
- A supplier whose collection could not be opened lets its requests through to
  whatever is mounted above it, which answers them (quarrydb/index.js:98;
  `HandledAsRouted` excepts them).
- A selector that fails ends its phase, and the request is answered with what
  the others found and no error (resolveselector.js:166). A bare request whose
  container is gone, or a stage that finds nothing with another to come, goes on
  from the top of the collection (`blank`; ensure_skeleton.js:72,
  resolveselector.js:211). `>` from the top takes all roots, whatever tag is
  asked for (select.js:186-193), and whatever id: a request by url whose container
  is gone and which asks for a child by its id is answered with the roots, even
  where that id exists (found by the proof of `NothingLost`, which is why
  `Start` asks for the container to be there). Bare requests see no branch events.
- The strings of a request are reversed by the client (container/proto.js:1522)
  and again by the resolver (resolveselector.js:71), so that they run as they
  are written, where a comment has them the other way round
  (extractselector.js:35); what is left at a branch is reversed once more by the
  client of the branch, so that two or more strings left run in the wrong order.
- With `:tree`, a result below another result is put into the other's tree, and
  its own children are put under that copy (select.js:350; `Under`).
- A listener to all of a container and to its subtree is told of a change on
  the first of its routes only, where the comment says that both pick it up
  (portal/proto.js:547-549; `FirstRouteWins`). `close` cancels no callback, and
  what it leaves hooked marks messages as done. A shallow sync never removes a
  child. What is said on a radio has no id, so that the second message within a
  second is dropped (portal/proto.js:452; `SameId`).
- A portal below the top of a supplier hears no append and no save by place, so
  that its copy is not kept "in line with all deep changes" (portal/proto.js:366-370):
  only deletes come with a place (`Placed`). `InLine` speaks of copies whose
  portal could hear of every change; on the top that is each of them.
- A portal that is synced without what is below it hands the body of a save to
  `inject` as it is (portal/proto.js:319), which calls a method it has not
  (container/proto.js:848): the callback throws and the process ends (`Throws`,
  `Fail`).
- Code that maps nothing is never answered, nor is one that throws
  (threadcode.js:172, :211).

## 5. Proofs

`HoldingBayProofs` proves, for any sets of roots and branches, over networks that
reorder and lose, from `ConstantsAssumption` (the sets are disjoint, `NoId` is in
neither):

- `TypeCorrect`, `NeverEarly` (`NoEarlyReply`), `OnlyOnce` (`CompleteOnce`,
  which the run checks as a part of `PromiseInv`),
  `NoBranchIgnored` (`AnnouncementsAwaited`), `HandedOnIsFinal`
  (`HandedOnFinal`), and `Invariance`, from which they follow;
- `PromiseKept` (`KeepsPromise`): the bay implements `BranchJoin`; it follows from
  `ResultsAreTrees` (`PromiseInv`).

*The argument.* That no client is answered early cannot be shown by itself: it
depends on the counters being right, which depends on which branches are named
where. `IInv` says all of it:

- `TablesAgree`: the bay's table and parents are what announcements told it;
- `HeadersAgree`: a branch is named by exactly one request, which served it;
- `Lineage`: what is below a request is below one of the branches it names;
- `CountersCount`: each counter is the number of its three events - announced,
  named, merged - that have happened;
- `CompleteIsClosed`: a complete request is finished, its branches are merged,
  and everything below it is complete.

The heart is `ResolvedIsClosed`: when the response of a request is in and no
counter is one or two, every branch it names has been counted at least once,
hence three times, hence is merged and, by `CompleteIsClosed`, closed; by
`Lineage` so is everything below. `AnnouncementIsAwaited` gives the other half:
an announcement under way means a counter below three in a request that is not
complete, so the listener never ignores it. There is one lemma per action,
combined in `StepIInv`.

The refinement needs more: that the answer is the whole tree, each body once. A
sum over a tree is avoided by saying of each pair of requests what one holds of the
other (`ResultsHold`): its own body once its response is in, and one copy of a
body that is in the tree of a branch merged into it. A merge adds to that the tree
of one more branch, and it stays one copy because the trees of two branches of a
request share no member (`TreeIsBranches`), which is what `Ancestry` is for:
nothing descends from itself, a branch descends from just the request that named it
and what that descends from, and of two ancestors one descends from the other. It
also gives that no request is in the trees of two clients (`OneClient`), so that a
step of the bay is a step of one tree of `BranchJoin`. `RepliesFollow` makes an
answer the first. Then accepting a request asks, a branch event branches, finishmain
serves, `res.send` answers, and every other step stutters. `PromiseInv` is `IInv`
and these three, and an invariant of the run `holdingbay`.

`PortalProofs` proves of the switchboards, for any sets of servers, clients, keys and bodies,
from `MeshAssumption`:

- `MeshInvariance` (`MeshInv`), and `MeshIsBus` (`KeepsBus`): the mesh implements
  `Bus`, so that nothing is heard that was not broadcast, twice, or out of order.

*The argument.* To be heard in order a packet must not be overtaken by a later
one of its sender, and two ways to a client would let it. `OneWay` says that
there is one: a server is not paired with itself, and what comes to it sideways
was not sent by its own clients; so a client hears its own server's packets
directly and all others sideways, one hop and no further. `InOrder` says that
along this way (up, sideways, down, heard) every packet is later than those in
front of it. A packet moves only when it is the first of its sender on its link,
which keeps that so; a client that has only now picked its server has heard
nothing, so that whatever is on the way to that server is later. The refinement
follows: a step is a broadcast, a client that hears a later packet than the
last, or a stutter.

Of portals, for any portals and radios on any tree and any number of messages, it
proves from `PortalAssumption` and `PlaceAssumption`:

- `PortalIsMesh`: every step of a portal, whatever it does to stacks, copies and
  ids, is a step of `MeshSpec` or leaves the mesh alone; hence `PortalKeepsBus`:
  the two theorems above hold below portals, too;
- `RunsOnce` (`FirstRouteWins`), `CopiesAreTrees` (`CopyIsTree`), and
  `PortalInvariance` (`PInv`), from which they follow;
- `CopiesInLine` (`InLine`), if there is one worker: of a copy of the top after
  any changes, and of one below it as long as the changes to it are deletes
  (`missed`).

*The argument.* That a portal runs on the first route says nothing about the
order of what it hears, so `PInv` has to. `Tracked` follows a message from its
broadcast: its copies are numbered in the order of its routes, and each copy that
a portal must hear (its client has subscribed, and its server is led to) stays on
the way to it until the portal is called for one of them. The mesh keeps the
order of a sender, so the copy that is heard first is the earliest of all that
come (`HearRuns`), and afterwards the id is known.

For `InLine` there is some history of the tree, `D[k]` after change k, and the copy
of each portal is `D[k]` for some k where all changes to its tree up to k have
been heard, and all later ones are broadcast and still to come, or pending
(`InStep`). What is heard next is then the next change to its tree
(`NextRelevant`), the changes it does not hear of leave its tree alone (`Steady`),
and when nothing is under way k can be taken as the last. This needs that the
next change is broadcast after the last one was (`serial`, in the property) and
over the same link: broadcasts of two workers overtake each other, so that
`OneWorker` is a condition of the theorem. A supplier is one process.

`ReceptionProofs` proves, for any backends with any mounts, any suppliers that
prepare themselves, and any requests for any urls, from `ConstantsAssumption`
(mounts and paths are sequences, the markers are neither a backend, a route nor
the department of one). Nothing is assumed of `Alike` and `Dotted`:

- `OneAnswer` (`AnsweredOnce`), `KeptForAReason` (`NothingKept`),
  `RouterAndWarehouseAgree` (`HandledAsRouted`), `RoutesRight` (`RoutedRight`),
  and `ReceptionInvariance`, from which they follow. These are all the safety
  properties of the run.

*The argument.* `OneToken` and `Waited`: a request that is not answered is in one
place - a message, or the memory of a backend - and its client waits; so there is
one answer at most. `PlaceRight` says of each place what has been decided when a
request gets there. That the router and the warehouse agree takes a fact of the
time at which a request is routed: what a backend has announced is what it had
mounted at some time (`AnnouncedInOrder`), so what it mounted before the route
that was found is known, too, and hence not more specific, or it would have been
found instead (`FoundIsRouted`). That stays so when the backend mounts more
(`RoutedBy`). When the request is handled and names a department, the route that
was found is a layer that fits (`CoversFits`), so somebody handles it: by that layer
or one mounted before it, which, if it has the very path, too, is at most as
specific, hence above it (`CoversEachOther`), hence not mounted before it in a
backend that mounts the specific first (`FirstIs`). A supplier that has failed stays failed, which is the
exception. The least and the greatest number of a set, behind the two `CHOOSE`s,
come from the well-foundedness of the naturals (`Least`, `Greatest`).

`DiscoveryProofs` proves, for any servers, any listeners with any devices and any
`Worry` of at least three seconds, from `ConstantsAssumption`:

- `TableInvariance` (`DInv`), and `NobodyWorriesEarly` (`NoFalseAlarm`).

*The argument.* `BeatIsHeard`: in a second in which somebody has broadcast,
everyone that is on has heard it or has a message on the way. A second ends only
when who is up has broadcast and was heard, so if anybody is up every entry is
fresh when it ends; if nobody is, entries and the silence grow old together
(`AgeIsSilence`). So an entry that is stale is no proof that its server is gone,
but one that all of them are: they share it. Fairness is not needed.

`QuarryDBProofs` proves, for any finite set of containers, any requests and any
`Grants`, from `ConstantsAssumption` (bodies are sequences, and no container is in
two places of them, `BodiesApart`: ids are made fresh, so an append of a copy that
kept its id is outside), all safety properties of the run, of four inductive
invariants each of which rests on those before it:

- `PlacesInvariance`: `LinksAlwaysAgree` (`LinksAgree`, with the type invariant in
  it) and `PlacesAreFinal` (`PlaceIsFinal`);
- `BodyInvariance`: `AnswersAreStored` (`AnsweredIsStored`);
- `LinkedInvariance`: `NoneOrphaned` (`NoOrphans`);
- `CountedInvariance`: `ChildrenAreCounted` (`ChildrenCounted`), `PlacesAreUnique`
  (`UniquePlaces`) and `DeletesAreSubtrees` (`DeleteIsSubtree`).

*Places.* A container is given its place once, in the memory of the append
that brings it, and memory only grows (`Grows`): `StoredWell`, `RequestWell` and
`OpWell` say that every record in the collection, held by a request or on the way
to mongo is where memory says. So the collection agrees with itself, and writing
any of these records moves nothing. That a place is given once is the hard half:
what is not begun has no place (`Unbegun`), below what has none nothing has one
(`MemoryWell`), each container is brought by one operation at a time
(`OpsApart`), and whoever is on its way has children without a place. The
children of one insert, all numbered at once, are apart since `Kids` is
(`KidsPlaced`). That the next root position is a number takes the greatest of a
finite set (`GreatestOf`). No grant is used: neither the order of operations nor
their success matters.

*Bodies.* A container of a body that has a place is on its way, or it was sent and
all its children have places, and with `sound` it is stored (`BranchWell`); an
append is done when all its items have places and nothing of it is on the way. So
all of it was sent, whatever failed. Children have positions 1, 2, ... in
the order of the body (`KidsInLine`), and items those that the one record their
request holds counted out (`ItemsInLine`), so that the containers of a body are
apart whatever others do.

*Links.* With `serial` and `sound` all that is under way is of one request
(`OneAtATime`, `OnlyOne`). Then what is stored, and what is about to be, hangs from
what is stored (`Linked`), and a delete removes with a container all below it: by
`PlacesInv` these are the ones whose places begin with its own.

*Counters.* With all four, what is stored, or whose insert is on its way, has a
position that its parent's stored record has counted (`CountsWell`): an insert is
sent after the update, updates come in the order of their counts (`CountUp`, for
which `ordered` is needed), and a save writes back the count that is there
(`FreshWell`, for which `fresh` is). So an append counts on from there, and what
is stored or on its way stays apart (`LiveApart`). Each of the four is needed: a
proof without it stops at a behaviour described in section 3.

`ThreadServerProofs` proves, for any jobs, threads, numbers of containers and
requests of the code, from `ThreadAssumption`:

- `AnswersOnceAndWhole` (`OneWholeAnswer`), and `ThreadInvariance` (`ThreadInv`).

*The argument.* That `done` was called `total` times means that all results are
there only if it was called once for each container. `KeysInv` says that each
container of a job is in one place: with the message that brings the job, in a
turn, with a request on its way, in the supply chain, with a response, or, once
`done` was called for it, among the results. So a job that was not `careless` has
as many results as calls (`AnswersInv`), and at `total` they are all.

`ContractResolverProofs` proves, for any set of trees of contracts, from
`ConstantsAssumption`, `TreeAssumption`, `PipesAssumption` and `NullAssumption` (null
is not a list), all safety properties of its runs that hold:

- `MergesAreSums` (`MergeIsSum`), `PipesInOrder` (`PipeInOrder`), `ErrorsGoUp`
  (`ErrorsReachClient`), `SentStays` (`SentIsFinal`), `ContractTypes` (`TypeOK`), and `ContractInvariance`
  (`CInv`), from which they follow.

*The argument.* What is true of a contract depends on the tree below it, and no
induction over a tree is needed because each contract can be described by its
parts alone: `MergeWell` and `PipeWell` say what a contract that runs has done, by
the phases and responses of its parts, and `Resolved` what one that has answered
answered with. `Placed` goes up instead: what is active is a part of a contract
that runs. So a step, which is about one contract and its part, leaves the
statement about any other as it was (`Untouched`). That nothing is active when
the client has its response, and that an error in a merge of merges is at the root
in the end, follow from a topmost request of a set, which `TreeAssumption` gives.
That a merge holds the answers of the parts it has heard is `SumOf`: its body is
their concatenation in some order. `SumOfMore` adds one more at the end, for which
the recursion of `FlattenSeq` is unfolded once and for all (`FlattenAppend`); the
order in which they answered is the one that exists.

`SelectProofs` proves, for any lines and positions of any containers, any
collections, and any requests, from `SelectAssumption` (a line ends in its
container and begins with the lines of those on it; a collection begins as a tree
in which no place is used twice), all safety properties of the run:

- `FindsAll` (`NothingLost`), `FindsNothingElse` (`NothingInvented`),
  `TreesAreWhole` (`TreesWhole`), `BranchesRight` (`BranchesCarryTheRest`), and
  `SelectInvariance` (`SelectInv`), from which they follow;
- `PlacesStayApart`: at no time two containers have one place, or one is without
  its parent.

*The argument.* Each phase of the running stage is about to select within a
skeleton that holds all that its selectors so far mean among what was always
there (`HasAll`), and only what they mean among all that ever was (`HasOnly`),
unless one has failed, found nothing where nothing means everything (`blank`), or
a place was used twice (`Astray`).
`Before(q, i, p, k, U)` is that meaning among U before selector k of phase p in
stage i. It is defined by recursion over stages and selectors; `Recursion` shows
that such a function over an initial part of the numbers exists and satisfies its
equation, so that `BeforeIs` can unfold it. More is meant among more
(`BeforeGrows`), so a change of the collection, which takes from `always` or adds
to `ever`, keeps what is said of a skeleton (`FitsStays`). A find takes each bound
to the next one (`FindsBetween`), the last find of a stage merges its phases into
the start of the next (`NextWell`), and what is passed on the way has been
announced with just the strings that are left (`Told`). That the trees are whole
needs that a collection is a tree at all times (`UpClosed`). That a find by places
misses nothing is `BelowCovered`, that it finds nothing else `CoveredBelow`: above a
container there is one of each length of line (`OnTheWay`), and it is the one whose
place begins there, if there is no other. That there is none at any one time is
`NextPlace`: an append counts on from what is there.

It also proves of `NestedSet`, for any roots, `Width`, `Depth` and `Digits`, from
`NestedSetAssumption`:

- `EncodingsNest` (`FractionsNest`), `StringsExact` (`QueriesExact`), and
  `NumbersBounded`;
- `TreeQueriesExact`: where `Precise` holds and the places of `Select` are in such
  trees, its `FoundFrom` and `DescendentsOf` are what the comparisons of strings
  find, so that the theorems about requests are about the queries mongo is sent.

*The argument.* The code reduces a continued fraction from its last part to the
first. `Recursion` unfolds it, and `EncodingByTail` turns it round: the fraction of
a place is `Lift(a, e)`, a position and behind it the fraction e of the rest. It
lies strictly between a and a + 1 (`LiftBetween`), so places under different roots
are apart (`LiftApart`), and under the same root two places compare as what is
behind it does (`LiftOrder`). The next sibling shares all but the last position
(`SiblingTail`), so both ends of a place behave alike, and `PlacesNest` follows by
induction on the length, which sets of numbers (`UpTo`) make possible without an
operator as a parameter. For the strings, different fractions differ by at least
one over the product of their denominators, and cutting off digits loses less
than that (`ValueOrder`); a denominator grows by the factor `Width + 2` with each
position at most (`DenominatorBounded`). Strings of the same length compare as the
numbers do (`StringsAre`, `ValueFits`).

*Only model-checked.*

- Liveness, and `ENABLED`: `EveryRootAnswered`, `Answered`, `EveryRequestAnswered`,
  `AnsweredUnlessLost`, `ListenerConnects`, `Delivered`, `AnsweredAtLast`,
  `AnsweredUnlessBroken`.
- What section 4 refutes.

## 6. Plan

Done: the holding bay, the contract resolver, both sides of quarrydb, the nested
set, the reception with the warehouses behind it, discovery, switchboards, portals
and the thread server, each with its proof. Left:

1. A contract worker that restarts (its bay has another id, and announcements
   to the old one are lost), and several receptions in one model with
   `Discovery`.
2. Theorems about those, and the refinements among them.
