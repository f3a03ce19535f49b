------------------------------ MODULE QuarryDB ------------------------------
(***************************************************************************)
(* The quarrydb supplier (supplier/quarrydb): trees of containers in one   *)
(* mongo collection.  A container's place is its portal, the positions on  *)
(* the way down to it; a container counts the children it ever had, and    *)
(* the next one gets the next number.  NestedSet shows what the left and   *)
(* right values made from portals are worth; here a portal stands for      *)
(* them.                                                                   *)
(*                                                                         *)
(* Every handler reads, thinks and writes, and mongo does one operation at *)
(* a time: an action is one operation of mongo with all that the callback  *)
(* does up to the operations it sends next.  `wire` holds the operations   *)
(* under way.  What is under the supplier's control ends there; `granted'  *)
(* says what it may rely on, and a promise that needs something of it says *)
(* what.                                                                   *)
(***************************************************************************)
EXTENDS Integers, Sequences, FiniteSets, SequencesExt

CONSTANTS Docs,       \* containers, by quarryid
          Requests,
          Items,      \* request -> the containers its body appends, in order
          Kids,       \* container -> the children it has in that body
          Grants,     \* what the supplier may rely on: subsets of Favours
          NoDoc

Favours == {"serial",  \* one request at a time
            "ordered", \* mongo does operations in the order they were sent
            "fresh",   \* a client saves what it just read
            "sound"}   \* mongo fails no operation

\* A body brings containers that no other has: what the clients and the append
\* make are fresh quarryids.
BodiesApart ==
    /\ \A r, q \in Requests : \A m \in DOMAIN Items[r], n \in DOMAIN Items[q] :
           Items[r][m] = Items[q][n] => r = q /\ m = n
    /\ \A d, x \in Docs : \A m \in DOMAIN Kids[d], n \in DOMAIN Kids[x] :
           Kids[d][m] = Kids[x][n] => d = x /\ m = n
    /\ \A r \in Requests, x \in Docs : \A m \in DOMAIN Items[r], n \in DOMAIN Kids[x] :
           Items[r][m] # Kids[x][n]

ASSUME ConstantsAssumption ==
    /\ NoDoc \notin Docs
    /\ Items \in [Requests -> Seq(Docs)]
    /\ Kids \in [Docs -> Seq(Docs)]
    /\ Grants \subseteq SUBSET Favours
    /\ IsFiniteSet(Docs)
    /\ BodiesApart

VARIABLES
    db,      \* container -> its record in the collection
    mem,     \* container -> its record in the memory of the append
    held,    \* request -> the record it loaded; a save keeps its body here
    target,  \* request -> the container it is addressed to, NoDoc for the top
    pc,      \* request -> how far it is
    item,    \* append -> the item of its body being appended
    wire,    \* the operations sent to mongo
    stored,  \* the containers that were ever inserted (history)
    granted  \* what this supplier may rely on

vars == <<db, mem, held, target, pc, item, wire, stored, granted>>

\* meta: quarryportal, parent_id and next_child_position.
Record(portal, parent, npos) == [portal |-> portal, parent |-> parent, npos |-> npos]

Absent == Record(<<>>, NoDoc, 0)

Present(rec) == rec # Absent

Phases == {"idle",
           "loading",   \* an append reads its target
           "waiting",   \* for the timer in front of the mapreduce
           "appending",
           "saving",
           "deleting",
           "done",      \* answered
           "failed"}    \* answered with an error

Ended == {"done", "failed"}

IsAppend(r) == Items[r] # <<>>

\* What an operation is about: the request, the container whose record it
\* reads or writes, the record, and the container appended with it.
Op(op, r, at, rec, d) == [op |-> op, req |-> r, at |-> at, rec |-> rec, doc |-> d]

Init ==
    /\ db = [d \in Docs |-> Absent]
    /\ mem = [d \in Docs |-> Absent]
    /\ held = [r \in Requests |-> Absent]
    /\ target = [r \in Requests |-> NoDoc]
    /\ pc = [r \in Requests |-> "idle"]
    /\ item = [r \in Requests |-> 1]
    /\ wire = <<>>
    /\ stored = {}
    /\ granted \in Grants

-----------------------------------------------------------------------------
(* Positions.                                                                *)

\* parent_data.meta.next_child_position++.
Claim(rec) == [rec EXCEPT !.npos = @ + 1]

\* Variant: the place of a root.
ChildAtTop(parent, prec) == Record(<<prec.npos>>, parent, 0)

\* The child that was just counted.
Child(parent, prec) == Record(Append(prec.portal, prec.npos), parent, 0)

RootPositions == {db[d].portal[1] : d \in {x \in Docs : Present(db[x]) /\ db[x].parent = NoDoc}}

Highest(S) == CHOOSE m \in S : \A n \in S : n <= m

\* Variant: the position in use.
LastRootPosition == Highest(RootPositions \cup {0})

\* getNextRootPosition.
NextRootPosition == Highest(RootPositions \cup {0}) + 1

\* Variant: the container only.
WithinSelf(rec, top) == rec.portal = top.portal

\* Variant: all that is under the same root.
WithinRoot(rec, top) == Present(rec) /\ rec.portal[1] = top.portal[1]

\* left >= top.left and right <= top.right.
Within(rec, top) == Present(rec) /\ IsPrefix(top.portal, rec.portal)

-----------------------------------------------------------------------------
(* The operations a callback sends.                                          *)

\* Variant: the parent is written as it was before it counted the child.
UpdateBefore(r, parent, prec, d) ==
    Op("update", r, parent, [prec EXCEPT !.npos = @ - 1], d)

\* Variant: the child's place is written to the parent.
UpdateSwapped(r, parent, prec, d) ==
    Op("update", r, parent, Child(parent, prec), d)

\* updateContainer: the whole parent, as it is in memory.
Update(r, parent, prec, d) == Op("update", r, parent, prec, d)

\* insertContainer: the whole container.
Insert(r, d, rec) == Op("insert", r, d, rec, d)

\* cascadeInsert for an item of the body: at the top it waits for its turn at
\* the mapreduce, and otherwise the loaded container is the parent.
StartItem(r, n, at, parent, rest) ==
    LET d == Items[r][n]
        counted == Claim(parent)
    IN  /\ item' = [item EXCEPT ![r] = n]
        /\ \/ /\ ~ Present(parent)
              /\ pc' = [pc EXCEPT ![r] = "waiting"]
              /\ held' = [held EXCEPT ![r] = parent]
              /\ wire' = rest
              /\ UNCHANGED mem
           \/ /\ Present(parent)
              /\ pc' = [pc EXCEPT ![r] = "appending"]
              /\ held' = [held EXCEPT ![r] = counted]
              /\ mem' = [mem EXCEPT ![d] = Child(at, counted)]
              /\ wire' = Append(rest, Update(r, at, counted, d))

-----------------------------------------------------------------------------
(* Requests arrive, for the top or a container that was once seen there.     *)

MayStart(r) ==
    /\ pc[r] = "idle"
    /\ "serial" \in granted => \A q \in Requests \ {r} : pc[q] \in Ended \cup {"idle"}

Load(r, d) == Append(wire, Op("load", r, d, Absent, NoDoc))

AppendTop(r) ==
    /\ MayStart(r) /\ IsAppend(r)
    /\ StartItem(r, 1, NoDoc, Absent, wire)
    /\ UNCHANGED <<db, target, stored, granted>>

AppendTo(r, d) ==
    /\ MayStart(r) /\ IsAppend(r)
    /\ d \in stored
    /\ target' = [target EXCEPT ![r] = d]
    /\ pc' = [pc EXCEPT ![r] = "loading"]
    /\ wire' = Load(r, d)
    /\ UNCHANGED <<db, mem, held, item, stored, granted>>

\* The body holds the count of children the client saw last: none at all when
\* it saw the container before it had one.
Save(r, d) ==
    /\ MayStart(r) /\ ~ IsAppend(r)
    /\ d \in stored
    /\ \E n \in 0..db[d].npos :
           /\ "fresh" \in granted => n = db[d].npos
           /\ held' = [held EXCEPT ![r].npos = n]
    /\ target' = [target EXCEPT ![r] = d]
    /\ pc' = [pc EXCEPT ![r] = "saving"]
    /\ wire' = Load(r, d)
    /\ UNCHANGED <<db, mem, item, stored, granted>>

Delete(r, d) ==
    /\ MayStart(r) /\ ~ IsAppend(r)
    /\ d \in stored
    /\ target' = [target EXCEPT ![r] = d]
    /\ pc' = [pc EXCEPT ![r] = "deleting"]
    /\ wire' = Load(r, d)
    /\ UNCHANGED <<db, mem, held, item, stored, granted>>

Arrive(r) ==
    \/ AppendTop(r)
    \/ \E d \in Docs : AppendTo(r, d) \/ Save(r, d) \/ Delete(r, d)

\* The random wait before the mapreduce is over.
Timer(r) ==
    /\ pc[r] = "waiting"
    /\ pc' = [pc EXCEPT ![r] = "appending"]
    /\ wire' = Append(wire, Op("count", r, NoDoc, Absent, Items[r][item[r]]))
    /\ UNCHANGED <<db, mem, held, target, item, stored, granted>>

-----------------------------------------------------------------------------
(* Mongo does the operation at k, and its callback runs.                     *)

Does(k, op) ==
    /\ k \in DOMAIN wire
    /\ "ordered" \in granted => k = 1
    /\ wire[k].op = op

Rest(k) == RemoveAt(wire, k)

\* An operation may fail: whether it is done.
Done == IF "sound" \in granted THEN {TRUE} ELSE BOOLEAN

\* load_containers for an append: a target that is gone loads nothing, and
\* with nothing loaded the items are appended at the top.
LoadTarget(k) ==
    /\ Does(k, "load")
    /\ LET r == wire[k].req
       IN  /\ pc[r] = "loading"
           /\ StartItem(r, 1, target[r], db[target[r]], Rest(k))
    /\ UNCHANGED <<db, target, stored, granted>>

\* load_containers for a save: the body is laid over the record.
LoadSaved(k) ==
    /\ Does(k, "load")
    /\ LET r == wire[k].req
           d == wire[k].at
           body == held[r].npos
           merged == [db[d] EXCEPT !.npos = IF body = 0 THEN @ ELSE body]
       IN  /\ pc[r] = "saving"
           /\ \/ /\ Present(db[d])
                 /\ wire' = Append(Rest(k), Op("write", r, d, merged, NoDoc))
                 /\ UNCHANGED pc
              \/ /\ ~ Present(db[d])
                 /\ wire' = Rest(k)
                 /\ pc' = [pc EXCEPT ![r] = "failed"]
    /\ UNCHANGED <<db, mem, held, target, item, stored, granted>>

\* ensure_skeleton for a delete.
LoadSkeleton(k) ==
    /\ Does(k, "load")
    /\ LET r == wire[k].req
           d == wire[k].at
       IN  /\ pc[r] = "deleting"
           /\ \/ /\ Present(db[d])
                 /\ wire' = Append(Rest(k), Op("remove", r, d, db[d], NoDoc))
                 /\ UNCHANGED pc
              \/ /\ ~ Present(db[d])
                 /\ wire' = Rest(k)
                 /\ pc' = [pc EXCEPT ![r] = "failed"]
    /\ UNCHANGED <<db, mem, held, target, item, stored, granted>>

\* The load of any request fails: it is answered with the error.
LoadFails(k) ==
    /\ Does(k, "load")
    /\ FALSE \in Done
    /\ wire' = Rest(k)
    /\ pc' = [pc EXCEPT ![wire[k].req] = "failed"]
    /\ UNCHANGED <<db, mem, held, target, item, stored, granted>>

\* The mapreduce over the roots.  One that fails has no results, and the highest
\* position is taken to be 0.
CountRoots(k, done) ==
    /\ Does(k, "count")
    /\ LET r == wire[k].req
           d == wire[k].doc
           rec == Record(<<IF done THEN NextRootPosition ELSE 1>>, NoDoc, 0)
       IN  /\ mem' = [mem EXCEPT ![d] = rec]
           /\ wire' = Append(Rest(k), Insert(r, d, rec))
    /\ UNCHANGED <<db, held, target, pc, item, stored, granted>>

\* collection.update without upsert: nothing happens to a container that is
\* gone.
Written(at, rec) == IF Present(db[at]) THEN [db EXCEPT ![at] = rec] ELSE db

\* The callback goes on to the insert whether the parent was written or not.
UpdateParent(k, done) ==
    /\ Does(k, "update")
    /\ db' = IF done THEN Written(wire[k].at, wire[k].rec) ELSE db
    /\ LET d == wire[k].doc
       IN  wire' = Append(Rest(k), Insert(wire[k].req, d, mem[d]))
    /\ UNCHANGED <<mem, held, target, pc, item, stored, granted>>

\* Variant: the item is over with its first branch.
ItemIsOverEarly(r, rest) == TRUE

\* Variant: the item is never over.
ItemIsOverNever(r, rest) == FALSE

\* The async.forEach of every container of the item has called back: nothing
\* of it is under way.
ItemIsOver(r, rest) == \A k \in DOMAIN rest : rest[k].req # r

\* A container is in, or is taken to be: the callback does not look at an error.
\* Its children are numbered at once, each with an update of the container, and
\* go on by themselves; without children, the item may be over, and then the
\* next one starts or the request is answered.
InsertOne(k, done) ==
    /\ Does(k, "insert")
    /\ LET r == wire[k].req
           d == wire[k].at
           kids == Kids[d]
           Counted(n) == [mem[d] EXCEPT !.npos = n]
       IN  /\ db' = IF done THEN [db EXCEPT ![d] = wire[k].rec] ELSE db
           /\ stored' = IF done THEN stored \cup {d} ELSE stored
           /\ \/ /\ kids # <<>>
                 /\ mem' = [x \in Docs |->
                        IF x = d THEN Counted(Len(kids))
                        ELSE IF \E n \in DOMAIN kids : kids[n] = x
                        THEN Child(d, Counted(CHOOSE n \in DOMAIN kids : kids[n] = x))
                        ELSE mem[x]]
                 /\ wire' = Rest(k) \o [n \in DOMAIN kids |->
                                            Update(r, d, Counted(n), kids[n])]
                 /\ UNCHANGED <<held, pc, item>>
              \/ /\ kids = <<>>
                 /\ ~ ItemIsOver(r, Rest(k))
                 /\ wire' = Rest(k)
                 /\ UNCHANGED <<mem, held, pc, item>>
              \/ /\ kids = <<>>
                 /\ ItemIsOver(r, Rest(k))
                 /\ item[r] = Len(Items[r])
                 /\ wire' = Rest(k)
                 /\ pc' = [pc EXCEPT ![r] = "done"]
                 /\ UNCHANGED <<mem, held, item>>
              \/ /\ kids = <<>>
                 /\ ItemIsOver(r, Rest(k))
                 /\ item[r] < Len(Items[r])
                 /\ StartItem(r, item[r] + 1, target[r], held[r], Rest(k))
    /\ UNCHANGED <<target, granted>>

WriteSaved(k) ==
    /\ Does(k, "write")
    /\ db' = Written(wire[k].at, wire[k].rec)
    /\ wire' = Rest(k)
    /\ pc' = [pc EXCEPT ![wire[k].req] = "done"]
    /\ UNCHANGED <<mem, held, target, item, stored, granted>>

RemoveTree(k) ==
    /\ Does(k, "remove")
    /\ db' = [d \in Docs |-> IF Within(db[d], wire[k].rec) THEN Absent ELSE db[d]]
    /\ wire' = Rest(k)
    /\ pc' = [pc EXCEPT ![wire[k].req] = "done"]
    /\ UNCHANGED <<mem, held, target, item, stored, granted>>

\* A save or a delete fails, and says so.
WriteFails(k) ==
    /\ Does(k, "write") \/ Does(k, "remove")
    /\ FALSE \in Done
    /\ wire' = Rest(k)
    /\ pc' = [pc EXCEPT ![wire[k].req] = "failed"]
    /\ UNCHANGED <<db, mem, held, target, item, stored, granted>>

Mongo(k) ==
    \/ LoadTarget(k) \/ LoadSaved(k) \/ LoadSkeleton(k) \/ LoadFails(k)
    \/ \E done \in Done :
           CountRoots(k, done) \/ UpdateParent(k, done) \/ InsertOne(k, done)
    \/ WriteSaved(k) \/ RemoveTree(k) \/ WriteFails(k)

Step ==
    \/ \E r \in Requests : Timer(r)
    \/ \E k \in DOMAIN wire : Mongo(k)

Next == (\E r \in Requests : Arrive(r)) \/ Step

Spec == Init /\ [][Next]_vars

\* Timers fire and mongo does what it was sent; nobody has to ask.
FairSpec == Spec /\ WF_vars(Step)

-----------------------------------------------------------------------------
Records == [portal : Seq(Nat \ {0}), parent : Docs \cup {NoDoc}, npos : Nat]

Ops == [op : {"load", "count", "update", "insert", "write", "remove"},
        req : Requests, at : Docs \cup {NoDoc}, rec : Records,
        doc : Docs \cup {NoDoc}]

\* The variables keep their types.
TypeOK ==
    /\ db \in [Docs -> Records]
    /\ mem \in [Docs -> Records]
    /\ held \in [Requests -> Records]
    /\ target \in [Requests -> Docs \cup {NoDoc}]
    /\ pc \in [Requests -> Phases]
    /\ item \in [Requests -> Nat \ {0}]
    /\ wire \in Seq(Ops)
    /\ stored \subseteq Docs
    /\ granted \in Grants

InDb == {d \in Docs : Present(db[d])}

Children(d) == {x \in InDb : db[x].parent = d}

(* Whatever requests meet in the collection, however mongo orders what they  *)
(* sent, and whatever fails of it.                                           *)

\* parent_id and quarryportal say the same: a container is a root exactly when
\* its portal is one position, and otherwise its portal is its parent's and
\* one position more.  The select handler follows the one (getTreeQuery), the
\* delete handler the other.
LinksAgree ==
    /\ TypeOK
    /\ \A d \in InDb :
        LET portal == db[d].portal
            parent == db[d].parent
        IN  /\ parent = NoDoc <=> Len(portal) = 1
            /\ parent \in InDb => Front(portal) = db[parent].portal

\* The sets of containers that have the children of their own.
Families == {S \in SUBSET Docs : \A d \in S : ToSet(Kids[d]) \subseteq S}

\* Containers of a body and all that is below them in it.
WithKids(items) == {d \in Docs : \A S \in Families : items \subseteq S => d \in S}

\* The containers of a body.
SentBy(r) == WithKids(ToSet(Items[r]))

\* An append is answered when all of its body has been sent to mongo, however
\* deep, and mongo is done with it; if mongo fails nothing, all of it is stored.
AnsweredIsStored ==
    \A r \in Requests : IsAppend(r) /\ pc[r] = "done" =>
        /\ \A d \in SentBy(r) : Present(mem[d])
        /\ \A k \in DOMAIN wire : wire[k].req # r
        /\ "sound" \in granted => SentBy(r) \subseteq stored

\* A stored container stays where it is: writing it again, as a parent or for
\* a save, with whatever was in memory, does not move it.
PlaceIsFinal ==
    [][\A d \in Docs : Present(db[d]) /\ Present(db'[d]) =>
           /\ db'[d].portal = db[d].portal
           /\ db'[d].parent = db[d].parent]_vars

\* Every request that arrives is answered, an append included, whose body
\* fans out into operations that are counted back in, whatever fails of them.
EveryRequestAnswered ==
    \A r \in Requests : pc[r] # "idle" ~> pc[r] \in Ended

(* What needs something granted.                                             *)

Apart(docs) == \A d, x \in docs : d # x => db[d].portal # db[x].portal

\* No two containers are in the same place: left and right values that a
\* delete or a tree select compares belong to one container.  Whatever goes wrong
\* this holds of an item and what is below it, and of a whole body when its
\* target was found, though their updates and inserts are all under way
\* together (append.js L166, L198); two items of one body at the top may still
\* collide, when the first is deleted and the second gets its position.
UniquePlaces ==
    /\ \A r \in Requests :
        /\ \A n \in DOMAIN Items[r] : Apart(WithKids({Items[r][n]}) \cap InDb)
        /\ Present(held[r]) => Apart(SentBy(r) \cap InDb)
    /\ granted = Favours => Apart(InDb)

\* A container has counted every child it has, so that the next is new.
ChildrenCounted ==
    granted = Favours =>
        \A d \in InDb : \A x \in Children(d) : Last(db[x].portal) <= db[d].npos

\* A container that is not a root has its parent in the collection.
NoOrphans ==
    {"serial", "sound"} \subseteq granted => \A d \in InDb : db[d].parent \in InDb \cup {NoDoc}

\* A container and what its parent links hang below it.
Subtree(d) ==
    {x \in InDb : \A S \in SUBSET InDb :
        d \in S /\ (\A y \in S : Children(y) \subseteq S) => x \in S}

\* A delete, which goes by left and right values, removes the container and
\* all that hangs below it by parent_id, and nothing else.
DeleteIsSubtree ==
    [][\A r \in Requests :
           granted = Favours /\ pc[r] = "deleting" /\ pc'[r] = "done" =>
               InDb \ InDb' = Subtree(target[r])]_vars

(* What the code says of itself.                                             *)

\* "get the next available position index for this container" (append.js L56):
\* a position that a root is given is not the position of another one.
RootPositionAvailable ==
    \A d, x \in InDb : d # x /\ db[d].parent = NoDoc /\ db[x].parent = NoDoc =>
        db[d].portal # db[x].portal
=============================================================================
