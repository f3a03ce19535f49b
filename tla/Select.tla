------------------------------- MODULE Select -------------------------------
(***************************************************************************)
(* A select request, from the container function of a client to the        *)
(* results (container/proto.js, warehouse/resolveselector.js, supplier/    *)
(* quarrydb/select.js and ensure_skeleton.js).  It is a list of strings,   *)
(* stages to the resolver, which run one after the other; a stage is a     *)
(* list of phases, which run side by side; a phase is a list of selectors, *)
(* each of which is a request to the supplier that selects within what the *)
(* last one found, the skeleton.                                           *)
(*                                                                         *)
(* The collection changes while this goes on, one whole container or       *)
(* subtree at a time: QuarryDB says what is behind a change, and NestedSet *)
(* that the comparisons of left and right say what the places do.          *)
(***************************************************************************)
EXTENDS Naturals, SequencesExt

CONSTANTS
    Nodes,          \* the containers there may be
    Line,           \* container -> the way down to it, itself included
    Position,       \* container -> its number among those below its parent
    Branching,      \* those with a branch among their select events
    Top,            \* the collection itself, which is no container
    Queries,        \* the requests there may be
    Collections,    \* the containers there may be to begin with
    MaxChanges      \* bound: changes of the collection

VARIABLES
    query,      \* [from, bare, strings]: bare is a request by url, of which
                \* only the id is known
    strings,    \* stages to come
    runs,       \* phase of the stage -> its state
    found,      \* phase of the stage -> what it has found
    announced,  \* branch requests broadcast, with the selectors they take along
    reply,      \* what each phase of the last stage found
    db,         \* the collection
    changes,    \* how often it has changed (history)
    always,     \* what was there all the time (history)
    ever,       \* what was there some of the time (history)
    failed,     \* an operation of mongo failed (history)
    blank       \* an empty skeleton was taken for the top (history)

resolver == <<strings, runs, found, announced, reply, blank>>
collection == <<db, changes, always, ever>>
vars == <<query, resolver, collection, failed>>

NotYet == <<>>

-----------------------------------------------------------------------------
(* Places *)

StrictlyBelow(m) == {n \in Nodes : IsStrictPrefix(Line[m], Line[n])}

Children(m) == {n \in Nodes : Front(Line[n]) = Line[m]}

Roots == {n \in Nodes : Len(Line[n]) = 1}

\* quarryportal, which left and right stand for: the number of a root that was
\* deleted is used again, and with it all places below.
Place == [n \in Nodes |-> [k \in DOMAIN Line[n] |-> Position[Line[n][k]]]]

Covered(m) == {n \in Nodes : IsStrictPrefix(Place[m], Place[n])}

\* No place is used twice.
Apart(S) == \A m, n \in S : Place[m] = Place[n] => m = n

IsTree(S) ==
    \A n \in S : n \in Roots \/ \E m \in S : n \in Children(m)

\* getTreeQuery: parents and children are told by id, the others by left and
\* right.
FoundFrom(splitter, m, n) ==
    CASE splitter = ">" -> n \in Children(m)
      [] splitter = "<" -> m \in Children(n)
      [] splitter = "<<" -> m \in Covered(n)
      [] OTHER -> n \in Covered(m)

\* What a selector of a request asks for (inspectselect.js).
Selector ==
    [splitter : STRING, want : SUBSET Nodes, byid : BOOLEAN, tree : BOOLEAN]

NonEmptySeq(S) == Seq(S) \ {<<>>}

\* Containers have their place below their parent, and those of a collection
\* each its own (UniquePlaces of QuarryDB).  What is parsed has no empty phase
\* (parse of inspectselect.js).
ASSUME SelectAssumption ==
    /\ Top \notin Nodes
    /\ Branching \subseteq Nodes
    /\ Line \in [Nodes -> NonEmptySeq(Nodes)]
    /\ \A n \in Nodes : Last(Line[n]) = n
    /\ \A n \in Nodes : \A k \in DOMAIN Line[n] :
           Line[Line[n][k]] = SubSeq(Line[n], 1, k)
    /\ Position \in [Nodes -> Nat \ {0}]
    /\ \A S \in Collections : S \subseteq Nodes /\ IsTree(S) /\ Apart(S)
    /\ \A q \in Queries :
          /\ q.from \in Nodes \cup {Top}
          /\ q.bare \in BOOLEAN
          /\ q.bare => q.from # Top /\ Len(q.strings) = 1
          /\ q.strings \in NonEmptySeq(NonEmptySeq(NonEmptySeq(Selector)))

-----------------------------------------------------------------------------
(* The supplier *)

\* getQuery: what a selector asks for within a skeleton.  An id is looked for
\* everywhere, and with no skeleton a child is a root, whatever else is asked.
Selected(sel, skeleton) ==
    CASE sel.splitter = ">" /\ skeleton = {} -> Roots
      [] sel.splitter # ">" /\ skeleton = {} -> sel.want
      [] skeleton # {} /\ sel.byid -> sel.want
      [] OTHER -> {n \in sel.want : \E m \in skeleton : FoundFrom(sel.splitter, m, n)}

\* Variant: only what is right below the results is loaded with them.
ChildrenOf(top) == db \cap UNION {Children(m) : m \in top}

\* The query for the descendents of the results.
DescendentsOf(top) == db \cap UNION {Covered(m) : m \in top}

\* The tree under a result: descendents are put below their parents, by id,
\* copies of results among them, so that a result below another one gets nothing
\* itself.
Under(r, res) ==
    IF r \in res.below THEN {}
    ELSE {n \in res.below \cap StrictlyBelow(r) :
             \A m \in StrictlyBelow(r) : n \in StrictlyBelow(m) => m \in res.below}

-----------------------------------------------------------------------------
(* The resolver *)

Nothing == [top |-> {}, below |-> {}]

Over == [todo |-> <<>>, skeleton |-> {}, op |-> "over"]

\* Variant: the selector that is about to run is not among what is left.
LeftAfter(run, rest) ==
    (IF Len(run.todo) > 1 THEN <<<<Tail(run.todo)>>>> ELSE <<>>) \o rest

\* The selectors a branch takes along: the rest of the phase, this selector
\* included, and the stages to come.
Left(run, rest) == <<<<run.todo>>>> \o rest

\* A selector begins: a branch is announced for each container of the skeleton
\* that has one.  Of a bare one no events are known.
Announcements(run, rest) ==
    IF run.op # "find" THEN {}
    ELSE {[of |-> n, strings |-> Left(run, rest)] :
             n \in run.skeleton \cap Branching}

BeginStage(stage, skeleton, bare, rest) ==
    /\ runs' = [p \in DOMAIN stage |->
                   [todo |-> stage[p], skeleton |-> skeleton,
                    op |-> IF bare THEN "load" ELSE "find"]]
    /\ found' = [p \in DOMAIN stage |-> Nothing]
    /\ strings' = rest
    /\ announced' = announced \cup
          UNION {Announcements(runs'[p], rest) : p \in DOMAIN stage}

\* The client reverses the strings, and the resolver does so again.
Shipped(q) == Reverse(q.strings)

Handle ==
    /\ runs = <<>>
    /\ LET stages == Reverse(Shipped(query)) IN
       BeginStage(Head(stages), {query.from} \ {Top}, query.bare, Tail(stages))
    /\ UNCHANGED <<query, reply, collection, failed, blank>>

\* Variant: the skeleton of the phase is not replaced.
SteppedWide(run, top) ==
    IF top = {} \/ Len(run.todo) = 1 THEN Over
    ELSE [run EXCEPT !.todo = Tail(@)]

\* Variant: nobody is told of the end of a phase that finds nothing.
SteppedStuck(run, top) ==
    IF top = {} THEN [run EXCEPT !.op = "lost"]
    ELSE IF Len(run.todo) = 1 THEN Over
    ELSE [run EXCEPT !.todo = Tail(@), !.skeleton = top]

\* A selector of a phase found top: within it goes on with the next one.
Stepped(run, top) ==
    IF top = {} \/ Len(run.todo) = 1 THEN Over
    ELSE [run EXCEPT !.todo = Tail(@), !.skeleton = top]

\* Variant: the results of the phases replace each other.
MergedLast(fs) == fs[Len(fs)].top

\* What the phases of a stage found.
Merged(fs) == UNION {fs[p].top : p \in DOMAIN fs}

\* Phase p goes on as run, having found res.  When all phases are over so is
\* the stage: its results are the skeleton of the next one, or the reply.
Continues(p, run, res) ==
    LET rs == [runs EXCEPT ![p] = run]
        fs == [found EXCEPT ![p] = res]
        over == \A q \in DOMAIN rs : rs[q].op = "over"
    IN  \/ /\ ~over
           /\ runs' = rs /\ found' = fs
           /\ announced' = announced \cup Announcements(run, strings)
           /\ UNCHANGED <<strings, reply, blank>>
        \/ /\ over /\ strings # <<>>
           /\ BeginStage(Head(strings), Merged(fs), FALSE, Tail(strings))
           /\ blank' = (blank \/ Merged(fs) = {})
           /\ UNCHANGED reply
        \/ /\ over /\ strings = <<>>
           /\ runs' = rs /\ found' = fs /\ reply' = fs
           /\ UNCHANGED <<strings, announced, blank>>

\* ensure_skeleton: a bare skeleton is loaded first, and may be gone.
Load(p) ==
    /\ runs[p].op = "load"
    /\ LET skeleton == runs[p].skeleton \cap db IN
       /\ runs' = [runs EXCEPT ![p].skeleton = skeleton, ![p].op = "find"]
       /\ blank' = (blank \/ skeleton = {})
    /\ UNCHANGED <<query, strings, found, announced, reply, collection, failed>>

\* The find of a selector.  Only the last selector of a phase of the last
\* stage may ask for trees.
Find(p) ==
    LET run == runs[p]
        sel == Head(run.todo)
        last == Len(run.todo) = 1
        top == db \cap Selected(sel, run.skeleton)
        res == IF last THEN [Nothing EXCEPT !.top = top] ELSE Nothing
    IN  /\ run.op = "find"
        /\ \/ /\ last /\ strings = <<>> /\ sel.tree /\ top # {}
              /\ runs' = [runs EXCEPT ![p].op = "tree"]
              /\ found' = [found EXCEPT ![p] = res]
              /\ UNCHANGED <<strings, announced, reply, blank>>
           \/ /\ ~(last /\ strings = <<>> /\ sel.tree /\ top # {})
              /\ Continues(p, Stepped(run, top), res)
        /\ UNCHANGED <<query, collection, failed>>

\* The second find, of the descendents.
Descend(p) ==
    /\ runs[p].op = "tree"
    /\ Continues(p, Over,
                 [found[p] EXCEPT !.below = DescendentsOf(found[p].top)])
    /\ UNCHANGED <<query, collection, failed>>

\* Mongo fails.  The phase is over and the others go on, as if it had found
\* nothing; the error of a second find is not even looked at.
Fail(p) ==
    /\ runs[p].op \in {"load", "find", "tree"}
    /\ failed' = TRUE
    /\ Continues(p, Over, found[p])
    /\ UNCHANGED <<query, collection>>

-----------------------------------------------------------------------------
(* Other requests, each done at once *)

\* An append: a root gets the position after the highest there is, a child one
\* after all that its parent ever counted.
Added(n) ==
    /\ n \notin ever
    /\ \/ /\ n \in Roots
          /\ \A m \in Roots \cap db : Position[m] < Position[n]
          /\ \E m \in Roots \cap db : Position[n] = Position[m] + 1
       \/ /\ n \in Roots /\ Roots \cap db = {}
          /\ Position[n] = 1
       \/ \E m \in db :
             /\ n \in Children(m)
             /\ \A l \in ever \cap Children(m) : Position[l] < Position[n]
    /\ db' = db \cup {n}
    /\ ever' = ever \cup {n}
    /\ UNCHANGED always

\* A delete, by left and right.
Removed(n) ==
    /\ n \in db
    /\ db' = db \ ({n} \cup Covered(n))
    /\ always' = always \cap db'
    /\ UNCHANGED ever

Change ==
    /\ changes < MaxChanges
    /\ changes' = changes + 1
    /\ \E n \in Nodes : Added(n) \/ Removed(n)
    /\ UNCHANGED <<query, resolver, failed>>

-----------------------------------------------------------------------------
Init ==
    /\ query \in Queries
    /\ db \in Collections
    /\ query.from \in db \cup {Top}
    /\ always = db /\ ever = db
    /\ changes = 0
    /\ strings = <<>> /\ runs = <<>> /\ found = <<>>
    /\ announced = {}
    /\ reply = NotYet
    /\ failed = FALSE /\ blank = FALSE

Resolve ==
    \/ Handle
    \/ \E p \in DOMAIN runs : Load(p) \/ Find(p) \/ Descend(p) \/ Fail(p)

Next == Resolve \/ Change

Spec == Init /\ [][Next]_vars /\ WF_vars(Resolve)

-----------------------------------------------------------------------------
(* What a request means: each string selects within what the last one        *)
(* selects, in a collection U that does not change.                          *)

\* n is where the splitter says, seen from m.
Related(splitter, m, n) ==
    CASE splitter = ">" -> n \in Children(m)
      [] splitter = "<" -> m \in Children(n)
      [] splitter = "<<" -> m \in StrictlyBelow(n)
      [] OTHER -> n \in StrictlyBelow(m)

Follows(sel, m, n) ==
    IF m = Top /\ sel.splitter = ">" THEN n \in Roots
    ELSE n \in sel.want /\ (sel.byid \/ m = Top \/ Related(sel.splitter, m, n))

\* What the first k selectors of a phase select, from X.
PhaseWithin(X, phase, U) ==
    LET f[k \in 0..Len(phase)] ==
            IF k = 0 THEN X
            ELSE {n \in U : \E m \in f[k - 1] : Follows(phase[k], m, n)}
    IN  f

\* What a request starts from: by url it only means what is there.
Start(q, U) == IF q.bare THEN U \cap {q.from} ELSE {q.from}

\* What the first i strings of a request select.
StagesWithin(q, U) ==
    LET f[i \in 0..Len(q.strings)] ==
            IF i = 0 THEN Start(q, U)
            ELSE LET stage == q.strings[i] IN
                 UNION {PhaseWithin(f[i - 1], stage[p], U)[Len(stage[p])] :
                           p \in DOMAIN stage}
    IN  f

\* What selector k of phase p of string i selects within.
Before(q, i, p, k, U) ==
    PhaseWithin(StagesWithin(q, U)[i - 1], q.strings[i][p], U)[k - 1]

\* What phase p of the last string selects.
Meant(q, p, U) ==
    Before(q, Len(q.strings), p, Len(Last(q.strings)[p]) + 1, U)

\* What is to run from a selector on.
Rest(q, i, p, k) ==
    <<<<SubSeq(q.strings[i][p], k, Len(q.strings[i][p]))>>>>
        \o SubSeq(q.strings, i + 1, Len(q.strings))

Answered == reply # NotYet

\* What was there throughout, and is meant by the selectors among what was
\* there throughout, is found: whatever comes and goes, and in whichever order
\* the phases do (resolveselector.js), unless mongo fails.
NothingLost ==
    Answered /\ ~failed =>
        \A p \in DOMAIN reply :
            Meant(query, p, always) \subseteq reply[p].top

\* What is found was there, and is meant by the selectors among all that was
\* ever there, failures or not (resolveselector.js, select.js), unless an empty
\* skeleton was taken for the top, or the place of a container that was deleted
\* meanwhile was used again.
NothingInvented ==
    Answered /\ ~blank /\ Apart(ever) =>
        \A p \in DOMAIN reply :
            reply[p].top \subseteq Meant(query, p, ever)

\* A result with its tree has all that was below it throughout, if it is not
\* below another result, and what is below it was there (select.js:336-372).
TreesWhole ==
    Answered =>
        \A p \in DOMAIN reply : \A r \in reply[p].top \ reply[p].below :
            /\ Under(r, reply[p]) \subseteq ever
            /\ Last(Last(query.strings)[p]).tree /\ ~failed =>
                  always \cap StrictlyBelow(r) \subseteq Under(r, reply[p])

\* A branch is announced for a container exactly when a selector starts within
\* it, and takes along this selector and all that are to run after it, no more
\* (resolveselector.js:127-144): up to what came and went and took the place of
\* another, what failed, and the container of a bare request, whose events are
\* not loaded.
BranchesCarryTheRest ==
    LET stages == query.strings IN
    /\ ~blank /\ Apart(ever) =>
          \A a \in announced :
              \E i \in DOMAIN stages : \E p \in DOMAIN stages[i] :
                  \E k \in DOMAIN stages[i][p] :
                      /\ a.of \in Before(query, i, p, k, ever)
                      /\ a.strings = Rest(query, i, p, k)
    /\ Answered /\ ~failed =>
          \A i \in DOMAIN stages : \A p \in DOMAIN stages[i] :
              \A k \in DOMAIN stages[i][p] :
                  \A n \in Branching \cap Before(query, i, p, k, always) :
                      \/ query.bare /\ i = 1 /\ k = 1
                      \/ [of |-> n, strings |-> Rest(query, i, p, k)]
                            \in announced

\* Every request is answered: with no results, with failures, with changes.
AnsweredAtLast == <>Answered
=============================================================================
