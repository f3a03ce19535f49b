CONSTANTS
    c1 = c1
    c2 = c2
    c3 = c3
    c4 = c4
    c5 = c5
    r1 = r1
    r2 = r2
    r3 = r3
    r4 = r4
    Docs <- MCDocs
    Requests <- MCRequests
    Items <- MCItems
    Kids <- MCKids
    Grants = {{"serial", "ordered", "fresh", "sound"}, {"serial", "sound"}, {"sound"}, {"serial"}, {"ordered", "fresh"}}
    NoDoc = NoDoc
SPECIFICATION MCSpec
INVARIANTS LinksAgree AnsweredIsStored UniquePlaces ChildrenCounted NoOrphans
PROPERTIES PlaceIsFinal EveryRequestAnswered DeleteIsSubtree
CHECK_DEADLOCK FALSE
