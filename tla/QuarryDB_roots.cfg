CONSTANTS
    c1 = c1
    c2 = c2
    c3 = c3
    c4 = c4
    c5 = c5
    r1 = r1
    r2 = r2
    r3 = r3
    r4 = r4
    Docs <- MCDocs
    Requests <- MCRequests
    Items <- MCItems
    Kids <- MCKids
    Grants = {{"ordered", "fresh", "sound"}}
    NoDoc = NoDoc
SPECIFICATION MCSpec
INVARIANTS RootPositionAvailable
CHECK_DEADLOCK FALSE
