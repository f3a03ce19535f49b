CONSTANTS
    b1 = b1
    b2 = b2
    q1 = q1
    q2 = q2
    Backends = {b1, b2}
    Requests = {q1, q2}
    Mounts <- MCMounts
    Slow <- MCSlow
    Addresses <- MCAddresses
    Alike <- MCAlike
    Dotted <- MCDotted
    NoBackend = NoBackend
    NoDepartment = "none"
    NotFound = NotFound
SPECIFICATION FairSpec
INVARIANTS HandledAsRouted AnsweredOnce NothingKept
PROPERTIES RoutedRight AnsweredUnlessLost
CHECK_DEADLOCK FALSE
