CONSTANTS
    r1 = r1
    r2 = r2
    b1 = b1
    b2 = b2
    b3 = b3
    Roots <- MCRoots
    Branches <- MCBranches
    NoId = NoId
SPECIFICATION FairSpec
CONSTRAINT Bounded
INVARIANTS NoEarlyReply PromiseInv
PROPERTIES HandedOnFinal KeepsPromise EveryRootAnswered
CHECK_DEADLOCK FALSE
