CONSTANTS
    outer = outer
    inner = inner
    l1 = l1
    l2 = l2
    l3 = l3
    l4 = l4
    Contracts <- MCContracts
    Leaves <- MCLeaves
    Root = outer
    Shapes <- MCShapes
    NoBody = NoBody
    NoNode = NoNode
SPECIFICATION FairSpec
INVARIANTS MergeIsSum PipeInOrder ErrorsReachClient
PROPERTIES SentIsFinal Answered
CHECK_DEADLOCK FALSE
