CONSTANTS
    Nodes <- MCNodes
    Line <- MCLine
    Position <- MCPosition
    Branching = {"c"}
    Top = Top
    Queries <- MCQueries
    Collections <- MCCollections
    MaxChanges = 2
SPECIFICATION Spec
INVARIANTS NothingLost NothingInvented TreesWhole BranchesCarryTheRest
PROPERTIES AnsweredAtLast
CHECK_DEADLOCK FALSE
