CONSTANTS
    Tops = {1, 2, 9, 10, 11}
    Width = 3
    Depth = 4
    Digits = 5
SPECIFICATION Trees
INVARIANTS FractionsNest QueriesExact
CHECK_DEADLOCK FALSE
