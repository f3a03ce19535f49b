CONSTANTS
    s1 = s1
    s2 = s2
    l1 = l1
    l2 = l2
    l3 = l3
    Servers <- MCServers
    Listeners <- MCListeners
    Setups <- MCSetups
    Worry = 3
    NoServer = NoServer
    NoId = NoId
SPECIFICATION FairSpec
PROPERTIES MeshMovesOn
CHECK_DEADLOCK FALSE
