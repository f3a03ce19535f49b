CONSTANTS
    Servers = {"s1", "s2"}
    Clients = {"a", "b"}
    Nowhere = Nowhere
    Keys <- MCKeys
    Bodies <- Messages
    Portals <- MCPortals
    Radios = {"r"}
    Home <- MCHome
    Own <- MCOwn
    Containers <- MCContainers
    Root = "root"
    Place <- MCPlace
    Workers = {"a"}
    Listeners <- MCListeners
    MaxMessages = 2
SPECIFICATION MCSpec
INVARIANTS MeshInv FirstRouteWins InLine CopyIsTree
PROPERTIES Delivered KeepsBus
CHECK_DEADLOCK FALSE
