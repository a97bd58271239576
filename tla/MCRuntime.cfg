SPECIFICATION FairSpec
CHECK_DEADLOCK FALSE
CONSTANTS
    Peer = {p1, p2}
    MaxTransports = 3
INVARIANTS
    EventsReachOwner
    NothingDangles
    ClientsAreConnections
PROPERTIES
    LoopEnds
