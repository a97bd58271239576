SPECIFICATION Spec
CHECK_DEADLOCK FALSE
SYMMETRY Symmetric
CONSTANTS
    Nil = Nil
    game = game
    Workspace = Workspace
    Players = Players
    ServerStorage = ServerStorage
    PartClass = NetworkEvent
    PlayerClass = Player
    MaxMade = 3
    Hold = {1}
    Parts = {p1, p2}
    Conns = {c1}
    Targets = {game, Workspace, ServerStorage, p1, p2}
    Doomed = {p1, p2, Workspace, c1}
    Names = {m1, m2}
    Habits = {}
    Owners = {c1}
    MaxOps = 4
INVARIANTS
    TypeOK
    NetIdsUnique
    ShownIsWatched
    ClientMirrors
PROPERTIES
    NetIdStable
    ServerOnlyStays
