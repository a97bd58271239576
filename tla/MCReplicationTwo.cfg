SPECIFICATION FairSpec
CHECK_DEADLOCK FALSE
CONSTANTS
    Nil = Nil
    game = game
    Workspace = Workspace
    Players = Players
    ServerStorage = ServerStorage
    PartClass = NetworkEvent
    PlayerClass = Player
    MaxMade = 3
    Hold = {1}
    Parts = {p1}
    Conns = {c1, c2}
    Targets = {game, Workspace, p1}
    Doomed = {p1, Players, c1, c2}
    Names = {m1}
    Habits = {}
    Owners = {c1, c2}
    MaxOps = 3
INVARIANTS
    ClientMirrors
    NoStaleOwner
    PlayersMirrorConnections
PROPERTIES
    JoinCompletes
