SPECIFICATION Spec
CHECK_DEADLOCK FALSE

CONSTANTS
    Nil = Nil
    game = game
    Workspace = Workspace
    Players = Players
    ServerStorage = ServerStorage
    PartClass = NetworkEvent
    PlayerClass = Player
    MaxMade = 3
    Hold = {}
    Parts = {p1}
    Conns = {c1}
    Targets = {Workspace}
    Doomed = {p1}
    Names = {m1}
    Habits = {}
    Owners = {}
    MaxOps = 1
INVARIANTS
    LocalPlayerKnown
