SPECIFICATION Spec
CHECK_DEADLOCK FALSE

CONSTANTS
    Nil = Nil
    game = game
    Workspace = Workspace
    Players = Players
    ServerStorage = ServerStorage
    PartClass = NetworkEvent
    PlayerClass = Player
    MaxMade = 3
    Hold = {}
    Parts = {p1, p2}
    Conns = {c1}
    Targets = {Nil, Workspace, p1, p2}
    Doomed = {p1}
    Names = {m1}
    Habits = {"leave"}
    Owners = {}
    MaxOps = 4
INVARIANTS
    ClientsSurvive
