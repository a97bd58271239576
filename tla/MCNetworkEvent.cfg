SPECIFICATION Spec
CHECK_DEADLOCK FALSE
SYMMETRY Symmetric
CONSTANTS
    server = server
    Client = {c1, c2}
    Event = {e1}
    MaxCalls = 3
    MaxFires = 0
    Faults = {"leave", "destroy", "raise", "unset"}
INVARIANTS
    TypeOK
    AnswerIsMine
    Accounted
PROPERTIES
    KeepsPromise
