SPECIFICATION Spec
CHECK_DEADLOCK FALSE
SYMMETRY Symmetric
CONSTANTS
    Nil = Nil
    Root = Root
    Parts = {a}
    Names = {n, DefaultName}
    DefaultName = DefaultName
    Coroutine = {s1, s2}
    NoAnswer = NoAnswer
    Answers <- AnyAnswer
    MaxRequests = 3
    WaitedOn = {Root}
    MaxConns = 1
    MaxFires = 2
INVARIANTS
    NoChildMissed
    NoFireMissed
PROPERTIES
    AnswerIsWanted
