SPECIFICATION Spec
CHECK_DEADLOCK FALSE
CONSTANTS
    Garbage = Garbage
INVARIANTS
    ArgsArrive
    TreesAgree
    SettingsRead
    ScriptsAuthentic
    PrimitivesExact
    CurveExact
    SignaturesExact
