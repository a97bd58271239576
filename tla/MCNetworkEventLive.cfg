SPECIFICATION FairSpec
CHECK_DEADLOCK FALSE
CONSTANTS
    server = server
    Client = {c1, c2}
    Event = {e1}
    MaxCalls = 2
    MaxFires = 1
    Faults = {"leave", "raise"}
PROPERTIES
    InvokeReturns
    FireArrives
