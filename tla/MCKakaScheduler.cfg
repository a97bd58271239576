SPECIFICATION Spec
CONSTANTS
    MaxTasks = 3
    MaxRequests = 2
    MaxNow = 1
INVARIANTS
    TypeOK
    RequestIdsUnique
    NoLostWakeup
PROPERTIES
    SpawnOrder
    IterationStable
    AnsweredOnce
