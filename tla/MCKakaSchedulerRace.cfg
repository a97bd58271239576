SPECIFICATION Spec
CONSTANTS
    MaxTasks = 2
    MaxRequests = 1
    MaxNow = 1
PROPERTIES
    FirstAnswerWins
