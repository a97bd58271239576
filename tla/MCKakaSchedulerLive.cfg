SPECIFICATION FairSpec
CONSTANTS
    MaxTasks = 2
    MaxRequests = 2
    MaxNow = 1
PROPERTIES
    AnsweredResumes
    SleeperResumes
    TimeoutResumes
    RefinesRequests
