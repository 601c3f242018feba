SPECIFICATION RetrySpec
CONSTANTS
    i1 = i1
    NoInstance = NoInstance
    Instances = {i1}
    MaxTask = 2
    LastStage = 3
    ErrCap = 1
    MaxFault = 1
    MaxCrash = 1
    MaxStop = 1
    MaxAge = 0
INVARIANTS
    TypeOK
PROPERTIES
    StaysDeleted
    ReopenedBySource
    WaitingIsTaken
