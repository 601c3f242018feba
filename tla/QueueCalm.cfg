SPECIFICATION FairSpec
CONSTANTS
    i1 = i1
    NoInstance = NoInstance
    Instances = {i1}
    MaxTask = 3
    LastStage = 4
    ErrCap = 1
    MaxFault = 0
    MaxCrash = 0
    MaxStop = 1
    MaxAge = 0
INVARIANTS
    PromiseKept
PROPERTIES
    LockReleased
    JobsServed
