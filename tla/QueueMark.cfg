SPECIFICATION Spec
CONSTANTS
    i1 = i1
    NoInstance = NoInstance
    Instances = {i1}
    MaxTask = 2
    LastStage = 3
    ErrCap = 1
    MaxFault = 0
    MaxCrash = 0
    MaxStop = 0
    MaxAge = 0
INVARIANTS
    MarkedReadsError
