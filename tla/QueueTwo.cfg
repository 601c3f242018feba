SPECIFICATION Spec
CONSTANTS
    i1 = i1
    i2 = i2
    NoInstance = NoInstance
    Instances = {i1, i2}
    MaxTask = 1
    LastStage = 3
    ErrCap = 1
    MaxFault = 1
    MaxCrash = 1
    MaxStop = 0
    MaxAge = 1
SYMMETRY Symmetry
INVARIANTS
    AttemptsBounded
PROPERTIES
    ImplementsJobs
