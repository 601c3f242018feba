SPECIFICATION FairSpec
CHECK_DEADLOCK FALSE
CONSTANTS
    o1 = o1
    o2 = o2
    o3 = o3
    NoOrder = NoOrder
    Order = {o1, o2, o3}
    AdjType = {"fund", "commission"}
    MaxTime = 11
    FirstOrder = 3
    Files <- MCFiles
    Known = {o1, o2}
    Cancelled = {o2}
    Problems = {}
    Returned = {o1}
    Changing = {o1, o3}
    MaxImport = 2
INVARIANTS
    TypeOK
    DiffTracksStatement
    Balanced
    GroupSettled
    LostListed
    SettledAgain
PROPERTIES
    ImportEnds
