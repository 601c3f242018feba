SPECIFICATION TwoSpec
CHECK_DEADLOCK FALSE
CONSTANTS
    o1 = o1
    o2 = o2
    o3 = o3
    NoOrder = NoOrder
    Order = {o1, o2, o3}
    AdjType = {"fund"}
    MaxTime = 7
    FirstOrder = 1
    Files <- MCFiles
    Known = {o1, o3, NoOrder}
    Cancelled = {}
    Problems = {o3}
    Returned = {o1}
    Changing = {}
    MaxImport = 2
INVARIANTS
    SettledTogether
    PublishedOnce
