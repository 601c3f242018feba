SPECIFICATION Spec
CHECK_DEADLOCK FALSE
CONSTANTS
    Requests = {r1, r2}
    Orders = {"o1", "o2"}
    Team = {"o1"}
    Withdrawals = {"t1", "t2", "s1", "s2"}
    RowsOf <- MCRowsOf
    Files <- MCFiles
    MaxFaults = 2
SYMMETRY Symmetry
INVARIANTS
    TypeOK
    EarlierFirst
    EntriesCounted
    CompletedIsPaid
PROPERTIES
    PaidInShop
    SecondUpload
