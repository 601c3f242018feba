SPECIFICATION FairSpec
CHECK_DEADLOCK FALSE
CONSTANTS
    NoTask = NoTask
    NoShop = NoShop
    i1 = i1
    i2 = i2
    a = a
    b = b
    o1 = o1
    o2 = o2
    w1 = w1
    w2 = w2
    Tasks = {t1, t2}
    Instances = {i1, i2}
    Shops = {a, b}
    Orders = {o1, o2}
    Withdrawals = {w1, w2}
    Requests <- AnyRequests
    MaxFault = 1
    Changing = {o1}
INVARIANTS
    TypeOK
    AlwaysFound
    EnteredOnce
    OwnAccounts
    ReadyToImport
PROPERTIES
    TasksEnd
