SPECIFICATION Spec
CONSTANTS
    a = a
    b = b
    c = c
    Accounts = {a, b, c}
    NoAccount = NoAccount
    NoReply = NoReply
    MapCap = 2
    InitCap = 1
    MaxRequests = 3
    Types = {"login", "logout", "get.accountinfo", "req.openmarket", "get.result"}
    Env = {"overlap", "late", "drop", "refuse"}
SYMMETRY Symmetric
INVARIANTS TypeOK EachInstanceOnce InstanceLimit AnsweredInOrder
PROPERTY PoolRefined
CHECK_DEADLOCK FALSE
