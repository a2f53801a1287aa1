SPECIFICATION Spec
CONSTANTS
    a = a
    b = b
    Accounts = {a, b}
    NoAccount = NoAccount
    NoReply = NoReply
    MapCap = 2
    InitCap = 1
    MaxRequests = 4
    Types = {"login", "exit", "req.moneyquery", "req.customerallowlogin", "que.quoteid"}
    Env = {"refuse"}
SYMMETRY Symmetric
INVARIANTS OwnSession SpareLoggedOut NoInvalidPointer
CHECK_DEADLOCK FALSE
