SPECIFICATION FairSpec
CONSTANTS
    a = a
    b = b
    Accounts = {a, b}
    NoAccount = NoAccount
    NoReply = NoReply
    MapCap = 1
    InitCap = 1
    MaxRequests = 3
    Types = {"login", "logout", "req.openmarket"}
    Env = {"overlap", "late", "drop", "refuse"}
PROPERTIES RequestServed LoggedOutReclaimed
CHECK_DEADLOCK FALSE
