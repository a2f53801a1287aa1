SPECIFICATION Spec
CONSTANTS
    a = a
    b = b
    Accounts = {a}
    NoAccount = NoAccount
    NoReply = NoReply
    MapCap = 1
    InitCap = 1
    MaxRequests = 2
    Types = {"login"}
    Env = {"drop"}
PROPERTY FailedLoginNotIn
CHECK_DEADLOCK FALSE
