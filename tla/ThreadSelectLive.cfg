SPECIFICATION FairSpec
CONSTANTS
    a = a
    b = b
    c = c
    d = d
    t1 = t1
    t2 = t2
    Accounts = {a, b}
    Threads = {t1, t2}
    NoThread = NoThread
    NoAccount = NoAccount
    MaxRequests = 3
    MaxEvents = 2
PROPERTY RequestBegun
CHECK_DEADLOCK FALSE
