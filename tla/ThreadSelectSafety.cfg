SPECIFICATION Spec
CONSTANTS
    a = a
    b = b
    c = c
    d = d
    t1 = t1
    t2 = t2
    Accounts = {a, b, c}
    Threads = {t1, t2}
    NoThread = NoThread
    NoAccount = NoAccount
    MaxRequests = 4
    MaxEvents = 1
SYMMETRY Symmetric
INVARIANTS TypeOK OneThreadPerAccount CountCoversBacklog
PROPERTY PerAccountOrder
CHECK_DEADLOCK FALSE
