SPECIFICATION FairSpec
CONSTANTS
    a = a
    b = b
    c = c
    s = s
    w1 = w1
    w2 = w2
    Calls = {a, b, c, s}
    Silent = {s}
    Workers = {w1, w2}
    NoCall = NoCall
    MaxQueue = 2
    MaxFaults = 1
INVARIANTS OneHolder OwnAnswer
PROPERTY Served
CHECK_DEADLOCK FALSE
