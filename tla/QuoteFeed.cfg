SPECIFICATION Spec
CONSTANTS
    ag = ag
    pd = pd
    f1 = f1
    f2 = f2
    Products = {ag, pd}
    Feeds = {f1, f2}
    MaxQuotes = 3
    MaxTopic = 2
    MaxFaults = 1
    MaxSize = 2
    DbFails = TRUE
    Env = {"cut", "second", "hangup", "join", "restart", "lose"}
SYMMETRY Symmetric
INVARIANTS TypeOK SingleInOrder SequenceIsPosition PoolCounted NoQuoteLost
CHECK_DEADLOCK FALSE
