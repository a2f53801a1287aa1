SPECIFICATION Spec
CONSTANTS
    Users = {"a", "b", "c"}
    Old = {"a"}
    Patient = {"a", "b"}
    Types = {"register", "login", "sign", "share", "profile", "report", "effective", "withdraw", "approve"}
    Amounts = {29, 30, 60}
    Cash0 = 60
    Yesterday = 6
    Conns = 5
    EventCap = 1
    GoldCap = 1
    Served = 2
    MaxRequests = 3
INVARIANTS TypeOK Ledgered GoldKept CashAccounted RewardMarked
PROPERTY Settles
CHECK_DEADLOCK FALSE
