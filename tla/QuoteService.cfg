SPECIFICATION FairSpec
CONSTANTS
    Products = {"ag", "pd"}
    Minutes = {1, 2}
    Dates = {1, 2}
    Prices = {10, 11}
    Feed <- FeedValue
    Readers = {"r1"}
    MaxQueue = 2
    MaxQuotes = 3
    MaxReads = 2
    MaxFaults = 1
    MaxSize = 1
    DbFails = TRUE
INVARIANTS ReadsOneDay LineAgrees
PROPERTY Settles
CHECK_DEADLOCK FALSE
