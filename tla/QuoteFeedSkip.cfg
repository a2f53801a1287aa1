SPECIFICATION Spec
CONSTANTS
    ag = ag
    f1 = f1
    Products = {ag}
    Feeds = {f1}
    MaxQuotes = 10
    MaxTopic = 2
    MaxFaults = 1
    MaxSize = 2
    DbFails = FALSE
    Env = {}
PROPERTY DroppedIsSaved
CHECK_DEADLOCK FALSE
