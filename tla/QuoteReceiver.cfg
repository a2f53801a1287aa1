SPECIFICATION Spec
CONSTANTS
    BufSize = 4
    Nodes = 2
    QuoteSize = 2
    LargeSize = 3
    Timeout = 2
    MaxConn = 2
    MaxMsgs = 3
INVARIANTS TypeOK PartKept KeptWhole KeptInOrder NodesAccounted
PROPERTIES AlarmMeansSilence SilentServerLeft KeepsTrying
CHECK_DEADLOCK FALSE
