SPECIFICATION FairSpec
CONSTANTS
    Intervals = {1, 2, 4}
    Timeouts = {2, 3}
    Latency = 1
    Room = 3
    MaxQueue = 2
CHECK_DEADLOCK FALSE
INVARIANTS
    TypeOK
    DetectedInTime
PROPERTIES
    NoFalseTimeout
    DeadClientNoticed
