SPECIFICATION FairSpec
CONSTANTS
    IO = IO
    AppThreads = {}
    NoThread = NoThread
    MaxJobs = 3
    Sizes = {1, 2}
    Callbacks = {"notify"}
    Room = 2
    MaxIn = 2
    ReadSize = 2
    Faults = {"fin"}
    Word = 16
CHECK_DEADLOCK FALSE
INVARIANT
    ArmedWhenPending
PROPERTIES
    SentInTheEnd
    PeerCloseSeen
