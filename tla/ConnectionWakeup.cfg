SPECIFICATION FairSpec
CONSTANTS
    IO = IO
    AppThreads = {a1}
    NoThread = NoThread
    MaxJobs = 1
    Sizes = {2}
    Callbacks = {"none"}
    Room = 1
    MaxIn = 1
    ReadSize = 2
    Faults = {}
    Word = 16
CHECK_DEADLOCK FALSE
PROPERTY SentInTheEnd
