SPECIFICATION FairSpec
CONSTANTS
    IO = IO
    AppThreads = {}
    NoThread = NoThread
    MaxJobs = 1
    Sizes = {3}
    Callbacks = {"none"}
    Room = 1
    MaxIn = 1
    ReadSize = 2
    Faults = {}
    Word = 16
PROPERTY FlushedThenClosed
CHECK_DEADLOCK FALSE
