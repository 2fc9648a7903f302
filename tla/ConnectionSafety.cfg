SPECIFICATION Spec
CONSTANTS
    IO = IO
    AppThreads = {a1, a2}
    NoThread = NoThread
    MaxJobs = 3
    Sizes = {1, 2}
    Callbacks = {"notify", "close"}
    Room = 2
    MaxIn = 2
    ReadSize = 2
    Faults = {"fin", "rst"}
    Word = 4
CHECK_DEADLOCK FALSE
SYMMETRY Symmetry
INVARIANTS
    TypeOK
    StreamInOrder
    CallbackOrder
    CallbackHonest
    CountExact
PROPERTIES
    HangupIsLast
    ImplementsStream
