SPECIFICATION Spec
CONSTANTS
    N = 3
    OpCodes = {"continuation", "text", "close", "ping", "reserved", "unmasked"}
    Lengths = {0, 1}
    Shortest = 2
    Extensions = {0, 1}
    AppCloses = 1
CHECK_DEADLOCK FALSE
INVARIANTS
    TypeOK
    NothingLeftBehind
    HandlerToldInOrder
    DroppedForCause
    ClosedOnce
