SPECIFICATION Spec
CONSTANTS
    N = 1
    OpCodes = {"text"}
    Lengths = {0, 1}
    Shortest = 6
    Extensions = {0, 2, 8}
    AppCloses = 0
CHECK_DEADLOCK FALSE
INVARIANT WaitsForTheHeader
