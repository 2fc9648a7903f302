SPECIFICATION FairSpec
CONSTANTS
    N = 2
    Kinds = {"ok", "malformed"}
    Lengths = {0, 1}
    HeaderLength = 2
    MaxAnswers = 4
CHECK_DEADLOCK FALSE
PROPERTY Returns
