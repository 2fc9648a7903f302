SPECIFICATION Spec
CONSTANTS
    N = 2
    Kinds = {"ok"}
    Lengths = {0, 2}
    HeaderLength = 2
    MaxAnswers = 2
CHECK_DEADLOCK FALSE
PROPERTY MissingIsMissing
