SPECIFICATION FairSpec
CONSTANTS
    N = 3
    Kinds = {"ok", "old", "rejected", "failed", "upgraded", "halfopen", "openfailed", "unlisted", "strange", "malformed", "overrun"}
    Lengths = {0, 2}
    HeaderLength = 2
    MaxAnswers = 5
CHECK_DEADLOCK FALSE
INVARIANTS
    TypeOK
    ConsumedFits
    AnswersInStep
    NothingLeftBehind
PROPERTY
    ReturnsUnlessMalformed
    ImplementsDialogue
