CONSTANTS
    Questions = {q1, q2}
    Wordings = {w1, w2}
    MaxOps = 6
    Openings <- WhereOpened
    Budget <- Small
SPECIFICATION FairSpec
INVARIANT QuestionHasOneOutcome
PROPERTY DraftingEnds
CHECK_DEADLOCK FALSE
