CONSTANTS
    Texts = {t1, t2}
    MaxOps = 4
    Openings <- WhereOpened
    Budget <- Small
SPECIFICATION FairSpec
INVARIANT DecisionsAreOnTheAnalysisShown
PROPERTY RebuildDiscardsWhatWasConfirmed
PROPERTY ProcessingEnds
CHECK_DEADLOCK FALSE
