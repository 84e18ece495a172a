CONSTANTS
    Texts = {t1, t2}
    Templates = {a, b}
    Failing = {t2}
    None = None
    MaxOps = 3
    Budgets <- Scenarios
SPECIFICATION FairSpec
INVARIANT DiffIsOfItsPress
PROPERTIES
    LinkLeavesNothingUnsaved
    LockEnds
CHECK_DEADLOCK FALSE
