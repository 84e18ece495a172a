SPECIFICATION FairSpec
CONSTANTS
  Texts = {t1, t2}
  t1 = t1
  t2 = t2
  MaxAnalyses = 5
  Typed <- MCTyped
  Trimmed <- MCTrimmed
  Listed <- MCListed
  Matched <- MCMatched
  Budget <- MCBudget
INVARIANT AdviceIsWhereItResumes
INVARIANT OffersAreInReach
INVARIANT EnterOpensAnAnswer
PROPERTY LeadsToDelivery
CHECK_DEADLOCK FALSE
