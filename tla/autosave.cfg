\* One section of two lines: two acts of the user, two of the surroundings.
SPECIFICATION FairSpec
CONSTANTS
  l1 = l1
  l2 = l2
  n1 = n1
  n2 = n2
  n3 = n3
  Lines = {l1, l2}
  NewLines = {n1, n2, n3}
  HistoryLimit = 2
  Budget <- MCSmall
INVARIANTS
  NothingDropped
  ShowsWhatIsSaved
PROPERTIES
  NoBlindOverwrite
  EveryChangeAnswered
CHECK_DEADLOCK FALSE
