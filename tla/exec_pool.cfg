\* One worker process with two pool threads, two Applications, every type of
\* Operation, and one edit of a source while they run.
SPECIFICATION Spec
CONSTANTS
  a1 = a1  a2 = a2  r1 = r1  r2 = r2  t1 = t1  t2 = t2
  Applications = {a1, a2}
  Runners = {r1}
  NoRunner = NoRunner
  NoSnapshot = NoSnapshot
  Kinds <- AllKinds
  Threads = {t1, t2}
  Host <- OnePool
  MaxHash = 2
  MaxOperations = 2
  Budget <- OneEdit
  AckLoss = FALSE
SYMMETRY PoolSymmetry
INVARIANTS
  TypeOK
  CancelledNeverSucceeds
  ClaimGuards
PROPERTY
  ActivatesFrozenSources
