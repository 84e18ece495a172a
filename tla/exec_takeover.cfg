\* Two worker processes of one thread each: the slot is lost under the first
\* one, the second takes over; a process may crash.
SPECIFICATION Spec
CONSTANTS
  a1 = a1  a2 = a2  r1 = r1  r2 = r2  t1 = t1  t2 = t2
  Applications = {a1}
  Runners = {r1, r2}
  NoRunner = NoRunner
  NoSnapshot = NoSnapshot
  Kinds <- RenderOnly
  Threads = {t1, t2}
  Host <- OneThreadEach
  MaxHash = 2
  MaxOperations = 2
  Budget <- LossAndCrash
  AckLoss = FALSE
SYMMETRY ProcessSymmetry
INVARIANTS
  FilesReferencedExist
  NoOrphanFiles
  RendersAreSuccesses
PROPERTIES
  ImplementsLifecycle
