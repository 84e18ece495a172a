\* Liveness of one worker process of two threads, stopped and crashed; no symmetry.
SPECIFICATION Spec
CONSTANTS
  a1 = a1  a2 = a2  r1 = r1  r2 = r2  t1 = t1  t2 = t2
  Applications = {a1}
  Runners = {r1}
  NoRunner = NoRunner
  NoSnapshot = NoSnapshot
  Kinds <- RenderOnly
  Threads = {t1, t2}
  Host <- OnePool
  MaxHash = 2
  MaxOperations = 2
  Budget <- StopAndCrash
  AckLoss = FALSE
PROPERTIES
  EveryOperationEnds
  StoppingEnds
