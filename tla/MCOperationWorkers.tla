------------------------ MODULE MCOperationWorkers -------------------------
(***************************************************************************)
(* Instances of OperationWorkers for TLC: the pool of one worker process,  *)
(* and two processes of which the second may take over from the first.     *)
(***************************************************************************)
EXTENDS OperationWorkers, TLC

CONSTANTS a1, a2, r1, r2, t1, t2

OnePool == (t1 :> r1) @@ (t2 :> r1)
OneThreadEach == (t1 :> r1) @@ (t2 :> r2)
OneThread == (t1 :> r1)

AllKinds == {"analyze_job", "create_draft", "render_document"}
RenderOnly == {"render_document"}
DraftOnly == {"create_draft"}

Spending(edits, stops, losses, crashes) ==
  ("edit" :> edits) @@ ("stop" :> stops) @@ ("loss" :> losses) @@ ("crash" :> crashes)

NoBudget == Spending(0, 0, 0, 0)
OneEdit == Spending(1, 0, 0, 0)
OneStop == Spending(0, 1, 0, 0)
OneLoss == Spending(0, 0, 1, 0)
LossAndCrash == Spending(0, 0, 1, 1)
StopAndCrash == Spending(0, 1, 0, 1)

PoolSymmetry == Permutations(Applications) \union Permutations(Threads)

\* Exchanging the two processes together with their threads.
ProcessSymmetry ==
  {(r1 :> r1) @@ (r2 :> r2) @@ (t1 :> t1) @@ (t2 :> t2),
   (r1 :> r2) @@ (r2 :> r1) @@ (t1 :> t2) @@ (t2 :> t1)}
=============================================================================
