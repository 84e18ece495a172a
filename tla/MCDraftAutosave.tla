-------------------------- MODULE MCDraftAutosave --------------------------
(* Instances of DraftAutosave: one section of two lines, and what the user  *)
(* and the surroundings may do to it.                                       *)
EXTENDS DraftAutosave

CONSTANTS l1, l2, n1, n2, n3
MCSmall == [type |-> 2, add |-> 1, remove |-> 1, move |-> 1, undo |-> 1, redo |-> 1, foreign |-> 1,
            refresh |-> 1, fail |-> 1, lostAnswer |-> 1, reload |-> 1, user |-> 2, faults |-> 2]
=============================================================================
