--------------------------- MODULE DraftPromises ---------------------------
(***************************************************************************)
(* What the editor's screen promises about the comparison of a             *)
(* regeneration and about a link, over the part of its state they speak    *)
(* of.  DraftScreen has the rest of the state and the steps.               *)
(***************************************************************************)
EXTENDS WatchedOperation

CONSTANT None           \* no line, no comparison, no answer

VARIABLES
    buffer, flight, conflict,   \* the line that is unsaved, the PATCH that carries one, and its refusal
    flow,                       \* the longer flow under way: what for, and the awaits that are left
    diff,                       \* the comparison on screen: its run, the wording before and after
    left                        \* the screen was left

\* nothing unsaved, nothing in flight and no conflict open
Saved == flight = None /\ buffer = None /\ ~conflict

\* The before and after on screen are those of one run: the wording captured at the press is the
\* wording the run it was bound to was given, although other runs end and other reads land between
\* the press, its 202 and its result (useRegenerationDiff).
DiffIsOfItsPress == diff # None => diff.op # 0 /\ ops[diff.op].source[1] = diff.before

\* A link in the editor leaves the screen with nothing unsaved and no conflict open, although the
\* reader can type during the reads the flow waits for (navigateSaved settles the autosave a second
\* time).  The leaving is the link's own, which ends the flow: a render that finishes meanwhile
\* leaves for the files whatever is unsaved, and what is left of the autosave goes out with the page.
LinkLeavesNothingUnsaved ==
    [][left' /\ ~left /\ flow.goal = "link" /\ flow' # flow => Saved']_left
=============================================================================
