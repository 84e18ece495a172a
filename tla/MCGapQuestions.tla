--------------------------- MODULE MCGapQuestions ---------------------------
EXTENDS GapQuestions

Small == [act \in Acts |-> CASE act = "reader" -> 2
                             [] act = "surroundings" -> 1
                             [] OTHER -> 1]
\* a visit that begins before the questions, with them, or with a fact to confirm
WhereOpened == {"unasked", "asked", "answered"}
=============================================================================
