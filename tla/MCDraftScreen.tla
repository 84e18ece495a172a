--------------------------- MODULE MCDraftScreen ---------------------------
EXTENDS DraftScreen

\* How often each thing happens in a behaviour: an act of the reader that is not listed never does.
Only(acts, reader, surroundings) ==
    [act \in Acts |-> CASE act = "reader" -> reader
                        [] act = "surroundings" -> surroundings
                        [] act = "regenerate" /\ act \in acts -> reader
                        [] act \in ReaderActs -> IF act \in acts THEN 1 ELSE 0
                        [] OTHER -> 1]
\* anything once, and any two of the things that meet: the saving of edits, the runs, the stamps
Scenarios == {Only(ReaderActs, 1, 1),
              Only({"type", "navigate", "template", "resolve"}, 2, 1),
              Only({"regenerate", "retry", "cancel", "report", "type"}, 2, 1),
              Only({"check", "approve", "render", "retry", "type"}, 2, 1),
              Only({"type", "navigate", "render"}, 3, 0)}
=============================================================================
