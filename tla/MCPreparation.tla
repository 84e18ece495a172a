--------------------------- MODULE MCPreparation ---------------------------
EXTENDS Preparation

Only(reader, surroundings) ==
    [act \in Acts |-> CASE act = "reader" -> reader
                        [] act = "surroundings" -> surroundings
                        [] OTHER -> 1]
\* a decided analysis is opened where its document is rebuilt, the form over the only analysis
WhereOpened == {<<0, "analysis">>, <<1, "analysis">>, <<1, "verification">>, <<1, "matching">>,
                 <<2, "verification">>}
Small == Only(2, 1)
=============================================================================
