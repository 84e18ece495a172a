----------------------------- MODULE MCWorkflow -----------------------------
(* One Application, two postings, and a search over two texts. *)
EXTENDS Workflow

MCTyped == {"", "a", "a ", "b"}
MCTrimmed == [t \in MCTyped |-> IF t = "a " THEN "a" ELSE t]
MCListed == ("" :> <<"other", Here>>) @@ ("a" :> <<Here>>) @@ ("b" :> <<"other">>)
MCMatched == ("" :> <<>>) @@ ("a" :> <<>>) @@ ("b" :> <<"fact">>)
MCBudget == [act \in Acts |-> IF act = "wander" THEN 1 ELSE 2]
=============================================================================
