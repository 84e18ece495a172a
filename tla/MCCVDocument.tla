---------------------------- MODULE MCCVDocument ----------------------------
(***************************************************************************)
(* An instance of CVDocument for TLC: one fact, and two contents of which  *)
(* one cites it, so that an edit can leave a basis and come back to it.    *)
(***************************************************************************)
EXTENDS CVDocument, TLC

CONSTANTS citing, plain, f1

OneCites == (citing :> {f1}) @@ (plain :> {})

Interchangeable ==
  Permutations(Clients) \union Permutations(Attempts) \union Permutations(Templates)
    \union Permutations(Analyses)
=============================================================================
