--------------------------- MODULE MCRecordForms ---------------------------
(***************************************************************************)
(* One tab shows one page at a time: the page of a form over a record, or  *)
(* the facts' page.  The two share no state of the server's, so a run that *)
(* starts on one of them leaves the other as it was.                       *)
(***************************************************************************)
EXTENDS RecordForms

CONSTANTS
    Texts, Blank, Profiles, Sections, Facts, Promoted, Waiting, MaxVersions,
    FactBudgets     \* how often each thing may be done on the facts' page: one of these

ASSUME FactsConstants ==
    /\ Facts \intersect {"pool", "elsewhere", "none", "new", "requirement"} = {}
    /\ Texts # {} /\ Sections # {} /\ "development" \in Profiles

VARIABLES
    store, requests, reads, fetching, address, visited, creating, correcting, factForm,
    asking, choice, filters, factBudget, promised,
    scene       \* which of the two

\* one act of each kind, two of the reader's
OneEach ==
    [a \in Acts |-> IF a \in {"type", "send"} THEN 2 ELSE 1]

\* the reader's way over several facts; another tab, a lost message or a focus in between
FewOfEach ==
    {[reader |-> 4, back |-> 1, send |-> 1, trouble |-> 0],
     [reader |-> 2, back |-> 1, send |-> 1, trouble |-> 1]}

Pool == INSTANCE FactPool WITH
    cached <- reads, fetch <- fetching, page <- address, form <- factForm, budget <- factBudget,
    Budgets <- FactBudgets

facts == <<store, requests, reads, fetching, address, visited, creating, correcting, factForm,
           asking, choice, filters, factBudget, promised>>
InForms == scene = "forms" /\ UNCHANGED <<facts, scene>>
InFacts == scene = "facts" /\ UNCHANGED <<vars, scene>>

MCInit ==
    /\ Init /\ Pool!Init
    /\ scene \in {"forms", "facts"} /\ (scene = "facts" => page = "settings")
    /\ scene = "forms" => factBudget = CHOOSE b \in FactBudgets : TRUE
MCNext ==
    \/ InForms /\ Reader
    \/ InForms /\ Network
    \/ InForms /\ Others
    \/ InFacts /\ Pool!Reader
    \/ InFacts /\ Pool!Machine
    \/ InFacts /\ Pool!Surroundings
all == <<vars, facts, scene>>
MCSpec == MCInit /\ [][MCNext]_all

CorrectionIsOfItsFact == Pool!CorrectionIsOfItsFact
CrossTrackWasAccepted == Pool!CrossTrackWasAccepted
FactsNeverGoBack == Pool!FactsNeverGoBack
EffectsAreShown == Pool!EffectsAreShown
PoolInvariant == Pool!PoolInvariant
=============================================================================
