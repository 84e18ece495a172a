-------------------------- MODULE ApplicationRecord --------------------------
(***************************************************************************)
(* The two ends of an Application's record: its creation from the page of  *)
(* a new posting, and the commands on its recruitment once it exists.      *)
(* Neither waits for the other, so a behaviour is of one of them and       *)
(* leaves the other as it was.                                             *)
(***************************************************************************)
EXTENDS Recruitment

CONSTANTS
    NVisits, Labels, Postings, Links, Inputs, Drafts, Trim, Normal,
    CreationBudget      \* how often each thing may happen on the page

VARIABLES
    apps, commands, key, visit, mutation, left,
    scene       \* which of the two

Creation == INSTANCE Intake WITH Texts <- Postings, Budget <- CreationBudget

ASSUME CreationAssumption == Creation!IntakeConstants

creating == <<apps, commands, key, visit, mutation, left>>
InRecord == scene = "record" /\ UNCHANGED <<creating, scene>>
InCreation == scene = "creation" /\ UNCHANGED <<vars, scene>>

MCInit ==
    /\ Init /\ Creation!Init
    /\ scene \in {"record", "creation"}
    /\ scene = "record" => key.fields = CHOOSE f \in Drafts : TRUE
MCNext == (InRecord /\ Next) \/ (InCreation /\ Creation!Next)
MCSpec == MCInit /\ [][MCNext]_<<vars, creating, scene>>

NoSilentRepeat == Creation!NoSilentRepeat
CreatesWhatIsOnScreen == Creation!CreatesWhatIsOnScreen
KeptIsWhatWasNotCreated == Creation!KeptIsWhatWasNotCreated
CreationInvariant == Creation!CreationInvariant
=============================================================================
