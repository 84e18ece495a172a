------------------------------- MODULE Intake -------------------------------
(***************************************************************************)
(* The creation of an Application from a pasted posting: the form of the   *)
(* page, its copy in the browser's storage (one key for every tab), the    *)
(* one command that checks for duplicates, creates and starts the analysis,*)
(* and the server that checks again before it inserts.                     *)
(*                                                                         *)
(* A visit is one mounting of the page.  Its command outlives it: the      *)
(* answer is handled by the visit that pressed, whichever page its tab is  *)
(* on by then.  The three names of a job are one label, and Trim and       *)
(* Normal are what the code makes of a label or a text before it compares  *)
(* them.                                                                   *)
(***************************************************************************)
EXTENDS Naturals, Sequences, FiniteSets, SequencesExt

CONSTANTS
    NVisits,    \* mountings of the page, over all tabs
    Labels,     \* company and role as typed
    Texts,      \* postings
    Links,      \* source URLs
    Inputs,     \* the forms a reader may arrive at by typing
    Drafts,     \* the drafts an earlier session may have left
    Trim,       \* a label without the whitespace around it
    Normal,     \* a label or a text in the form duplicates are compared in
    Budget      \* how often each thing may happen

Acts == {"edit", "press", "leave", "unload", "lose", "refuse", "trouble"}
Blank == "blank"
Visits == 1 .. NVisits
NoVisit == 0
Fields == [label : Labels \union {Blank}, text : Texts \union {Blank}, link : Links \union {Blank}]

\* what an instance gives the constants
IntakeConstants ==
    /\ NVisits \in Nat \ {0}
    /\ Blank \notin Labels \union Texts \union Links
    /\ Trim \in [Labels -> Labels] /\ \A l \in Labels : Trim[Trim[l]] = Trim[l]
    /\ DOMAIN Normal = Labels \union Texts
    /\ Inputs \subseteq Fields /\ Drafts \subseteq Fields
    /\ Budget \in [Acts -> Nat]

VARIABLES
    apps,       \* the Applications of the account, in creation order
    commands,   \* ingest commands the server has begun or will begin
    key,        \* the stored draft, and the visit whose copy it is
    visit,      \* the page: form, draft timer and status
    mutation,   \* the command of each visit
    left        \* what remains of the budget

vars == <<apps, commands, key, visit, mutation, left>>

(***************************************************************************)
(* Fields, intakes and the server's duplicates.                            *)
(***************************************************************************)
Empty == [label |-> Blank, text |-> Blank, link |-> Blank]
HasContent(f) == f # Empty
\* the rules of the fields: the names and the posting are required, the link is not
Valid(f) == f.label # Blank /\ f.text # Blank
\* labels are trimmed, the posting is sent as it was typed
IntakeFromFields(f) == [f EXCEPT !.label = IF @ = Blank THEN @ ELSE Trim[@]]

Alike(a, b) ==
    \/ a.link # Blank /\ a.link = b.link
    \/ Normal[a.text] = Normal[b.text]
    \/ Normal[a.label] = Normal[b.label]
DuplicateCheck(intake) == {i \in DOMAIN apps : Alike(intake, apps[i].intake)}

(***************************************************************************)
(* The stored draft.  It is v's from the moment v restored it, wrote it or *)
(* was refused the write, until another visit does.                        *)
(***************************************************************************)
Persisted(k, v, f, ok) ==
    [fields |-> IF ok THEN f ELSE k.fields, of |-> v]
\* Mutant: what was created is stored again when the page goes.
FlushedAlways(k, v, cleared, ok) == Persisted(k, v, visit[v].form, ok)
Flushed(k, v, cleared, ok) ==
    IF cleared THEN k ELSE Persisted(k, v, visit[v].form, ok)
StatusOf(f, ok) ==
    CASE ~ok -> "failed"
      [] ok /\ HasContent(f) -> "saved"
      [] ok /\ ~HasContent(f) -> "idle"

\* a lost answer, a refused write and a page that dies share one budget as well
Costs(act, refused) == [x \in Acts |->
    (IF x = act THEN 1 ELSE 0)
    + (IF x = "trouble" /\ act \in {"unload", "lose"} THEN 1 ELSE 0)
    + (IF x \in {"refuse", "trouble"} /\ refused THEN 1 ELSE 0)]
Spends(act, ok) ==
    /\ \A x \in Acts : Costs(act, ~ok)[x] <= left[x]
    /\ left' = [x \in Acts |-> left[x] - Costs(act, ~ok)[x]]
Spend(act) == Spends(act, TRUE)
Free == "nothing"

Idle == [stage |-> "idle"]
Closed == [place |-> "unborn", tab |-> NoVisit, form |-> Empty, timer |-> FALSE,
           status |-> "idle"]
Open(v) == visit[v].place = "open"
Pending(v) == mutation[v].stage \notin {"idle", "settled"}
Settled(v) == mutation[v].stage = "settled"

Init ==
    /\ apps = <<>> /\ commands = {}
    /\ \E f \in Drafts : key = [fields |-> f, of |-> NoVisit]
    /\ visit = [v \in Visits |-> Closed]
    /\ mutation = [v \in Visits |-> Idle]
    /\ left = Budget

(***************************************************************************)
(* The page: opened, typed in, hidden, left.                               *)
(***************************************************************************)
\* Visits are numbered as they begin, and tabs by the visit that opened them.
Mount(v, t) ==
    /\ visit[v].place = "unborn" /\ \A u \in 1 .. v - 1 : visit[u].place # "unborn"
    /\ t = v \/ \E u \in 1 .. v - 1 : visit[u].tab = t
    /\ \A u \in Visits : ~(Open(u) /\ visit[u].tab = t)
    /\ visit' = [visit EXCEPT ![v] =
          [place |-> "open", tab |-> t, form |-> key.fields, timer |-> FALSE,
           status |-> IF HasContent(key.fields) THEN "restored" ELSE "idle"]]
    /\ key' = [key EXCEPT !.of = v]
    /\ UNCHANGED <<apps, commands, mutation, left>>

\* A change of the fields takes a settled answer off the screen, never one that is awaited.
Unsettled(v) == mutation' = [mutation EXCEPT ![v] = IF Settled(v) THEN Idle ELSE @]

\* onInputChanged: content waits for the timer, an emptied form goes at once
Edit(v, f, ok) ==
    /\ Open(v) /\ f # visit[v].form /\ Spends("edit", ok)
    /\ Unsettled(v)
    /\ IF HasContent(f)
       THEN /\ ok
            /\ visit' = [visit EXCEPT ![v].form = f, ![v].timer = TRUE,
                                      ![v].status = "saving"]
            /\ UNCHANGED key
       ELSE /\ visit' = [visit EXCEPT ![v].form = f, ![v].timer = FALSE,
                                      ![v].status = StatusOf(f, ok)]
            /\ key' = Persisted(key, v, f, ok)
    /\ UNCHANGED <<apps, commands>>

Written(v, ok) ==
    /\ key' = Persisted(key, v, visit[v].form, ok)
    /\ UNCHANGED <<apps, commands, mutation>>

TimerFires(v, ok) ==
    /\ Open(v) /\ visit[v].timer /\ Spends(Free, ok)
    /\ visit' = [visit EXCEPT ![v].timer = FALSE,
                              ![v].status = StatusOf(visit[v].form, ok)]
    /\ Written(v, ok)

\* the tab goes to the background
Hidden(v, ok) ==
    /\ Open(v) /\ Spends(Free, ok)
    /\ visit' = [visit EXCEPT ![v].status = StatusOf(visit[v].form, ok)]
    /\ Written(v, ok)

Left(ok) == IF ok THEN "left" ELSE "unkept"
Gone(v, ok) == [visit EXCEPT ![v].place = Left(ok), ![v].timer = FALSE]

\* A link inside the application unmounts the page, which writes what the timer has not.
Leave(v, ok) ==
    /\ Open(v) /\ Spends("leave", ok)
    /\ visit' = Gone(v, ok) /\ key' = Flushed(key, v, FALSE, ok)
    /\ UNCHANGED <<apps, commands, mutation>>

(* The document is unloaded: its command goes with it.  With content the    *)
(* browser refuses to store, the reader is asked first, and may go anyway.  *)
Unload(v, ok) ==
    /\ Open(v) /\ Spends("unload", ok)
    /\ visit' = Gone(v, ok) /\ key' = Flushed(key, v, FALSE, ok)
    /\ mutation' = [mutation EXCEPT ![v] = Idle]
    /\ UNCHANGED <<apps, commands>>

\* The tab dies: nothing is written.
Crash(v) ==
    /\ Open(v) /\ Spend("unload")
    /\ visit' = [visit EXCEPT ![v].place = "dead", ![v].timer = FALSE]
    /\ mutation' = [mutation EXCEPT ![v] = Idle]
    /\ UNCHANGED <<apps, commands, key>>

(***************************************************************************)
(* The command of the page.                                                *)
(***************************************************************************)
AcknowledgementApplies(v) == mutation[v].intake = IntakeFromFields(visit[v].form)

\* the matches on the screen: an answer about exactly what the form holds
DuplicatesShown(v) ==
    /\ Settled(v) /\ mutation[v].outcome = "duplicates"
    /\ AcknowledgementApplies(v)

Number == Budget["press"] - left["press"] + 1
\* what the reader has been asked about, for the record only
Asked(v, intake) ==
    /\ Settled(v) /\ mutation[v].outcome = "duplicates" /\ mutation[v].intake = intake

Submission(v, acknowledged) ==
    LET intake == IntakeFromFields(visit[v].form)
    IN  [stage |-> IF acknowledged THEN "creating" ELSE "checkSent",
         intake |-> intake, acknowledged |-> acknowledged, number |-> Number]
Command(v, m, asked) ==
    [by |-> v, number |-> m.number, intake |-> m.intake, acknowledged |-> m.acknowledged,
     asked |-> asked, onScreen |-> IntakeFromFields(visit[v].form) = m.intake,
     checked |-> FALSE, matched |-> {}]

\* The one button of the page: create, or while duplicates are shown create anyway.
Press(v) ==
    LET m == Submission(v, DuplicatesShown(v))
    IN  /\ Open(v) /\ ~Pending(v) /\ Valid(visit[v].form) /\ Spend("press")
        /\ mutation' = [mutation EXCEPT ![v] = m]
        /\ commands' = IF m.acknowledged
                       THEN commands \union {Command(v, m, Asked(v, m.intake))} ELSE commands
        /\ UNCHANGED <<apps, key, visit>>

Moves(v, stage) == mutation' = [mutation EXCEPT ![v].stage = stage]
SettledAs(v, outcome) ==
    [stage |-> "settled", outcome |-> outcome, intake |-> mutation[v].intake]
Settles(v, outcome) == mutation' = [mutation EXCEPT ![v] = SettledAs(v, outcome)]

DuplicateChecked(v) ==
    /\ mutation[v].stage = "checkSent"
    /\ Moves(v, IF DuplicateCheck(mutation[v].intake) = {} THEN "none found" ELSE "found")
    /\ UNCHANGED <<apps, commands, key, visit, left>>

\* Mutant: a clean answer is acted on whatever has been typed since.
CheckAnswersAnyhow(v) ==
    /\ mutation[v].stage \in {"found", "none found"}
    /\ CASE mutation[v].stage = "found" -> Settles(v, "duplicates") /\ UNCHANGED commands
         [] mutation[v].stage = "none found" ->
              /\ Moves(v, "creating")
              /\ commands' = commands \union {Command(v, mutation[v], FALSE)}
    /\ UNCHANGED <<apps, key, visit, left>>
\* The precheck's answer: a choice, a stale answer, or the creation.
CheckAnswers(v) ==
    /\ mutation[v].stage \in {"found", "none found"}
    /\ CASE mutation[v].stage = "found" -> Settles(v, "duplicates") /\ UNCHANGED commands
         [] mutation[v].stage = "none found" /\ ~AcknowledgementApplies(v) ->
              Settles(v, "stale") /\ UNCHANGED commands
         [] mutation[v].stage = "none found" /\ AcknowledgementApplies(v) ->
              /\ Moves(v, "creating")
              /\ commands' = commands \union {Command(v, mutation[v], FALSE)}
    /\ UNCHANGED <<apps, key, visit, left>>

\* A request or its answer is lost; a command that reached the server still runs.
Lost(v) ==
    /\ Pending(v) /\ mutation[v].stage # "starting" /\ Spend("lose")
    /\ Settles(v, "failed")
    /\ \/ UNCHANGED commands
       \/ /\ mutation[v].stage = "creating"
          /\ commands' = {c \in commands : ~(c.by = v /\ c.number = mutation[v].number)}
    /\ UNCHANGED <<apps, key, visit>>

Awaited(c) ==
    /\ mutation[c.by].stage = "creating"
    /\ mutation[c.by].number = c.number

\* Mutant: what the check found is not asked about.
IngestChecksUnasked(c) ==
    /\ c \in commands /\ ~c.checked
    /\ commands' = (commands \ {c})
                     \union {[c EXCEPT !.checked = TRUE, !.matched = DuplicateCheck(c.intake)]}
    /\ UNCHANGED <<apps, key, visit, mutation, left>>
\* The server's own check, in a transaction of its own, refuses what was not acknowledged.
IngestChecks(c) ==
    LET matched == DuplicateCheck(c.intake)
    IN  /\ c \in commands /\ ~c.checked
        /\ IF matched # {} /\ ~c.acknowledged
           THEN /\ commands' = commands \ {c}
                /\ mutation' = IF Awaited(c)
                               THEN [mutation EXCEPT ![c.by] = SettledAs(c.by, "duplicates")]
                               ELSE mutation
           ELSE /\ commands' = (commands \ {c})
                                 \union {[c EXCEPT !.checked = TRUE, !.matched = matched]}
                /\ UNCHANGED mutation
        /\ UNCHANGED <<apps, key, visit, left>>

\* The insertion, in the next transaction.
IngestInserts(c) ==
    /\ c \in commands /\ c.checked
    /\ commands' = commands \ {c}
    /\ apps' = Append(apps, [intake |-> c.intake, acknowledged |-> c.acknowledged,
                             asked |-> c.asked, onScreen |-> c.onScreen, matched |-> c.matched])
    /\ mutation' = IF Awaited(c) THEN [mutation EXCEPT ![c.by].stage = "created"] ELSE mutation
    /\ UNCHANGED <<key, visit, left>>

\* The created Application is analysed, unless Settings say that nothing can.
CreateAnswers(v) ==
    /\ mutation[v].stage = "created"
    /\ Moves(v, "starting")
    /\ UNCHANGED <<apps, commands, key, visit, left>>

InTab(v) == {u \in Visits : Open(u) /\ visit[u].tab = visit[v].tab}

Clears(v) == AcknowledgementApplies(v)

(* The analysis is queued, refused or unanswered, and the creation stands   *)
(* either way.  Then onCreated: the stored draft goes if the form still     *)
(* holds what was created, and the tab goes to the new Application from     *)
(* whatever page it is on; a page of this kind that it leaves writes its    *)
(* own form.                                                                *)
OnCreated(v, ok) ==
    LET stored == IF Clears(v) THEN Persisted(key, v, Empty, ok) ELSE key
        flush(u) == Flushed(stored, u, u = v /\ Clears(v), ok)
    IN  /\ mutation[v].stage \in {"created", "starting"} /\ Spends(Free, ok)
        /\ mutation' = [mutation EXCEPT ![v] = SettledAs(v, "created")]
        /\ visit' = [u \in Visits |->
              [visit[u] EXCEPT !.timer = @ /\ u \notin InTab(v) \union {v},
                               !.place = IF u \in InTab(v) \/ (u = v /\ ~ok) THEN Left(ok) ELSE @]]
        /\ key' = IF InTab(v) = {} THEN stored ELSE flush(CHOOSE u \in InTab(v) : TRUE)
        /\ UNCHANGED <<apps, commands>>

(***************************************************************************)
(* The specification.                                                      *)
(***************************************************************************)
Reader(v) ==
    \/ \E t \in 1 .. v : Mount(v, t)
    \/ \E f \in Inputs, ok \in BOOLEAN : Edit(v, f, ok)
    \/ \E ok \in BOOLEAN : Hidden(v, ok) \/ Leave(v, ok) \/ Unload(v, ok)
    \/ Crash(v)
    \/ Press(v)
    \/ Lost(v)

Handles(v) ==
    \/ DuplicateChecked(v)
    \/ CheckAnswers(v)
    \/ CreateAnswers(v)
    \/ \E ok \in BOOLEAN : OnCreated(v, ok)

Ingests(v) == \E c \in commands : c.by = v /\ (IngestChecks(c) \/ IngestInserts(c))

Next == \E v \in Visits :
    \/ Reader(v)
    \/ Handles(v)
    \/ Ingests(v)
    \/ \E ok \in BOOLEAN : TimerFires(v, ok)

Spec == Init /\ [][Next]_vars

\* The network and the server answer, and a timer fires; the reader owes nothing.
FairSpec ==
    /\ Spec
    /\ \A v \in Visits : /\ WF_vars(Handles(v))
                         /\ WF_vars(Ingests(v))
                         /\ WF_vars(\E ok \in BOOLEAN : TimerFires(v, ok))

(***************************************************************************)
(* What holds.                                                             *)
(***************************************************************************)
Places == {"unborn", "open", "left", "unkept", "dead"}
Stages == {"idle", "settled", "checkSent", "found", "none found", "creating", "created",
           "starting"}

(* Type correctness of the page (NewApplicationPage.tsx:68), and that a     *)
(* timer of the draft runs only while its page is on the screen.            *)
TypeOK ==
    /\ \A i \in DOMAIN apps : apps[i].intake \in Fields /\ Valid(apps[i].intake)
    /\ \A c \in commands : c.by \in Visits /\ c.matched \subseteq DOMAIN apps
    /\ key.fields \in Fields /\ key.of \in Visits \union {NoVisit}
    /\ \A v \in Visits : /\ visit[v].form \in Fields /\ visit[v].place \in Places
                         /\ visit[v].timer => Open(v)
                         /\ mutation[v].stage \in Stages

(* An Application like one the server had when it checked was created only  *)
(* by a reader who had been shown matches for that very intake              *)
(* (useApplicationIntakeSubmission.ts:63, intake.py:123).  Two creations    *)
(* whose checks both ran first are not told of each other.                  *)
NoSilentRepeat ==
    \A i \in DOMAIN apps :
        apps[i].matched # {} => apps[i].acknowledged /\ apps[i].asked

(* What the server is told to create is what the form held at that moment:  *)
(* a check is answered after the form may have changed                      *)
(* (useApplicationIntakeSubmission.ts:69).                                  *)
CreatesWhatIsOnScreen ==
    /\ \A c \in commands : c.onScreen
    /\ \A i \in DOMAIN apps : apps[i].onScreen

(* What a page leaves in the storage is what was in its form and was not    *)
(* created: a posting typed after the press survives the creation of the    *)
(* one before it, and a created one does not come back as a draft           *)
(* (useApplicationIntakeDraft.ts:75, :112).                                 *)
KeptIsWhatWasNotCreated ==
    \A v \in Visits :
        visit[v].place = "left" /\ key.of = v =>
            key.fields = IF /\ Settled(v) /\ mutation[v].outcome = "created"
                            /\ AcknowledgementApplies(v)
                         THEN Empty ELSE visit[v].form

(* A draft said to be saved or restored is in the storage, as the form has  *)
(* it (useApplicationIntakeDraft.ts:105, IntakeDraftStatus.tsx:10).         *)
SavedIsStored ==
    \A v \in Visits :
        Open(v) /\ key.of = v /\ visit[v].status \in {"idle", "restored", "saved"} =>
            key.fields = visit[v].form

(***************************************************************************)
(* What the three above rest on.                                           *)
(***************************************************************************)
\* Visits that have not begun have no command, one visit at a time is open in a tab, and a
\* creation whose answer was handled has taken its tab to the Application.
PagesAreSound ==
    /\ DOMAIN visit = Visits /\ DOMAIN mutation = Visits /\ DOMAIN key = {"fields", "of"}
    /\ \A v \in Visits :
        /\ {"place", "tab", "form", "timer", "status"} = DOMAIN visit[v]
        /\ visit[v].place = "unborn" => mutation[v].stage = "idle"
        /\ Open(v) => ~(Settled(v) /\ mutation[v].outcome = "created")
        /\ \A w \in Visits : Open(v) /\ Open(w) /\ visit[v].tab = visit[w].tab => v = w

\* A command under way keeps the intake it was pressed with; the check goes before the choice.
PressesAreSound ==
    \A v \in Visits : Pending(v) =>
        /\ DOMAIN mutation[v] = {"stage", "intake", "acknowledged", "number"}
        /\ mutation[v].stage \in {"checkSent", "found", "none found"} => ~mutation[v].acknowledged

\* A command is of the form on screen; it is acknowledged by a reader who was asked, and passes
\* the server's check with matches only then.
IsCommand(c) ==
    /\ DOMAIN c = {"by", "number", "intake", "acknowledged", "asked", "onScreen", "checked", "matched"}
    /\ c.by \in Visits /\ c.onScreen
    /\ c.acknowledged => c.asked
    /\ c.matched # {} => c.checked /\ c.acknowledged

CreationInvariant ==
    /\ PagesAreSound /\ PressesAreSound
    /\ apps \in Seq({apps[i] : i \in DOMAIN apps}) /\ \A c \in commands : IsCommand(c)
    /\ NoSilentRepeat /\ CreatesWhatIsOnScreen /\ KeptIsWhatWasNotCreated

(* Every press is answered: the button does not stay pending               *)
(* (useApplicationIntakeSubmission.ts:92).                                  *)
PressIsAnswered == \A v \in Visits : Pending(v) ~> ~Pending(v)
=============================================================================
