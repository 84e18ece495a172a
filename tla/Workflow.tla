------------------------------ MODULE Workflow ------------------------------
(***************************************************************************)
(* The way through the screens.  The server derives from an Application    *)
(* what may be done with it and what it advises; the browser turns that    *)
(* into the links and the commands of eight pages, and into the page a     *)
(* reader resumes at.  The two tables are written in two languages, and    *)
(* the browser's is applied to a projection that may be old.               *)
(*                                                                         *)
(* The projection is a function of the record, so the browser's copy of it *)
(* is kept as the record it was derived from.  A command is one step here: *)
(* its request, its refusal and its run's watching are in Preparation,     *)
(* DraftScreen and RecordForms.  Left out: gap questions that an analysis  *)
(* does not call for (every one does), the moves a page makes by itself,   *)
(* and the recruitment side of the board.  The board's rows and the        *)
(* record's own projection are one copy, of any age.                       *)
(***************************************************************************)
EXTENDS Search

CONSTANTS
    Texts,          \* postings
    MaxAnalyses,    \* bound on the analyses of the record
    Budget          \* how often each thing may happen

Acts == {"wander", "trouble", "type"}

ASSUME WorkflowConstants ==
    /\ Texts # {} /\ MaxAnalyses \in Nat
    /\ Budget \in [Acts -> Nat]

VARIABLES
    record,     \* what the server holds
    seen,       \* the record the browser's projection was derived from
    page,       \* the page on screen
    left        \* what remains of the budget

vars == <<record, seen, page, left, dialog, opened>>

(***************************************************************************)
(* The record: the posting, the posting each analysis read, the analysis   *)
(* the document is pinned to (0: no document), its content, and the fact   *)
(* its lines cite.  The stamps say what they are worth for the content as  *)
(* it is.  `hash` counts what was written to the document.                 *)
(***************************************************************************)
PreparationStates == {"needs_analysis", "ready_to_draft", "draft_in_progress", "approved", "ready"}
Checks == {"none", "passed", "failed", "outdated"}
Facts == {"canonical", "pending", "deleted"}
Operations == {"analyze_job", "create_draft", "regenerate_section", "render_document", "ask_gap_questions"}
DocumentOperations == {"create_draft", "regenerate_section", "render_document"}

Records ==
    [posting : Texts, analyses : Seq(Texts), pinned : Nat, content : BOOLEAN, fact : Facts,
     check : Checks, stage : {"none", "approved", "rendered"}, hash : Nat,
     queue : Seq([type : Operations, hash : Nat, posting : Texts]), submitted : SUBSET Nat, deleted : BOOLEAN]

HasDocument(r) == r.pinned # 0
Latest(r) == Len(r.analyses)
Analysed(r) == r.posting \in ToSet(r.analyses)
PinnedText(r) == r.analyses[r.pinned]

PreparationOf(r) ==
    CASE ~HasDocument(r) -> "needs_analysis"
      [] HasDocument(r) /\ ~r.content -> "ready_to_draft"
      [] r.content /\ r.stage = "none" -> "draft_in_progress"
      [] r.content /\ r.stage = "approved" -> "approved"
      [] r.content /\ r.stage = "rendered" -> "ready"

\* any write of the content, or of a fact it cites, moves the basis of the stamps
BasisMoved(r) ==
    [r EXCEPT !.check = IF @ = "none" THEN "none" ELSE "outdated", !.stage = "none"]
Written(r) == [BasisMoved(r) EXCEPT !.hash = @ + 1]

(***************************************************************************)
(* What the server offers, withholds and advises.                          *)
(***************************************************************************)
Actions == {"analyze", "edit_matching_configuration", "ask_gap_questions", "build_from_analysis",
            "confirm_and_use_fact", "create_draft", "edit", "regenerate_section", "check", "approve",
            "render", "submit", "download_pdf"}
Mutating == {"build_from_analysis", "confirm_and_use_fact", "create_draft", "edit", "regenerate_section",
             "check", "approve", "render"}

\* a line is regenerated like its section, which stands for both.
\* document_review_reasons: what settles a citation of a fact that is not canonical
Resolutions(r) ==
    CASE ~r.content -> {}
      [] r.content /\ r.fact = "pending" -> {"confirm_and_use_fact", "edit"}
      [] r.content /\ r.fact = "deleted" -> {"edit", "regenerate_section"}
      [] OTHER -> {}
Reasoned(r) == Resolutions(r) # {}
OnOlderAnalysis(r) == HasDocument(r) /\ (r.pinned # Latest(r) \/ PinnedText(r) # r.posting)

Allowed(r) ==
    (IF Analysed(r) THEN {} ELSE {"analyze"})
    \union (IF r.analyses = <<>> THEN {} ELSE {"edit_matching_configuration", "ask_gap_questions"})
    \union (IF HasDocument(r) /\ Latest(r) > r.pinned THEN {"build_from_analysis"} ELSE {})
    \union (IF HasDocument(r) /\ ~r.content THEN {"create_draft"} ELSE {})
    \union (IF r.content THEN {"edit", "regenerate_section"} \union Resolutions(r) ELSE {})
    \union (IF r.content /\ r.check # "passed" THEN {"check"} ELSE {})
    \union (CASE PreparationOf(r) = "draft_in_progress" -> {"approve"}
              [] PreparationOf(r) = "approved" -> {"render"}
              [] PreparationOf(r) = "ready" -> {"submit", "download_pdf"}
              [] OTHER -> {})

Live(r) == {operation.type : operation \in ToSet(r.queue)}
\* operations of an Application run one at a time: the oldest is the one reported
Active(r) == IF r.queue = <<>> THEN "none" ELSE Head(r.queue).type
JobTextChanged(r) == HasDocument(r) /\ PinnedText(r) # r.posting
Blocked(r) ==
    (IF Active(r) = "analyze_job" THEN {"analyze"} ELSE {})
    \union (IF Active(r) = "ask_gap_questions" THEN {"ask_gap_questions"} ELSE {})
    \union (IF "analyze_job" \in Live(r) THEN {"edit_matching_configuration"} ELSE {})
    \union (IF Active(r) \in DocumentOperations THEN Mutating ELSE {})
    \union (IF JobTextChanged(r) THEN {"create_draft"} ELSE {})
    \union (IF Reasoned(r) THEN {"approve", "render", "submit"} ELSE {})
    \union (IF r.check = "failed" THEN {"approve"} ELSE {})
Available(r) == IF r.deleted THEN {} ELSE Allowed(r) \ Blocked(r)

Advice(r) ==
    CASE ~HasDocument(r) -> "analyze"
      [] HasDocument(r) /\ ~r.content -> IF Analysed(r) THEN "create_draft" ELSE "analyze"
      [] r.content /\ r.check \in {"none", "outdated"} -> "check"
      [] OTHER -> IF "approve" \in Available(r) THEN "approve"
                  ELSE IF "render" \in Available(r) THEN "render" ELSE "submit"
Recommended(r) == IF Advice(r) \in Available(r) THEN Advice(r) ELSE "none"

(***************************************************************************)
(* Where each action is done (actionDestinations) and where a record is    *)
(* resumed: at its live operation, at what is advised, or where its state  *)
(* puts it.                                                                *)
(***************************************************************************)
Pages == {"board", "hub", "resume", "analysis", "matching", "verification", "draft", "ready", "away"}

\* Mutant: the draft is rebuilt where it is edited.
DestinationOfEditor(action) ==
    CASE action \in {"analyze", "ask_gap_questions"} -> "analysis"
      [] action = "edit_matching_configuration" -> "matching"
      [] action = "create_draft" -> "verification"
      [] action \in {"submit", "download_pdf"} -> "ready"
      [] OTHER -> "draft"
Destination(action) ==
    CASE action \in {"analyze", "ask_gap_questions"} -> "analysis"
      [] action = "edit_matching_configuration" -> "matching"
      [] action \in {"build_from_analysis", "create_draft"} -> "verification"
      [] action \in {"submit", "download_pdf"} -> "ready"
      [] OTHER -> "draft"
OperationAction(type) ==
    CASE type = "analyze_job" -> "analyze"
      [] type = "render_document" -> "render"
      [] OTHER -> type
Resume(r) ==
    CASE Active(r) # "none" -> Destination(OperationAction(Active(r)))
      [] Active(r) = "none" /\ Recommended(r) # "none" -> Destination(Recommended(r))
      [] OTHER -> CASE PreparationOf(r) = "ready" -> "ready"
                    [] PreparationOf(r) \in {"draft_in_progress", "approved"} -> "draft"
                    [] OTHER -> "analysis"

(***************************************************************************)
(* What the pages make of the projection.                                  *)
(***************************************************************************)
\* classificationFromAnalysis: the latest analysis, when it read the posting as it is
Classified(r) == r.analyses # <<>> /\ Last(r.analyses) = r.posting
IsReady(r) == PreparationOf(r) = "ready"

\* workflowDestinations: the steps of the rail; only a document has a draft step
DraftStep(r) ==
    CASE r.content -> {"draft"}
      [] ~r.content /\ Latest(r) > 0 /\ HasDocument(r) -> {"verification"}
      [] OTHER -> {}
StageSteps(r) == {"analysis"} \union DraftStep(r) \union (IF IsReady(r) THEN {"ready"} ELSE {})
\* useWorkflowSteps: a step has no link to the page it is on
Rail(r, here) == StageSteps(r) \ {here}

\* workflowActionPlan: what the step before the editor offers, in its order
DraftScreenAction(r) ==
    LET offered == {"render", "approve", "check", "edit"} \intersect Available(r)
    IN  CASE "render" \in offered -> {"render"}
          [] "render" \notin offered /\ "approve" \in offered -> {"approve"}
          [] offered \intersect {"render", "approve"} = {} /\ "check" \in offered -> {"check"}
          [] OTHER -> offered
OffersAnalysis(r) == "analyze" \in Available(r) /\ Recommended(r) = "analyze"
OffersDraft(r) == "create_draft" \in Available(r)
\* Mutant: a rebuild is offered only where it discards a draft.
OffersRebuildOfDraft(r) == r.content /\ "build_from_analysis" \in Available(r)
OffersRebuild(r) == "build_from_analysis" \in Available(r)
AdvisesEditor(r) == Recommended(r) \in {"render", "approve", "check", "edit"}

\* PreparationAlerts: a review reason leads to its first resolution, the older
\* analysis to where it is rebuilt; neither to the page it is on
ReasonLinks(r, here) == {Destination(action) : action \in Resolutions(r)} \ {here}
RebuildLinks(r, here) ==
    (IF OnOlderAnalysis(r) /\ OffersRebuild(r) THEN {Destination("build_from_analysis")} ELSE {}) \ {here}

\* a live run of its own takes the place of the page
RunIsScreen(r, here) ==
    /\ ~r.deleted
    /\ \/ here = "analysis" /\ Active(r) = "analyze_job"
       \/ here = "verification" /\ Active(r) # "none"

(***************************************************************************)
(* The links and the commands of each page.                                *)
(***************************************************************************)
\* the board: a card, the pipeline's sheet of details, and the summary of what waits,
\* where an alert comes before a file that is ready
CardLink(r) == {Resume(r)}
SheetLink(r) == IF r.deleted THEN {} ELSE {Resume(r)}
AttentionLink(r) ==
    CASE Reasoned(r) \/ OnOlderAnalysis(r) -> {Resume(r)}
      [] ~(Reasoned(r) \/ OnOlderAnalysis(r)) /\ IsReady(r) -> {"ready"}
      [] OTHER -> {}
BoardLinks(r) == CardLink(r) \union SheetLink(r) \union AttentionLink(r)

\* preparationProgress: a row that is done or current leads to its page, or to none
RowPage(r, row) ==
    CASE row \in {"analysis", "create"} -> {"analysis"}
      [] row = "ready" -> IF IsReady(r) THEN {"ready"} ELSE {}
      [] OTHER -> IF r.content THEN {"draft"} ELSE {}
DoneRows(r) ==
    CASE PreparationOf(r) = "needs_analysis" -> 0
      [] PreparationOf(r) = "ready_to_draft" -> 1
      [] PreparationOf(r) = "draft_in_progress" -> 2
      [] PreparationOf(r) = "approved" -> 3
      [] OTHER -> 5
ProgressRows == <<"analysis", "create", "draft", "approve", "ready">>
ProgressLinks(r) == UNION {RowPage(r, ProgressRows[row]) : row \in {i \in 1..5 : i <= DoneRows(r) + 1}}
HubDownload(r) == IF IsReady(r) /\ ~r.deleted THEN {"download_pdf"} ELSE {}
HubLinks(r) == {"board"} \union SheetLink(r) \union (IF r.deleted THEN {} ELSE {Resume(r)} \union ProgressLinks(r))

\* StepFrame: the way back and the rail, around what the page itself shows
Frame(r, here) == (IF here = "analysis" THEN {"hub"} ELSE {"analysis"}) \union Rail(r, here)
AnalysisLinks(r) ==
    Frame(r, "analysis")
    \union (IF Classified(r) /\ ~r.deleted THEN {"matching"} \union DraftStep(r) ELSE {})
\* Mutant: a posting that was edited shows no command of its own.
AnalysisCommandsOfOverview(r) ==
    IF r.deleted \/ ~Classified(r) THEN {} ELSE Available(r) \intersect {"analyze", "ask_gap_questions"}
AnalysisCommands(r) ==
    CASE r.deleted -> {}
      [] ~r.deleted /\ Classified(r) -> Available(r) \intersect {"analyze", "ask_gap_questions"}
      [] OTHER -> Available(r) \intersect {"analyze"}

MatchingLinks(r) == Frame(r, "matching")
MatchingCommands(r) == IF Classified(r) THEN Available(r) \intersect {"edit_matching_configuration"} ELSE {}

VerificationLinks(r) ==
    Frame(r, "verification")
    \union (IF r.deleted THEN {}
            ELSE ReasonLinks(r, "verification")
                 \union {Destination(action) : action \in DraftScreenAction(r)}
                 \union (IF IsReady(r) THEN {"ready"} ELSE {}))
VerificationCommands(r) ==
    IF r.deleted THEN {}
    ELSE (IF OffersAnalysis(r) THEN {"analyze"} ELSE {})
         \union (IF OffersRebuild(r) THEN {"build_from_analysis"} ELSE {})
         \union (IF OffersDraft(r) THEN {"create_draft"} ELSE {})

DraftHeader == {"hub"}
EmptyDraft(r) == IF r.content THEN {} ELSE {"hub"}
RenderPanel(r) == IF IsReady(r) THEN {"ready"} ELSE {}
DraftLinks(r) == DraftHeader \union RebuildLinks(r, "draft") \union EmptyDraft(r) \union RenderPanel(r)
\* the editor: nothing while a run is live; its one button checks the content and goes on
\* to approve it, unless a review reason stands against
DraftCommands(r) ==
    IF ~r.content \/ Active(r) # "none" THEN {}
    ELSE {"edit", "regenerate_section", "check"}
         \union (IF r.fact = "pending" THEN {"confirm_and_use_fact"} ELSE {})
         \union (IF r.stage = "none" /\ ~Reasoned(r) THEN {"approve"} ELSE {})
         \union (IF r.stage = "approved" THEN {"render"} ELSE {})

\* a document that is no longer ready is said to have changed, with the way to the editor
Handed(r) == IsReady(r) /\ r.hash \in r.submitted
ReadyLinks(r) ==
    {"board", "hub", "draft"} \union ReasonLinks(r, "ready") \union RebuildLinks(r, "ready")
ReadyCommands(r) == IF IsReady(r) THEN {"download_pdf"} \union (Available(r) \intersect {"submit"}) ELSE {}

Links(r, here) ==
    IF RunIsScreen(r, here) THEN {}
    ELSE CASE here = "board" -> BoardLinks(r)
           [] here = "hub" -> HubLinks(r)
           [] here = "analysis" -> AnalysisLinks(r)
           [] here = "matching" -> MatchingLinks(r)
           [] here = "verification" -> VerificationLinks(r)
           [] here = "draft" -> DraftLinks(r)
           [] here = "ready" -> ReadyLinks(r)
           [] OTHER -> {"board"}
Commands(r, here) ==
    IF RunIsScreen(r, here) THEN {}
    ELSE CASE here = "analysis" -> AnalysisCommands(r)
           [] here = "matching" -> MatchingCommands(r)
           [] here = "verification" -> VerificationCommands(r)
           [] here = "draft" -> DraftCommands(r)
           [] here = "ready" -> ReadyCommands(r)
           [] here = "hub" -> HubDownload(r)
           [] OTHER -> {}

(***************************************************************************)
(* The way each page puts forward: a command, else a link.                 *)
(***************************************************************************)
\* NextStepPanel: its entries in order, the first emphasised one or the last leads
Entries(r) ==
    (IF OffersAnalysis(r) THEN <<"analyze">> ELSE <<>>)
    \o (IF OffersRebuild(r) THEN <<"build_from_analysis">> ELSE <<>>)
    \o (IF OffersDraft(r) THEN <<"create_draft">> ELSE <<>>)
    \o (IF DraftScreenAction(r) # {} THEN <<"draft">> ELSE <<>>)
    \o (IF IsReady(r) THEN <<"ready">> ELSE <<>>)
Emphasised(r, entry) ==
    \/ entry = Recommended(r)
    \/ entry = "draft" /\ AdvisesEditor(r)
    \/ entry = "ready"
LeadEntry(r) ==
    LET emphasised == SelectSeq(Entries(r), LAMBDA entry : Emphasised(r, entry))
    IN  CASE emphasised # <<>> -> Head(emphasised)
          [] emphasised = <<>> /\ Entries(r) # <<>> -> Last(Entries(r))
          [] OTHER -> "none"

\* the editor: what needs attention, then the button, the files and the way on
EditorLead(r) ==
    CASE Reasoned(r) -> IF r.fact = "pending" THEN "confirm_and_use_fact" ELSE "edit"
      [] ~Reasoned(r) /\ r.check = "failed" -> "edit"
      [] ~Reasoned(r) /\ r.check # "failed" /\ r.stage = "none" -> "approve"
      [] ~Reasoned(r) /\ r.check # "failed" /\ r.stage = "approved" -> "render"
      [] OTHER -> "none"
LeadCommand(r, here) ==
    LET lead ==
        CASE here = "analysis" -> IF Classified(r) THEN "none" ELSE "analyze"
          [] here = "verification" -> LeadEntry(r)
          [] here = "draft" -> EditorLead(r)
          [] here = "ready" -> IF Handed(r) THEN "none" ELSE "submit"
          [] OTHER -> "none"
    IN  IF lead \in Commands(r, here) THEN lead ELSE "none"
LeadLink(r, here) ==
    LET lead ==
        CASE here \in {"board", "hub"} -> {Resume(r)}
          [] here = "analysis" -> DraftStep(r)
          [] here = "matching" -> {"analysis"}
          [] here = "verification" -> {LeadEntry(r)}
          [] here = "draft" -> IF r.content THEN {"ready"} ELSE {"hub"}
          [] here = "ready" -> IF IsReady(r) THEN {"board"} ELSE {"draft"}
          [] OTHER -> {"board"}
    IN  lead \intersect Links(r, here)

(***************************************************************************)
(* The server.  A command names the posting or the document it was pressed *)
(* over, and is refused when that moved on or it is not offered.           *)
(***************************************************************************)
Accepts(action) ==
    /\ action \in Available(record)
    /\ action \in Mutating => /\ record.hash = seen.hash
                             /\ Live(record) \intersect DocumentOperations = {}
    /\ action = "submit" => record.hash = seen.hash
    /\ action = "analyze" => record.posting = seen.posting
    /\ action \in {"build_from_analysis", "edit_matching_configuration"} => Latest(record) = Latest(seen)
    /\ action = "edit_matching_configuration" => Latest(record) < MaxAnalyses
\* a press repeated over what it was pressed over returns the run it has
Queued(r, type) ==
    LET run == [type |-> type, hash |-> r.hash, posting |-> r.posting]
    IN  IF Contains(r.queue, run) THEN r ELSE [r EXCEPT !.queue = Append(@, run)]
\* a rebuild takes the newest analysis and no content
Rebuilt(r) ==
    [r EXCEPT !.pinned = Latest(r), !.content = FALSE, !.check = "none", !.stage = "none",
              !.fact = "canonical", !.hash = @ + 1]
\* checkAndOpenApproval: content that no check passed yet is checked first
Outcomes(r, action) ==
    CASE action = "analyze" -> {Queued(r, "analyze_job")}
      [] action = "ask_gap_questions" -> {Queued(r, "ask_gap_questions")}
      [] action = "create_draft" -> {Queued(r, "create_draft")}
      [] action = "regenerate_section" -> {Queued(r, "regenerate_section")}
      [] action = "render" -> {Queued(r, "render_document")}
      [] action = "edit_matching_configuration" -> {[r EXCEPT !.analyses = Append(@, r.posting)]}
      [] action = "build_from_analysis" -> {Rebuilt(r)}
      [] action \in {"edit", "confirm_and_use_fact"} -> {[Written(r) EXCEPT !.fact = "canonical"]}
      [] action = "check" -> {[r EXCEPT !.check = "passed"], [r EXCEPT !.check = "failed"]}
      [] action = "approve" -> {[r EXCEPT !.check = "passed", !.stage = "approved"]}
                               \union (IF r.check = "passed" THEN {} ELSE {[r EXCEPT !.check = "failed"]})
      [] action = "submit" -> {[r EXCEPT !.submitted = @ \union {r.hash}]}
      [] action = "download_pdf" -> {r}

Spend(act) == left[act] > 0 /\ left' = [left EXCEPT ![act] = @ - 1]
Fails(r) == r.check = "failed" /\ record.check # "failed"

\* a press, answered: the page reads what the answer left
Press(action) ==
    /\ action \in Commands(seen, page)
    /\ IF Accepts(action)
          THEN \E r \in Outcomes(record, action) :
                  /\ record' = r /\ seen' = r
                  /\ IF Fails(r) THEN Spend("trouble") ELSE UNCHANGED left
          ELSE seen' = record /\ UNCHANGED <<record, left>>
    /\ UNCHANGED <<page, dialog>> /\ opened' = NotOpened

(***************************************************************************)
(* The worker ends the oldest run: its result is written only over what it *)
(* was queued for.                                                         *)
(***************************************************************************)
Result(r, operation) ==
    LET rest == [r EXCEPT !.queue = Tail(@)]
        fresh == operation.hash = r.hash
    IN  CASE operation.type = "analyze_job" /\ operation.posting = r.posting /\ Latest(r) < MaxAnalyses ->
                [rest EXCEPT !.analyses = Append(@, r.posting),
                             !.pinned = IF @ = 0 THEN Latest(r) + 1 ELSE @]
          [] operation.type = "create_draft" /\ fresh -> [Written(rest) EXCEPT !.content = TRUE]
          [] operation.type = "regenerate_section" /\ fresh -> [Written(rest) EXCEPT !.fact = "canonical"]
          [] operation.type = "render_document" /\ fresh /\ r.stage = "approved" ->
                [rest EXCEPT !.stage = "rendered"]
          [] OTHER -> rest
RunEnds ==
    /\ record.queue # <<>>
    /\ \/ record' = Result(record, Head(record.queue)) /\ UNCHANGED left
       \/ record' = [record EXCEPT !.queue = Tail(@)] /\ Spend("trouble")
    /\ UNCHANGED <<seen, page, dialog>> /\ opened' = NotOpened

(***************************************************************************)
(* Another screen, and the Knowledge.                                      *)
(***************************************************************************)
Elsewhere(r) ==
    /\ ~record.deleted /\ Spend("trouble")
    /\ record' = r /\ UNCHANGED <<seen, page, dialog>> /\ opened' = NotOpened
Unclaimed == Live(record) \intersect DocumentOperations = {}

\* the posting is locked by the first submission
PostingEdited ==
    /\ record.submitted = {}
    /\ \E text \in Texts \ {record.posting} : Elsewhere([record EXCEPT !.posting = text])
Corrected ==
    /\ "edit_matching_configuration" \in Available(record) /\ Classified(record) /\ Latest(record) < MaxAnalyses
    /\ Elsewhere([record EXCEPT !.analyses = Append(@, record.posting)])
\* an edit may leave a line whose wording no canonical fact bears out
Edited ==
    /\ "edit" \in Available(record) /\ Unclaimed
    /\ \E fact \in {"canonical", "pending"} : Elsewhere([Written(record) EXCEPT !.fact = fact])
RebuiltElsewhere ==
    /\ "build_from_analysis" \in Available(record) /\ Unclaimed
    /\ Elsewhere(Rebuilt(record))
Deleted == Elsewhere([record EXCEPT !.deleted = TRUE])
FactDeleted ==
    /\ record.content /\ record.fact = "canonical"
    /\ Elsewhere([BasisMoved(record) EXCEPT !.fact = "deleted"])

(***************************************************************************)
(* The reader and the reads.                                               *)
(***************************************************************************)
Read ==
    /\ ~dialog.open /\ seen # record
    /\ seen' = record
    /\ UNCHANGED <<record, page, left, dialog>> /\ opened' = NotOpened
Goes(to) == page' = to /\ UNCHANGED <<record, seen, left, dialog>> /\ opened' = NotOpened

\* the resume page waits for a read of its own before it moves on
Resumes ==
    /\ ~dialog.open /\ page = "resume" /\ ~record.deleted
    /\ page' = Resume(record) /\ seen' = record
    /\ UNCHANGED <<record, left, dialog>> /\ opened' = NotOpened
FollowsLead ==
    /\ ~dialog.open /\ page # "resume"
    /\ IF LeadCommand(seen, page) # "none" THEN Press(LeadCommand(seen, page))
       ELSE \E to \in LeadLink(seen, page) : Goes(to)

\* any other press, and any page by its link or its address
Wanders ==
    /\ ~dialog.open /\ left["wander"] > 0
    /\ \/ \E to \in Pages : page' = to /\ UNCHANGED <<record, seen>>
       \/ /\ \E action \in Commands(seen, page) :
                  Accepts(action) /\ \E r \in Outcomes(record, action) : ~Fails(r) /\ record' = r /\ seen' = r
          /\ UNCHANGED page
    /\ Spend("wander") /\ UNCHANGED dialog /\ opened' = NotOpened

\* the dialog covers the page; the record it lists leads to where it resumes
Here == "here"
Rested == left' = [left EXCEPT !["type"] = Budget["type"]]
Searches ==
    /\ UNCHANGED <<record, seen>>
    /\ \/ page = "board" /\ OpenDialog /\ Spend("wander") /\ UNCHANGED page
       \/ \E text \in Typed : UpdateSearch(text) /\ Spend("type") /\ UNCHANGED page
       \/ /\ \/ Defer \/ Retry \/ MoveTo
             \/ \E row \in DOMAIN Items : Hover(row)
             \/ \E answer \in Queries \union {"failed"} : Answer(answer)
          /\ UNCHANGED <<page, left>>
       \/ /\ Enter \/ \E row \in DOMAIN Items : Click(row)
          /\ page' = IF opened'.item = Here THEN Resume(seen) ELSE "away"
          /\ Rested
       \/ CloseDialog /\ page' = "away" /\ Rested      \* the offer of a new job
EndsSearch == CloseDialog /\ Rested /\ UNCHANGED <<record, seen, page>>

Surroundings ==
    ~dialog.open /\ (PostingEdited \/ Corrected \/ Edited \/ RebuiltElsewhere \/ Deleted \/ FactDeleted)
Next == Read \/ Resumes \/ FollowsLead \/ Wanders \/ Searches \/ EndsSearch \/ RunEnds \/ Surroundings

NewRecord(text) ==
    [posting |-> text, analyses |-> <<>>, pinned |-> 0, content |-> FALSE, fact |-> "canonical",
     check |-> "none", stage |-> "none", hash |-> 0, queue |-> <<>>, submitted |-> {}, deleted |-> FALSE]
Init ==
    /\ \E text \in Texts : record = NewRecord(text)
    /\ seen = record /\ page = "board" /\ left = Budget
    /\ dialog = Closed /\ opened = NotOpened
Spec == Init /\ [][Next]_vars
\* a reader who goes on, a worker that runs, reads that come
FairSpec ==
    /\ Spec
    /\ WF_vars(FollowsLead) /\ WF_vars(Resumes) /\ WF_vars(EndsSearch)
    /\ WF_vars(Read) /\ WF_vars(RunEnds)

(***************************************************************************)
(* Properties.                                                             *)
(***************************************************************************)
TypeOK ==
    /\ record \in Records /\ seen \in Records
    /\ \A r \in {record, seen} :
          /\ Latest(r) <= MaxAnalyses /\ r.pinned <= Latest(r)
          /\ r.content => HasDocument(r)
          /\ r.stage # "none" => r.content /\ r.check = "passed"
    /\ page \in Pages /\ left \in [Acts -> Nat]
    /\ DialogType

(***************************************************************************)
(* Whatever the server advises has its command on the very page the record *)
(* resumes at: the table of recommendations (state.py's derive_actions),   *)
(* the table of destinations (actionDestinations.ts) and what each page    *)
(* shows of a superseded analysis agree.                                   *)
(***************************************************************************)
AdviceIsWhereItResumes ==
    record.queue = <<>> /\ Recommended(record) # "none" =>
        Recommended(record) \in Commands(record, Resume(record))

Onward(r, pages) == pages \union UNION {Links(r, here) : here \in pages}
Reached(r) == Onward(r, Onward(r, Onward(r, {Resume(r)})))
\* settings and questions of an analysis the posting has outgrown are on no page
NotShown(r) == IF Classified(r) THEN {} ELSE {"edit_matching_configuration", "ask_gap_questions"}
(***************************************************************************)
(* Nothing the server offers is out of the reader's reach: from where a    *)
(* record that has been read resumes, three links at most lead to a page   *)
(* with its command.                                                       *)
(* A rebuild over a draft has one link to it, on the editor's warning.     *)
(***************************************************************************)
OffersAreInReach ==
    record.queue = <<>> /\ seen = record /\ ~dialog.open =>
        Available(record) \ NotShown(record) \subseteq
            UNION {Commands(record, here) : here \in Reached(record)}

(***************************************************************************)
(* No link leads to an empty page by the projection that drew it: to the   *)
(* editor of no draft, the files of a document that is not ready, or the   *)
(* settings of no analysis.  The ready page's own way back to the editor   *)
(* does, after a rebuild elsewhere.                                        *)
(***************************************************************************)
LinksHaveSomethingToShow ==
    \A here \in Pages \ {"ready"} : \A to \in Links(seen, here) :
        /\ to = "draft" => seen.content
        /\ to = "ready" => IsReady(seen)
        /\ to = "matching" => Classified(seen)

\* a posting put back to what an older analysis read: the document is on another text,
\* and neither an analysis nor a rebuild is offered
PutBack(r) ==
    /\ HasDocument(r) /\ ~r.content
    /\ Analysed(r) /\ JobTextChanged(r) /\ Latest(r) = r.pinned
(***************************************************************************)
(* A reader who always takes the way the page puts forward hands the CV in *)
(* at last, from any page, over any old projection, past failed runs and   *)
(* what other screens do meanwhile: unless the record is deleted, or its   *)
(* posting was put back (PutBack), where the pages offer nothing.          *)
(***************************************************************************)
LeadsToDelivery == <>[](Handed(record) \/ record.deleted \/ PutBack(record))

(***************************************************************************)
(* What the proofs add: what every record fits, the server's and the one   *)
(* the pages were drawn from, and that the highlight is a row's number.    *)
(***************************************************************************)
Fields == {"posting", "analyses", "pinned", "content", "fact", "check", "stage", "hash", "queue",
           "submitted", "deleted"}
\* a draft is queued for a document
QueueFits(queue, pinned) ==
    /\ queue \in Seq({queue[i] : i \in DOMAIN queue})
    /\ \A i \in DOMAIN queue : queue[i].type = "create_draft" => pinned # 0
RecordFits(r) ==
    /\ DOMAIN r = Fields
    /\ QueueFits(r.queue, r.pinned)
    /\ r.posting \in Texts /\ r.analyses \in Seq(Texts)
    /\ r.pinned \in Nat /\ r.pinned <= Len(r.analyses)
    /\ r.fact \in Facts /\ r.check \in Checks /\ r.stage \in {"none", "approved", "rendered"}
    /\ r.content => r.pinned # 0
    /\ r.stage # "none" => r.content /\ r.check = "passed"

WorkflowInvariant == RecordFits(record) /\ RecordFits(seen)

DialogFits ==
    /\ DOMAIN dialog = {"open", "text", "deferred", "answer", "active"}
    /\ dialog.text \in Typed
    /\ dialog.deferred \in Queries
    /\ dialog.active \in Nat \ {0}
SearchInvariant == DialogFits /\ EnterOpensAnAnswer
=============================================================================
