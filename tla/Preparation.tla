---------------------------- MODULE Preparation ----------------------------
(***************************************************************************)
(* The screens before the editor: the analysis, the matching settings and  *)
(* the step that creates the draft.  One tab moves between them while the  *)
(* server runs what it queued and other screens edit the posting, the      *)
(* Knowledge and the document.                                             *)
(*                                                                         *)
(* An analysis is the posting it read; a document is the analysis it is    *)
(* pinned to and the number of its content (0: none), which is also its    *)
(* hash.  Timestamps are replaced by what they order: how often the        *)
(* posting had been edited when a run finished, and the number of an       *)
(* analysis.  Left out: reads that fail, the overlay's session (it is in   *)
(* DraftScreen), a page reload, the AI provider's availability, a second   *)
(* command of a kind beside one whose screen is gone, and deletion.        *)
(***************************************************************************)
EXTENDS WatchedOperation

CONSTANTS
    Texts,      \* postings
    Openings,   \* where a tab that has read the projection before may be opened: how many
                \* analyses there are, and the page
    Budget      \* how often the reader and the surroundings may do each thing

ReaderActs == {"analyze", "draft", "rebuild", "form", "save", "navigate", "retry", "cancel"}
Surrounding == {"posting", "knowledge", "decision", "edit", "repin", "focus", "fail", "runFails"}
Acts == ReaderActs \union Surrounding \union {"reader", "surroundings"}
Commands == {"analyze", "draft", "rebuild", "save", "retry", "cancel"}
RunPages == {"analysis", "verification"}
Pages == RunPages \union {"matching", "away"}

ASSUME PreparationConstants ==
    /\ Texts # {} /\ Openings \subseteq (0 .. 2) \X (Pages \ {"away"})
    /\ Budget \in [Acts -> Nat]
    /\ MaxOps \in Nat /\ MaxOps >= Budget["reader"] + 2

VARIABLES
    \* the server
    posting, edits,     \* the job text, and how often it was edited
    knowledge,          \* the version of the Knowledge an analysis reads
    autoGenerate,       \* the setting: a first analysis goes on to its draft
    analyses,           \* oldest first
    doc,                \* analysis (0: no document), content, writes, review
    \* the tab
    page,
    intent,             \* the draft the last history entry of a page waits for
    followed,           \* the continued draft this visit has followed
    queuedId,           \* the run the panel of the step queued itself
    rebuildOpen, form,  \* the confirmation of a rebuild; the matching settings
    request, budget

server == <<posting, edits, knowledge, autoGenerate, analyses, doc, ops>>
screen == <<page, intent, followed, queuedId, rebuildOpen, form>>
vars == <<server, detail, detailFetch, watching, screen, request, budget>>

(***************************************************************************)
(* The server's state and its projection (derive_actions).                 *)
(***************************************************************************)
Hash(d) == <<d.analysis, d.content>>
NoHash == <<0, 0>>
Live == {id \in DOMAIN ops : ops[id].status = "live"}
LiveAnalysis == \E id \in Live : ops[id].type = "analyze_job"
\* operations of one Application run one at a time, oldest first
Active == IF Live = {} THEN 0 ELSE Min(Live)
Analysed == \E i \in DOMAIN analyses : analyses[i].text = posting
\* classificationFromAnalysis: the latest analysis, if it read the posting as it is
Classified == analyses # <<>> /\ analyses[Len(analyses)].text = posting

DetailNow ==
    LET active == Active
        latest == IF active # 0 THEN active ELSE Latest
        drafting == active # 0 /\ ops[active].type = "create_draft"
        analyze == ~Analysed /\ (active # 0 => drafting)
    IN  [known |-> TRUE, posting |-> posting, edits |-> edits,
         analysis |-> Len(analyses),
         classified |-> Classified,
         docAnalysis |-> doc.analysis, hash |-> Hash(doc), review |-> doc.review,
         active |-> active, latest |-> latest, status |-> StatusOf(latest),
         analyze |-> analyze,
         advised |-> analyze /\ (doc.analysis = 0 \/ doc.content = 0),
         settings |-> analyses # <<>> /\ ~LiveAnalysis,
         rebuild |-> doc.analysis # 0 /\ Len(analyses) > doc.analysis /\ ~drafting,
         draft |-> /\ doc.analysis # 0 /\ doc.content = 0 /\ ~drafting
                   /\ analyses[doc.analysis].text = posting]
Unknown == [DetailNow EXCEPT !.known = FALSE, !.latest = 0, !.status = "unread", !.active = 0]

\* which screen asked: its own panel, another part of the page, or one that is gone
NoRequest == [stage |-> "none", from |-> "gone", text |-> 0, hash |-> NoHash, analysis |-> 0, on |-> 0,
              op |-> 0, confirmed |-> FALSE, verdict |-> "none", status |-> "unread"]
Sent(from) == [NoRequest EXCEPT !.stage = "sent", !.from = from]
Idle(kind) == request[kind].stage = "none"
NoForm == [key |-> <<0, NoHash>>, changed |-> FALSE, on |-> 0]

Run(type, key, text, hash, continues) ==
    [type |-> type, key |-> key, text |-> text, hash |-> hash, knowledge |-> knowledge,
     continues |-> continues, status |-> "live", output |-> 0, edits |-> 0]
Analysis(by, on) == [text |-> posting, by |-> by, on |-> on]
NoDocument == [analysis |-> 0, content |-> 0, writes |-> 0, review |-> FALSE]
\* an analysis creates the document when there is none, and leaves any other alone
Pinned(analysis) == IF doc.analysis = 0 THEN [doc EXCEPT !.analysis = analysis] ELSE doc
Redrafted(review) == [doc EXCEPT !.content = doc.writes + 1, !.writes = @ + 1, !.review = review]

(***************************************************************************)
(* What the screen is at (analysisViewState, isOperationLive, the pages).  *)
(***************************************************************************)
Watches == page \in RunPages
\* Mutant: only the very analysis of the run is its result.
ShowsExactly(output) == detail.analysis = output
Shows(output) == detail.analysis >= output
ViewState ==
    CASE ~detail.known -> "processing"
      [] detail.known /\ Type # "analyze_job" -> "content"
      [] detail.known /\ Type = "analyze_job" /\ ~Ended -> "processing"
      [] OTHER ->
            IF detail.edits > ops[Candidate.id].edits THEN "content"
            ELSE IF ~Succeeded THEN "analysis_failed"
            ELSE IF Shows(ops[Candidate.id].output) THEN "content" ELSE "processing"

\* continuedDraft: the draft queued for the document this analysis created
Continued == /\ Succeeded /\ Type = "analyze_job" /\ detail.active # 0
             /\ ops[detail.active].type = "create_draft"
             /\ ops[Candidate.id].output = detail.docAnalysis
AwaitsProjection == /\ autoGenerate /\ Succeeded /\ Type = "analyze_job"
                    /\ detail.known /\ detail.docAnalysis = 0
NavigationPending == /\ Succeeded /\ Type = "create_draft" /\ ~detail.review
                     /\ detail.active \in {0, Candidate.id} /\ intent[page] = Candidate.id
ContentArrived == detail.hash[2] # 0
Continuation == Succeeded /\ (Continued \/ AwaitsProjection \/ NavigationPending)

PendingRun == page = "analysis" /\ ~HasOperation /\ ViewState = "processing"
OperationLive == \/ PendingRun \/ AwaitingRecord \/ Running \/ Continuation
                 \/ Succeeded /\ ~Settled
RunIsScreen ==
    CASE page = "verification" -> OperationLive
      [] page = "analysis" -> \/ ViewState = "processing"
                              \/ ViewState = "analysis_failed" /\ ~detail.classified
                              \/ Continuation /\ Type # "analyze_job"
      [] OTHER -> FALSE
\* the step's own body, and the panel of its commands
OnStep == Watches /\ detail.known /\ ~RunIsScreen /\ ~rebuildOpen
QueuedStillRunning == queuedId # 0 /\ record[queuedId] \notin Terminal
WorkInFlight == OperationLive \/ QueuedStillRunning \/ detail.active # 0

\* what the form of the matching settings is keyed by
FormKey == IF detail.classified THEN <<detail.analysis, detail.hash>> ELSE NoForm.key

Init ==
    \* postings are interchangeable: any one of them stands for all
    /\ posting = (CHOOSE text \in Texts : TRUE) /\ edits = 0 /\ knowledge = 0
    /\ autoGenerate \in BOOLEAN
    /\ \/ \* created by the intake, which queued its analysis
          /\ analyses = <<>> /\ doc = NoDocument /\ page = "analysis"
          /\ ops = <<Run("analyze_job", <<"analyze", posting>>, posting, NoHash, autoGenerate)>>
          /\ detail = Unknown
       \/ \* entered with what an earlier visit has read: an analysis to create a draft from, or
          \* one that was decided again, whose document was rebuilt after its draft had failed
          /\ \E opening \in Openings :
                analyses = SubSeq(<<Analysis(0, 0), Analysis(0, 1)>>, 1, opening[1])
                  /\ page = opening[2]
          /\ autoGenerate => analyses = <<>>    \* the setting is for the first analysis only
          /\ doc \in IF analyses = <<>> THEN {NoDocument}
                     ELSE {[NoDocument EXCEPT !.analysis = 1, !.content = n, !.writes = n] :
                              n \in 0 .. 1} \union
                          {[NoDocument EXCEPT !.analysis = Len(analyses)]}
          /\ ops = IF doc.analysis = 2
                   THEN <<[Run("create_draft", <<"draft", <<1, 0>>>>, posting, <<1, 0>>, FALSE)
                              EXCEPT !.status = "failed"]>>
                   ELSE <<>>
          /\ detail = DetailNow
    \* the form is come to from another page, and the projection is being read again
    /\ detailFetch = IF detail.known /\ page # "matching" THEN NoFetch ELSE Asked
    /\ record = [id \in OpIds |-> "unread"]
    /\ watched = Latest /\ projected = 0 /\ refreshing = 0 /\ settledFor = 0
    /\ intent = [p \in Pages |-> 0] /\ followed = 0 /\ queuedId = 0
    /\ rebuildOpen = FALSE
    /\ form = IF page = "matching" THEN [NoForm EXCEPT !.key = FormKey] ELSE NoForm
    /\ request = [kind \in Commands |-> NoRequest] /\ budget = Budget

(***************************************************************************)
(* Effects: what React runs after a render because of what it rendered.    *)
(* They go before anything else (Calm).                                    *)
(***************************************************************************)
\* Mutant: the form is not keyed by what it decides on.
FormKept == page = "matching" /\ form.key = NoForm.key /\ FormKey # NoForm.key
FormStale == page = "matching" /\ form.key # FormKey
PanelGone == /\ page = "verification" /\ RunIsScreen
             /\ \/ queuedId # 0 \/ rebuildOpen
                \/ \E kind \in {"analyze", "draft", "rebuild"} : request[kind].from = "panel"
ContinuationDue == Watches /\ Continued /\ followed # detail.active
EditorDue == Watches /\ NavigationPending /\ ContentArrived
ProjectionDue == Watches /\ ProjectedMoved
RefreshDue == Watches /\ TerminalMoved
SettleDue == Watches /\ ViewsRead
SaveDue == request["save"].stage = "views" /\ detailFetch = NoFetch
RebuildDue == request["rebuild"].stage = "views" /\ detailFetch = NoFetch
Calm == ~(\/ FormStale \/ PanelGone \/ ContinuationDue \/ EditorDue \/ ProjectionDue \/ RefreshDue
          \/ SettleDue \/ SaveDue \/ RebuildDue)

\* commands whose screen, or whose panel, is no longer there
Orphaned(kinds, from) ==
    [kind \in Commands |->
        IF kind \in kinds /\ request[kind].from # "gone" THEN [request[kind] EXCEPT !.from = from]
        ELSE request[kind]]

\* a new analysis or document remounts the form of the matching settings
FormRemounts ==
    /\ FormStale
    /\ form' = [NoForm EXCEPT !.key = FormKey] /\ request' = Orphaned({"save"}, "gone")
    /\ UNCHANGED <<server, detail, detailFetch, watching, page, intent, followed, queuedId,
                   rebuildOpen, budget>>
\* the run takes the screen of the step, and the panel goes with its state
PanelUnmounts ==
    /\ PanelGone
    /\ queuedId' = 0 /\ rebuildOpen' = FALSE
    /\ request' = Orphaned({"analyze", "draft", "rebuild"}, "page")
    /\ UNCHANGED <<server, detail, detailFetch, watching, page, intent, followed, form, budget>>
FollowProjection ==
    /\ ProjectionDue /\ ProjectionFollowed
    /\ UNCHANGED <<server, detail, detailFetch, screen, request, budget>>
RefreshViews ==
    /\ RefreshDue /\ ViewsRefreshed
    /\ UNCHANGED <<server, detail, screen, request, budget>>
SettleRun ==
    /\ SettleDue /\ ~TerminalMoved /\ RunSettled
    /\ UNCHANGED <<server, detail, detailFetch, screen, request, budget>>
\* useAutomaticDraft: the draft queued after the analysis is followed once
FollowContinuation ==
    /\ ContinuationDue
    /\ followed' = detail.active /\ watched' = detail.active
    /\ intent' = [intent EXCEPT ![page] = detail.active]
    /\ UNCHANGED <<server, detail, detailFetch, record, projected, refreshing, settledFor, page,
                   queuedId, rebuildOpen, form, request, budget>>

\* A page is entered: its state starts afresh, the projection is stale and read again.
Enters(to, intents) ==
    /\ page' = to /\ intent' = intents
    /\ watched' = 0 /\ projected' = 0 /\ refreshing' = 0 /\ settledFor' = 0
    /\ followed' = 0 /\ queuedId' = 0 /\ rebuildOpen' = FALSE
    /\ form' = IF to = "matching" THEN [NoForm EXCEPT !.key = FormKey] ELSE NoForm
    /\ detailFetch' = IF to = "away" THEN detailFetch ELSE Joined(detailFetch)
    /\ UNCHANGED <<detail, record>>
GoToEditor ==
    /\ EditorDue
    /\ Enters("away", [intent EXCEPT ![page] = 0]) /\ request' = Orphaned(Commands, "gone")
    /\ UNCHANGED <<server, budget>>
\* the answer to a decision is the analysis screen, wherever the reader has gone since
SaveOver ==
    /\ SaveDue
    /\ Enters("analysis", [intent EXCEPT !["analysis"] = 0])
    /\ request' = [Orphaned(Commands, "gone") EXCEPT !["save"] = NoRequest]
    /\ UNCHANGED <<server, budget>>
RebuildOver ==
    /\ RebuildDue
    /\ rebuildOpen' = (rebuildOpen /\ ~(request["rebuild"].from = "panel"
                                        /\ request["rebuild"].verdict = "accepted"))
    /\ request' = [request EXCEPT !["rebuild"] = NoRequest]
    /\ UNCHANGED <<server, detail, detailFetch, watching, page, intent, followed, queuedId, form,
                   budget>>
Effect ==
    IF FormStale THEN FormRemounts
    ELSE IF PanelGone THEN PanelUnmounts
    ELSE IF ProjectionDue THEN FollowProjection
    ELSE IF RefreshDue THEN RefreshViews
    ELSE IF ContinuationDue THEN FollowContinuation
    ELSE IF EditorDue THEN GoToEditor
    ELSE IF SettleDue THEN SettleRun
    ELSE SaveOver \/ RebuildOver

Spend(act) ==
    LET kind == IF act \in ReaderActs THEN "reader" ELSE "surroundings"
    IN  /\ budget[act] > 0 /\ budget[kind] > 0
        /\ budget' = [budget EXCEPT ![act] = @ - 1, ![kind] = @ - 1]

(***************************************************************************)
(* What the reader does.                                                   *)
(***************************************************************************)
Asks(kind, new) ==
    /\ Idle(kind) /\ request' = [request EXCEPT ![kind] = new]
    /\ UNCHANGED <<server, detail, detailFetch, watching>>
Home == IF page = "verification" THEN "panel" ELSE "page"

\* the command of a step without an analysis, the one beside the analysis it replaces, and the
\* entry of the next step, which is offered for a first analysis only
FirstAnalysisOffered == page = "analysis" /\ ~detail.classified /\ detail.analyze /\ ~OperationLive
ReanalysisOffered == page = "analysis" /\ detail.classified /\ detail.analyze /\ ~OperationLive
StepAnalysisOffered ==
    page = "verification" /\ detail.analyze /\ detail.advised /\ ~WorkInFlight
Analyze ==
    /\ OnStep /\ (FirstAnalysisOffered \/ ReanalysisOffered \/ StepAnalysisOffered)
    /\ Asks("analyze", [Sent(Home) EXCEPT !.text = detail.posting])
    /\ Spend("analyze") /\ UNCHANGED screen
DraftOffered == page = "verification" /\ detail.draft /\ ~WorkInFlight
CreateDraft ==
    /\ OnStep /\ DraftOffered
    /\ Asks("draft", [Sent("panel") EXCEPT !.hash = detail.hash])
    /\ Spend("draft") /\ UNCHANGED screen
\* a document with content is asked about first
RebuildSent(confirmed) ==
    Asks("rebuild", [Sent("panel") EXCEPT !.hash = detail.hash, !.analysis = detail.analysis,
                                          !.confirmed = confirmed])
RebuildOffered == page = "verification" /\ detail.rebuild /\ ~WorkInFlight
StartRebuild ==
    /\ OnStep /\ RebuildOffered /\ Idle("rebuild")
    /\ IF ContentArrived
       THEN rebuildOpen' = TRUE /\ UNCHANGED <<server, detail, detailFetch, watching, request>>
       ELSE RebuildSent(FALSE) /\ UNCHANGED rebuildOpen
    /\ Spend("rebuild") /\ UNCHANGED <<page, intent, followed, queuedId, form>>
RebuildAnswerable == rebuildOpen /\ ~WorkInFlight /\ detail.rebuild
ConfirmRebuild ==
    /\ RebuildAnswerable
    /\ RebuildSent(TRUE) /\ UNCHANGED <<screen, budget>>
CloseRebuild ==
    /\ rebuildOpen /\ rebuildOpen' = FALSE
    /\ UNCHANGED <<server, detail, detailFetch, watching, page, intent, followed, queuedId, form,
                   request, budget>>

FormShown == page = "matching" /\ detail.classified
FormOpen == FormShown /\ detail.settings /\ Idle("save")
ChangeSettings ==
    /\ FormOpen /\ ~form.changed /\ Spend("form")
    /\ form' = [form EXCEPT !.changed = TRUE, !.on = detail.analysis]
    /\ UNCHANGED <<server, detail, detailFetch, watching, page, intent, followed, queuedId,
                   rebuildOpen, request>>
SaveSettings ==
    /\ FormOpen /\ form.changed /\ Spend("save")
    /\ Asks("save", [Sent("page") EXCEPT !.analysis = detail.analysis, !.hash = detail.hash,
                                         !.on = form.on])
    /\ UNCHANGED screen

\* a link opens a history entry of its own, the back button the one that was left
Navigate(to) ==
    /\ ~rebuildOpen /\ to # page /\ Spend("navigate")
    /\ \E intents \in {intent, [intent EXCEPT ![to] = 0]} : Enters(to, intents)
    /\ request' = Orphaned(Commands, "gone")
    /\ UNCHANGED server

OnRun == Watches /\ HasOperation /\ ~AwaitingRecord /\ Idle("retry") /\ Idle("cancel")
\* the report of a run that ended without a result, over the step or in its place
RetryOffered == OnRun /\ Candidate.status \in Retryable
CancelOffered == OnRun /\ Running
Retry ==
    /\ RetryOffered
    /\ Asks("retry", [Sent("page") EXCEPT !.op = Candidate.id])
    /\ Spend("retry") /\ UNCHANGED screen
Cancel ==
    /\ CancelOffered
    /\ Asks("cancel", [Sent("page") EXCEPT !.op = Candidate.id])
    /\ Spend("cancel") /\ UNCHANGED screen

(***************************************************************************)
(* The server: the commands and the runs.                                  *)
(***************************************************************************)
Answered(kind, verdict) ==
    request' = [request EXCEPT ![kind].stage = "answered", ![kind].verdict = verdict]
Queued(kind, id, status) ==
    request' = [request EXCEPT ![kind].stage = "answered", ![kind].verdict = "accepted",
                               ![kind].op = id, ![kind].status = status]
Ends(id, status) == [ops EXCEPT ![id].status = status, ![id].edits = edits]
Refused(kind) == Answered(kind, "refused") /\ UNCHANGED <<analyses, doc, ops>>

\* operation_client.enqueue: one key is one Operation, ended or not
Enqueue(kind, run) ==
    LET same == {id \in DOMAIN ops : ops[id].type = run.type /\ ops[id].key = run.key}
    IN  /\ \/ same = {} /\ ops' = Append(ops, run) /\ Queued(kind, Latest + 1, "live")
           \/ \E id \in same : /\ IF ops[id].hash = run.hash THEN Queued(kind, id, ops[id].status)
                                  ELSE Answered(kind, "refused")
                               /\ UNCHANGED ops
        /\ UNCHANGED <<analyses, doc>>

ServeAnalyze ==
    LET text == request["analyze"].text
    IN  IF text = posting
        THEN Enqueue("analyze", Run("analyze_job", <<"analyze", text>>, text, NoHash, autoGenerate))
        ELSE Refused("analyze")
Current(kind) == request[kind].hash = Hash(doc)
ServeDraft ==
    IF Current("draft") /\ doc.content = 0
    THEN Enqueue("draft", Run("create_draft", <<"draft", Hash(doc)>>, posting, Hash(doc), FALSE))
    ELSE Refused("draft")
\* a retry keeps what its run had frozen, but acts on the document as it is now
ServeRetry ==
    LET id == request["retry"].op
        hash == IF ops[id].type = "create_draft" THEN Hash(doc) ELSE NoHash
    IN  IF ops[id].status \in Retryable
        THEN Enqueue("retry", [ops[id] EXCEPT !.key = <<"retry", id>>, !.hash = hash,
                                              !.status = "live", !.edits = 0])
        ELSE Refused("retry")
\* a queued run is cancelled at once, one that is executing when it next looks
ServeCancel ==
    LET id == request["cancel"].op
    IN  /\ \E status \in IF ops[id].status = "live" THEN {"live", "cancelled"}
                         ELSE {ops[id].status} :
              /\ ops' = IF status = "cancelled" THEN Ends(id, status) ELSE ops
              /\ Queued("cancel", id, status)
        /\ UNCHANGED <<analyses, doc>>
\* Mutant: the document's hash is not compared.
ServeRebuildBlind ==
    IF request["rebuild"].analysis # doc.analysis
    THEN /\ doc' = [doc EXCEPT !.analysis = request["rebuild"].analysis, !.content = 0,
                               !.review = FALSE]
         /\ Answered("rebuild", "accepted") /\ UNCHANGED <<analyses, ops>>
    ELSE Refused("rebuild")
ServeRebuild ==
    IF Current("rebuild") /\ request["rebuild"].analysis # doc.analysis
    THEN /\ doc' = [doc EXCEPT !.analysis = request["rebuild"].analysis, !.content = 0,
                               !.review = FALSE]
         /\ Answered("rebuild", "accepted") /\ UNCHANGED <<analyses, ops>>
    ELSE Refused("rebuild")
Decides(on) == /\ analyses' = Append(analyses, Analysis(0, on))
               /\ doc' = Pinned(Len(analyses) + 1) /\ UNCHANGED ops
ServeSave ==
    LET addressed == request["save"].analysis
    IN  IF /\ doc.analysis # 0 => Current("save")
           /\ addressed = Len(analyses) /\ analyses[addressed].text = posting /\ ~LiveAnalysis
        THEN Decides(request["save"].on) /\ Answered("save", "accepted")
        ELSE Refused("save")
Serve(kind) ==
    /\ request[kind].stage = "sent"
    /\ CASE kind = "analyze" -> ServeAnalyze
         [] kind = "draft" -> ServeDraft
         [] kind = "rebuild" -> ServeRebuild
         [] kind = "save" -> ServeSave
         [] kind = "retry" -> ServeRetry
         [] OTHER -> ServeCancel
    /\ UNCHANGED <<posting, edits, knowledge, autoGenerate, detail, detailFetch, watching, screen,
                   budget>>

\* the frozen sources still hold
Fits(id) == IF ops[id].type = "analyze_job"
            THEN ops[id].text = posting /\ ops[id].knowledge = knowledge
            ELSE ops[id].hash = Hash(doc)
\* an analysis is written with the document it creates and the draft that continues it
AnalysisSucceeds(id) ==
    LET output == Len(analyses) + 1
        done == [Ends(id, "succeeded") EXCEPT ![id].output = output]
    IN  /\ analyses' = Append(analyses, Analysis(id, 0))
        /\ doc' = Pinned(output)
        /\ ops' = IF ops[id].continues /\ doc.analysis = 0
                  THEN Append(done, Run("create_draft", <<"continuation", id>>, posting, Hash(doc'),
                                        FALSE))
                  ELSE done
\* a draft is written into an empty document only
DraftSucceeds(id) ==
    /\ IF doc.content = 0
       THEN /\ \E review \in BOOLEAN : doc' = Redrafted(review)
            /\ ops' = Ends(id, "succeeded")
       ELSE ops' = Ends(id, "failed") /\ UNCHANGED doc
    /\ UNCHANGED analyses
RunEnds ==
    /\ Active # 0
    /\ IF ~Fits(Active) THEN ops' = Ends(Active, "source_changed") /\ UNCHANGED <<analyses, doc>>
       ELSE IF ops[Active].type = "analyze_job" THEN AnalysisSucceeds(Active)
       ELSE DraftSucceeds(Active)
    /\ UNCHANGED <<posting, edits, knowledge, autoGenerate, detail, detailFetch, watching, screen,
                   request, budget>>
RunFails ==
    /\ Active # 0 /\ Spend("runFails")
    /\ ops' = Ends(Active, "failed")
    /\ UNCHANGED <<posting, edits, knowledge, autoGenerate, analyses, doc, detail, detailFetch,
                   watching, screen, request>>

(***************************************************************************)
(* Answers arrive.                                                         *)
(***************************************************************************)
DetailServed ==
    /\ detailFetch = Asked
    /\ detailFetch' = [stage |-> "answered", value |-> DetailNow]
    /\ UNCHANGED <<server, detail, watching, screen, request, budget>>
DetailArrives ==
    /\ detailFetch.stage = "answered"
    /\ detail' = detailFetch.value /\ detailFetch' = NoFetch
    /\ UNCHANGED <<server, watching, screen, request, budget>>
Poll ==
    /\ Watches /\ PollDue /\ Polled
    /\ UNCHANGED <<server, detail, detailFetch, screen, request, budget>>

Closes(kind) == request' = [request EXCEPT ![kind] = NoRequest]
Arrived(kind) == request[kind].stage = "answered"
IsAccepted(kind) == request[kind].verdict = "accepted"
Seeded(kind) == RecordCached(request[kind].op, request[kind].status)
Unfollowed == UNCHANGED <<record, watched, queuedId, intent, detailFetch>>

AnalyzeAnswered ==
    /\ Arrived("analyze")
    /\ IF IsAccepted("analyze")
       THEN /\ Seeded("analyze") /\ detailFetch' = Invalidated
            /\ watched' = IF request["analyze"].from # "gone" THEN request["analyze"].op ELSE watched
            /\ queuedId' = IF request["analyze"].from = "panel" THEN request["analyze"].op
                           ELSE queuedId
            /\ UNCHANGED intent
       ELSE Unfollowed
    /\ Closes("analyze")
    /\ UNCHANGED <<server, detail, projected, refreshing, settledFor, page, followed, rebuildOpen,
                   form, budget>>
\* followQueued: a panel that is gone marks no intent, and follows nothing
DraftAnswered ==
    /\ Arrived("draft")
    /\ IF IsAccepted("draft")
       THEN /\ Seeded("draft")
            /\ IF request["draft"].from = "panel"
               THEN /\ watched' = request["draft"].op /\ queuedId' = request["draft"].op
                    /\ intent' = [intent EXCEPT ![page] = request["draft"].op]
                    /\ detailFetch' = Invalidated
               ELSE UNCHANGED <<watched, queuedId, intent, detailFetch>>
       ELSE Unfollowed
    /\ Closes("draft")
    /\ UNCHANGED <<server, detail, projected, refreshing, settledFor, page, followed, rebuildOpen,
                   form, budget>>
RunAnswered(kind) ==
    /\ kind \in {"retry", "cancel"} /\ Arrived(kind)
    /\ IF IsAccepted(kind)
       THEN /\ Seeded(kind)
            /\ watched' = IF kind = "retry" /\ request[kind].from # "gone" THEN request[kind].op
                          ELSE watched
       ELSE UNCHANGED <<record, watched>>
    /\ Closes(kind)
    /\ UNCHANGED <<server, detail, detailFetch, projected, refreshing, settledFor, screen, budget>>
\* a rebuild has the views read again however it went, a decision when it was saved
ReadsAfter(kind) ==
    /\ kind \in {"rebuild", "save"} /\ Arrived(kind)
    /\ IF kind = "rebuild" \/ IsAccepted(kind)
       THEN request' = [request EXCEPT ![kind].stage = "views"] /\ detailFetch' = Invalidated
       ELSE Closes(kind) /\ UNCHANGED detailFetch
    /\ UNCHANGED <<server, detail, watching, screen, budget>>

(***************************************************************************)
(* Other tabs, the network, the window.                                    *)
(***************************************************************************)
RequestFails(kind) ==
    /\ request[kind].stage \in {"sent", "answered"} /\ request[kind].verdict # "lost"
    /\ Spend("fail") /\ Answered(kind, "lost")
    /\ UNCHANGED <<server, detail, detailFetch, watching, screen>>
Elsewhere == UNCHANGED <<autoGenerate, ops, detail, detailFetch, watching, screen, request>>
PostingEdited ==
    /\ Spend("posting") /\ posting' \in Texts \ {posting} /\ edits' = edits + 1
    /\ UNCHANGED <<knowledge, analyses, doc>> /\ Elsewhere
KnowledgeChanges ==
    /\ Spend("knowledge") /\ knowledge' = knowledge + 1
    /\ UNCHANGED <<posting, edits, analyses, doc>> /\ Elsewhere
DecidedElsewhere ==
    /\ Spend("decision") /\ Classified /\ ~LiveAnalysis
    /\ Decides(Len(analyses))
    /\ UNCHANGED <<posting, edits, knowledge>> /\ Elsewhere
EditedElsewhere ==
    /\ Spend("edit") /\ doc.content # 0 /\ doc' = Redrafted(doc.review)
    /\ UNCHANGED <<posting, edits, knowledge, analyses>> /\ Elsewhere
RebuiltElsewhere ==
    /\ Spend("repin") /\ doc.analysis # 0 /\ Len(analyses) > doc.analysis
    /\ doc' = [doc EXCEPT !.analysis = Len(analyses), !.content = 0, !.review = FALSE]
    /\ UNCHANGED <<posting, edits, knowledge, analyses>> /\ Elsewhere
Focus ==
    /\ page # "away" /\ Spend("focus")
    /\ detailFetch' = Joined(detailFetch)
    /\ UNCHANGED <<server, detail, watching, screen, request>>

Reader ==
    \/ Analyze \/ CreateDraft \/ StartRebuild \/ ConfirmRebuild \/ CloseRebuild
    \/ ChangeSettings \/ SaveSettings \/ Retry \/ Cancel
    \/ \E to \in Pages : Navigate(to)
ServerAnswers == DetailServed \/ \E kind \in Commands : Serve(kind)
Arrivals ==
    \/ DetailArrives \/ Poll \/ AnalyzeAnswered \/ DraftAnswered
    \/ \E kind \in Commands : RunAnswered(kind) \/ ReadsAfter(kind)
Surroundings ==
    \/ PostingEdited \/ KnowledgeChanges \/ DecidedElsewhere \/ EditedElsewhere
    \/ RebuiltElsewhere \/ Focus \/ RunFails
    \/ \E kind \in Commands : RequestFails(kind)

Machine == IF Calm THEN ServerAnswers \/ RunEnds \/ Arrivals ELSE Effect
Next == Machine \/ (Calm /\ (Reader \/ Surroundings))
Spec == Init /\ [][Next]_vars
\* The browser runs its effects, the server answers and its runs end, the polls go on.  One
\* fairness for all: nothing of the machine goes on for ever without the reader or another tab.
FairSpec == Spec /\ WF_vars(Machine)

(***************************************************************************)
(* Properties.                                                             *)
(***************************************************************************)
\* The types, and one Operation per idempotency key.
TypeOK ==
    /\ posting \in Texts /\ page \in Pages /\ doc.analysis \in 0 .. Len(analyses)
    /\ Len(ops) <= MaxOps /\ watched \in 0 .. MaxOps
    /\ \A i, j \in DOMAIN ops : ops[i].type = ops[j].type /\ ops[i].key = ops[j].key => i = j
    /\ \A id \in OpIds : record[id] \in {"unread", "live"} \union Terminal

\* A decision is saved on the analysis its reader made it on: no other analysis, of another
\* run or tab, comes between the choices in the form and the analysis they are merged over
\* (the key that remounts the form, expected_analysis_id on the server).
DecisionsAreOnTheAnalysisShown ==
    \A i \in DOMAIN analyses : analyses[i].on # 0 => analyses[i].on = i - 1

\* Content this screen throws away was named in a confirmation first, although the content may
\* have been written after the projection that offered the rebuild was read.
RebuildDiscardsWhatWasConfirmed ==
    [][doc.content # 0 /\ doc'.content = 0 /\ request["rebuild"].stage = "sent"
          /\ request'["rebuild"].stage = "answered" => request["rebuild"].confirmed]_vars

\* What the two above rest on: a decision is made on the analysis the form is keyed by and named
\* in its command, a rebuild is sent without a question over an empty document only.
RequestFields == {"stage", "from", "text", "hash", "analysis", "on", "op", "confirmed", "verdict",
                  "status"}
PreparationInvariant ==
    /\ DOMAIN form = {"key", "changed", "on"} /\ (form.changed => form.on = form.key[1])
    /\ DOMAIN request = Commands /\ \A kind \in Commands : DOMAIN request[kind] = RequestFields
    /\ request["save"].on = request["save"].analysis
    /\ request["rebuild"].stage = "sent" /\ request["rebuild"].hash[2] # 0
          => request["rebuild"].confirmed
    /\ DOMAIN doc = {"analysis", "content", "writes", "review"}
    /\ analyses \in Seq({analyses[i] : i \in DOMAIN analyses})
    /\ DecisionsAreOnTheAnalysisShown

\* A draft that ends late, or is retried on the document as it is now, never replaces content.
DraftsReplaceNothing ==
    [][doc.content # 0 /\ doc' # doc => \A id \in DOMAIN ops : ops'[id].status = ops[id].status]_vars

\* The wait for an analysis ends on the screen that shows it, however the run ended and
\* whatever other analysis, edit or read came between (analysisViewState).
ProcessingEnds ==
    page = "analysis" /\ ViewState = "processing" ~> page # "analysis" \/ ViewState # "processing"

\* The draft this screen is leaving for has lost its content to a rebuild.
Stranded == NavigationPending /\ ~ContentArrived
\* A run holds the step only while it lives, in all but the case above (StepFrame, isOperationLive).
HoldsStep == page = "verification" /\ RunIsScreen
RunLetsGo == HoldsStep ~> ~HoldsStep \/ Stranded
=============================================================================
