---------------------------- MODULE DraftScreen ----------------------------
(***************************************************************************)
(* The screen that edits, checks, approves and renders the document: the   *)
(* Operation it watches, the two reads it draws from, the commands it has  *)
(* under way and the dialogs in front of it, beside a server that runs the *)
(* Operations and other tabs that write the same document.                 *)
(*                                                                         *)
(* A document is one line of text; the autosave is the line that is        *)
(* unsaved and the one PATCH that carries it (DraftAutosave has the whole  *)
(* queue).  A hash is the content it is computed over.  Left out: reads    *)
(* that fail, the review of one line (the regeneration's own mutation),    *)
(* the second try of a refresh after a fact was confirmed, the check that  *)
(* the document was not rebuilt from another analysis, and the warnings an *)
(* approval acknowledges.                                                  *)
(***************************************************************************)
EXTENDS DraftPromises

CONSTANTS
    Texts, Templates,
    Failing,        \* texts the content check refuses
    Budgets         \* how often the reader and the surroundings may do each thing: any one of these

ReaderActs == {"type", "regenerate", "report", "retry", "cancel", "check", "approve", "render",
               "template", "navigate", "resolve"}
Surrounding == {"foreign", "facts", "focus", "fail", "runFails"}
Acts == ReaderActs \union Surrounding \union {"reader", "surroundings"}
Commands == {"regenerate", "retry", "cancel", "check", "approve", "render", "template", "confirm"}

ASSUME ScreenConstants ==
    /\ None \notin Texts /\ Failing \subseteq Texts
    /\ Budgets \subseteq [Acts -> Nat] /\ MaxOps \in Nat

VARIABLES
    \* the server
    doc,            \* text, template, state of the facts, and the three stamps
    \* the document in the query cache, and the run it was last read back for
    read, docFetch, seen,
    session,        \* the overlay's session
    \* the editor
    rowOpen, shown, token,      \* and its buffer, flight and conflict (DraftPromises)
    \* the commands under way, one of each kind, and the longer flow
    request, resolving, resolutionFailed,
    approvalOpen, stale,
    renderOnApproval, renderQueuedHere, attempted,
    snapshot, budget

server == <<doc, ops>>
reads == <<detail, detailFetch, read, docFetch>>
watch == <<watching, seen>>
autosave == <<rowOpen, shown, buffer, flight, token, conflict>>
flows == <<flow, resolving, resolutionFailed>>
approval == <<approvalOpen, stale>>
render == <<renderOnApproval, renderQueuedHere, attempted>>
regeneration == <<snapshot, diff>>
vars == <<server, reads, watch, session, autosave, request, flows, approval, render, regeneration,
          left, budget>>

(***************************************************************************)
(* The document and its stamps, as the server keeps them.                  *)
(***************************************************************************)
Hash(d) == <<d.text, d.template>>
Basis(d) == <<d.text, d.facts>>
RenderBasis(d) == <<Basis(d), d.template>>
Blocked(d) == d.facts # "usable"
IsApproved(d) == d.approved = Basis(d)
PreparationState(d) ==
    CASE ~IsApproved(d) -> "draft_in_progress"
      [] IsApproved(d) /\ d.rendered = RenderBasis(d) -> "ready"
      [] OTHER -> "approved"
ContentCheck(d) ==
    CASE d.checked = None -> "none"
      [] d.checked # None /\ d.checked.basis # Basis(d) -> "outdated"
      [] OTHER -> IF d.checked.passed THEN "passed" ELSE "failed"
Checked(d) == [d EXCEPT !.checked = [basis |-> Basis(d), passed |-> d.text \notin Failing]]

OpTypes == {"regenerate_claim", "render_document"}

\* the projection; `ended` is what had ended when it was computed
DetailNow == [state |-> PreparationState(doc), hash |-> Hash(doc), blocked |-> Blocked(doc),
              checkOffered |-> ContentCheck(doc) # "passed",
              latest |-> Latest, status |-> StatusOf(Latest),
              ended |-> EndedNow]
ReadNow == [text |-> doc.text, template |-> doc.template, check |-> ContentCheck(doc)]

\* a command: where it is, what it carries, and the answer
NoRequest == [stage |-> "none", hash |-> None, template |-> None, opens |-> FALSE, op |-> 0,
              verdict |-> "none", status |-> "unread"]
About(hash) == [NoRequest EXCEPT !.stage = "sent", !.hash = hash]
Pending(kind) == request[kind].stage # "none"

(***************************************************************************)
(* useRenderDocument, isOperationStarting and isOperationLive.             *)
(***************************************************************************)
Approved == detail.state = "approved"
Ready == detail.state = "ready"
RenderStage == Approved \/ Ready
Rendering == Running /\ Type = "render_document"
\* Mutant: a render that was sent still counts as about to be sent.
AutoStartAlways == renderOnApproval /\ ~Ready
\* the command was not sent yet: the tick before the effect sends it
AutoStart == renderOnApproval /\ ~Ready /\ attempted = None
InFlight == Rendering \/ Pending("render") \/ AutoStart
RenderPending == InFlight /\ ~Rendering
RenderFinished == /\ Type = "render_document" /\ Succeeded
                  /\ Candidate.id = renderQueuedHere /\ Ready

Starting == RenderPending \/ AwaitingRecord \/ Running \/ RenderFinished
OperationLive == Starting \/ (Succeeded /\ ~Settled)

Dirty == flight # None \/ conflict \/ buffer # None
DocumentUnsettled == OperationLive \/ Dirty \/ resolving \/ resolutionFailed
Passing == ~DocumentUnsettled /\ ~stale /\ read.check = "passed"
ApprovalUnavailable == DocumentUnsettled \/ detail.blocked

\* A dialog in front of the page takes every press but its own.
InDialog == approvalOpen \/ conflict \/ session.dialogOpen \/ flow.goal = "template"

NoFlow == [goal |-> "none", steps |-> <<>>, content |-> None, stamped |-> FALSE, saved |-> TRUE]
Closed == [active |-> FALSE, dialogOpen |-> FALSE, historyId |-> 0, panelHidden |-> FALSE,
           succeededId |-> 0]

Stamps(d) ==
    {d, [Checked(d) EXCEPT !.approved = Basis(d)],
     [Checked(d) EXCEPT !.approved = Basis(d), !.rendered = RenderBasis(d)]}

Init ==
    \* texts and templates are interchangeable: any one of them stands for all
    /\ \E facts \in {"usable", "pending"} :
          doc \in Stamps([text |-> CHOOSE text \in Texts \ Failing : TRUE,
                          template |-> CHOOSE template \in Templates : TRUE,
                          facts |-> facts, checked |-> None, approved |-> None, rendered |-> None])
    /\ ops = <<>>
    /\ detail = DetailNow /\ UnwatchedInit /\ read = ReadNow /\ docFetch = NoFetch
    /\ seen = <<"none", "unread">>
    /\ session = Closed
    /\ rowOpen = FALSE /\ shown = doc.text /\ buffer = None /\ flight = None
    /\ token = Hash(doc) /\ conflict = FALSE
    /\ request = [kind \in Commands |-> NoRequest]
    /\ flow = NoFlow /\ resolving = FALSE /\ resolutionFailed = FALSE
    /\ approvalOpen = FALSE /\ stale = FALSE
    /\ renderOnApproval = FALSE /\ renderQueuedHere = 0 /\ attempted = None
    /\ snapshot = None /\ diff = None
    /\ left = FALSE /\ budget \in Budgets

(***************************************************************************)
(* Effects: what React runs after a render because of what it rendered.    *)
(* They go before anything else (Calm).                                    *)
(***************************************************************************)
RunMoved == seen # <<Type, Candidate.status>>
AutoRenderDue == renderOnApproval /\ Approved /\ attempted # detail.hash
SessionDue == Starting /\ ~session.active
SessionOver == session.active /\ ~(Starting \/ (Succeeded /\ ~Settled))
ApprovalShut == approvalOpen /\ ApprovalUnavailable
\* Mutant: any regeneration that ended is taken for this press's.
OursWhicheverRan == snapshot # None /\ Type = "regenerate_claim" /\ Ended
Ours == /\ snapshot # None /\ snapshot.op # 0
        /\ Candidate.id = snapshot.op /\ Type = "regenerate_claim" /\ Ended
DiffDue == Ours /\ (~Succeeded \/ Hash(read) # snapshot.hash)

FollowProjection ==
    /\ ProjectedMoved /\ ProjectionFollowed
    /\ UNCHANGED <<server, reads, seen, session, autosave, request, flows, approval, render,
                   regeneration, left, budget>>
RefreshViews ==
    /\ TerminalMoved /\ ViewsRefreshed
    /\ UNCHANGED <<server, detail, read, docFetch, seen, session, autosave, request, flows, approval,
                   render, regeneration, left, budget>>
SettleRun ==
    /\ ViewsRead /\ ~TerminalMoved /\ RunSettled
    /\ UNCHANGED <<server, reads, seen, session, autosave, request, flows, approval, render,
                   regeneration, left, budget>>

\* a run that rewrote the document has it read back
ReadBack ==
    /\ RunMoved
    /\ seen' = <<Type, Candidate.status>>
    /\ docFetch' = IF Succeeded THEN Invalidated ELSE docFetch
    /\ UNCHANGED <<server, detail, detailFetch, read, watching, session, autosave, request, flows,
                   approval, render, regeneration, left, budget>>

AutoRender ==
    /\ AutoRenderDue
    /\ attempted' = detail.hash
    /\ request' = [request EXCEPT !["render"] = About(detail.hash)]
    /\ UNCHANGED <<server, reads, watch, session, autosave, flows, approval, renderOnApproval,
                   renderQueuedHere, regeneration, left, budget>>

LeaveForReady ==
    /\ RenderFinished
    /\ left' = TRUE
    /\ UNCHANGED <<server, reads, watch, session, autosave, request, flows, approval, render,
                   regeneration, budget>>

NeedsReader == Ended /\ ~Succeeded
StartSession ==
    /\ SessionDue
    /\ session' = [Closed EXCEPT !.active = TRUE, !.historyId = TerminalKey]
    /\ UNCHANGED <<server, reads, watch, autosave, request, flows, approval, render, regeneration,
                   left, budget>>
EndSession ==
    /\ SessionOver
    /\ LET outcome == HasOperation /\ Candidate.id # session.historyId
       IN  session' = [Closed EXCEPT !.dialogOpen = outcome /\ NeedsReader,
                                     !.succeededId = IF outcome /\ Succeeded THEN Candidate.id ELSE 0]
    /\ UNCHANGED <<server, reads, watch, autosave, request, flows, approval, render, regeneration,
                   left, budget>>

ShutApproval ==
    /\ ApprovalShut
    /\ approvalOpen' = FALSE
    /\ UNCHANGED <<server, reads, watch, session, autosave, request, flows, stale, render,
                   regeneration, left, budget>>

\* useRegenerationDiff, during render
SettleDiff ==
    /\ DiffDue
    /\ snapshot' = None
    /\ diff' = IF Succeeded /\ read.text # snapshot.text
               THEN [op |-> snapshot.op, before |-> snapshot.text, after |-> read.text]
               ELSE diff
    /\ UNCHANGED <<server, reads, watch, session, autosave, request, flows, approval, render,
                   left, budget>>

(***************************************************************************)
(* The autosave: one line, one PATCH.                                      *)
(***************************************************************************)
Sending(text, base) == [stage |-> "sent", text |-> text, base |-> base]
CanSend == buffer # None /\ flight = None /\ ~conflict
Fired == /\ flight' = IF CanSend THEN Sending(buffer, token) ELSE flight
         /\ buffer' = IF CanSend THEN None ELSE buffer
(***************************************************************************)
(* The longer flows, as the awaits they go through: a link that is         *)
(* followed, a fact confirmed from its line, a template chosen.            *)
(***************************************************************************)
\* Mutant: nothing is settled after the reads.
LinkStepsUnsettled == <<"settle", "views", "document", "leave">>
LinkSteps == <<"settle", "views", "document", "settle", "leave">>
FactSteps == <<"settle", "views", "document", "settle", "confirm",
               "try", "views", "fresh", "settle", "document", "check">>
TemplateSteps == <<"settle", "document", "template", "both", "document", "render">>

Step == IF flow.steps = <<>> THEN "none" ELSE Head(flow.steps)
Over(step) ==
    CASE step \in {"settle", "try"} -> flight = None
      [] step = "views" -> detailFetch = NoFetch
      [] step \in {"document", "fresh"} -> docFetch = NoFetch
      [] step = "both" -> detailFetch = NoFetch /\ docFetch = NoFetch
      [] OTHER -> FALSE       \* "confirm" and "template": until the answer is here
FlowDue == flow.steps # <<>> /\ Over(Step)
\* the read that follows the confirmation reports edits that were not saved before it
Failed == (Step = "settle" /\ ~Saved) \/ (Step = "fresh" /\ ~flow.saved)
\* nothing to check: the flow ends there
Done == Step = "fresh" /\ ~detail.checkOffered

\* The next await of the flow begins: what it sends.
Begins(step) ==
    /\ IF step \in {"settle", "try"} THEN Fired ELSE UNCHANGED <<flight, buffer>>
    /\ detailFetch' = IF step \in {"views", "both"} THEN Invalidated ELSE detailFetch
    /\ docFetch' = CASE step \in {"both", "fresh"} -> Invalidated
                     [] step = "document" -> Joined(docFetch)
                     [] OTHER -> docFetch
    /\ request' = CASE step = "confirm" -> [request EXCEPT !["confirm"] = About(None)]
                    [] step = "template" ->
                          [request EXCEPT !["template"] =
                              [About(Hash(read)) EXCEPT !.template = flow.content]]
                    [] step = "check" ->
                          [request EXCEPT !["check"] = About(Hash(read))]
                    [] OTHER -> request
    /\ stale' = (stale /\ step # "check")
    /\ left' = (step = "leave")
    /\ renderOnApproval' = (renderOnApproval \/ step = "render")
EndsFlow(error) ==
    /\ flow' = NoFlow /\ resolving' = FALSE
    /\ resolutionFailed' = (resolutionFailed \/ (error /\ flow.goal # "template"))
Advances ==
    LET rest == Tail(flow.steps)
        next == IF rest = <<>> THEN "none" ELSE Head(rest)
        skipped == next = "render" /\ ~flow.stamped
    IN  IF skipped \/ next \in {"none", "leave", "render", "check"}
        THEN EndsFlow(FALSE) /\ Begins(IF skipped THEN "none" ELSE next)
        ELSE /\ flow' = [flow EXCEPT !.steps = rest,
                                     !.saved = IF Step = "try" THEN Saved ELSE @]
             /\ Begins(next) /\ UNCHANGED <<resolving, resolutionFailed>>
FlowContinues ==
    /\ FlowDue
    /\ IF Failed \/ Done THEN EndsFlow(Failed) /\ Begins("none") ELSE Advances
    /\ UNCHANGED <<server, detail, read, watch, session, rowOpen, shown, token, conflict,
                   approvalOpen, renderQueuedHere, attempted, regeneration, budget>>

CheckDue == \/ request["check"].stage = "views" /\ detailFetch = NoFetch
            \/ request["check"].stage = "reading" /\ detailFetch = NoFetch /\ docFetch = NoFetch
ApproveDue == request["approve"].stage = "views" /\ detailFetch = NoFetch /\ docFetch = NoFetch
Calm == ~(\/ ProjectedMoved \/ TerminalMoved \/ ViewsRead \/ RunMoved \/ AutoRenderDue
          \/ RenderFinished \/ SessionDue \/ SessionOver \/ ApprovalShut \/ DiffDue \/ FlowDue
          \/ CheckDue \/ ApproveDue)

Spend(act) ==
    LET kind == IF act \in ReaderActs THEN "reader" ELSE "surroundings"
    IN  /\ budget[act] > 0 /\ budget[kind] > 0
        /\ budget' = [budget EXCEPT ![act] = @ - 1, ![kind] = @ - 1]

(***************************************************************************)
(* What the reader does.                                                   *)
(***************************************************************************)
OnPage == ~InDialog

\* DraftClaimRow: the two presses of an open line that the model keeps; its text is read only
\* under a live run
RowControls == [write |-> OnPage /\ ~OperationLive,
                regenerate |-> OnPage /\ ~OperationLive /\ ~Dirty /\ ~Pending("regenerate")]
\* a row is opened while nothing holds the document, and stays open
OpenRow ==
    /\ RowControls.write /\ ~rowOpen /\ budget["type"] > 0 /\ budget["reader"] > 0
    /\ rowOpen' = TRUE
    /\ UNCHANGED <<server, reads, watch, session, shown, buffer, flight, token, conflict, request,
                   flows, approval, render, regeneration, left, budget>>
EditLine(text) ==
    /\ shown' = text /\ buffer' = text
    /\ UNCHANGED <<server, reads, watch, session, flight, token, conflict, request, flows, approval,
                   render, left>>
TypeText(text) ==
    /\ RowControls.write /\ rowOpen /\ text # shown /\ Spend("type")
    /\ EditLine(text) /\ UNCHANGED <<rowOpen, regeneration>>
\* blur, or the timer of the autosave
Flush ==
    /\ CanSend
    /\ Fired /\ rowOpen' = FALSE
    /\ UNCHANGED <<server, reads, watch, session, shown, token, conflict, request, flows, approval,
                   render, regeneration, left, budget>>

\* RegenerationDiffPanel: the earlier wording as an ordinary edit, or the panel put away
Revertable == diff # None /\ shown = diff.after /\ ~OperationLive
RevertDiff ==
    /\ OnPage /\ Revertable /\ Spend("type")
    /\ EditLine(diff.before) /\ UNCHANGED <<rowOpen, regeneration>>
DismissDiff ==
    /\ OnPage /\ diff # None
    /\ diff' = None
    /\ UNCHANGED <<server, reads, watch, session, autosave, request, flows, approval, render,
                   snapshot, left, budget>>

\* the wording kept for the comparison, and the command of useDraftEditing
Captured == snapshot' = [op |-> 0, hash |-> Hash(read), text |-> read.text] /\ diff' = None
AsksRegeneration == request' = [request EXCEPT !["regenerate"] = About(Hash(read))]
Regenerate ==
    /\ RowControls.regenerate /\ Spend("regenerate")
    /\ Captured /\ AsksRegeneration
    /\ UNCHANGED <<server, reads, watch, session, autosave, flows, approval, render, left>>

\* DraftApproveButton: a passed check opens the approval, anything else runs the check
ApproveOffered == ~RenderStage /\ ~ApprovalUnavailable /\ (Passing \/ ~Pending("check"))
CheckThenApprove ==
    /\ OnPage /\ ApproveOffered /\ Spend("check")
    /\ IF Passing THEN approvalOpen' = TRUE /\ UNCHANGED <<request, stale>>
       ELSE /\ stale' = FALSE
            /\ request' = [request EXCEPT !["check"] =
                              [About(Hash(read)) EXCEPT !.opens = TRUE]]
            /\ UNCHANGED approvalOpen
    /\ UNCHANGED <<server, reads, watch, session, autosave, flows, render, regeneration, left>>
Approve ==
    /\ approvalOpen /\ ~Pending("approve") /\ Spend("approve")
    /\ request' = [request EXCEPT !["approve"] = About(Hash(read))]
    /\ UNCHANGED <<server, reads, watch, session, autosave, flows, approval, render, regeneration,
                   left>>
CloseApproval ==
    /\ approvalOpen
    /\ approvalOpen' = FALSE
    /\ UNCHANGED <<server, reads, watch, session, autosave, request, flows, stale, render,
                   regeneration, left, budget>>
\* DraftRenderPanel: the files are asked for by hand
FileOffered == Approved /\ ~InFlight
Render ==
    /\ OnPage /\ FileOffered /\ Spend("render")
    /\ request' = [request EXCEPT !["render"] = About(detail.hash)]
    /\ UNCHANGED <<server, reads, watch, session, autosave, flows, approval, render, regeneration,
                   left>>

Starts(goal, steps, content) ==
    /\ flow' = [NoFlow EXCEPT !.goal = goal, !.steps = steps, !.content = content,
                              !.stamped = RenderStage]
    /\ resolving' = (goal # "template")
    /\ resolutionFailed' = (resolutionFailed /\ goal = "template")
    /\ Fired
    /\ UNCHANGED <<server, reads, watch, session, rowOpen, shown, token, conflict, request, approval,
                   render, regeneration, left>>
FollowLink ==
    /\ OnPage /\ ~resolving /\ Spend("navigate") /\ Starts("link", LinkSteps, None)
\* ClaimFactResolution under a line the facts behind it block
Resolvable == detail.blocked /\ ~resolving
ConfirmFact ==
    /\ OnPage /\ Resolvable /\ Spend("resolve") /\ Starts("fact", FactSteps, None)
\* DraftTemplateControl, and the dialog it opens
TemplateOffered == ~OperationLive /\ ~resolving
ChooseTemplate(template) ==
    /\ OnPage /\ TemplateOffered /\ template # read.template /\ Spend("template")
    /\ Starts("template", TemplateSteps, template)

\* The overlay: the panel put away, the report opened and closed, its two commands.
SetSession(new) ==
    /\ session' = new
    /\ UNCHANGED <<server, reads, watch, autosave, request, flows, approval, render, regeneration,
                   left>>
\* the panel stands inline while a render runs and cannot be put away
PanelShown == session.active /\ ~session.panelHidden
ReportOffered == session.active \/ NeedsReader
HidePanel == /\ OnPage /\ PanelShown /\ ~InFlight /\ Spend("report")
             /\ SetSession([session EXCEPT !.panelHidden = TRUE])
OpenReport == /\ OnPage /\ ReportOffered /\ Spend("report")
              /\ SetSession([session EXCEPT !.dialogOpen = TRUE])
CloseReport == /\ session.dialogOpen /\ UNCHANGED budget
               /\ SetSession([session EXCEPT !.dialogOpen = FALSE])
SuccessGoes == /\ session.succeededId # 0 /\ UNCHANGED budget
               /\ SetSession([session EXCEPT !.succeededId = 0])
InReport == session.dialogOpen /\ ~AwaitingRecord /\ ~RenderPending
Ask(kind) ==
    /\ request' = [request EXCEPT ![kind] = [About(None) EXCEPT !.op = Candidate.id]]
    /\ UNCHANGED <<server, reads, watch, session, autosave, flows, approval, render, regeneration,
                   left>>
\* OperationActions: one command at a time
RunCommands == IF Pending("retry") \/ Pending("cancel") THEN {}
               ELSE {command \in {"retry", "cancel"} :
                        IF command = "retry" THEN Candidate.status \in Retryable ELSE Running}
Retry == InReport /\ "retry" \in RunCommands /\ Spend("retry") /\ Ask("retry")
Cancel == InReport /\ "cancel" \in RunCommands /\ Spend("cancel") /\ Ask("cancel")

\* DraftConflictDialog: the server's version, or this text over it
DiscardLocal ==
    /\ conflict
    /\ buffer' = None /\ conflict' = FALSE /\ shown' = read.text
    /\ UNCHANGED <<server, reads, watch, session, rowOpen, flight, token, request, flows, approval,
                   render, regeneration, left, budget>>
ReapplyLocal ==
    /\ conflict /\ docFetch = NoFetch
    /\ conflict' = FALSE /\ token' = Hash(read)
    /\ flight' = Sending(buffer, Hash(read)) /\ buffer' = None
    /\ UNCHANGED <<server, reads, watch, session, rowOpen, shown, request, flows, approval,
                   render, regeneration, left, budget>>

(***************************************************************************)
(* The server: the commands, the reads, the runs.                          *)
(***************************************************************************)
Answered(kind, verdict) == [request EXCEPT ![kind].stage = "answered", ![kind].verdict = verdict]
Accepted(kind, id, status) ==
    [request EXCEPT ![kind].stage = "answered", ![kind].verdict = "accepted",
                    ![kind].op = id, ![kind].status = status]
Current(kind) == request[kind].hash = Hash(doc)

\* operation_client.enqueue: one key is one Operation, ended or not
Enqueue(kind, type, key) ==
    LET same == {i \in DOMAIN ops : ops[i].type = type /\ ops[i].key = key}
    IN  \/ /\ same = {}
           /\ ops' = Append(ops, [type |-> type, key |-> key, source |-> Hash(doc), status |-> "live"])
           /\ request' = Accepted(kind, Latest + 1, "live")
        \/ \E i \in same :
              /\ request' = IF ops[i].source = Hash(doc) THEN Accepted(kind, i, ops[i].status)
                            ELSE Answered(kind, "refused")
              /\ UNCHANGED ops

ServeRegenerate ==
    IF Current("regenerate")
    THEN Enqueue("regenerate", "regenerate_claim", <<"of", Hash(doc)>>) /\ UNCHANGED doc
    ELSE request' = Answered("regenerate", "changed") /\ UNCHANGED server
ServeRender ==
    IF Current("render") /\ IsApproved(doc) /\ ~Blocked(doc)
    THEN Enqueue("render", "render_document", <<"of", Hash(doc)>>) /\ UNCHANGED doc
    ELSE request' = Answered("render", "refused") /\ UNCHANGED server
ServeRetry ==
    LET id == request["retry"].op
    IN  IF ops[id].status \in Retryable
        THEN Enqueue("retry", ops[id].type, <<"retry", id>>) /\ UNCHANGED doc
        ELSE request' = Answered("retry", "refused") /\ UNCHANGED server
\* a queued run is cancelled at once, one that is executing when it next looks
ServeCancel ==
    LET id == request["cancel"].op
    IN  \E status \in IF ops[id].status = "live" THEN {"live", "cancelled"} ELSE {ops[id].status} :
          /\ ops' = [ops EXCEPT ![id].status = status]
          /\ request' = Accepted("cancel", id, status)
          /\ UNCHANGED doc
ServeCheck ==
    IF Current("check")
    THEN doc' = Checked(doc) /\ UNCHANGED ops
         /\ request' = Answered("check", IF doc.text \in Failing THEN "failed" ELSE "passed")
    ELSE request' = Answered("check", "changed") /\ UNCHANGED server
ServeApprove ==
    CASE ~Current("approve") -> request' = Answered("approve", "changed") /\ UNCHANGED server
      [] Current("approve") /\ Blocked(doc) ->
            request' = Answered("approve", "refused") /\ UNCHANGED server
      [] OTHER ->
            /\ request' = Answered("approve", IF doc.text \in Failing THEN "failed" ELSE "passed")
            /\ doc' = IF doc.text \in Failing THEN Checked(doc)
                      ELSE [Checked(doc) EXCEPT !.approved = Basis(doc)]
            /\ UNCHANGED ops
ServeTemplate ==
    IF Current("template")
    THEN doc' = [doc EXCEPT !.template = request["template"].template] /\ UNCHANGED ops
         /\ request' = Answered("template", "passed")
    ELSE request' = Answered("template", "changed") /\ UNCHANGED server
\* confirm_and_use writes the fact and its Profile, never the document
ServeConfirm ==
    IF doc.facts = "pending"
    THEN doc' = [doc EXCEPT !.facts = "usable"] /\ UNCHANGED ops
         /\ request' = Answered("confirm", "passed")
    ELSE request' = Answered("confirm", "refused") /\ UNCHANGED server
Serve(kind) ==
    /\ request[kind].stage = "sent"
    /\ CASE kind = "regenerate" -> ServeRegenerate
         [] kind = "render" -> ServeRender
         [] kind = "retry" -> ServeRetry
         [] kind = "cancel" -> ServeCancel
         [] kind = "check" -> ServeCheck
         [] kind = "approve" -> ServeApprove
         [] kind = "template" -> ServeTemplate
         [] OTHER -> ServeConfirm
    /\ UNCHANGED <<reads, watch, session, autosave, flows, approval, render, regeneration, left,
                   budget>>
ServeSave ==
    /\ flight # None /\ flight.stage = "sent"
    /\ IF flight.base = Hash(doc)
       THEN /\ doc' = [doc EXCEPT !.text = flight.text]
            /\ flight' = [stage |-> "saved", text |-> flight.text, base |-> Hash(doc')]
       ELSE /\ flight' = [flight EXCEPT !.stage = "conflict"] /\ UNCHANGED doc
    /\ UNCHANGED <<ops, reads, watch, session, rowOpen, shown, buffer, token, conflict, request,
                   flows, approval, render, regeneration, left, budget>>

\* A run that finds the document it was given writes its result, any other ends without one.
Ends(id, status, new) ==
    /\ ops' = [ops EXCEPT ![id].status = status] /\ doc' = new
    /\ UNCHANGED <<reads, watch, session, autosave, request, flows, approval, render,
                   regeneration, left>>
Fits(id) == /\ ops[id].source = Hash(doc)
            /\ ops[id].type = "render_document" => IsApproved(doc)
Written(id) == IF ops[id].type = "render_document"
               THEN {[doc EXCEPT !.rendered = RenderBasis(doc)]}
               ELSE {[doc EXCEPT !.text = text] : text \in Texts}
RunSucceeds(id) == /\ ops[id].status = "live" /\ Fits(id)
                   /\ \E new \in Written(id) : Ends(id, "succeeded", new)
                   /\ UNCHANGED budget
RunIsLate(id) == /\ ops[id].status = "live" /\ ~Fits(id)
                 /\ Ends(id, "source_changed", doc) /\ UNCHANGED budget
RunFails(id) == /\ ops[id].status = "live" /\ Ends(id, "failed", doc) /\ Spend("runFails")

DetailServed ==
    /\ detailFetch = Asked
    /\ detailFetch' = [stage |-> "answered", value |-> DetailNow]
    /\ UNCHANGED <<server, detail, read, docFetch, watch, session, autosave, request, flows, approval,
                   render, regeneration, left, budget>>
DocumentServed ==
    /\ docFetch = Asked
    /\ docFetch' = [stage |-> "answered", value |-> ReadNow]
    /\ UNCHANGED <<server, detail, detailFetch, read, watch, session, autosave, request, flows,
                   approval, render, regeneration, left, budget>>

(***************************************************************************)
(* Answers arrive.  `views` and `reading` are the awaits of a check or an  *)
(* approval over the reads it caused.                                      *)
(***************************************************************************)
DetailArrives ==
    /\ detailFetch.stage = "answered"
    /\ detail' = detailFetch.value /\ detailFetch' = NoFetch
    /\ UNCHANGED <<server, read, docFetch, watch, session, autosave, request, flows, approval, render,
                   regeneration, left, budget>>
\* a read of other content replaces the lines on screen and the token of the autosave
TakesServerText ==
    IF Hash(read') # Hash(read) THEN shown' = read'.text /\ token' = Hash(read')
    ELSE UNCHANGED <<shown, token>>
DocumentArrives ==
    /\ docFetch.stage = "answered"
    /\ read' = docFetch.value /\ docFetch' = NoFetch
    /\ TakesServerText
    /\ UNCHANGED <<server, detail, detailFetch, watch, session, rowOpen, buffer, flight, conflict,
                   request, flows, approval, render, regeneration, left, budget>>
Poll ==
    /\ PollDue /\ Polled
    /\ UNCHANGED <<server, reads, seen, session, autosave, request, flows, approval, render,
                   regeneration, left, budget>>

Reply(kind) == request[kind]
Closes(kind) == request' = [request EXCEPT ![kind] = NoRequest]
Waits(kind, stage) == request' = [request EXCEPT ![kind].stage = stage]
Seeded(answer) == RecordCached(answer.op, answer.status)

\* onQueued: the accepted run's record is on hand and the screen follows it
Bound(kind, id) == IF kind = "regenerate" /\ snapshot # None /\ snapshot.op = 0
                   THEN [snapshot EXCEPT !.op = id] ELSE snapshot
WorkQueued(kind) ==
    LET answer == Reply(kind)
    IN  /\ answer.stage = "answered" /\ kind \in {"regenerate", "retry", "render"}
        /\ IF answer.verdict = "accepted"
           THEN /\ Seeded(answer) /\ watched' = answer.op
                /\ renderQueuedHere' = IF kind = "render" THEN answer.op ELSE renderQueuedHere
                /\ snapshot' = Bound(kind, answer.op)
           ELSE UNCHANGED <<record, watched, renderQueuedHere, snapshot>>
        /\ Closes(kind)
        /\ UNCHANGED <<server, reads, projected, refreshing, settledFor, seen, session, autosave,
                       flows, approval, renderOnApproval, attempted, diff, left, budget>>
CancelAnswered ==
    /\ Reply("cancel").stage = "answered"
    /\ IF Reply("cancel").verdict = "accepted" THEN Seeded(Reply("cancel")) ELSE UNCHANGED record
    /\ Closes("cancel")
    /\ UNCHANGED <<server, reads, watched, projected, refreshing, settledFor, seen, session, autosave,
                   flows, approval, render, regeneration, left, budget>>

\* useDocumentCheck: the projection read again, then both reads, then the answer is used
CheckAnswered ==
    /\ Reply("check").stage = "answered"
    /\ IF Reply("check").verdict \in {"passed", "failed"}
       THEN Waits("check", "views") /\ detailFetch' = Invalidated
       ELSE Closes("check") /\ UNCHANGED detailFetch
    /\ UNCHANGED <<server, detail, read, docFetch, watch, session, autosave, flows, approval, render,
                   regeneration, left, budget>>
CheckReads ==
    /\ Reply("check").stage = "views" /\ detailFetch = NoFetch
    /\ Waits("check", "reading") /\ detailFetch' = Asked /\ docFetch' = Invalidated
    /\ UNCHANGED <<server, detail, read, watch, session, autosave, flows, approval, render,
                   regeneration, left, budget>>
CheckOver ==
    /\ Reply("check").stage = "reading" /\ detailFetch = NoFetch /\ docFetch = NoFetch
    /\ approvalOpen' = (approvalOpen \/ (Reply("check").opens /\ Reply("check").verdict = "passed"))
    /\ Closes("check")
    /\ UNCHANGED <<server, reads, watch, session, autosave, flows, stale, render, regeneration, left,
                   budget>>

\* DraftApprovalDialog: both reads again, and the automatic render after an approval
ApproveAnswered ==
    /\ Reply("approve").stage = "answered"
    /\ LET verdict == Reply("approve").verdict
       IN  /\ IF verdict \in {"passed", "failed"} THEN Waits("approve", "views") ELSE Closes("approve")
           /\ IF verdict \in {"passed", "failed", "changed"}
              THEN detailFetch' = Invalidated /\ docFetch' = Invalidated
              ELSE UNCHANGED <<detailFetch, docFetch>>
           /\ stale' = (stale \/ verdict = "changed")
           /\ approvalOpen' = (approvalOpen /\ verdict # "changed")
    /\ UNCHANGED <<server, detail, read, watch, session, autosave, flows, render, regeneration, left,
                   budget>>
ApproveOver ==
    /\ Reply("approve").stage = "views" /\ detailFetch = NoFetch /\ docFetch = NoFetch
    /\ approvalOpen' = FALSE
    /\ renderOnApproval' = (renderOnApproval \/ Reply("approve").verdict = "passed")
    /\ Closes("approve")
    /\ UNCHANGED <<server, reads, watch, session, autosave, flows, stale, renderQueuedHere, attempted,
                   regeneration, left, budget>>

\* the answer a flow waits for
FlowAnswered(kind) ==
    /\ kind \in {"template", "confirm"} /\ Reply(kind).stage = "answered"
    /\ LET rest == Tail(flow.steps)
       IN  IF Reply(kind).verdict = "passed"
           THEN /\ flow' = [flow EXCEPT !.steps = rest]
                /\ IF Head(rest) = "try" THEN Fired ELSE UNCHANGED <<flight, buffer>>
                /\ IF Head(rest) = "both" THEN detailFetch' = Invalidated /\ docFetch' = Invalidated
                   ELSE UNCHANGED <<detailFetch, docFetch>>
                /\ UNCHANGED <<resolving, resolutionFailed>>
           ELSE EndsFlow(FALSE) /\ UNCHANGED <<flight, buffer, detailFetch, docFetch>>
    /\ Closes(kind)
    /\ UNCHANGED <<server, detail, read, watch, session, rowOpen, shown, token, conflict, approval,
                   render, regeneration, left, budget>>

SaveArrives ==
    /\ flight # None /\ flight.stage = "saved"
    /\ token' = flight.base
    /\ detailFetch' = Invalidated /\ docFetch' = Invalidated
    /\ flight' = IF buffer # None THEN Sending(buffer, flight.base) ELSE None
    /\ buffer' = None
    /\ UNCHANGED <<server, detail, read, watch, session, rowOpen, shown, conflict, request, flows,
                   approval, render, regeneration, left, budget>>
Restored == buffer' = IF buffer = None THEN flight.text ELSE buffer
SaveConflicts ==
    /\ flight # None /\ flight.stage = "conflict"
    /\ Restored /\ flight' = None /\ conflict' = TRUE /\ docFetch' = Joined(docFetch)
    /\ UNCHANGED <<server, detail, detailFetch, read, watch, session, rowOpen, shown, token, request,
                   flows, approval, render, regeneration, left, budget>>
SaveFails ==
    /\ flight # None /\ Spend("fail")
    /\ Restored /\ flight' = None
    /\ UNCHANGED <<server, reads, watch, session, rowOpen, shown, token, conflict, request, flows,
                   approval, render, regeneration, left>>
\* a request or its answer is lost
RequestFails(kind) ==
    /\ request[kind].stage \in {"sent", "answered"} /\ request[kind].verdict # "lost"
    /\ Spend("fail")
    /\ request' = Answered(kind, "lost")
    /\ UNCHANGED <<server, reads, watch, session, autosave, flows, approval, render, regeneration,
                   left>>

(***************************************************************************)
(* Other tabs and other screens.                                           *)
(***************************************************************************)
Elsewhere(new) ==
    /\ doc' = new /\ new # doc
    /\ UNCHANGED <<ops, reads, watch, session, autosave, request, flows, approval, render,
                   regeneration, left>>
OtherTab == /\ Spend("foreign")
            /\ \/ \E text \in Texts : Elsewhere([doc EXCEPT !.text = text])
               \/ doc.text \notin Failing /\ ~Blocked(doc)
                  /\ Elsewhere([Checked(doc) EXCEPT !.approved = Basis(doc)])
FactsChange == /\ Spend("facts")
               /\ \E facts \in {"usable", "pending", "deleted"} :
                     Elsewhere([doc EXCEPT !.facts = facts])
\* the window regains focus: stale reads are read again
Focus ==
    /\ Spend("focus")
    /\ detailFetch' = Joined(detailFetch) /\ docFetch' = Joined(docFetch)
    /\ UNCHANGED <<server, detail, read, watch, session, autosave, request, flows, approval, render,
                   regeneration, left>>

\* what adjusts state while rendering, then the effects in the order they are declared,
\* then what awaited a read
Effect ==
    IF SessionDue THEN StartSession
    ELSE IF SessionOver THEN EndSession
    ELSE IF DiffDue THEN SettleDiff
    ELSE IF ApprovalShut THEN ShutApproval
    ELSE IF ProjectedMoved THEN FollowProjection
    ELSE IF TerminalMoved THEN RefreshViews
    ELSE IF RunMoved THEN ReadBack
    ELSE IF RenderFinished THEN LeaveForReady
    ELSE IF AutoRenderDue THEN AutoRender
    ELSE IF ViewsRead THEN SettleRun
    ELSE FlowContinues \/ CheckReads \/ CheckOver \/ ApproveOver
Reader ==
    \/ OpenRow \/ Flush \/ RevertDiff \/ DismissDiff \/ Regenerate \/ CheckThenApprove \/ Approve
    \/ CloseApproval \/ Render \/ FollowLink \/ ConfirmFact \/ HidePanel \/ OpenReport
    \/ CloseReport \/ SuccessGoes \/ Retry \/ Cancel \/ DiscardLocal \/ ReapplyLocal
    \/ \E text \in Texts : TypeText(text)
    \/ \E template \in Templates : ChooseTemplate(template)
ServerAnswers == DetailServed \/ DocumentServed \/ ServeSave \/ \E kind \in Commands : Serve(kind)
RunEnds == \E id \in DOMAIN ops : RunSucceeds(id) \/ RunIsLate(id)
Arrivals ==
    \/ DetailArrives \/ DocumentArrives \/ Poll \/ CancelAnswered \/ CheckAnswered
    \/ ApproveAnswered \/ SaveArrives \/ SaveConflicts
    \/ \E kind \in Commands : WorkQueued(kind) \/ FlowAnswered(kind)
Surroundings == \/ OtherTab \/ FactsChange \/ Focus \/ SaveFails
                \/ \E kind \in Commands : RequestFails(kind)
                \/ \E id \in DOMAIN ops : RunFails(id)

Machine == ~left /\ IF Calm THEN ServerAnswers \/ RunEnds \/ Arrivals ELSE Effect
Next == Machine \/ (~left /\ Calm /\ (Reader \/ Surroundings))
Spec == Init /\ [][Next]_vars
\* The browser runs its effects, the server answers and its runs end, the polls go on.  One
\* fairness for all: nothing of the machine goes on for ever without the reader or another tab.
FairSpec == Spec /\ WF_vars(Machine)

(***************************************************************************)
(* Properties.                                                             *)
(***************************************************************************)
\* The types, one Operation per idempotency key, and a flow that has steps while it has a goal.
TypeOK ==
    /\ Len(ops) <= MaxOps /\ watched \in 0 .. MaxOps /\ projected \in 0 .. MaxOps
    /\ \A i, j \in DOMAIN ops : ops[i].type = ops[j].type /\ ops[i].key = ops[j].key => i = j
    /\ doc.text \in Texts /\ doc.template \in Templates /\ shown \in Texts
    /\ buffer \in Texts \union {None}
    /\ \A id \in OpIds : record[id] \in {"unread", "live"} \union Terminal
    /\ flow.goal = "none" <=> flow.steps = <<>>

\* A screen that says its run is read back shows a projection computed after that run ended,
\* whatever other reads were under way, joined or restarted meanwhile (useWatchedOperation
\* records the completion only when the read it caused has landed).
SettledWasRead == Settled => Candidate.id \in detail.ended

\* A render that was to follow an approval waits for a state that is not coming.
Stranded == AutoStart /\ ~Approved
\* The editor is never held for good by work that is over: whatever runs fail, are cancelled or
\* lose their answers, the lock ends, but for the render whose approval another tab took back.
LockEnds == OperationLive ~> (~OperationLive \/ left \/ Stranded)

(***************************************************************************)
(* What the proofs add: which run a comparison is bound to, and where a    *)
(* flow can be.                                                            *)
(***************************************************************************)
OperationFields == {"type", "key", "source", "status"}
OpsAreRecorded == /\ ops \in Seq({ops[i] : i \in DOMAIN ops})
                  /\ \A i \in DOMAIN ops : DOMAIN ops[i] = OperationFields
RequestsAreRecorded == /\ DOMAIN request = Commands
                       /\ \A kind \in Commands : DOMAIN request[kind] = DOMAIN NoRequest

\* the run was given this wording
WasGiven(id, text) == id \in DOMAIN ops /\ ops[id].source[1] = text
\* the press under way asks for the wording that was captured, and its answer names a run that was
\* given what it asked for
PressIsOfItsCapture ==
    LET press == request["regenerate"]
    IN  /\ press.stage = "answered" /\ press.verdict = "accepted" =>
              press.op \in DOMAIN ops /\ ops[press.op].source = press.hash
        /\ press.stage # "none" /\ snapshot # None /\ snapshot.op = 0 =>
              press.hash[1] = snapshot.text
DiffInvariant ==
    /\ OpsAreRecorded /\ RequestsAreRecorded /\ PressIsOfItsCapture
    /\ snapshot # None =>
          /\ DOMAIN snapshot = {"op", "hash", "text"}
          /\ snapshot.op # 0 => WasGiven(snapshot.op, snapshot.text)
    /\ diff # None => WasGiven(diff.op, diff.before)

\* a flow is in one of its awaits, and those that follow are left of it
StepsOf(goal) == CASE goal = "link" -> LinkSteps [] goal = "fact" -> FactSteps [] OTHER -> TemplateSteps
From(steps, k) == SubSeq(steps, k, Len(steps))
FlowInvariant ==
    /\ RequestsAreRecorded /\ DOMAIN flow = DOMAIN NoFlow
    /\ flow.goal \in {"none", "link", "fact", "template"}
    /\ resolving <=> flow.goal \in {"link", "fact"}
    /\ flow.goal = "none" => flow.steps = <<>>
    /\ flow.goal # "none" =>
          \E k \in 1 .. Len(StepsOf(flow.goal)) : flow.steps = From(StepsOf(flow.goal), k)
    \* only the flow that waits for it has the command under way
    /\ \A kind \in {"confirm", "template"} : Pending(kind) => Step = kind
=============================================================================
