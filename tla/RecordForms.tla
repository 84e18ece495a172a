---------------------------- MODULE RecordForms ----------------------------
(***************************************************************************)
(* The forms that hold a copy of something the server keeps: the posting,  *)
(* the recruitment update and the corrected events of one Application, the *)
(* submission of its Ready document, and the settings; and the questions   *)
(* before an Application is closed or deleted.  One screen is visited;     *)
(* another tab writes the same record, and a focus of the window reads it  *)
(* again while a form is open.                                             *)
(*                                                                         *)
(* A value is a member of Values; the hash of a text stands for the text,  *)
(* the etag of the settings is their version, a document is the number of  *)
(* its edit, an event its place in the log.  Left out: validation of a     *)
(* field, the events of tasks, moving between the screens with a command   *)
(* under way, and reads that fail.                                         *)
(***************************************************************************)
EXTENDS Naturals, Sequences, FiniteSets

CONSTANTS
    Values,             \* what a field may hold
    MaxSubmissions,     \* bound on Submissions
    Budget              \* how often each thing may be done

Acts == {"open", "type", "send", "close", "load", "focus", "write", "trouble"}
Fields == {"posting", "notes", "action", "date", "theme", "model"}
Settings == {"theme", "model"}
Dialogs == {"posting", "update", "submission", "history", "external", "correction", "closing",
            "deletion"}
\* the two that lie over the history, and what closes with each dialog
Within(dialog) == IF dialog \in {"external", "correction"} THEN "history" ELSE "none"
FieldsOf(dialog) == CASE dialog = "posting" -> {"posting"}
                      [] dialog = "update" -> {"notes", "action", "date"}
                      [] dialog = "settings" -> Settings
                      [] OTHER -> {}

ASSUME RecordFormsConstants ==
    /\ Cardinality(Values) >= 2 /\ IsFiniteSet(Values)
    /\ MaxSubmissions \in Nat /\ Budget \in [Acts -> Nat]

\* the statuses the runs need of the recruitment graph (Recruitment has all of it)
Statuses == {"saved", "applied", "rejected", "closed"}
AllowedTransitions(status) == CASE status = "saved" -> {"closed"}
                                [] status = "applied" -> {"rejected", "closed"}
                                [] status = "rejected" -> {"closed"}
                                [] OTHER -> {}

VARIABLES
    record,             \* the server's: value of every field, version of the settings, status,
                        \* document (hash, ready), the documents that were submitted, the log of its
                \* statuses, and whether it was deleted
    submissions,        \* every Submission: its document, and what its command had shown
    cached, fetch,      \* the record as last read, and the read under way
    page, dialog,
    form, base,         \* what the fields hold, and the values they are compared with
    etag,               \* the version the settings in the form are of
    target,             \* the status chosen in the update
    correction,         \* the form over the history: the event, the one it defaults to, the
                        \* right status, and whether a reason is written
    acknowledged,       \* of another send of the same document
    submissionRecorded, \* this visit has recorded one
    conflict, latest,   \* settings: the refused edit, and the version loaded to compare it with
    request, budget,
    told,               \* history: the values of a field its reader has been shown or told of
    typed               \* history: the fields that were typed in, or chosen over a refused edit

onScreen == <<dialog, form, base, etag, target, correction, acknowledged, submissionRecorded, conflict, latest,
              told, typed>>
vars == <<record, submissions, cached, fetch, page, onScreen, request, budget>>

NoFetch == [stage |-> "none"]
Asked == [stage |-> "asked"]
NoRequest == [stage |-> "none", kind |-> "none"]
NoConflict == [open |-> FALSE]
NotLoaded == [version |-> 0]
\* the correction is kept while the history is open, and starts anew with it
NoCorrection == [event |-> 0, base |-> 0, to |-> "none", reason |-> FALSE]
NewCorrection(seen) ==
    [event |-> Len(seen.log), base |-> Len(seen.log), to |-> seen.status, reason |-> FALSE]

Init ==
    /\ record = [value |-> [f \in Fields |-> CHOOSE v \in Values : TRUE], version |-> 1,
                 status |-> "saved", hash |-> 1, ready |-> TRUE, submitted |-> {},
                 log |-> <<[to |-> "saved", corrects |-> 0]>>, deleted |-> FALSE]
    /\ submissions = <<>>
    /\ cached = record /\ fetch = NoFetch
    /\ page \in {"hub", "ready", "settings"}
    /\ correction = NoCorrection
    /\ dialog = IF page = "settings" THEN "settings" ELSE "none"
    /\ form = record.value /\ base = record.value /\ etag = 1
    /\ target = "none" /\ acknowledged = FALSE /\ submissionRecorded = FALSE
    /\ conflict = NoConflict /\ latest = NotLoaded
    /\ request = NoRequest /\ budget = Budget
    /\ told = [f \in Fields |-> {record.value[f]}] /\ typed = {}

Spend(act) == budget[act] > 0 /\ budget' = [budget EXCEPT ![act] = @ - 1]

(***************************************************************************)
(* How a form follows the record it was read from.                         *)
(***************************************************************************)
Dirty(f) == form[f] # base[f]
Pending == request.stage # "none"
\* useServerSyncedField: a field of the update follows until it was typed in
FieldFollows(values, f, now) == values[f] = base[f] \/ values[f] = now[f]
\* the settings follow as one form, unless one was changed, is being saved or was refused
SettingsFollow(values) ==
    /\ \A f \in Settings : values[f] = base[f]
    /\ ~conflict.open /\ request.kind # "settings"
\* Mutant: the version is taken from every read, as if the form still showed it.
EtagFollowsAlways(values) == ~conflict.open /\ request.kind # "settings"
EtagFollows(values) == SettingsFollow(values)

\* the open form, once it holds `values` and `now` was read
Shows(values, now) ==
    LET follows == {f \in FieldsOf(dialog) : \/ dialog = "update" /\ FieldFollows(values, f, now.value)
                                             \/ dialog = "settings" /\ SettingsFollow(values)}
        \* a value typed over is told of when the record moves under it
        warned == {f \in FieldsOf(dialog) \ follows :
                      dialog = "update" /\ now.value[f] # cached.value[f]}
    IN  /\ form' = [f \in Fields |-> IF f \in follows THEN now.value[f] ELSE values[f]]
        /\ base' = [f \in Fields |-> IF f \in follows THEN now.value[f] ELSE base[f]]
        /\ etag' = IF dialog = "settings" /\ EtagFollows(values) THEN now.version ELSE etag
        /\ told' = [f \in Fields |-> IF f \in follows \union warned THEN told[f] \union {now.value[f]}
                                     ELSE told[f]]
\* the event of a correction is the newest, until another one is chosen
Following(filled, now) ==
    LET newest == Len(now.log)
    IN  IF filled.event \in {filled.base, newest}
        THEN [filled EXCEPT !.event = newest, !.base = newest] ELSE filled
InHistory == dialog = "history" \/ Within(dialog) = "history"
EventFollows(now) == correction' = IF InHistory THEN Following(correction, now) ELSE correction

(***************************************************************************)
(* What the reader does.                                                   *)
(***************************************************************************)
Submitted == cached.hash \in cached.submitted
SubmissionExists == Submitted \/ submissionRecorded

\* where each dialog is offered: the menu of the hub, the ready page, the history
PostingEditable == cached.submitted = {} /\ ~cached.deleted
ClosingOffered == cached.status # "closed"
MenuOffers == IF page # "hub" \/ cached.deleted THEN {}
              ELSE {"update", "history", "deletion"}
                     \union (IF PostingEditable THEN {"posting"} ELSE {})
                     \union (IF ClosingOffered THEN {"closing"} ELSE {})
SubmissionOffered == page = "ready" /\ cached.ready /\ ~cached.deleted
Offered == IF dialog = "history" THEN {"external", "correction"}
           ELSE MenuOffers \union (IF SubmissionOffered THEN {"submission"} ELSE {})
\* the forms are read from the record as the dialog opens over the page
Opens(which) ==
    /\ dialog = "none" /\ Spend("open")
    /\ dialog' = which /\ target' = "none"
    /\ form' = cached.value /\ base' = cached.value
    /\ told' = [f \in Fields |-> {cached.value[f]}] /\ typed' = {}
    /\ correction' = IF which = "history" THEN NewCorrection(cached) ELSE correction
OpensWithin(which) ==
    /\ dialog = Within(which) /\ dialog' = which
    /\ UNCHANGED <<form, base, target, correction, budget, told, typed>>
Open(which) ==
    /\ ~Pending /\ which \in Offered
    /\ IF dialog = "none" THEN Opens(which) ELSE OpensWithin(which)
    /\ UNCHANGED <<record, submissions, cached, fetch, page, etag, acknowledged,
                   submissionRecorded, conflict, latest, request>>
\* by its mark, by Escape, or by a press beside it when nothing in it was changed; the two
\* forms hold their dialog open while they are saved
Dismissible == dialog \in Dialogs /\ ~(Pending /\ dialog \in {"posting", "update"})
Leaves ==
    /\ dialog' = Within(dialog) /\ acknowledged' = FALSE
    /\ correction' = IF Within(dialog) = "history" THEN correction ELSE NoCorrection
Close ==
    /\ Dismissible /\ Spend("close") /\ Leaves
    /\ UNCHANGED <<record, submissions, cached, fetch, page, form, base, etag, target,
                   submissionRecorded, conflict, latest, request, told, typed>>
\* the settings are held still while they are saved and while a refused edit is compared
SettingsOpen == ~conflict.open /\ ~Pending
Type(f, v) ==
    /\ f \in FieldsOf(dialog) /\ v # form[f]
    /\ dialog = "settings" => SettingsOpen
    /\ Spend("type")
    /\ Shows([form EXCEPT ![f] = v], cached) /\ typed' = typed \union {f}
    /\ UNCHANGED <<record, submissions, cached, fetch, page, dialog, target, correction, acknowledged,
                   submissionRecorded, conflict, latest, request>>
ChooseTarget(status) ==
    /\ dialog = "update" /\ status \in AllowedTransitions(cached.status) /\ status # target
    /\ Spend("type") /\ target' = status
    /\ UNCHANGED <<record, submissions, cached, fetch, page, dialog, form, base, etag, correction, acknowledged,
                   submissionRecorded, conflict, latest, request, told, typed>>
\* the event, the status it should have been, the reason
FillCorrection(filled) ==
    /\ dialog = "correction" /\ correction # filled /\ Spend("type")
    /\ correction' = Following(filled, cached)
    /\ UNCHANGED <<record, submissions, cached, fetch, page, dialog, form, base, etag, target,
                   acknowledged, submissionRecorded, conflict, latest, request, told, typed>>
ChooseEvent(event) == FillCorrection([correction EXCEPT !.event = event])
ChooseRightStatus(status) == FillCorrection([correction EXCEPT !.to = status])
WriteReason == FillCorrection([correction EXCEPT !.reason = TRUE])
Acknowledge ==
    /\ dialog = "submission" /\ Submitted /\ ~acknowledged /\ Spend("type")
    /\ acknowledged' = TRUE
    /\ UNCHANGED <<record, submissions, cached, fetch, page, dialog, form, base, etag, target,
                   correction, submissionRecorded, conflict, latest, request, told, typed>>

\* what a command takes from the screen as it was pressed
Sends(kind, steps) ==
    /\ ~Pending /\ Spend("send")
    /\ request' = [kind |-> kind, stage |-> "sent", steps |-> steps, form |-> form, base |-> base,
                   seen |-> cached, etag |-> etag, target |-> target,
                   correction |-> IF kind = "correction" THEN correction ELSE NoCorrection,
                   acknowledged |-> acknowledged, verdict |-> "none", result |-> NotLoaded]
    /\ UNCHANGED <<record, submissions, cached, fetch, page, onScreen>>
SavePosting ==
    dialog = "posting" /\ form["posting"] # cached.value["posting"] /\ Sends("posting", <<"posting">>)
\* only what differs from the record as it was last read, one command after the other
SaveUpdate ==
    LET differs == {f \in FieldsOf("update") : form[f] # cached.value[f]}
        steps == (IF target # "none" THEN <<"transition">> ELSE <<>>)
                   \o (IF differs \cap {"action", "date"} # {} THEN <<"action">> ELSE <<>>)
                   \o (IF "notes" \in differs THEN <<"notes">> ELSE <<>>)
    IN  dialog = "update" /\ steps # <<>> /\ Sends("update", steps)
SaveSettings ==
    /\ dialog = "settings" /\ (\E f \in Settings : Dirty(f)) /\ ~conflict.open
    /\ Sends("settings", <<"settings">>)
RecordSubmission ==
    dialog = "submission" /\ (Submitted => acknowledged) /\ Sends("submission", <<"submission">>)
RecordExternal == dialog = "external" /\ Sends("external", <<"external">>)
SendCorrection == dialog = "correction" /\ correction.reason /\ Sends("correction", <<"correction">>)
Confirms(question) == dialog = question /\ Sends(question, <<question>>)
ConfirmClosing == Confirms("closing")
ConfirmDeletion == Confirms("deletion")

\* the version the settings were refused for is loaded, and edits are chosen over it
LoadLatest ==
    /\ conflict.open /\ ~Pending /\ Spend("load")
    /\ latest' = NotLoaded
    /\ request' = [kind |-> "load", stage |-> "sent", steps |-> <<"load">>, verdict |-> "none",
                   result |-> NotLoaded]
    /\ UNCHANGED <<record, submissions, cached, fetch, page, dialog, form, base, etag, target,
                   correction, acknowledged, submissionRecorded, conflict, told, typed>>
\* Mutant: what was not chosen keeps the value of the form.
ResolveOverForm(chosen) ==
    /\ conflict.open /\ ~Pending /\ latest # NotLoaded
    /\ base' = [f \in Fields |-> IF f \in Settings THEN latest.value[f] ELSE base[f]]
    /\ etag' = latest.version /\ conflict' = NoConflict /\ latest' = NotLoaded
    /\ typed' = chosen
    /\ form' = [f \in Fields |-> IF f \in Settings THEN conflict.local[f] ELSE form[f]]
    /\ UNCHANGED <<record, submissions, cached, fetch, page, dialog, target, correction, acknowledged,
                   submissionRecorded, request, budget, told>>
Resolve(chosen) ==
    /\ conflict.open /\ ~Pending /\ latest # NotLoaded
    /\ base' = [f \in Fields |-> IF f \in Settings THEN latest.value[f] ELSE base[f]]
    /\ form' = [f \in Fields |-> IF f \in chosen THEN conflict.local[f]
                                 ELSE IF f \in Settings THEN latest.value[f] ELSE form[f]]
    /\ etag' = latest.version /\ conflict' = NoConflict /\ latest' = NotLoaded
    /\ typed' = chosen
    /\ UNCHANGED <<record, submissions, cached, fetch, page, dialog, target, correction, acknowledged,
                   submissionRecorded, request, budget, told>>

(***************************************************************************)
(* The server.                                                             *)
(***************************************************************************)
\* the settings' answers carry the record
Answered(verdict) ==
    request' = [request EXCEPT !.stage = "answered", !.verdict = verdict,
                               !.result = IF request.kind \in {"settings", "load"}
                                          THEN record' ELSE NotLoaded]
Writes(fields) ==
    record' = [record EXCEPT !.value = [f \in Fields |-> IF f \in fields THEN request.form[f]
                                                         ELSE record.value[f]]]
Serves(guard, write) ==
    IF guard THEN write /\ Answered("accepted")
    ELSE UNCHANGED <<record, submissions>> /\ Answered("refused")

ServePosting ==
    Serves(record.value["posting"] = request.seen.value["posting"] /\ submissions = <<>>,
           Writes({"posting"}) /\ UNCHANGED submissions)
\* an event is appended for every status that is entered, and for every correction
Enters(row, status) ==
    [row EXCEPT !.status = status, !.log = Append(@, [to |-> status, corrects |-> 0])]
Transitions(status) ==
    Serves(~record.deleted /\ status \in {record.status} \union AllowedTransitions(record.status),
           /\ record' = IF status = record.status THEN record ELSE Enters(record, status)
           /\ UNCHANGED submissions)
ServeTransition == Transitions(request.target)
ServeClosing == Transitions("closed")
ServeCorrection ==
    Serves(~record.deleted,
           /\ record' = [record EXCEPT !.status = request.correction.to,
                            !.log = Append(@, [to |-> request.correction.to,
                                               corrects |-> request.correction.event])]
           /\ UNCHANGED submissions)
ServeDeletion == Serves(~record.deleted,
                        record' = [record EXCEPT !.deleted = TRUE] /\ UNCHANGED submissions)
ServeAction == Serves(~record.deleted, Writes({"action", "date"}) /\ UNCHANGED submissions)
\* the posting and the notes are not refused to a deleted Application
ServeNotes == Serves(record.value["notes"] = request.seen.value["notes"],
                     Writes({"notes"}) /\ UNCHANGED submissions)
ServeSettings ==
    Serves(record.version = request.etag,
           /\ record' = [record EXCEPT !.version = @ + 1,
                            !.value = [f \in Fields |-> IF f \in Settings THEN request.form[f]
                                                        ELSE record.value[f]]]
           /\ UNCHANGED submissions)
Recorded(hash, asked, acked) ==
    /\ Len(submissions) < MaxSubmissions
    /\ submissions' = Append(submissions, [hash |-> hash, shown |-> asked, acknowledged |-> acked])
    /\ record' = [(IF record.status = "saved" THEN Enters(record, "applied") ELSE record)
                     EXCEPT !.submitted = @ \union {hash}]
ServeSubmission ==
    Serves(record.ready /\ ~record.deleted /\ record.hash = request.seen.hash,
           Recorded(record.hash, request.seen.hash, request.acknowledged))
ServeExternal == Serves(~record.deleted, Recorded(0, 0, TRUE))
ServeLoad == Serves(TRUE, UNCHANGED <<record, submissions>>)
Serve ==
    /\ request.stage = "sent"
    /\ CASE Head(request.steps) = "posting" -> ServePosting
         [] Head(request.steps) = "transition" -> ServeTransition
         [] Head(request.steps) = "action" -> ServeAction
         [] Head(request.steps) = "notes" -> ServeNotes
         [] Head(request.steps) = "settings" -> ServeSettings
         [] Head(request.steps) = "submission" -> ServeSubmission
         [] Head(request.steps) = "external" -> ServeExternal
         [] Head(request.steps) = "closing" -> ServeClosing
         [] Head(request.steps) = "correction" -> ServeCorrection
         [] Head(request.steps) = "deletion" -> ServeDeletion
         [] OTHER -> ServeLoad
    /\ UNCHANGED <<cached, fetch, page, onScreen, budget>>
ReadServed ==
    /\ fetch.stage = "asked" /\ fetch' = [stage |-> "answered", value |-> record]
    /\ UNCHANGED <<record, submissions, cached, page, onScreen, request, budget>>

(***************************************************************************)
(* What reaches the browser.                                               *)
(***************************************************************************)
Over == request' = NoRequest
Refetched == fetch' = Asked

Reaches(verdict, kinds) ==
    request.stage = "answered" /\ request.verdict = verdict /\ request.kind \in kinds
\* the update goes on with its next command
UpdateContinues ==
    /\ Reaches("accepted", {"update"}) /\ Len(request.steps) > 1
    /\ request' = [request EXCEPT !.stage = "sent", !.steps = Tail(@)]
    /\ UNCHANGED <<cached, fetch, onScreen>>
\* the forms and the questions stay until the record has been read again
FormSaved ==
    /\ Reaches("accepted", {"posting", "update", "closing", "deletion"}) /\ Len(request.steps) = 1
    /\ request' = [request EXCEPT !.stage = "views"] /\ Refetched
    /\ UNCHANGED <<cached, onScreen>>
\* a part of the update may be saved: the values are read again under the form
UpdateRefused ==
    /\ Reaches("refused", {"update"})
    /\ Over /\ Refetched
    /\ UNCHANGED <<cached, onScreen>>
SettingsSaved ==
    /\ Reaches("accepted", {"settings"})
    /\ form' = request.result.value /\ base' = request.result.value
    /\ etag' = request.result.version /\ cached' = request.result
    /\ told' = [f \in Fields |-> told[f] \union {request.result.value[f]}] /\ typed' = {}
    /\ Over
    /\ UNCHANGED <<fetch, dialog, target, correction, acknowledged, submissionRecorded, conflict,
                   latest>>
SettingsRefused ==
    /\ Reaches("refused", {"settings"})
    /\ conflict' = [open |-> TRUE, local |-> request.form] /\ latest' = NotLoaded
    /\ Over
    /\ UNCHANGED <<cached, fetch, dialog, form, base, etag, target, correction, acknowledged,
                   submissionRecorded, told, typed>>
LatestLoaded ==
    /\ Reaches("accepted", {"load"})
    /\ latest' = request.result /\ cached' = request.result
    /\ told' = [f \in Fields |-> told[f] \union {request.result.value[f]}]
    /\ Over
    /\ UNCHANGED <<fetch, dialog, form, base, etag, target, correction, acknowledged,
                   submissionRecorded, conflict, typed>>
\* its own dialog closes, and the record is read again behind it
EventRecorded ==
    /\ Reaches("accepted", {"submission", "external", "correction"})
    /\ dialog' = (IF dialog = request.kind THEN Within(dialog) ELSE dialog)
    /\ acknowledged' = (acknowledged /\ dialog # request.kind)
    /\ correction' = (IF request.kind = "correction" /\ InHistory
                      THEN [correction EXCEPT !.reason = FALSE] ELSE correction)
    /\ Over /\ Refetched
    /\ submissionRecorded' = (submissionRecorded \/ request.kind = "submission")
    /\ UNCHANGED <<cached, form, base, etag, target, conflict, latest, told, typed>>
\* the question closes whatever was answered
ClosingRefused ==
    /\ Reaches("refused", {"closing", "deletion"})
    /\ Leaves /\ Over
    /\ UNCHANGED <<cached, fetch, form, base, etag, target, submissionRecorded, conflict, latest,
                   told, typed>>
FormRefused ==
    /\ Reaches("refused", {"posting", "submission", "external", "correction"})
    /\ Over
    /\ UNCHANGED <<cached, fetch, onScreen>>
AnswerArrives ==
    /\ \/ UpdateContinues \/ FormSaved \/ UpdateRefused
       \/ SettingsSaved \/ SettingsRefused \/ LatestLoaded
       \/ EventRecorded \/ ClosingRefused \/ FormRefused
    /\ UNCHANGED <<record, submissions, page, budget>>

\* a command is lost on its way, or its answer on the way back
RequestFails ==
    /\ request.stage \in {"sent", "answered"} /\ Spend("trouble")
    /\ Over
    /\ IF request.kind = "update" THEN Refetched ELSE UNCHANGED fetch
    /\ IF request.kind \in {"closing", "deletion"} THEN Leaves
       ELSE UNCHANGED <<dialog, acknowledged, correction>>
    /\ UNCHANGED <<record, submissions, cached, page, form, base, etag, target, submissionRecorded,
                   conflict, latest, told, typed>>

\* what waited for the read ends with it, on the board if the Application was deleted
ReadArrives ==
    /\ fetch.stage = "answered" /\ fetch' = NoFetch
    /\ cached' = fetch.value
    /\ IF request.stage = "views"
       THEN /\ Leaves /\ Over /\ UNCHANGED <<form, base, etag, told, typed>>
            /\ page' = IF request.kind = "deletion" THEN "board" ELSE page
       ELSE /\ Shows(form, fetch.value) /\ EventFollows(fetch.value)
            /\ UNCHANGED <<page, dialog, acknowledged, request, typed>>
    /\ UNCHANGED <<record, submissions, target, submissionRecorded, conflict, latest, budget>>
Focus ==
    /\ fetch = NoFetch /\ Spend("focus") /\ fetch' = Asked
    /\ UNCHANGED <<record, submissions, cached, page, onScreen, request>>

(***************************************************************************)
(* What another tab does to the part of the record this screen shows.      *)
(***************************************************************************)
OtherWrites(f, v) ==
    /\ IF f \in Settings THEN page = "settings" ELSE page = "hub"
    /\ v # record.value[f] /\ (f = "posting" => submissions = <<>>) /\ Spend("write")
    /\ record' = [record EXCEPT !.value[f] = v, !.version = IF f \in Settings THEN @ + 1 ELSE @]
    /\ UNCHANGED <<submissions, cached, fetch, page, onScreen, request>>
OtherTransitions(status) ==
    /\ page = "hub" /\ ~record.deleted /\ status \in AllowedTransitions(record.status)
    /\ Spend("trouble")
    /\ record' = Enters(record, status)
    /\ UNCHANGED <<submissions, cached, fetch, page, onScreen, request>>
OtherDeletes ==
    /\ page = "hub" /\ ~record.deleted /\ Spend("trouble")
    /\ record' = [record EXCEPT !.deleted = TRUE]
    /\ UNCHANGED <<submissions, cached, fetch, page, onScreen, request>>
\* the document is edited, and approved and rendered again or not
OtherEdits ==
    /\ page = "ready" /\ ~record.deleted /\ Spend("trouble")
    /\ \E ready \in BOOLEAN : record' = [record EXCEPT !.hash = @ + 1, !.ready = ready]
    /\ UNCHANGED <<submissions, cached, fetch, page, onScreen, request>>
OtherSubmits ==
    /\ page \in {"hub", "ready"} /\ record.ready /\ ~record.deleted /\ Spend("trouble")
    /\ Recorded(record.hash, record.hash, TRUE)
    /\ UNCHANGED <<cached, fetch, page, onScreen, request>>

(***************************************************************************)
Reader ==
    \/ \E which \in Dialogs : Open(which)
    \/ Close
    \/ \E f \in Fields, v \in Values : Type(f, v)
    \/ \E status \in Statuses : ChooseTarget(status)
    \/ Acknowledge
    \/ \E event \in 1..Len(cached.log) : ChooseEvent(event)
    \/ \E status \in Statuses : ChooseRightStatus(status)
    \/ WriteReason
    \/ SavePosting \/ SaveUpdate \/ SaveSettings
    \/ RecordSubmission \/ RecordExternal \/ SendCorrection \/ ConfirmClosing \/ ConfirmDeletion
    \/ LoadLatest
    \/ \E chosen \in SUBSET Settings : Resolve(chosen)
Network == Serve \/ ReadServed \/ AnswerArrives \/ RequestFails \/ ReadArrives \/ Focus
Others ==
    \/ \E f \in Fields, v \in Values : OtherWrites(f, v)
    \/ \E status \in Statuses : OtherTransitions(status)
    \/ OtherDeletes \/ OtherEdits \/ OtherSubmits
Next == Reader \/ Network \/ Others
Spec == Init /\ [][Next]_vars

(***************************************************************************)
(* Properties                                                              *)
(***************************************************************************)
\* Every variable holds what the forms give it.
TypeOK ==
    /\ record.value \in [Fields -> Values] /\ cached.value \in [Fields -> Values]
    /\ form \in [Fields -> Values] /\ base \in [Fields -> Values]
    /\ page \in {"hub", "ready", "settings", "board"} /\ dialog \in Dialogs \union {"none", "settings"}
    /\ request.kind \in Dialogs \union {"none", "settings", "load"}
    /\ request.stage \in {"none", "sent", "answered", "views"}
    /\ (page = "settings") = (dialog = "settings")
    /\ conflict.open => dialog = "settings" /\ request.kind # "settings"
    /\ etag <= record.version /\ correction.event \in 0..Len(record.log)
    /\ (correction # NoCorrection) = InHistory
    /\ Len(submissions) <= MaxSubmissions /\ budget \in [Acts -> Nat]

\* a command of this tab was accepted and wrote `f`
SavesOver(f) ==
    /\ request.stage = "sent" /\ request'.stage = "answered" /\ request'.verdict = "accepted"
    /\ record'.value[f] # record.value[f]

\* The notes and the settings are never written over a value the form did
\* not show or announce (`expected_notes`, and the ETag of the settings that
\* only a form nobody typed in follows).
NoUnreadOverwrite ==
    [][\A f \in {"notes"} \union Settings : SavesOver(f) => record.value[f] \in told[f]]_vars

\* One save sends every setting, and changes only those its reader changed:
\* what another tab saved meanwhile is kept, through a conflict and its
\* resolution too (SettingsForm, SettingsConflict).
UntouchedSettingsStay ==
    [][\A f \in Settings : SavesOver(f) => f \in typed]_vars

\* A Submission freezes the document its reader was shown, whatever happened
\* to it before the command arrived (SubmissionDialog, submission.py).
SubmissionIsOfTheDocumentShown ==
    \A i \in 1..Len(submissions) : submissions[i].hash = submissions[i].shown

\* What the posting's dialog says of itself: an edit made against a text that
\* already changed is refused rather than overwriting it.
PostingEditIsOfTheTextShown ==
    [][SavesOver("posting") => record.value["posting"] \in told["posting"]]_vars

(***************************************************************************)
(* What the proofs add, to make NoUnreadOverwrite and UntouchedSettingsStay *)
(* hold step by step.                                                      *)
(***************************************************************************)
IsRecord(row) ==
    row \in [value : [Fields -> Values], version : Nat, status : {row.status}, hash : {row.hash},
             ready : {row.ready}, submitted : {row.submitted}, log : {row.log},
             deleted : {row.deleted}]
\* a row that was read: the present one, or one of a version that is over
IsReadingOf(row, now) ==
    /\ IsRecord(row) /\ row.version <= now.version
    /\ row.version = now.version => \A f \in Settings : row.value[f] = now.value[f]
IsReading(row) == IsReadingOf(row, record)
ReadingsAreSound ==
    /\ IsRecord(record) /\ IsReading(cached)
    /\ fetch.stage = "answered" => IsReading(fetch.value)
    /\ latest # NotLoaded => IsReading(latest)

\* the commands of one save, and what each of them carries
StepsOf(kind) == IF kind = "update" THEN {"transition", "action", "notes"} ELSE {kind}
IsCommand(r) ==
    /\ r.kind \in Dialogs \union {"settings", "load"}
    /\ r.stage \in {"sent", "answered", "views"}
    /\ r.steps \in Seq(StepsOf(r.kind)) /\ r.steps # <<>>
    /\ r.stage = "views" => r.kind \in {"posting", "update", "closing", "deletion"}
    /\ IF r.kind = "load"
       THEN r \in [kind : {"load"}, stage : {r.stage}, steps : {r.steps}, verdict : {r.verdict},
                   result : {r.result}]
       ELSE r \in [kind : {r.kind}, stage : {r.stage}, steps : {r.steps}, form : [Fields -> Values],
                   base : {r.base}, seen : {r.seen}, etag : Nat, target : {r.target},
                   correction : {r.correction}, acknowledged : {r.acknowledged},
                   verdict : {r.verdict}, result : {r.result}]
    /\ r.stage = "answered" /\ r.kind \in {"settings", "load"} => IsReading(r.result)
CommandsAreSound ==
    /\ request = NoRequest \/ IsCommand(request)
    /\ (page = "settings") = (dialog = "settings")
    /\ request # NoRequest => (page = "settings") = (request.kind \in {"settings", "load"})
FormsAreSound ==
    /\ form \in [Fields -> Values] /\ etag \in Nat /\ etag <= record.version
    /\ told \in [Fields -> SUBSET Values]
    /\ conflict.open => conflict.local \in [Fields -> Values] /\ page = "settings"

\* The notes a save of the update is compared with are notes its reader was shown.
NotesAreTold ==
    /\ dialog = "update" => cached.value["notes"] \in told["notes"]
    /\ request.kind = "update" => request.seen.value["notes"] \in told["notes"]
\* While the version the form is of is the present one, what was saved under it was shown,
\* and is what the form holds wherever nobody typed.
IsOfVersion(version, values) ==
    version = record.version =>
        \A f \in Settings : /\ record.value[f] \in told[f]
                            /\ f \notin typed => values[f] = record.value[f]
SettingsAreTold ==
    page = "settings" =>
        /\ IsOfVersion(etag, form)
        /\ request.kind = "settings" /\ request.stage = "sent" =>
              request.etag <= record.version /\ IsOfVersion(request.etag, request.form)
        /\ latest # NotLoaded => \A f \in Settings : latest.value[f] \in told[f]
FormsInvariant ==
    /\ ReadingsAreSound /\ CommandsAreSound /\ FormsAreSound
    /\ NotesAreTold /\ SettingsAreTold
=============================================================================
