# Formal models of the CV engine

TLA+ modules for the parts of this repository whose correctness depends on the
order in which several actors take their steps, the TLC configurations that
check them, and TLAPS proofs about them. Sections: the system, the modules, the
runs, what is proved, where the code and its words disagree, what is not
modelled, the plan.

Parse with `tlasany M.tla`, check with `tlc -config <run>.cfg <module>.tla` (the
module of a run is in the table of section 3), prove with `tlapm M.tla` for the
`*_proofs` modules.

## 1. The system

A single-page frontend talks to an HTTP API; both write one PostgreSQL database
in REPEATABLE READ transactions. Long work (provider calls, PDF rendering) is an
*Operation*: a row the API inserts and a separate worker process executes. One
worker runs per database, behind an advisory lock; its thread pool claims rows.
Rendered files live in an object store outside every transaction. The browser keeps
copies of what it read, sends commands made from those copies, and polls for what
became of them; several tabs write the same records.

| component | state | operations | interacts through | what is hard |
|---|---|---|---|---|
| Operation queue (`persistence/operation_*.py`) | `operations`, `operation_outputs` | enqueue, request cancellation, claim, interrupt, record output, complete, fail | rows, row locks, partial unique indexes | claims on snapshots, 40001, terminal rows |
| Operation runner (`operation_runner.py`) | none between calls; what a thread knows of its row | run_claimed, _activate, _complete, _fail | the queue, the handlers | sources verified long before they are used; cancellation racing everything |
| Worker process (`runtime/execution.py`, `worker_lock.py`, `worker/runner.py`, `scripts/serve.sh`) | the lock session, `_active_ids`, futures | serve, recover, stop, slot check | advisory lock, threads, signals | crash, lost lock, stop while claiming |
| Handlers and activation (`operations/handlers.py`, `rendering.py`, `drafts/activation.py`, `analysis/activation.py`) | `_superseded` | verify, execute, activate, after_activation, discard | documents, analyses, files | five ways out of an attempt, each with its own clean-up |
| CV document (`persistence/documents.py`, `drafts/editing.py`, `drafts/review.py`) | one mutable row per Application: content, hash, check, approval and render stamps, files, render error | edit, template, repin, check, approve, render | Operations by `expected_document_hash`, Submissions, Knowledge through the basis | stamps set for a basis that has moved |
| Applications and job text (`applications/intake.py`) | job text and its hash, notes | duplicate check, ingest, update text, notes | analyses freeze the hash, Submissions lock the text | two creations at once, update racing a submission |
| Recruitment (`recruitment/lifecycle.py`) | status, outcome, event log, next action, deletion | transition, correct, close, delete | optimistic expected status | interleaved corrections |
| Submissions (`recruitment/submission.py`) | immutable rows and file copies | submit, record external | document, files, job text, status | read, copy, recheck in three places |
| Knowledge (`services/knowledge/`) | facts, bindings, candidate context, `fact_store_version`, fact events | add, edit, confirm, delete, attach, import | every document's basis | two mutations from one stale read |
| Gap questions (`services/gap_questions.py`) | questions, one outcome each | ask, answer, skip, draft, confirm | Operations, Knowledge | two outcomes racing |
| Analysis and its correction (`services/analysis/`) | versions per Application | activate, correct, rebuild | document repin, drafts | context replaced while an analysis is queued |
| Browser autosave (`useDraftAutosave.ts`) | buffer, token, one request in flight, session storage, undo history | queue, send, conflict, reapply, undo | ETag of the document | lost responses, edits during a request |
| Watched Operation (`useWatchedOperation.ts`) | the run followed, its record, what was read back | follow, poll, refresh the views of a run that ended | the projection, every screen | reads joined, restarted and late |
| Editor screen (`DraftEditorPage.tsx`, `useDraftEditing.ts`, `useRegenerationDiff.ts`, `useRenderDocument.ts`) | commands under way, dialogs, the longer flow | type, check, approve, render, regenerate, leave | autosave, watched Operation | a flow of several awaits while the reader goes on |
| Preparation screens (`AnalysisPage`, `MatchingPage`, `VerificationPage`) | the form of the settings, what a visit follows | analyse, save decisions, draft, rebuild | watched Operation, analyses | decisions made over an analysis that was replaced |
| Record forms (`PostingDialog`, `RecruitmentUpdate`, `SettingsForm`, ...) | what each form holds, its base and its token | open, type, save, resolve a conflict | hashes, `expected_notes`, ETags | a refetch under an open form |
| Facts page (`FactsPage`, `FactManagementDetail`, `FactAttachmentControl`) | the open form or question, where a fact would be attached | add, promote, correct, delete, attach, filter | Knowledge, browser history | the page moves from fact to fact under a form |
| New application (`NewApplicationPage.tsx`, intake hooks) | the form, its stored draft, the one command | type, check, create, create anyway | one storage key for all tabs | answers that come after the page has gone |
| Workflow (`state.py`, `actionDestinations.ts`) | none | advise, offer, resume | the projection, the links of eight pages | two tables in two languages |
| Search (`useApplicationSearch.ts`) | the field, the deferred text, the kept rows | type, answer, Enter | the list, the facts | rows of another text under the highlight |
| AI calls (`services/ai_calls.py`) | one log row per attempt | run with retry | provider, ownership of the row | a retry after the row was lost |
| Accounts (`services/accounts.py`) | users, sessions, rate-limit buckets | sign in, sign out, change password | counters reserved and released | concurrent attempts, window boundary |
| API plumbing, rendering engine, profiles, contracts, admin CLI | none of their own | | | pure functions and plumbing |

What makes each correct: the queue must let at most one Operation run per
Application and one render overall, end each row once, and never let a cancelled
one succeed; the runner must activate only results of the sources that were
frozen, atomically with success, and delete exactly the files nobody names; the
worker must leave nothing running for ever; a document's Ready state must be
about the content and Knowledge it names; a Submission must record what was
Ready; Knowledge changes must not be lost; a question has one outcome; autosave
must lose no keystroke and overwrite nothing unread; a command must be about what
its reader was shown when they gave it; a screen must not wait for ever, nor
advise what it does not offer.

## 2. The modules

### The server

- `OperationRows`: the rows and, as one operator per statement, what the
  persistence layer does to a row. A row's identity is its position in the
  sequence of rows, which is the order claims follow.
- `OperationLifecycle`: the abstract specification. Only jobs: submitted,
  started when alone in their Application (and alone among renders), asked to
  cancel, ended once. No threads, leases, snapshots or processes.
- `OperationWorkers`: the rows, the sources they freeze (job text, document
  hash), the documents, the files, the worker processes, their slot and their
  threads. `Lifecycle == INSTANCE OperationLifecycle WITH jobs <- ...` maps
  every row to a job, and `ImplementsLifecycle` states the refinement.
- `CVDocument`: the document of one Application, with every command that writes it: edits,
  template, re-pinning, check, approval, renders and their retry, and a Submission up to its
  insert. It meets `OperationWorkers` at the render attempt: there an attempt is a row, a thread
  and files; here it is the hash it was queued for and what its files show.
- `Recruitment`: the other side of one Application: status, terminal outcome, event log, Submissions
  after `CVDocument` has let them through (and external ones), deletion, and edits of the job text. It meets
  `CVDocument` at the insert of a Submission, and `OperationWorkers` at `update_job_text`, which there
  changes the source of an analysis and here is what a Submission must lock.

### The browser, with the server it meets

- `DraftAutosave`: the buffer, the token, the one PATCH, the conflict, the session-storage copy and
  the undo history of the editor, beside a server document that another tab writes.
- `WatchedOperation`: what every screen knows of the runs of one Application; `DraftScreen` and
  `Preparation` extend it.
- `DraftScreen`: the editor's screen: two reads, eight commands and one longer flow, dialogs, the
  regeneration diff, the lock of a running Operation. Its autosave is one line; `DraftAutosave` has the queue.
  `DraftPromises` holds the part of its state that `DiffIsOfItsPress` and `LinkLeavesNothingUnsaved` speak of, and the two.
- `Preparation`: the analysis and matching screens and the step that creates or rebuilds the draft, with the
  analyses, the matching decisions and the continuation of a first analysis.
- `RecordForms`: every form and dialog over one Application's record, and the settings.
- `FactPool`: the facts of one user, their commands against `fact_store_version`, and the page that shows them.
- `GapQuestions`: the questions of one analysis, with commands and activations as a snapshot and a commit.
- `Intake`: the page that creates an Application, its draft in the storage all tabs share, and the
  server's check and insert.
- `Workflow`: what the server offers and advises for a record, and the pages, links and resume point the
  browser derives from it. It extends `Search`, the search dialog.

`ApplicationRecord` puts `Recruitment` beside an instance of `Intake` (the two ends of a record), and
`MCRecordForms` `RecordForms` beside an instance of `FactPool`. They share no variable, so one behaviour is of one of them
(`scene`), and the other stays as it was. `MC*` modules hold the instances TLC checks; the `*_proofs` modules the theorems.

### How they meet

A render is a row and files in `OperationWorkers`, a stamp and a path in `CVDocument`, a command and a lock in
`DraftScreen`. A job text is a frozen source in `OperationWorkers`, what a Submission locks in `Recruitment`, a form
in `RecordForms`, an input of the analysis in `Preparation`. A fact is a basis in `CVDocument`, a row in `FactPool`, the result of an
answer in `GapQuestions`. A saved edit is one step of `CVDocument` and the whole of `DraftAutosave`. Each module
takes the others' guarantees as its environment: another tab, a foreign write, a run that ends.

### State of the server modules

| variable | code |
|---|---|
| `operations` | table `operations`; `outputs` stands for its rows in `operation_outputs`; `failure` for `failure_code`, collapsed to the one of a cancellation, those a retry is refused for (`PERMANENT`: SOURCE_CHANGED, MISSING_FACT_RENDERING) and all others (`RETRYABLE`) |
| `text`, `document` | `applications.job_text_hash`; `cv_documents` with its hash, the Operation whose files it names, the Operation whose render error it shows |
| `files` | the attempts whose files are in the object store |
| `worker`, `slot` | processes; who holds the advisory lock session |
| `active`, `toCancel` | `_active_ids`; the snapshot of it the stopping loop works through |
| `pc`, `current`, `failing`, `prepared` | where `run_once`/`run_claimed` is, its row, the exception in hand, the prepared value |
| `candidates`, `seen` | the snapshots of the claim, of the activation and of `fail_operation` |
| `held` | the files `discard` (or `after_activation`) would delete |
| `spent` | counts edits, stops, losses and crashes against `Budget`; not in the code |

In `CVDocument`:

| variable | code |
|---|---|
| `doc` | the row of `cv_documents`: analysis, content, template, the three stamps, `passed`, and the request whose approval `approved_at` dates; `path` is the attempt that wrote `html_path`/`pdf_path` |
| `records` | the status of each fact, as `facts_hash` reads it |
| `client` | what a request has read and is about to write, by how far it is: `read`, `check`, `approve`, `submit`, `copied`, `recorded` (the Submission's row, until it is answered); `began` in it is history, the facts when it read the document |
| `attempt`, `files` | render attempts with the `expected_document_hash` of their Operation; what the file pair at an attempt's own path shows |
| `released` | paths to delete after the commit that released them (`_superseded`, `released`, an attempt that did not activate) |
| `changes` | counts changes against `MaxChanges`; not in the code |

In `Recruitment`:

| variable | code |
|---|---|
| `application` | `current_status`, `terminal_outcome`, whether `deleted_at` is set, and the job text of the row of `applications` |
| `events` | `recruitment_events`, in the order of their commits |
| `submissions` | `submissions`, by type |
| `client` | a command that has read the row (`read`), or a job-text edit with what its snapshot shows (`edit`) |
| `stale` | the edits whose snapshot misses a write of the row, which PostgreSQL refuses with 40001 |

Hashes and bases are the records they hash: `Hash` names the analysis, content and template,
`Basis` the analysis, the content and the record of every fact it cites. A digest is equal
when what it digests is.

### State of the browser modules

| module | the server's rows | the browser's state |
|---|---|---|
| `DraftAutosave` | `doc`: the lines of one section, each the set of keystrokes it holds; `minted`: ids of added lines | `read`, `fetch` (query cache), `outline`, `past`, `future`, `staged` (useDraftHistory, staged removals), `buffer`, `token`, `flight`, `timer`, `halted`, `status`, `reapplying`, `mirrored` (useDraftAutosave and sessionStorage). `typed`, `landed`, `withdrawn`, `overtyped`, `crashed`, `shown` are history, read by no action |
| `WatchedOperation` | `ops` | `detail`, `detailFetch` (the projection), `record` (each Operation's query), `watched`, `projected`, `refreshing`, `settledFor` (the hook's state and refs) |
| `DraftScreen` | `doc`: text, template, facts, the three stamps | the reads, `session` of the overlay, the one-line autosave, `request` (one command of each kind), `flow` (navigateSaved and its like), the approval, render and regeneration state |
| `Preparation` | `posting`, `edits`, `knowledge`, `autoGenerate`, `analyses`, `doc` | `page`, `intent`, `followed`, `queuedId`, `rebuildOpen`, `form`, `request` |
| `RecordForms` | `record`, `submissions` | `cached`, `fetch`, `page`, `dialog`, `form`, `base`, `etag`, `target`, `correction`, `acknowledged`, `conflict`, `latest`, `request`; `told` and `typed` are history |
| `FactPool` | `store`: every version of the facts and their attachments, the last the present | `cached`, `fetch` (a read is the number of the version it saw), `page`, `visited`, `creating`, `correcting`, `form`, `asking`, `choice`, `filters`, `requests` |
| `GapQuestions` | `ops`, `outcomes` (`gap_answers`), `facts`, `version`, `run` (the worker's) | `requests` of two tabs, `set`, `setFetch`, `asking`, `askData`, `ended`, `finished` |
| `Intake` | `apps`, `commands` (ingests the server will run) | `key` (localStorage), `visit` (form, draft timer, status, place), `mutation` |
| `Workflow`, `Search` | `record` | `seen` (the record the projection was derived from), `page`; `dialog`, `opened` |

### Transactions

One step is one transaction, except where its window matters. A claim reads its
candidates in one step (`BeginClaim`) and tries each in a later one (`TryClaim`),
where the index and the row decide on what is there *then*. An activation takes its
snapshot (`BeginActivation`) and commits or is refused later (`Activate`): REPEATABLE
READ refuses with 40001 when a row it locks or writes has changed, which is
`RowMoved` and `SourcesMoved`. `fail_operation` can wait on a row lock, so it has a
snapshot too (`BeginFail`, `Fail`). `Complete` is one step: a repeated cancellation
writes nothing, and losing the row in its window ends in the same crashed thread as
losing it before. Snapshots are compared by value, so a source that changes and
changes back inside one window is allowed to commit: more behaviours than the code has.

In `CVDocument` a request is three steps, as its service method is three transactions:
`Read` (the document), `...Against` (Knowledge, and what is decided on both), and the
write, whose guard `StillHolds` is `_locked`: the row has the hash that was read. A
write under the row lock in REPEATABLE READ is refused when the row changed
after the snapshot, so a write that commits sees the row as it is. `Finish` is a refusal,
an error or a crash at any point. `ActivateRender` reads Knowledge in its own
transaction; a fact that changes between its snapshot and its commit does so after it here.
Several attempts may run at once: only one Operation of an Application does, but a
worker that lost its slot goes on with its own.

In `Recruitment` a command is `Read` and one write. `insert_event` takes the row lock as its first
statement, so its snapshot is never older than the lock or it is refused; that makes the write one
step. `update_job_text` is different: `get_application` takes the snapshot before the lock is
asked for, so it is two steps, `BeginEdit` and `UpdateJobText`, with everybody else's commits
between. A row that was only locked in between (`SELECT ... FOR UPDATE`) is no obstacle to the edit,
a row that was written is: `WriteRow` keeps track of that. The trigger's query runs on the
snapshot of the transaction, as the check before it does.

In `GapQuestions` and `FactPool` a command is its snapshot (`Begins`) and its commit: the first
takes what it decides on, the second meets the constraints of the tables or the version it advances. In `Intake`
the check and the insert are two transactions, as in the code. In the modules of a screen a command is
sent, served and answered, in one server step: what is inside that transaction is a server module's matter.

### Effects and reads in the browser

React runs the effects of a render before it hands control back, so in `DraftScreen`, `Preparation` and
`GapQuestions` an effect that is due comes before any act of the reader and any message (`Calm`, `RefreshDue`). A
read is asked, answered with what the server has then, and arrives; an invalidation restarts it, a focus joins it
(`Joined`, `Invalidated`). What is kept in a component is forgotten when the component is no longer drawn, and an answer
reaches only a component that is (`Draws`, `LetGo` in `FactPool`; the keys and `watched` of requests elsewhere).
Lines and texts are sets of keystrokes in `DraftAutosave`, so that "is it lost" can be asked of each; elsewhere they are model values.

### What is abstracted

Regeneration of a section or a claim freezes, verifies and writes what `create_draft`
does, so `create_draft` stands for them. The text of an analysis stands for all its
frozen inputs; Knowledge is not frozen by any Operation and is not here. An
analysis that creates the document may or may not queue a draft. A refusal inside
the discarding step is one step with its discard. A runner id is reused by the next
start of the same process; by then the process has no thread and its rows are
interrupted before it claims. `Crash` also stands for a recovery that
is refused with 40001 and for a failing maintenance call, which end the process the same way.
The first hash of every text and document is 1, because nothing can name it before it exists.
A retry's read and its insert are one step: an edit between them equals an edit
right after. Deletion, idempotency keys and repinning are left out of `OperationWorkers`.

In `CVDocument` a content is a model value with the facts it cites; what validation
reads beside the basis (Profile, presentations) makes its verdict on one basis either of two.
A fact is pending, canonical or deleted: nothing edits a canonical one, and editing a pending one
can move no stamp but a check's. Deleting the Application only refuses more.
In `Recruitment` reasons, dates, the next action's text and the audit records are left out, and the source URL is
part of the text. A correction names an earlier status event; which one changes nothing else. Writes of the row
by other commands (notes, analyses) only refuse an edit more often, which `Finish` allows anyway. A Submission is one
type: what makes an internal one acceptable is `CVDocument`.
Renders draw the content in the template; the candidate's contact details are not in the basis and not
in the drawing, so Ready says nothing about them, here as in the code.

What each browser module leaves out is in its header: mostly reads that fail, validation of a field, wording and layout,
moves between screens with a command under way.

## 3. The runs

Constants in a `.cfg` name their bound: `MaxOperations`/`MaxOps` rows, `MaxHash` hashes, `MaxChanges` changes, `Attempts`
renders, `MaxEvents` events, `MaxSubmissions` Submissions, `MaxAnalyses` analyses, `MaxVersions` versions of the facts,
and a `Budget` (or `Budgets`, `FactBudgets`, `CreationBudget`) with how often each kind of disturbance or act
may happen. No state constraint is used and every action fires in some passing run. Deadlock is checked in
the runs of `OperationWorkers`; a document, a form or a page may be left alone for ever, so the others do not check it.

| run | module | instance | checks | distinct states |
|---|---|---|---|---|
| `exec_pool` | `MCOperationWorkers` | 1 process, 2 threads, 2 Applications, all types, 2 rows, 1 edit; Applications and threads symmetric | `TypeOK` `CancelledNeverSucceeds` `ClaimGuards` `ActivatesFrozenSources` | 1.5 M |
| `exec_takeover` | `MCOperationWorkers` | 2 processes of 1 thread, 1 Application, renders, 2 rows, 1 loss, 1 crash; processes symmetric with their threads | `FilesReferencedExist` `NoOrphanFiles` `RendersAreSuccesses` `ImplementsLifecycle` | 0.48 M |
| `exec_live` | `MCOperationWorkers` | 1 process, 2 threads, renders, 2 rows, 1 stop, 1 crash; no symmetry | `EveryOperationEnds` `StoppingEnds` | 0.13 M |
| `cv_document` | `MCCVDocument` | 2 requests, 2 render attempts, 2 analyses, 2 contents of which one cites the one fact, 2 templates, 3 changes; requests, attempts, analyses and templates symmetric | `ReadyShowsTheDocument` `ApprovedFactsAreUsable` `SubmissionsShowTheirContent` `ApprovalIsGivenOnce` | 0.96 M |
| `recruitment` | `MCRecruitment` | 2 requests, 2 texts, 6 target statuses, 4 events, 2 Submissions; or 2 visits of the page that creates one, in one or two tabs, 2 postings, 1 link, a label typed with and without spaces, 1 other writer; requests and texts symmetric | `LogIsAChain` `OutcomeFollowsStatus` `DeletedIsNeverSent` `NoSilentRepeat` `CreatesWhatIsOnScreen` `KeptIsWhatWasNotCreated` | 1.37 M |
| `autosave` | `MCDraftAutosave` | one section of two lines, three ids for added ones, undo of two; two acts of the user, two of the surroundings | `NothingDropped` `ShowsWhatIsSaved` `NoBlindOverwrite` `EveryChangeAnswered` | 0.36 M |
| `draft_screen` | `MCDraftScreen` | 2 texts of which one fails its check, 2 templates, 3 Operations; scenarios, each with budgets of its own | `DiffIsOfItsPress` `LinkLeavesNothingUnsaved` `LockEnds` | 0.55 M |
| `preparation` | `MCPreparation` | 2 postings, 4 Operations, one opening for each place a reader can come from | `DecisionsAreOnTheAnalysisShown` `RebuildDiscardsWhatWasConfirmed` `ProcessingEnds` | 0.56 M |
| `record_forms` | `MCRecordForms` | 2 values, 2 Submissions, one act of each kind; 4 facts (2 promoted, 1 waiting), 3 versions | `NoUnreadOverwrite` `UntouchedSettingsStay` `CorrectionIsOfItsFact` `FactsNeverGoBack` | 1.32 M |
| `gap_questions` | `MCGapQuestions` | 2 questions, 2 wordings, 2 tabs, 6 Operations | `QuestionHasOneOutcome` `DraftingEnds` | 0.34 M |
| `workflow` | `MCWorkflow` | 2 postings, 5 analyses; the search dialog with its texts, rows and facts | `AdviceIsWhereItResumes` `OffersAreInReach` `EnterOpensAnAnswer` `LeadsToDelivery` | 0.10 M |
| `posting_overwrite` | `MCRecordForms` | as `record_forms` | `PostingEditIsOfTheTextShown`, refuted | section 5 |

Why the bounds suffice. In the queue every interaction is between at most two rows (a claim
and a competitor, a render and the one it supersedes, an original and its
retry), two threads, and a process and its successor. Two hashes tell "as
frozen" from "not as frozen"; one edit, loss, stop or crash at *every* point is
what the properties are about. In the browser every property is about one thing that was read, one write by
somebody else, and one command made from the read; two values tell the written from the read one, and one act of each kind at
every point makes the orders. Where a property needs a value to come back, there are two changes to bring
it back. Symmetry is used only where Init, Next and the properties treat the permuted values alike, and never for liveness.
The larger bounds each run would want are what the proofs of section 4 are for.

### What the runs show

`exec_*`. `ActivatesFrozenSources` compares with the database at the
commit, not with the snapshot: the locks and the refused writes are what make it hold.
`FilesReferencedExist` and `NoOrphanFiles` pull in opposite directions over every way
out of an attempt: discard too eagerly and the first fails, too rarely and
the second does. `RendersAreSuccesses` and `ImplementsLifecycle` show that a
worker that has lost its slot and does not know it can do nothing a user sees as
a result. `NoOrphanFiles` is only claimed without a crash: a killed process leaves files, and
the code says so (orphan inspection reports, and deletes nothing).

`cv_document`. Three changes are enough to leave an approved, rendered document, do
something to it, and come back; two contents are enough to come back to. `SubmissionsShowTheirContent`
fails as soon as the hash is not compared under the lock, although stamps and paths are: an edit
moves none of them, so after it they still match the copy. `ApprovalIsGivenOnce` is about the edit and its undo
that `_existing_approval` describes.

`recruitment`. The targets are one status of each kind (start, `applied`, open, two outcomes, closed). Four events are
enough to leave a status and come back to it between a command's read and its write, where the expected status
compares equal although it is another visit. The creation half: a check and an insert are two transactions and two tabs share one stored draft, so
the questions are whether a match found between them is shown (`NoSilentRepeat`), whether an answer that comes after the form
moved on creates the old form (`CreatesWhatIsOnScreen`), and whether the stored draft of a page that was left is what was left.

`autosave`. `NothingDropped` follows every keystroke: it is in the document, in the buffer, in the request under way, in
session storage, or somebody took it out. `NoBlindOverwrite` is about the token: an accepted PATCH was sent over the
version its reader had been given. `EveryChangeAnswered` ends in saved, in a conflict shown, or in an error shown.
`ShowsWhatIsSaved` compares the screen with the last read whenever nothing waits: a read that is adopted too little, or an undo that queues too
little, leaves a text nobody will ever send. It supposes that no read or request failed, since a refetch that fails is not tried again.

`draft_screen`. The diff dialog opens on the answer of a regeneration whose press has to be the last one (`DiffIsOfItsPress`);
`navigateSaved` awaits a save that may fail while typing goes on (`LinkLeavesNothingUnsaved`); the lock of a running
Operation is lifted by reads that may be restarted, joined or late (`LockEnds`).

`preparation`. The analysis under a form can be replaced by an Operation, by another tab, or by the screen's own move.
`RebuildDiscardsWhatWasConfirmed` is about the projection that offers a draft being older than the draft it replaces.

`record_forms`. A form keeps what it was filled with, its base and its token follow later reads: `NoUnreadOverwrite` and
`UntouchedSettingsStay` hold for notes and settings because of how each of them moves the base, and
`posting_overwrite` shows that the posting dialog does it differently. On the facts' page the question is
whether a form opened on one fact can be sent while the page is on another.

`gap_questions`. Skip, answer and the activation of a draft each check that the question has no outcome on a snapshot;
the unique constraints and the version are what decides.

`workflow`. The advice is computed in Python and the pages in TypeScript; the run checks that the two tables agree
on every record within reach, that a highlighted row is a row of the text, and that a reader who does what is advised delivers.

### Fairness

| specification | assumes | because |
|---|---|---|
| `OperationWorkers!Spec` | `WF(ThreadStep(t))`, `WF(HostStep(r))` | a running thread is scheduled, provider calls have timeouts and renders end; the serving loop runs, `scripts/serve.sh` restarts a refused or crashed worker and the platform the container |
| `DraftAutosave!FairSpec` | timers fire, a due save is sent, a request is served and its answer or failure arrives, the refetch arrives | timers and promises of the browser; a request fails by timeout at the latest |
| `DraftScreen`, `Preparation`, `GapQuestions` | `WF` of the machine's steps taken together: answers, polls, reads, effects, the run's own steps | the same, and `EveryOperationEnds` for the run |
| `Workflow!FairSpec` | the reader follows the lead, resumes, ends a search; runs end, reads arrive | `LeadsToDelivery` is about a reader who does what the page advises; nothing makes a reader do so otherwise |

Users, edits, other tabs, stops, losses and crashes have none. `EveryOperationEnds` needs the slot not to be lost: a
worker that claims after its successor's recovery and then dies leaves a row
running that only a third start interrupts (a hazard in PROJECT.json).
The other specifications have safety properties only and assume no fairness.

## 4. What is proved

Everything here holds for every value of the constants: any sets of Applications, processes, threads, requests, attempts, facts,
lines, questions or values, any bounds and budgets. Assumptions are the named `ASSUME`s of the modules, which type the constants,
and where a theorem supposes more its row says so.

| module | theorem | property |
|---|---|---|
| `OperationWorkers_proofs` | `TypeCorrect`, `RowsAreSound` | `TypeOK`; `RowsInvariant`, the inductive invariant of the rows |
| | `OutputsAreSuccesses`, `CancellationWins`, `GuardsHold`, `EndedIsFinal` | `OutputIffSucceeded`, `CancelledNeverSucceeds`, `ClaimGuards`, `TerminalIsFinal` |
| | `WorkersImplementLifecycle` | `ImplementsLifecycle` |
| | `SuccessActivatesFrozenSources`, `RendersSucceeded` | `ActivatesFrozenSources`, `RendersAreSuccesses` |
| | `NamedFilesExist`, `NothingIsOrphaned` | `FilesReferencedExist`, `NoOrphanFiles`, supposing `AckLoss = FALSE` |
| `CVDocument_proofs` | `DocumentTypes`, `ReadyFilesShowTheDocument`, `ApprovalsRestOnUsableFacts`, `NoContentNoStamps`, `SubmissionsAreWhatWasCopied`, `ApprovalsCarryTheirReport`, `ApprovalsAreGivenOnce` | every property of `cv_document`, and three more |
| | `DiffsAreOfTheirPress`, `FlowsKeepTheirPlace`, `LinksLeaveNothing` (the screen: `DraftPromises`, and the instance `S` of `DraftScreen` over its variables) | `DiffIsOfItsPress`; `FlowInvariant`; `LinkLeavesNothingUnsaved` |
| `Recruitment_proofs` | `TypeCorrect`, `LogTellsTheStory`, `GraphIsFollowed`, `OutcomesFit`, `DeletedStaysUnsent`, `AppliedTextStays` | `LogIsAChain`, `TransitionsFollowTheGraph`, `OutcomeFollowsStatus`, `DeletedIsNeverSent`, `AppliedLocksTheText` |
| | `CreationIsSound`, `RepeatsAreAskedFor`, `CreatedIsWhatWasShown`, `DraftsAreWhatWasNotCreated` | `CreationInvariant`, `NoSilentRepeat`, `CreatesWhatIsOnScreen`, `KeptIsWhatWasNotCreated` |
| `DraftAutosave_proofs` | `QueueIsSound`, `NoKeystrokeDropped` | `QueueInvariant`, `NothingDropped` |
| | `OnlyTheSeenIsHeld`, `NoTextIsOverwrittenBlind` | `SeenInvariant`, `NoBlindOverwrite` |
| | `DifferencesAreOwed`, `TheScreenShowsWhatIsSaved` | `ScreenInvariant`, `ShowsWhatIsSaved` |
| | `TheTokenIsCurrent`, `ThePageNeverConflictsWithItself` | `TokenInvariant`, `ConflictHasCause` |
| | `TheScreenShowsTheDocument` | `ShowsWhatIsStored` |
| `Preparation_proofs` | `CommandsAreMadeOverWhatWasShown`, `DecisionsFollowTheirAnalysis`, `RebuildsAreConfirmed` | `PreparationInvariant`, `DecisionsAreOnTheAnalysisShown`, `RebuildDiscardsWhatWasConfirmed` |
| `RecordForms_proofs` | `FormsAreOfTheirRecord`, `SavesGoOverWhatWasRead`, `SavesChangeWhatWasTyped` | `FormsInvariant`, `NoUnreadOverwrite`, `UntouchedSettingsStay` |
| | `FactsAreSound`, `CorrectionsReplaceWhatTheyShowed`, `SettledFactsStaySettled` | `PoolInvariant`, `CorrectionIsOfItsFact`, `FactsNeverGoBack` |
| `GapQuestions_proofs` | `QuestionsFit`, `OneOutcomePerQuestion`, `ConfirmedStaysConfirmed` | `QuestionsInvariant`, `QuestionHasOneOutcome`, `CanonicalStays` |
| `Workflow_proofs` | `RecordsFit`, `AdviceIsFound`, `OffersAreFound`, `EnterOpensAnswers` | `WorkflowInvariant`, `AdviceIsWhereItResumes`, `OffersAreInReach`, `EnterOpensAnAnswer` |

### The arguments

*Rows.* None of the properties is inductive alone. `OutputIffSucceeded` needs
that a thread that completes without an activation (`completing`) has a row that is
asked to cancel or no longer running (`CompletingIsOver`); otherwise `_complete` would make it a
success without outputs. Keeping that needs the row not to be claimed again
under the thread: `ClaimsAreExclusive` (two threads never share a row, a thread's row is never
queued, and if it runs its lease names the thread's process), and `BusyHasRow` ties having a row
to where the thread is. Steps fall into three groups: those that leave rows and claims
alone, those that rewrite one row and keep its claim facts (the lemmas on
`Requested`, `Completed`, `Failed`, ...), and the claim. The refinement uses the invariant at each
step: a queued row has no thread, so a claim is a `Start`; a completion is a
`Succeed` or a `Cancel`; recovery is `InterruptAll`.

*Files.* `FilesInvariant` says of every thread what its part of the code may still do: the files it holds are its own
attempt's and, after its commit, those of the render it superseded; what a thread holds no document names and no other thread
holds; and between the render and the commit the attempt's row has not succeeded.
A step of another process changes none of that, because a row is claimed by one thread. An activation moves what a document
names and what its thread holds in one step; every other way out of an attempt only shrinks what is held. With a lost acknowledgement the
thread goes on to discard what its own commit made the document name, which is why two theorems suppose there is none (section 5).

*Document.* `IInv` follows the two things the stamps do not say. `FilesFollowAttempts`
and `OwnFilesAreKept`: a path shows what its attempt drew until it is deleted, no path of
an attempt that is not over is released, and the document's own path is not. `RequestsKnow`:
what a request carries from its reads - that the path and the render stamp it saw
belong together, that its basis is of the content whose hash it names, what the facts
were. Those stay true while the document and the facts move on (`PastStays`), since they speak of attempts that
are over, of facts that are confirmed and then deleted and never come back, and of the request's own state;
`StillHolds` then makes them facts about the document.

*Facts under a stamp.* Knowledge is read in another transaction than the stamp is written in, so a stamp may be written after one of its
facts was deleted. `ApprovedFactsAreUsable` compares with the facts as they are: such an approval is not in force, because the stamp names the facts
as they were looked at (`RestsOnCanonicalFacts`) and approval means equality with the basis of now. A mutant that stamps the basis of now
under the lock, without looking at the reasons again, breaks it. A Submission is frozen and may cite a fact deleted while its request was served (section 5, 14);
`began`, what Knowledge held when the request read the document, says how far back that goes: every cited fact was
canonical then. The check itself comes later, so this needs the approval the request saw: it names the
fact canonical and was given before, so the fact was no longer pending (`IsPast`), and it was not deleted, since it is not when it is checked
(`SubmitsUsable`).

*Screen of the document.* `DiffInvariant` follows a comparison from the press: the command under way asks for the wording that
was captured (`PressIsOfItsCapture`), an accepted answer names a run that was given what was asked, and runs keep what they were given. So the
capture is bound to a run of its own wording, if it is bound at all; a lost answer leaves it unbound and no other answer takes it.
`FlowInvariant` says where a flow can be: what is left of it is one of its own awaits and all that follow, and only the flow
that waits for a command has it under way, so no answer moves another flow. The step before a link's leaving is then the second settling, which found
nothing unsaved. Attempting this proof showed that the property had said more than the code does: a render pressed beside an unsaved
edit may finish while a link waits and leave first (section 5, 12). No scenario of the run had the three acts together. The property now
speaks of the link's own leaving, asks for no open conflict as well, and the run has a scenario with the three acts.

*Recruitment.* The chain and the outcome are inductive beside the types, because a
command's write compares the status it read with the one it overwrites: the event starts where the log ends, and
in an open status there is only one outcome to have read. `AppliedLocksTheText` is not inductive; `AppliedIsSeen` adds
what is true of the edits under way: once a Submission has moved the status, an edit either sees a Submission or is stale.

*Creation.* `PagesAreSound` says which visit may hold which stage of the one command and what its storage key holds while it
does; `PressesAreSound` that a press under way carries the form that is on screen, since a change of the form ends it; `IsCommand` that a
command the server will run acknowledges matches only if its visit had shown some. The three properties follow at the step
that inserts.

*Autosave.* `QueueInvariant`: the buffer is its stored copy, or has left in the request; a request the server accepted has
every keystroke of its patch in the document; every keystroke landed, withdrawn or overtyped is on record. Steps leave
queue and request alone, move a patch whole, or replace a text of a patch. What makes it hard is the way back: a failed
request is put under what was typed since, text over text, and only what the newer text replaces may go.

*Another tab's text.* A save is accepted over the version it names, so `NoBlindOverwrite` is a question of what that version may
hold. It may be the page's own last save, made by the server of a document and a patch, and a patch is made of what the screen and
the history showed: undo brings back lines of an older read, a put-back patch its texts, a reload the stored copy. `SeenInvariant` says of
all of them that another tab's keystrokes are in them only if a read has shown them. For the server's part, the lines that
remain after a removal (`Kept`, a recursive function) are shown to be lines of the document. The library's induction
theorems cannot be used here, so `Counting` (a set with 0 and every successor is all of Nat) comes from the least element of a well-founded
order, and the defining equation of the function is proved with it first.

*The screen.* `ShowsWhatIsSaved` speaks of moments when nothing is left to save; its invariant has to say what happens in between. A line
whose text on screen differs from the read (`TextIsOwed`), and an order that differs (`OrderIsOwed`), is *owed*: the buffer carries it, or the
request does and no newer buffered text hides it, or a read is coming that differs there. The last case is the hard one, because a
read that does *not* differ leaves the screen alone: an accepted save must have changed the document where the screen differs from the read.
That rests on three facts about identities and keystrokes. A line the page knows of that is in the document was read
(`LinesLeaveInOrder`), so a removal or an order that is applied shows in the next read; ids the server draws are given out once
(`IdsAreGivenOut`), so an added line is in no earlier read; and another tab's next keystroke is nowhere yet (`ForeignAreFresh`), so
its write never restores the text that was read. `PatchedTexts` says what the server makes of a patch, line by line and in order. A request may be refused for
good (an order without a line the server has): then it is put back, and the difference stays owed. `ScreenInvariant` was
checked by TLC on four instances (1.6 M states the largest) before it was proved.

*The token.* `useDraftAutosave` says of its token that it "stops an older response from installing an older ETag over a newer one"; `ConflictHasCause`
adds the reads: a 409 is never the page's own doing. As long as nobody else wrote, no answer was lost and the page was not loaded again, the token is the stored version, except between
an accepted save and its answer, when the answer has it and a read under way may bring the version before. That such a read is dropped at the answer
(`Invalidated`: `invalidateQueries` cancels a read under way) is what the step `SuccessIsCurrent` rests on; were it joined instead, TLC ends
`ConflictHasCause` in fourteen states with three acts of the user. By the same invariant the last read *is* the stored document once no
save is accepted and unknown (`ReadIsStored`), so that the screen shows the stored document (`ShowsWhatIsStored`). No run checks these
three; TLC did on two instances (0.77 M states the larger) before the proofs.

*Preparation.* A form and a command carry the analysis and content they were made over. `PreparationInvariant` says that a
changed form is on the analysis of its key, that a saved decision was made on the analysis it names, and that a rebuild that
names content was confirmed. The key is the analysis on screen whenever the reader can act, since effects run first
(`Calm`); the request then names what the reader saw, whatever arrives before the server does.

*Forms and facts.* `FormsInvariant`: a read is of a version that was; the base of a form is a value it showed or announced;
the token names the version of that base, so a save with a current token goes over a value the reader knows; and a
setting that differs from the base was typed. `PoolInvariant`: versions only go on, a read is of one of them, and what is open on the facts'
page (a form, a question, a choice) is of the fact the page draws, because leaving the fact takes it away
(`LetGo`). A correction in flight was canonical when it was opened, and a fact that is canonical stays so or is deleted.

*Questions.* `RowsSound` (an outcome per question, a fact per drafted answer and back), `RequestsSound` (a command's snapshot
is of rows that are still there, and one whose version is current holds the facts as they are) and `ViewsSound`. An outcome that
appeared after the snapshot is met by the constraint or by the version at the commit.

*Workflow.* The server's actions, its advice, the pages and the resume point are four tables over one record, in two languages. They
agree on every record that *fits* (`RecordFits`): content has a document, a document an analysis, a stamp a content that
passed its check. That is not inductive without a clause on the queue: a draft's end writes content, so a
draft is queued only for a document (`QueueFits`). The page is drawn from `seen`, an earlier record, and an earlier record fits too.
Then each advised command has its page, and each offered one is at most three links away, by cases on the command. In the
search dialog *Enter* acts only while the rows are those of the text on screen, and the highlight is a number from 1
on (`DialogFits`), so the row it opens is an answer to that text.

### What is not proved, and why

- Liveness, everywhere: `EveryOperationEnds`, `StoppingEnds`, `EveryChangeAnswered`, `LockEnds`, `ProcessingEnds`, `DraftingEnds`,
  `LeadsToDelivery`. They need `ENABLED` of fair actions, which the prover does not treat.
- That a text shown in a line *added* during the visit is the one read: it is false (observation 13). `ShowsWhatIsSaved` speaks of the order of
  all lines, and of the texts of those the document started with.

## 5. Where the code and its words disagree

One disagreement is a run that TLC ends with a counterexample, and a finding in PROJECT.json:
`posting_overwrite`. `JobPostingDialog` says an edit of a posting that already changed "is refused rather than
overwriting it". The hash it sends is that of the latest read, the fields are those of the opening: a refetch under the open
dialog moves the one and not the other, and the save replaces a text nobody in this dialog saw.

Observed in the same models, each with an instance TLC ended with a counterexample, and kept here without a run of their own
because twelve questions say more about the system than its refutations:

1. `cancel_spec`: section 19 of the state spec says a running Operation asked to cancel ends `cancelled`;
   it ends `failed` when anything fails after the request, sources that changed included.
2. `render_error_lease`: "every runner write requires `lease_owner`"; the render error does not.
3. `stop_abandons`: the stop's own cancellation can refuse the failure write of
   the thread it cancels, and the process leaves the row running.
4. `lost_ack`: a commit that was applied but not acknowledged is discarded: the document names deleted files.
5. `late_recovery`: a worker that lost its slot before its startup recovery interrupts its successor's live work.
6. `job_text_lock`: "the first Submission locks the job text". An edit that began before a Submission which
   leaves the status alone (a second one, or one after `withdrawn`) changes the text after it.

Seen while modelling the browser, where no document claims otherwise or the effect is small:

7. Two presses of *reapply* in the conflict dialog: the second one's `publish("idle")` (`useDraftAutosave.ts:414`) tells the
   editor that nothing is unsaved while the save of the first is still under way (`DirtyTellsUnsaved`, which no run checks).
8. `ReadyPage` keeps `submissionRecorded` for the visit (lines 78, 117): it outlives the Submission's own view.
9. The correction form of an event follows a newer event that arrives under it (`RecruitmentCorrectionAction.tsx`, 42-47).
10. Of two skips of one question, the one that loses at the constraint is answered 500, the one that sees the first 409.
11. A posting that is put back to an earlier text (T1, T2, T1) while the document is pinned to the analysis of T2: neither a new
    analysis nor a rebuild nor a draft is offered (`PutBack`, the exception `LeadsToDelivery` names).

12. *Create the files* is offered beside an unsaved edit (`DraftRenderPanel.tsx`), and the render's success takes the reader to
    the files (`DraftEditorPage.tsx:138`) while the edit is unsaved or in flight, even in the middle of a link's settling. What is left of the
    autosave goes out as the page goes; the files are then of the text before it, and the document is a draft again.
13. Undo and redo queue an edit only for lines that are on the screen they leave (`apply`, `useDraftHistory.ts:117-120`). With one entry from
    before a line was added and one of typing in it, undo, undo, redo, redo within one debounce shows the typed text again, queues the order and
    not the text, and ends "saved": `useDraftEditing.ts:44` calls dirty "anything the server has not accepted yet", and this text is not.
    TLC gives a trace of 18 states with one line, one added line, `HistoryLimit` 2 and two keystrokes. Lines the document started with are in
    every entry of the history, and for them `ShowsWhatIsSaved` is proved.
14. A review reason "blocks" a Submission (`product-spec.md:226`), and does when the request reads Knowledge. A fact deleted between that
    read and the insert, while the files are copied, does not: the insert compares stamps, which no deletion touches
    (`submission.py:116-130`), as the state spec says it does (section 18). An approval in the same position harms nothing, since it is not in force.

## 6. Not modelled

Rendering, layout, validation, text processing of provider output, contracts and
profiles (data, not protocol); HTTP plumbing; accounts, sessions and the sign-in counters; Knowledge profiles, candidate context, import
and export; the log of AI calls; idempotency keys; the admin CLI. Each is listed in PROJECT.json with its reason. Within the modelled pages: the review of
a single claim, reads that fail, wording.

## 7. Plan

1. Proofs: typing of the lines the server makes (`DraftAutosave!TypeOK`).
2. `SignIn`: reserved and released attempts, windows, sessions and password changes; `AICalls`: retry and ownership.
3. Knowledge import and export against `fact_store_version`.

Runs stay at one per question (12 at most over the project). A refutation gives up its run once the code or the words it quotes are corrected.
