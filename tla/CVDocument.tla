----------------------------- MODULE CVDocument -----------------------------
(***************************************************************************)
(* The CV document of one Application, from generated content to the       *)
(* Submission that freezes it.                                             *)
(*                                                                         *)
(* Nothing about the document's state is stored but three stamps: the      *)
(* basis its content report was produced for, the basis that was approved, *)
(* and the render basis its files hold.  A basis names the content, its    *)
(* analysis and the current record of every fact the content cites, so     *)
(* every read compares the stamps with the Knowledge of that moment.  A    *)
(* command reads the document in one transaction, Knowledge in another and *)
(* writes in a third, which only checks that the document's hash is the    *)
(* one it read; renders run for minutes beside all of them.                *)
(*                                                                         *)
(* Deleting the Application only refuses what this module allows, and is   *)
(* left out.                                                               *)
(***************************************************************************)
EXTENDS Naturals

CONSTANTS
  Clients,        \* requests being served at once
  Attempts,       \* bound: render attempts; each writes to a path of its own
  Analyses,       \* the Application's analyses the document can be pinned to
  Contents,       \* what the document can say
  Templates,      \* the track's own template and the ones a user may choose
  Facts,
  Cites,          \* the facts each content's claims cite
  Null,           \* the SQL NULL
  MaxChanges      \* bound: changes of content, analysis, template or facts

\* The records a fact can have.  Nothing changes a canonical fact but its
\* deletion; editing a pending one moves no stamp but a check's.
FactRecords == {"pending", "canonical", "deleted"}

ASSUME CitesAssumption == Cites \in [Contents -> SUBSET Facts]
ASSUME NullAssumption == Null \notin Contents \union Attempts \union Clients

-----------------------------------------------------------------------------
(* Hashes, bases and states *)

Hashes == [analysis: Analyses, content: Contents \union {Null}, template: Templates]
Bases == [analysis: Analyses, content: Contents, facts: [Facts -> FactRecords \union {"uncited"}]]
RenderBases == [basis: Bases, template: Templates]
Drawings == [content: Contents, template: Templates]

ASSUME NullStampAssumption == Null \notin Bases \union RenderBases \union Drawings

Documents ==
  [analysis: Analyses, content: Contents \union {Null}, template: Templates,
   checked: Bases \union {Null}, passed: BOOLEAN,
   approved: Bases \union {Null}, approvedBy: Clients \union {Null},
   rendered: RenderBases \union {Null}, path: Attempts \union {Null}]

\* document_hash: what the document says, on what analysis, drawn how.
Hash(d) == [analysis |-> d.analysis, content |-> d.content, template |-> d.template]

\* facts_hash over the dependent facts, the record of each one included.
FactsHash(content, records) ==
  [f \in Facts |-> IF f \in Cites[content] THEN records[f] ELSE "uncited"]

\* Defined for a document with content; without it there is nothing to vouch for.
Basis(d, records) ==
  [analysis |-> d.analysis, content |-> d.content, facts |-> FactsHash(d.content, records)]

RenderBasis(d, basis) == [basis |-> basis, template |-> d.template]

\* document_review_reasons: a cited fact that is pending or deleted.
HasReviewReason(d, records) == \E f \in Cites[d.content] : records[f] # "canonical"

IsApproved(d, records) == d.content # Null /\ d.approved = Basis(d, records)

\* The DRAFT, APPROVED and READY of document_state, for APPROVED and READY.
IsReady(d, records) ==
  IsApproved(d, records) /\ d.rendered = RenderBasis(d, Basis(d, records))

Draw(h) == [content |-> h.content, template |-> h.template]

NewDocument(analysis, template) ==
  [analysis |-> analysis, content |-> Null, template |-> template, checked |-> Null,
   passed |-> FALSE, approved |-> Null, approvedBy |-> Null, rendered |-> Null,
   path |-> Null]

-----------------------------------------------------------------------------
VARIABLES
  doc,         \* the row of cv_documents
  records,     \* each fact's current record
  client,      \* what each request has read and is about to write
  attempt,     \* the render attempts and the hash each was queued for
  files,       \* what the file pair at each attempt's path shows
  released,    \* paths to be deleted after the commit that released them
  changes      \* how many times the content, analysis, template or a fact changed

renderVars == <<attempt, files, released>>
vars == <<doc, records, client, renderVars, changes>>

Knowledge == [Facts -> FactRecords]

\* began is history: Knowledge when the request read the document, which the
\* request itself only reads later.
ClientStates ==
  [stage: {"idle"}]
    \union [stage: {"read"}, seen: Documents, began: Knowledge]
    \union [stage: {"check", "approve"}, hash: Hashes, basis: Bases]
    \union [stage: {"submit"}, hash: Hashes, basis: Bases, path: Attempts, began: Knowledge]
    \union [stage: {"copied"}, hash: Hashes, basis: Bases, path: Attempts, copy: Drawings,
             began: Knowledge]
    \union [stage: {"recorded"}, hash: Hashes, basis: Bases, copy: Drawings, began: Knowledge]

Idle == [stage |-> "idle"]

AttemptStates ==
  [stage: {"unused"}] \union [stage: {"queued", "written", "over"}, hash: Hashes]

TypeOK ==
  /\ doc \in Documents
  /\ records \in Knowledge
  /\ client \in [Clients -> ClientStates]
  /\ attempt \in [Attempts -> AttemptStates]
  /\ files \in [Attempts -> Drawings \union {Null}]
  /\ released \subseteq Attempts
  /\ changes \in Nat

\* The first activated analysis creates the document, without content.
Init ==
  /\ \E a \in Analyses, t \in Templates : doc = NewDocument(a, t)
  /\ records \in [Facts -> {"pending", "canonical"}]
  /\ client = [c \in Clients |-> Idle]
  /\ attempt = [p \in Attempts |-> [stage |-> "unused"]]
  /\ files = [p \in Attempts |-> Null]
  /\ released = {}
  /\ changes = 0

-----------------------------------------------------------------------------
(* A request reads the document, then Knowledge, then writes *)

Goto(c, state) == client' = [client EXCEPT ![c] = state]

\* read_document_source: the document in a transaction of its own.  A request
\* names the hash its client was shown; one that names another is refused here.
Read(c) ==
  /\ client[c] = Idle
  /\ Goto(c, [stage |-> "read", seen |-> doc, began |-> records])
  /\ UNCHANGED <<doc, records, renderVars, changes>>

\* A refusal, a conflict, an error or a crash, with nothing written; or the
\* answer to a Submission that was.
Finish(c) ==
  /\ client[c] # Idle
  /\ Goto(c, Idle)
  /\ UNCHANGED <<doc, records, renderVars, changes>>

HasReadContent(c) == client[c].stage = "read" /\ client[c].seen.content # Null

\* The write lock of every document store: the row still holds the hash read.
StillHolds(c) ==
  LET expected == IF client[c].stage = "read" THEN Hash(client[c].seen) ELSE client[c].hash
  IN Hash(doc) = expected

-----------------------------------------------------------------------------
(* Editing: the basis moves, no stamp does *)

Change == changes < MaxChanges /\ changes' = changes + 1

UpdateBody(c, content) ==
  /\ client[c].stage = "read" /\ StillHolds(c)
  /\ doc' = [doc EXCEPT !.content = content]
  /\ Goto(c, Idle)
  /\ Change
  /\ UNCHANGED <<records, renderVars>>

\* Also the activation of a regenerated section or claim, which commits against
\* the hash its Operation was queued for.
UpdateDocument(c, content) == HasReadContent(c) /\ UpdateBody(c, content)

ActivateGeneration(c, content) ==
  /\ client[c].stage = "read" /\ client[c].seen.content = Null
  /\ UpdateBody(c, content)

SetTemplate(c, template) ==
  /\ client[c].stage = "read" /\ StillHolds(c)
  /\ template # doc.template
  /\ doc' = [doc EXCEPT !.template = template]
  /\ Goto(c, Idle)
  /\ Change
  /\ UNCHANGED <<records, renderVars>>

Releasing(path) == released' = released \union ({path} \ {Null})

\* The one command that re-pins: no content, no stamp, and the files released.
BuildFromAnalysis(c, analysis) ==
  /\ client[c].stage = "read" /\ StillHolds(c)
  /\ analysis # doc.analysis
  /\ doc' = NewDocument(analysis, doc.template)
  /\ Releasing(doc.path)
  /\ Goto(c, Idle)
  /\ Change
  /\ UNCHANGED <<records, attempt, files>>

-----------------------------------------------------------------------------
(* Checking and approving *)

\* Knowledge as it is now, with the document as it was read.
SeenBasis(c) == Basis(client[c].seen, records)

CheckStamped(d, basis, passed) == [d EXCEPT !.checked = basis, !.passed = passed]
ApprovalStamped(d, basis, c) == [d EXCEPT !.approved = basis, !.approvedBy = c]

CheckAgainst(c) ==
  /\ HasReadContent(c)
  /\ Goto(c, [stage |-> "check", hash |-> Hash(client[c].seen), basis |-> SeenBasis(c)])
  /\ UNCHANGED <<doc, records, renderVars, changes>>

\* What validation reads beside the basis (the Profile, the presentations) is
\* left out: its verdict on one basis may be either.
CheckDocument(c) ==
  /\ client[c].stage = "check" /\ StillHolds(c)
  /\ \E passed \in BOOLEAN : doc' = CheckStamped(doc, client[c].basis, passed)
  /\ Goto(c, Idle)
  /\ UNCHANGED <<records, renderVars, changes>>

\* The approval in force, with the report it was given on.
ExistingApproval(d, basis) == d.approved = basis /\ d.checked = basis

ApproveAgainst(c) ==
  /\ HasReadContent(c)
  /\ ~ExistingApproval(client[c].seen, SeenBasis(c))
  /\ ~HasReviewReason(client[c].seen, records)
  /\ Goto(c, [stage |-> "approve", hash |-> Hash(client[c].seen), basis |-> SeenBasis(c)])
  /\ UNCHANGED <<doc, records, renderVars, changes>>

\* Mutant: an approval in force is given again.
ApproveAgain(c) ==
  /\ client[c].stage = "approve" /\ StillHolds(c)
  /\ LET basis == client[c].basis
         stamped(passed) == CheckStamped(doc, basis, passed)
     IN \E passed \in BOOLEAN :
          doc' = IF ExistingApproval(doc, basis) THEN doc
                 ELSE IF passed THEN ApprovalStamped(stamped(passed), basis, c)
                 ELSE stamped(passed)
  /\ Goto(c, Idle)
  /\ UNCHANGED <<records, renderVars, changes>>

\* Mutant: the basis stamped is that of the facts as they are at the stamp.
ApproveOverFactsOfNow(c) ==
  /\ client[c].stage = "approve" /\ StillHolds(c)
  /\ LET basis == Basis(doc, records)
         stamped(passed) == CheckStamped(doc, basis, passed)
     IN \E passed \in BOOLEAN :
          doc' = IF ExistingApproval(doc, basis) THEN doc
                 ELSE IF passed /\ doc.approved # basis
                   THEN ApprovalStamped(stamped(passed), basis, c)
                 ELSE stamped(passed)
  /\ Goto(c, Idle)
  /\ UNCHANGED <<records, renderVars, changes>>

\* One transaction: the existing approval is looked for again under the lock,
\* the report is stored either way, the approval only if it passed and is new.
ApproveDocument(c) ==
  /\ client[c].stage = "approve" /\ StillHolds(c)
  /\ LET basis == client[c].basis
         stamped(passed) == CheckStamped(doc, basis, passed)
     IN \E passed \in BOOLEAN :
          doc' = IF ExistingApproval(doc, basis) THEN doc
                 ELSE IF passed /\ doc.approved # basis
                   THEN ApprovalStamped(stamped(passed), basis, c)
                 ELSE stamped(passed)
  /\ Goto(c, Idle)
  /\ UNCHANGED <<records, renderVars, changes>>

-----------------------------------------------------------------------------
(* Rendering *)

\* Admission of a render: approved, not Ready, and nothing to review.  The
\* Operation carries the hash and nothing else.
AdmitRender(c, p) ==
  /\ HasReadContent(c)
  /\ IsApproved(client[c].seen, records) /\ ~IsReady(client[c].seen, records)
  /\ ~HasReviewReason(client[c].seen, records)
  /\ attempt[p].stage = "unused"
  /\ attempt' = [attempt EXCEPT ![p] = [stage |-> "queued", hash |-> Hash(client[c].seen)]]
  /\ Goto(c, Idle)
  /\ UNCHANGED <<doc, records, files, released, changes>>

\* A retry of a render that ended is not admitted: it takes the document as it is,
\* unapproved, empty or Ready.
RetryRender(p) ==
  /\ \E q \in Attempts : attempt[q].stage = "over"
  /\ attempt[p].stage = "unused"
  /\ attempt' = [attempt EXCEPT ![p] = [stage |-> "queued", hash |-> Hash(doc)]]
  /\ UNCHANGED <<doc, records, client, files, released, changes>>

AttemptGoesTo(p, stage) == attempt' = [attempt EXCEPT ![p].stage = stage]

\* prepare and execute: the document is read once, against the queued hash, and
\* drawn to the attempt's own path.
ExecuteRender(p) ==
  /\ attempt[p].stage = "queued"
  /\ Hash(doc) = attempt[p].hash /\ doc.content # Null
  /\ files' = [files EXCEPT ![p] = Draw(doc)]
  /\ AttemptGoesTo(p, "written")
  /\ UNCHANGED <<doc, records, client, released, changes>>

\* Before a file is written, or with the attempt's files deleted behind it.
FailRender(p) ==
  /\ attempt[p].stage = "queued"
  /\ AttemptGoesTo(p, "over")
  /\ UNCHANGED <<doc, records, client, files, released, changes>>

\* Mutant: only the approval is looked at, not the hash.
ActivateAnyHash(p) ==
  /\ attempt[p].stage = "written"
  /\ IsApproved(doc, records)
  /\ doc' = [doc EXCEPT !.rendered = RenderBasis(doc, Basis(doc, records)), !.path = p]
  /\ Releasing(doc.path)
  /\ AttemptGoesTo(p, "over")
  /\ UNCHANGED <<records, client, files, changes>>

\* Knowledge is read in the activating transaction, the document under its lock; a
\* fact that changes after that transaction's snapshot changes after this step.
ActivateRender(p) ==
  /\ attempt[p].stage = "written"
  /\ Hash(doc) = attempt[p].hash
  /\ IsApproved(doc, records)
  /\ doc' = [doc EXCEPT !.rendered = RenderBasis(doc, Basis(doc, records)), !.path = p]
  /\ Releasing(doc.path)
  /\ AttemptGoesTo(p, "over")
  /\ UNCHANGED <<records, client, files, changes>>

\* The document or its approval moved, or the Operation is no longer its own.
RefuseActivation(p) ==
  /\ attempt[p].stage = "written"
  /\ Releasing(p)
  /\ AttemptGoesTo(p, "over")
  /\ UNCHANGED <<doc, records, client, files, changes>>

\* Best effort, after the commit that released the path; it may never happen.
Discard(p) ==
  /\ p \in released
  /\ released' = released \ {p}
  /\ files' = [files EXCEPT ![p] = Null]
  /\ UNCHANGED <<doc, records, client, attempt, changes>>

-----------------------------------------------------------------------------
(* Submitting *)

SubmitAgainst(c) ==
  /\ HasReadContent(c)
  /\ LET d == client[c].seen
     IN /\ IsReady(d, records) /\ d.path # Null
        /\ ~HasReviewReason(d, records)
        /\ Goto(c, [stage |-> "submit", hash |-> Hash(d), basis |-> SeenBasis(c),
                    path |-> d.path, began |-> client[c].began])
  /\ UNCHANGED <<doc, records, renderVars, changes>>

Copied(state, copy) ==
  [stage |-> "copied", hash |-> state.hash, basis |-> state.basis, path |-> state.path,
   copy |-> copy, began |-> state.began]

\* copy_for_submission: outside every transaction, from paths a commit may have
\* released meanwhile; a missing file ends the request (Finish).
CopyForSubmission(c) ==
  /\ client[c].stage = "submit"
  /\ files[client[c].path] # Null
  /\ Goto(c, Copied(client[c], files[client[c].path]))
  /\ UNCHANGED <<doc, records, renderVars, changes>>

\* The stamps and paths are the ones the copy was made for.
StillReadyAsCopied(state) ==
  /\ doc.rendered = RenderBasis(doc, state.basis)
  /\ doc.approved = state.basis
  /\ doc.path = state.path

\* The Submission's row.  Nothing updates one, so it is kept only until the
\* request that inserted it has answered.
Recorded(state) ==
  [stage |-> "recorded", hash |-> Hash(doc), basis |-> state.basis, copy |-> state.copy,
   began |-> state.began]

\* Mutant: the hash is not compared under the lock.
RecordAnyHash(c) ==
  /\ client[c].stage = "copied"
  /\ StillReadyAsCopied(client[c])
  /\ Goto(c, Recorded(client[c]))
  /\ UNCHANGED <<doc, records, renderVars, changes>>

\* One transaction under the Application's lock, then the document's.
RecordSubmission(c) ==
  /\ client[c].stage = "copied"
  /\ StillHolds(c) /\ StillReadyAsCopied(client[c])
  /\ Goto(c, Recorded(client[c]))
  /\ UNCHANGED <<doc, records, renderVars, changes>>

-----------------------------------------------------------------------------
(* What moves beside the document *)

\* Neither waits for a document that cites the fact.
ConfirmFact(f) ==
  /\ records[f] = "pending"
  /\ records' = [records EXCEPT ![f] = "canonical"]
  /\ Change
  /\ UNCHANGED <<doc, client, renderVars>>

DeleteFact(f) ==
  /\ records[f] # "deleted"
  /\ records' = [records EXCEPT ![f] = "deleted"]
  /\ Change
  /\ UNCHANGED <<doc, client, renderVars>>

-----------------------------------------------------------------------------
ClientStep(c) ==
  \/ Read(c) \/ Finish(c)
  \/ \E content \in Contents : UpdateDocument(c, content) \/ ActivateGeneration(c, content)
  \/ \E template \in Templates : SetTemplate(c, template)
  \/ \E analysis \in Analyses : BuildFromAnalysis(c, analysis)
  \/ CheckAgainst(c) \/ CheckDocument(c)
  \/ ApproveAgainst(c) \/ ApproveDocument(c)
  \/ \E p \in Attempts : AdmitRender(c, p)
  \/ SubmitAgainst(c) \/ CopyForSubmission(c) \/ RecordSubmission(c)

AttemptStep(p) ==
  \/ RetryRender(p) \/ ExecuteRender(p) \/ FailRender(p)
  \/ ActivateRender(p) \/ RefuseActivation(p)
  \/ Discard(p)

Next ==
  \/ \E c \in Clients : ClientStep(c)
  \/ \E p \in Attempts : AttemptStep(p)
  \/ \E f \in Facts : ConfirmFact(f) \/ DeleteFact(f)

Spec == Init /\ [][Next]_vars

-----------------------------------------------------------------------------
(* Properties *)

\* What a Ready document's files show is the document: its content, in its
\* template, and the files are there.  Edits, templates, renders in flight and
\* deletions of superseded files all happen beside each other
\* (documents.py activate_render, repin; rendering.py activate).
ReadyShowsTheDocument ==
  IsReady(doc, records) => doc.path # Null /\ files[doc.path] = Draw(doc)

\* Knowledge is read in another transaction than the stamp or the Submission is
\* written in, and a fact may be deleted between the two.  An approval stamped
\* after such a deletion is never in force: a document that counts as approved
\* cites no fact that is pending or deleted now (review.py approve_document).  A
\* Submission cannot be taken back, and may cite a fact deleted while its request
\* was served; it never cites one that was pending or deleted when the request
\* read the document, before it read Knowledge (submission.py submit_application).
ApprovedFactsAreUsable ==
  /\ IsApproved(doc, records) => ~HasReviewReason(doc, records)
  /\ \A c \in Clients : client[c].stage = "recorded" =>
       \A f \in Cites[client[c].hash.content] : client[c].began[f] = "canonical"

\* A document without content carries no check, approval or render of any
\* (documents.py _CLEARED_STAMPS; the CVDocument contract refuses to load one).
EmptyHasNoStamps ==
  doc.content = Null =>
    doc.checked = Null /\ doc.approved = Null /\ doc.rendered = Null /\ doc.path = Null

\* A Submission's copied files show the content it records, in the template its
\* document hash names, and the basis it was Ready at is that content's, however
\* the document moved between the copy and the insert (submission.py).
SubmissionsShowTheirContent ==
  \A c \in Clients : client[c].stage = "recorded" =>
    /\ client[c].copy = Draw(client[c].hash)
    /\ client[c].basis.content = client[c].hash.content
    /\ client[c].basis.analysis = client[c].hash.analysis

\* An approval is never written without its report: the same write holds a
\* report on that very basis, and it passed (review.py 161-176).
ApprovalCarriesItsReport ==
  [][doc'.approved \notin {doc.approved, Null} =>
       doc'.passed /\ doc'.checked = doc'.approved]_vars

\* Two approvals of one basis are one approval: approved_at (here, who gave it)
\* is rewritten only by an approval of another basis (review.py 73-91, 157-169).
ApprovalIsGivenOnce ==
  [][doc.approved # Null /\ doc'.approved = doc.approved =>
       doc'.approvedBy = doc.approvedBy]_vars
=============================================================================
