----------------------------- MODULE Recruitment -----------------------------
(***************************************************************************)
(* The recruitment side of one Application: its status, its terminal       *)
(* outcome, its event log, its Submissions, its soft deletion, and the job *)
(* text that the first Submission locks.                                   *)
(*                                                                         *)
(* A status command reads the row in one transaction and writes it in      *)
(* another that checks the status alone, under the row's lock.  A job-text *)
(* edit is one transaction, but a REPEATABLE READ one: it may wait for the *)
(* row's lock while others commit, and then still looks for Submissions,   *)
(* in its own check and in the trigger, on the snapshot it started with.   *)
(* PostgreSQL refuses it (40001) when the row itself was written since.    *)
(***************************************************************************)
EXTENDS Naturals, Sequences

CONSTANTS
  Clients,          \* requests being served at once
  Texts,            \* job texts
  Targets,          \* bound: the statuses commands ask for
  MaxEvents,        \* bound: length of the event log
  MaxSubmissions,   \* bound: Submissions
  Null              \* the SQL NULL

Outcomes == {"accepted", "rejected", "withdrawn"}

Statuses ==
  Outcomes \union {"saved", "applied", "recruiter_screen", "interview", "assignment",
                   "final_stage", "offer", "closed"}

ASSUME TargetsAssumption == Targets \subseteq Statuses
ASSUME NullAssumption == Null \notin Outcomes

AllowedTransitions ==
  [s \in Statuses |->
     CASE s = "saved" -> {"applied", "withdrawn", "closed"}
       [] s = "applied" -> {"recruiter_screen", "interview", "rejected", "withdrawn", "closed"}
       [] s = "recruiter_screen" -> {"interview", "assignment", "rejected", "withdrawn", "closed"}
       [] s = "interview" ->
            {"assignment", "final_stage", "offer", "rejected", "withdrawn", "closed"}
       [] s = "assignment" ->
            {"interview", "final_stage", "offer", "rejected", "withdrawn", "closed"}
       [] s = "final_stage" -> {"offer", "rejected", "withdrawn", "closed"}
       [] s = "offer" -> {"accepted", "rejected", "withdrawn", "closed"}
       [] s \in Outcomes -> {"closed"}
       [] s = "closed" -> {}]

\* `applied` is for submissions to set.
UserTransitionAllowed(current, target) ==
  target # "applied" /\ target \in AllowedTransitions[current]

\* Mutant: an outcome stays until there is another.
TerminalOutcomeStays(outcome, target) == IF target \in Outcomes THEN target ELSE outcome

\* Kept by closing, set by an outcome, cleared by anything else.
TerminalOutcomeAfter(outcome, target) ==
  IF target \in Outcomes THEN target
  ELSE IF target = "closed" THEN outcome
  ELSE Null

-----------------------------------------------------------------------------
VARIABLES
  application,   \* the row of applications
  events,        \* the rows of recruitment_events, in order
  submissions,   \* the rows of submissions, in order
  client,        \* what each request has read
  stale          \* the text edits whose snapshot misses a write of the row

vars == <<application, events, submissions, client, stale>>

Applications ==
  [status: Statuses, outcome: Outcomes \union {Null}, deleted: BOOLEAN, text: Texts]

Events ==
  [type: {"status_transition", "status_correction", "next_action"},
   from: Statuses, to: Statuses]

ClientStates ==
  [stage: {"idle"}]
    \union [stage: {"read"}, seen: Applications]
    \union [stage: {"edit"}, expected: Texts, submitted: BOOLEAN]

Idle == [stage |-> "idle"]

Editing == {c \in Clients : client[c].stage = "edit"}

TypeOK ==
  /\ application \in Applications
  /\ events \in Seq(Events)
  /\ submissions \in Seq({"internal", "external"})
  /\ client \in [Clients -> ClientStates]
  /\ stale \subseteq Editing

Init ==
  /\ \E text \in Texts :
       application = [status |-> "saved", outcome |-> Null, deleted |-> FALSE, text |-> text]
  /\ events = <<>>
  /\ submissions = <<>>
  /\ client = [c \in Clients |-> Idle]
  /\ stale = {}

-----------------------------------------------------------------------------
Goto(c, state) == client' = [client EXCEPT ![c] = state]

\* A write of the row makes every other open snapshot stale.
WriteRow(c, row) == application' = row /\ stale' = (stale \union Editing) \ {c}

\* Each command starts with the row in a transaction of its own, which refuses a
\* deleted Application.
Read(c) ==
  /\ client[c] = Idle
  /\ ~application.deleted
  /\ Goto(c, [stage |-> "read", seen |-> application])
  /\ UNCHANGED <<application, events, submissions, stale>>

\* A refusal, a conflict or a crash, at any point.
Finish(c) ==
  /\ client[c] # Idle
  /\ Goto(c, Idle)
  /\ stale' = stale \ {c}
  /\ UNCHANGED <<application, events, submissions>>

LogHasRoom == Len(events) < MaxEvents

InsertEvent(c, type, from, target, outcome) ==
  /\ LogHasRoom
  /\ events' = Append(events, [type |-> type, from |-> from, to |-> target])
  /\ WriteRow(c, [application EXCEPT !.status = target, !.outcome = outcome])

-----------------------------------------------------------------------------
(* Status commands.  The outcome is computed from the row as it was read; under *)
(* the lock only the status is compared.                                        *)

StatusUnchanged(c) == application.status = client[c].seen.status

\* Mutant: the event is inserted without the comparison under the lock.
TransitionUnchecked(c, target) ==
  /\ client[c].stage = "read"
  /\ UserTransitionAllowed(client[c].seen.status, target)
  /\ InsertEvent(c, "status_transition", client[c].seen.status, target,
                 TerminalOutcomeAfter(client[c].seen.outcome, target))
  /\ Goto(c, Idle)
  /\ UNCHANGED submissions

TransitionStatus(c, target) ==
  /\ client[c].stage = "read"
  /\ UserTransitionAllowed(client[c].seen.status, target)
  /\ StatusUnchanged(c)
  /\ InsertEvent(c, "status_transition", client[c].seen.status, target,
                 TerminalOutcomeAfter(client[c].seen.outcome, target))
  /\ Goto(c, Idle)
  /\ UNCHANGED submissions

\* A status event to correct, and any target, the current status included.
CorrectStatus(c, target) ==
  /\ client[c].stage = "read"
  /\ \E i \in 1..Len(events) : events[i].type # "next_action"
  /\ StatusUnchanged(c)
  /\ InsertEvent(c, "status_correction", client[c].seen.status, target,
                 TerminalOutcomeAfter(client[c].seen.outcome, target))
  /\ Goto(c, Idle)
  /\ UNCHANGED submissions

SetNextAction(c) ==
  /\ client[c].stage = "read"
  /\ InsertEvent(c, "next_action", application.status, application.status, application.outcome)
  /\ Goto(c, Idle)
  /\ UNCHANGED submissions

DeleteApplication(c) ==
  /\ client[c].stage = "read"
  /\ ~application.deleted
  /\ WriteRow(c, [application EXCEPT !.deleted = TRUE])
  /\ Goto(c, Idle)
  /\ UNCHANGED <<events, submissions>>
-----------------------------------------------------------------------------
(* Submissions *)

SubmissionsHaveRoom == Len(submissions) < MaxSubmissions

\* One transaction: the row is locked first, a deleted Application refused, the
\* Submission inserted, and the status moved only from `saved`.
Submit(c, kind) ==
  /\ submissions' = Append(submissions, kind)
  /\ IF application.status = "saved"
       THEN InsertEvent(c, "status_transition", "saved", "applied",
                        TerminalOutcomeAfter(application.outcome, "applied"))
       ELSE UNCHANGED <<application, events, stale>>
  /\ Goto(c, Idle)

\* Mutant: deletion is only looked for before the lock.
RecordUnlessDeletedBefore(c, kind) ==
  /\ client[c].stage = "read" /\ SubmissionsHaveRoom
  /\ Submit(c, kind)

RecordSubmission(c, kind) ==
  /\ client[c].stage = "read" /\ SubmissionsHaveRoom
  /\ ~application.deleted
  /\ Submit(c, kind)

-----------------------------------------------------------------------------
(* The job text *)

\* The first read of the transaction takes its snapshot.  Deletion is not looked at.
BeginEdit(c) ==
  /\ client[c] = Idle
  /\ Goto(c, [stage |-> "edit", expected |-> application.text,
              submitted |-> Len(submissions) > 0])
  /\ UNCHANGED <<application, events, submissions, stale>>

\* The lock of the row is there, it was not written since the snapshot, and the
\* snapshot holds no Submission, for the check and for the trigger alike.
UpdateJobText(c, text) ==
  /\ client[c].stage = "edit" /\ c \notin stale
  /\ application.text = client[c].expected /\ text # client[c].expected
  /\ ~client[c].submitted
  /\ WriteRow(c, [application EXCEPT !.text = text])
  /\ Goto(c, Idle)
  /\ UNCHANGED <<events, submissions>>

-----------------------------------------------------------------------------
Step(c) ==
  \/ Read(c) \/ Finish(c)
  \/ \E target \in Targets : TransitionStatus(c, target) \/ CorrectStatus(c, target)
  \/ SetNextAction(c) \/ DeleteApplication(c)
  \/ \E kind \in {"internal", "external"} : RecordSubmission(c, kind)
  \/ BeginEdit(c)
  \/ \E text \in Texts : UpdateJobText(c, text)

Next == \E c \in Clients : Step(c)

Spec == Init /\ [][Next]_vars

-----------------------------------------------------------------------------
(* Properties *)

\* The log tells the whole story: every event starts where the one before it
\* ended, and the row shows where the last one ended, however the commands that
\* wrote them were interleaved (recruitment.py insert_event).
LogIsAChain ==
  /\ \A i \in 1..Len(events) :
       events[i].from = IF i = 1 THEN "saved" ELSE events[i - 1].to
  /\ application.status = IF events = <<>> THEN "saved" ELSE events[Len(events)].to

\* Only a correction moves where the graph has no edge, and only a Submission
\* moves to `applied` by a transition (domain/recruitment.py).
TransitionsFollowTheGraph ==
  \A i \in 1..Len(events) : events[i].type = "status_transition" =>
    /\ events[i].to \in AllowedTransitions[events[i].from]
    /\ events[i].to = "applied" => submissions # <<>>

\* The outcome is the status where there is one, and there is none in an open
\* status, although it is computed from a row read earlier than the status it is
\* written with (lifecycle.py transition_status, correct_recruitment_status).
OutcomeFollowsStatus ==
  /\ application.status \in Outcomes => application.outcome = application.status
  /\ application.status \notin Outcomes \union {"closed"} => application.outcome = Null

\* Nothing is recorded as sent for a deleted Application, although every request
\* looked at the deletion before (submission.py _record).
DeletedIsNeverSent == [][application.deleted => submissions' = submissions]_vars

\* A Submission that moved the status locks the job text: an edit that does not
\* see it cannot write the row it wrote.
AppliedLocksTheText ==
  [][(\E i \in 1..Len(events) :
        events[i].type = "status_transition" /\ events[i].to = "applied") =>
       application'.text = application.text]_vars

\* What the documents say of every Submission (product-spec section 8: "The first
\* Submission, internal or external, locks the job text").  It does not hold.
SubmissionLocksTheText ==
  [][submissions # <<>> => application'.text = application.text]_vars
=============================================================================
