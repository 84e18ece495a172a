-------------------------- MODULE Recruitment_proofs --------------------------
(***************************************************************************)
(* The properties of an Application's record for any number of requests    *)
(* and visits, any texts and any bounds.  Of the recruitment, each but one *)
(* is inductive beside the types; what a text edit has seen of the         *)
(* Submissions needs AppliedIsSeen.  The creation rests on what its pages  *)
(* and its commands are (CreationInvariant).                               *)
(***************************************************************************)
EXTENDS ApplicationRecord, SequenceTheorems, TLAPS

HasApplied(log) ==
  \E i \in 1..Len(log) : log[i].type = "status_transition" /\ log[i].to = "applied"

\* An edit that does not know of a Submission that moved the status is stale: the
\* move wrote the row (recruitment.py insert_event) after its snapshot.
AppliedIsSeen ==
  HasApplied(events) => \A c \in Editing \ stale : client[c].submitted

IInv == TypeOK /\ LogIsAChain /\ TransitionsFollowTheGraph /\ OutcomeFollowsStatus /\ AppliedIsSeen

-----------------------------------------------------------------------------
(* Operators *)

\* A request that goes somewhere changes its own state alone.
LEMMA GotoType ==
  ASSUME client \in [Clients -> ClientStates], NEW c \in Clients,
         NEW state \in ClientStates, Goto(c, state)
  PROVE  /\ client' \in [Clients -> ClientStates]
         /\ client'[c] = state
         /\ \A d \in Clients : d # c => client'[d] = client[d]
  BY DEF Goto

\* The outcome a command computes is an outcome.
LEMMA OutcomeType ==
  ASSUME NEW outcome \in Outcomes \union {Null}, NEW target
  PROVE  TerminalOutcomeAfter(outcome, target) \in Outcomes \union {Null}
  BY DEF TerminalOutcomeAfter

\* Idle is a state, and not of an edit.
LEMMA IdleType == Idle \in ClientStates /\ Idle.stage = "idle"
  BY DEF Idle, ClientStates

\* What a request in each stage carries.
LEMMA StageType ==
  ASSUME NEW state \in ClientStates
  PROVE  /\ state.stage = "read" => state.seen \in Applications
         /\ state.stage = "edit" => state.expected \in Texts /\ state.submitted \in BOOLEAN
  BY DEF ClientStates

\* A status of a command is a status.
LEMMA TargetType == \A target \in Targets : target \in Statuses
  BY TargetsAssumption

\* The graph has the edge a Submission takes.
LEMMA SavedToApplied == "applied" \in AllowedTransitions["saved"]
  BY DEF AllowedTransitions, Statuses, Outcomes

\* A request that answers leaves the others' edits as they are.
LEMMA AnswerLeavesEdits ==
  ASSUME client \in [Clients -> ClientStates], NEW c \in Clients, Goto(c, Idle)
  PROVE  Editing' = Editing \ {c}
  BY GotoType, IdleType DEF Editing

\* What appending to the log does.
LEMMA AppendEvent ==
  ASSUME NEW log \in Seq(Events), NEW e \in Events
  PROVE  /\ Append(log, e) \in Seq(Events)
         /\ Len(Append(log, e)) = Len(log) + 1
         /\ \A i \in 1..Len(log) : Append(log, e)[i] = log[i]
         /\ Append(log, e)[Len(log) + 1] = e
         /\ Len(log) \in Nat
  OBVIOUS

-----------------------------------------------------------------------------
(* What the actions have in common *)

\* A write of the row by a request that then answers leaves every edit stale.
LEMMA WriteLeavesNoFreshEdit ==
  ASSUME TypeOK, NEW c \in Clients, NEW row, WriteRow(c, row), Goto(c, Idle)
  PROVE  Editing' \ stale' = {} /\ stale' \subseteq Editing'
  BY AnswerLeavesEdits DEF TypeOK, WriteRow

\* An answer that writes no row keeps what the other edits have seen.
LEMMA AnswerKeepsEdits ==
  ASSUME IInv, NEW c \in Clients, Goto(c, Idle), events' = events, stale' = stale \ {c}
  PROVE  AppliedIsSeen' /\ stale' \subseteq Editing'
<1>1. Editing' = Editing \ {c}
  BY AnswerLeavesEdits DEF IInv, TypeOK
<1>2. stale \subseteq Editing
  BY DEF IInv, TypeOK
<1>3. stale' \subseteq Editing'
  BY <1>1, <1>2
<1>4. \A d \in Clients : d # c => client'[d] = client[d]
  BY GotoType, IdleType DEF IInv, TypeOK
<1>5. Editing \subseteq Clients
  BY DEF Editing
<1>6. \A d \in Editing' \ stale' : d \in Editing \ stale /\ client'[d] = client[d]
  BY <1>1, <1>4, <1>5
<1> QED
  BY <1>3, <1>6 DEF IInv, AppliedIsSeen

\* An event that starts at the current status continues the chain, and the graph if
\* it is a transition along an edge.
LEMMA EventInserted ==
  ASSUME IInv, NEW c \in Clients,
         NEW type \in {"status_transition", "status_correction", "next_action"},
         NEW target \in Statuses, NEW outcome \in Outcomes \union {Null},
         InsertEvent(c, type, application.status, target, outcome),
         type = "status_transition" =>
           /\ target \in AllowedTransitions[application.status]
           /\ target = "applied" => submissions' # <<>>,
         submissions # <<>> => submissions' # <<>>
  PROVE  /\ events' \in Seq(Events)
         /\ application' \in Applications
         /\ application'.status = target /\ application'.outcome = outcome
         /\ LogIsAChain'
         /\ TransitionsFollowTheGraph'
<1> DEFINE e == [type |-> type, from |-> application.status, to |-> target]
<1>1. /\ application \in Applications
      /\ events \in Seq(Events)
  BY DEF IInv, TypeOK
<1>2. e \in Events
  BY <1>1 DEF Applications, Events
<1>3. events' = Append(events, e)
      /\ application' = [application EXCEPT !.status = target, !.outcome = outcome]
  BY DEF InsertEvent, WriteRow
<1>4. /\ application' \in Applications
      /\ application'.status = target /\ application'.outcome = outcome
  BY <1>1, <1>3 DEF Applications
<1> DEFINE n == Len(events)
<1>5. /\ events' \in Seq(Events) /\ Len(events') = n + 1 /\ n \in Nat
      /\ \A i \in 1..n : events'[i] = events[i]
      /\ events'[n + 1] = e
  BY <1>1, <1>2, <1>3, AppendEvent
<1> HIDE DEF n, e
<1>6. LogIsAChain'
  <2>1. ASSUME NEW i \in 1..Len(events')
        PROVE  events'[i].from = IF i = 1 THEN "saved" ELSE events'[i - 1].to
    <3>1. CASE i \in 1..n
      <4>1. events'[i] = events[i] /\ (i # 1 => events'[i - 1] = events[i - 1])
        BY <3>1, <1>5
      <4> QED
        BY <3>1, <4>1 DEF IInv, LogIsAChain, n
    <3>2. CASE i = n + 1
      <4>1. events'[i].from = application.status
        BY <3>2, <1>5 DEF e
      <4>2. n # 0 => events'[n] = events[n] /\ events # <<>>
        BY <1>5 DEF n
      <4>3. n = 0 => events = <<>>
        BY <1>1 DEF n
      <4> QED
        BY <3>2, <4>1, <4>2, <4>3, <1>5 DEF IInv, LogIsAChain, n
    <3> QED
      BY <1>5, <3>1, <3>2
  <2>2. application'.status = events'[Len(events')].to /\ events' # <<>>
    BY <1>4, <1>5 DEF e
  <2> QED
    BY <2>1, <2>2 DEF LogIsAChain
<1>7. TransitionsFollowTheGraph'
  <2> SUFFICES ASSUME NEW i \in 1..Len(events'), events'[i].type = "status_transition"
               PROVE  /\ events'[i].to \in AllowedTransitions[events'[i].from]
                      /\ events'[i].to = "applied" => submissions' # <<>>
    BY DEF TransitionsFollowTheGraph
  <2>1. CASE i \in 1..n
    BY <2>1, <1>5 DEF IInv, TransitionsFollowTheGraph, n
  <2>2. CASE i = n + 1
    BY <2>2, <1>5 DEF e
  <2> QED
    BY <1>5, <2>1, <2>2
<1> QED
  BY <1>4, <1>5, <1>6, <1>7

\* The outcome computed for a status is one the row may have with it.
LEMMA OutcomeFits ==
  ASSUME NEW outcome, NEW target
  PROVE  /\ target \in Outcomes => TerminalOutcomeAfter(outcome, target) = target
         /\ target \notin Outcomes \union {"closed"} =>
              TerminalOutcomeAfter(outcome, target) = Null
  BY DEF TerminalOutcomeAfter

-----------------------------------------------------------------------------
(* One lemma for each kind of step *)

\* Reading the row and beginning an edit write nothing; the edit sees the Submissions.
LEMMA BeginningKeeps ==
  ASSUME IInv, NEW c \in Clients, Read(c) \/ BeginEdit(c)
  PROVE  IInv'
<1> DEFINE state == client'[c]
<1>1. client \in [Clients -> ClientStates] /\ application \in Applications /\ stale \subseteq Editing
  BY DEF IInv, TypeOK
<1>2. UNCHANGED <<application, events, submissions, stale>> /\ client[c] = Idle
  BY DEF Read, BeginEdit
<1>3. \E s \in ClientStates :
        /\ Goto(c, s)
        /\ s.stage = "edit" => s.submitted = (Len(submissions) > 0)
  <2>1. CASE Read(c)
    <3>1. [stage |-> "read", seen |-> application] \in ClientStates
      BY <1>1 DEF ClientStates
    <3> QED
      BY <2>1, <3>1 DEF Read
  <2>2. CASE BeginEdit(c)
    <3>1. [stage |-> "edit", expected |-> application.text,
           submitted |-> Len(submissions) > 0] \in ClientStates
      BY <1>1 DEF ClientStates, Applications
    <3> QED
      BY <2>2, <3>1 DEF BeginEdit
  <2> QED
    BY <2>1, <2>2
<1>4. /\ client' \in [Clients -> ClientStates]
      /\ \A d \in Clients : d # c => client'[d] = client[d]
      /\ state.stage = "edit" => state.submitted = (Len(submissions) > 0)
  BY <1>1, <1>3, GotoType
<1>5. c \notin Editing
  BY <1>2, IdleType DEF Editing
<1>6. Editing \subseteq Editing' /\ Editing' \subseteq Editing \union {c}
  BY <1>4, <1>5 DEF Editing
<1>7. TypeOK'
  BY <1>1, <1>2, <1>4, <1>6 DEF IInv, TypeOK
<1>8. AppliedIsSeen'
  <2> SUFFICES ASSUME HasApplied(events'), NEW d \in Editing' \ stale'
               PROVE  client'[d].submitted
    BY DEF AppliedIsSeen
  <2>1. HasApplied(events) /\ submissions # <<>>
    BY <1>2 DEF IInv, TransitionsFollowTheGraph, HasApplied
  <2>2. Len(submissions) > 0
    BY <2>1 DEF IInv, TypeOK
  <2>3. CASE d = c
    BY <1>4, <2>2, <2>3 DEF Editing
  <2>4. CASE d # c
    <3>1. d \in Editing \ stale /\ client'[d] = client[d]
      BY <1>2, <1>4, <1>6, <2>4 DEF Editing
    <3> QED
      BY <2>1, <3>1 DEF IInv, AppliedIsSeen
  <2> QED
    BY <2>3, <2>4
<1> QED
  BY <1>2, <1>7, <1>8
     DEF IInv, LogIsAChain, TransitionsFollowTheGraph, OutcomeFollowsStatus

\* A request that ends without a write leaves everything as it is.
LEMMA FinishKeeps ==
  ASSUME IInv, NEW c \in Clients, Finish(c)
  PROVE  IInv'
<1>1. UNCHANGED <<application, events, submissions>> /\ Goto(c, Idle) /\ stale' = stale \ {c}
  BY DEF Finish
<1>2. AppliedIsSeen' /\ stale' \subseteq Editing'
  BY <1>1, AnswerKeepsEdits
<1>3. client' \in [Clients -> ClientStates]
  BY <1>1, GotoType, IdleType DEF IInv, TypeOK
<1>4. TypeOK'
  BY <1>1, <1>2, <1>3 DEF IInv, TypeOK
<1> QED
  BY <1>1, <1>2, <1>4 DEF IInv, LogIsAChain, TransitionsFollowTheGraph, OutcomeFollowsStatus

\* A command that writes a status and the outcome that fits it.
LEMMA CommandKeeps ==
  ASSUME IInv, NEW c \in Clients,
         NEW type \in {"status_transition", "status_correction", "next_action"},
         NEW target \in Statuses, NEW outcome \in Outcomes \union {Null},
         InsertEvent(c, type, application.status, target, outcome), Goto(c, Idle),
         type = "status_transition" =>
           /\ target \in AllowedTransitions[application.status]
           /\ target = "applied" => submissions' # <<>>,
         submissions' \in Seq({"internal", "external"}),
         submissions # <<>> => submissions' # <<>>,
         target \in Outcomes => outcome = target,
         target \notin Outcomes \union {"closed"} => outcome = Null
  PROVE  IInv'
<1>1. /\ events' \in Seq(Events)
      /\ application' \in Applications
      /\ application'.status = target /\ application'.outcome = outcome
      /\ LogIsAChain' /\ TransitionsFollowTheGraph'
  BY EventInserted
<1>2. Editing' \ stale' = {} /\ stale' \subseteq Editing'
  BY WriteLeavesNoFreshEdit DEF IInv, InsertEvent
<1>3. client' \in [Clients -> ClientStates]
  BY GotoType, IdleType DEF IInv, TypeOK
<1>4. TypeOK'
  BY <1>1, <1>2, <1>3 DEF TypeOK
<1>5. AppliedIsSeen'
  BY <1>2 DEF AppliedIsSeen
<1>6. OutcomeFollowsStatus'
  BY <1>1 DEF OutcomeFollowsStatus
<1> QED
  BY <1>1, <1>4, <1>5, <1>6 DEF IInv

\* Transitions and corrections: the status is the one that was read, so the event
\* starts where the log ends.
LEMMA StatusCommandKeeps ==
  ASSUME IInv, NEW c \in Clients, NEW target \in Targets,
         TransitionStatus(c, target) \/ CorrectStatus(c, target)
  PROVE  IInv'
<1> DEFINE outcome == TerminalOutcomeAfter(client[c].seen.outcome, target)
<1>1. client[c].stage = "read" /\ client[c].seen.status = application.status
  BY DEF TransitionStatus, CorrectStatus, StatusUnchanged
<1>2. client[c].seen \in Applications
  BY <1>1, StageType DEF IInv, TypeOK
<1>3. outcome \in Outcomes \union {Null}
  BY <1>2, OutcomeType DEF Applications
<1>4. target \in Statuses
  BY TargetType
<1>5. /\ target \in Outcomes => outcome = target
      /\ target \notin Outcomes \union {"closed"} => outcome = Null
  BY OutcomeFits
<1>6. Goto(c, Idle) /\ submissions' = submissions /\ submissions \in Seq({"internal", "external"})
  BY DEF TransitionStatus, CorrectStatus, IInv, TypeOK
<1> HIDE DEF outcome
<1>7. CASE TransitionStatus(c, target)
  <2>1. InsertEvent(c, "status_transition", application.status, target, outcome)
    BY <1>1, <1>7 DEF TransitionStatus, outcome
  <2>2. target # "applied" /\ target \in AllowedTransitions[application.status]
    BY <1>1, <1>7 DEF TransitionStatus, UserTransitionAllowed
  <2> QED
    BY <1>3, <1>4, <1>5, <1>6, <2>1, <2>2, CommandKeeps
<1>8. CASE CorrectStatus(c, target)
  <2>1. InsertEvent(c, "status_correction", application.status, target, outcome)
    BY <1>1, <1>8 DEF CorrectStatus, outcome
  <2> QED
    BY <1>3, <1>4, <1>5, <1>6, <2>1, CommandKeeps
<1> QED
  BY <1>7, <1>8

\* The next action is logged at the status the row has.
LEMMA NextActionKeeps ==
  ASSUME IInv, NEW c \in Clients, SetNextAction(c)
  PROVE  IInv'
<1>1. /\ application.status \in Statuses
      /\ application.outcome \in Outcomes \union {Null}
      /\ submissions \in Seq({"internal", "external"})
  BY DEF IInv, TypeOK, Applications
<1>2. /\ InsertEvent(c, "next_action", application.status, application.status,
                     application.outcome)
      /\ Goto(c, Idle) /\ submissions' = submissions
  BY DEF SetNextAction
<1>3. /\ application.status \in Outcomes => application.outcome = application.status
      /\ application.status \notin Outcomes \union {"closed"} => application.outcome = Null
  BY DEF IInv, OutcomeFollowsStatus
<1> QED
  BY <1>1, <1>2, <1>3, CommandKeeps

\* A write of the row that leaves status, outcome and log alone.
LEMMA OtherWriteKeeps ==
  ASSUME IInv, NEW c \in Clients, NEW row \in Applications, WriteRow(c, row), Goto(c, Idle),
         row.status = application.status, row.outcome = application.outcome,
         UNCHANGED <<events, submissions>>
  PROVE  IInv'
<1>1. application' = row
  BY DEF WriteRow
<1>2. Editing' \ stale' = {} /\ stale' \subseteq Editing'
  BY WriteLeavesNoFreshEdit DEF IInv
<1>3. client' \in [Clients -> ClientStates]
  BY GotoType, IdleType DEF IInv, TypeOK
<1>4. TypeOK'
  BY <1>1, <1>2, <1>3 DEF IInv, TypeOK
<1>5. AppliedIsSeen'
  BY <1>2 DEF AppliedIsSeen
<1> QED
  BY <1>1, <1>4, <1>5 DEF IInv, LogIsAChain, TransitionsFollowTheGraph, OutcomeFollowsStatus

\* Deletion and a new job text.
LEMMA RowCommandKeeps ==
  ASSUME IInv, NEW c \in Clients,
         DeleteApplication(c) \/ (\E text \in Texts : UpdateJobText(c, text))
  PROVE  IInv'
<1>1. application \in Applications
  BY DEF IInv, TypeOK
<1>2. PICK row \in Applications :
        /\ WriteRow(c, row)
        /\ row.status = application.status /\ row.outcome = application.outcome
  <2>1. CASE DeleteApplication(c)
    <3>1. /\ [application EXCEPT !.deleted = TRUE] \in Applications
          /\ [application EXCEPT !.deleted = TRUE].status = application.status
          /\ [application EXCEPT !.deleted = TRUE].outcome = application.outcome
      BY <1>1 DEF Applications
    <3> QED
      BY <2>1, <3>1 DEF DeleteApplication
  <2>2. ASSUME NEW text \in Texts, UpdateJobText(c, text)
        PROVE  \E row \in Applications :
                 /\ WriteRow(c, row)
                 /\ row.status = application.status /\ row.outcome = application.outcome
    <3>1. /\ [application EXCEPT !.text = text] \in Applications
          /\ [application EXCEPT !.text = text].status = application.status
          /\ [application EXCEPT !.text = text].outcome = application.outcome
      BY <1>1 DEF Applications
    <3> QED
      BY <2>2, <3>1 DEF UpdateJobText
  <2> QED
    BY <2>1, <2>2
<1>3. Goto(c, Idle) /\ UNCHANGED <<events, submissions>>
  BY DEF DeleteApplication, UpdateJobText
<1> QED
  BY <1>2, <1>3, OtherWriteKeeps

\* A Submission moves the status along the edge from `saved`, or not at all.
LEMMA SubmissionKeeps ==
  ASSUME IInv, NEW c \in Clients, NEW kind \in {"internal", "external"},
         RecordSubmission(c, kind)
  PROVE  IInv'
<1>1. /\ submissions \in Seq({"internal", "external"})
      /\ application \in Applications
      /\ stale \subseteq Editing
  BY DEF IInv, TypeOK
<1>2. client[c].stage = "read" /\ Submit(c, kind)
  BY DEF RecordSubmission
<1>3. submissions' = Append(submissions, kind) /\ Goto(c, Idle)
  BY <1>2 DEF Submit
<1>4. submissions' \in Seq({"internal", "external"}) /\ submissions' # <<>>
  BY <1>1, <1>3
<1>5. CASE application.status = "saved"
  <2> DEFINE outcome == TerminalOutcomeAfter(application.outcome, "applied")
  <2>1. InsertEvent(c, "status_transition", application.status, "applied", outcome)
    BY <1>2, <1>5 DEF Submit
  <2>2. outcome \in Outcomes \union {Null}
    BY <1>1, OutcomeType DEF Applications
  <2>3. "applied" \in Statuses /\ "applied" \notin Outcomes \union {"closed"}
    BY DEF Statuses, Outcomes
  <2>4. outcome = Null
    BY <2>3, OutcomeFits
  <2> HIDE DEF outcome
  <2> QED
    BY <1>3, <1>4, <1>5, <2>1, <2>2, <2>3, <2>4, SavedToApplied, CommandKeeps
<1>6. CASE application.status # "saved"
  <2>1. UNCHANGED <<application, events, stale>>
    BY <1>2, <1>6 DEF Submit
  <2>2. c \notin stale
    BY <1>1, <1>2 DEF Editing
  <2>3. stale' = stale \ {c}
    BY <2>1, <2>2
  <2>4. AppliedIsSeen' /\ stale' \subseteq Editing'
    BY <1>3, <2>1, <2>3, AnswerKeepsEdits
  <2>5. client' \in [Clients -> ClientStates]
    BY <1>3, GotoType, IdleType DEF IInv, TypeOK
  <2>6. TypeOK'
    BY <1>4, <2>1, <2>4, <2>5 DEF IInv, TypeOK
  <2> QED
    BY <1>4, <2>1, <2>4, <2>6
       DEF IInv, LogIsAChain, TransitionsFollowTheGraph, OutcomeFollowsStatus
<1> QED
  BY <1>5, <1>6

-----------------------------------------------------------------------------
(* The invariant and the theorems *)

LEMMA InitSound == Init => IInv
<1> SUFFICES ASSUME Init PROVE IInv
  OBVIOUS
<1>1. Editing = {}
  BY IdleType DEF Init, Editing
<1>2. Idle \in ClientStates
  BY IdleType
<1>3. application \in Applications /\ application.status = "saved" /\ application.outcome = Null
  BY DEF Init, Applications, Statuses
<1>4. TypeOK
  BY <1>1, <1>2, <1>3 DEF Init, TypeOK
<1>5. "saved" \notin Outcomes \union {"closed"}
  BY DEF Outcomes
<1> QED
  BY <1>1, <1>3, <1>4, <1>5
     DEF Init, IInv, LogIsAChain, TransitionsFollowTheGraph, OutcomeFollowsStatus, AppliedIsSeen

LEMMA NextSound == IInv /\ [Next]_vars => IInv'
<1> SUFFICES ASSUME IInv, [Next]_vars PROVE IInv'
  OBVIOUS
<1>1. CASE Next
  <2>1. PICK c \in Clients : Step(c)
    BY <1>1 DEF Next
  <2>2. CASE Read(c) \/ BeginEdit(c)
    BY <2>2, BeginningKeeps
  <2>3. CASE Finish(c)
    BY <2>3, FinishKeeps
  <2>4. CASE \E target \in Targets : TransitionStatus(c, target) \/ CorrectStatus(c, target)
    BY <2>4, StatusCommandKeeps
  <2>5. CASE SetNextAction(c)
    BY <2>5, NextActionKeeps
  <2>6. CASE DeleteApplication(c) \/ \E text \in Texts : UpdateJobText(c, text)
    BY <2>6, RowCommandKeeps
  <2>7. CASE \E kind \in {"internal", "external"} : RecordSubmission(c, kind)
    BY <2>7, SubmissionKeeps
  <2> QED
    BY <2>1, <2>2, <2>3, <2>4, <2>5, <2>6, <2>7 DEF Step
<1>2. CASE UNCHANGED vars
  BY <1>2 DEF vars, IInv, TypeOK, Editing, LogIsAChain, TransitionsFollowTheGraph,
       OutcomeFollowsStatus, AppliedIsSeen
<1> QED
  BY <1>1, <1>2

\* In every reachable state of every instance the invariant holds.
THEOREM Inductive == Spec => []IInv
BY InitSound, NextSound, PTL DEF Spec

\* The row, the log, the Submissions and what the requests hold keep their types,
\* and only an edit in progress is stale.
THEOREM TypeCorrect == Spec => []TypeOK
<1>1. IInv => TypeOK
  BY DEF IInv
<1> QED
  BY <1>1, Inductive, PTL

\* The event log tells the whole story of the status (recruitment.py insert_event).
THEOREM LogTellsTheStory == Spec => []LogIsAChain
<1>1. IInv => LogIsAChain
  BY DEF IInv
<1> QED
  BY <1>1, Inductive, PTL

\* Every logged transition is an edge of the graph, and `applied` comes with a
\* Submission (domain/recruitment.py).
THEOREM GraphIsFollowed == Spec => []TransitionsFollowTheGraph
<1>1. IInv => TransitionsFollowTheGraph
  BY DEF IInv
<1> QED
  BY <1>1, Inductive, PTL

\* The outcome fits the status though it is computed from an earlier read.
THEOREM OutcomesFit == Spec => []OutcomeFollowsStatus
<1>1. IInv => OutcomeFollowsStatus
  BY DEF IInv
<1> QED
  BY <1>1, Inductive, PTL

\* No Submission is recorded for a deleted Application (submission.py _record).
THEOREM DeletedStaysUnsent == Spec => DeletedIsNeverSent
<1>1. [Next]_vars => [application.deleted => submissions' = submissions]_vars
  <2> SUFFICES ASSUME [Next]_vars, application.deleted PROVE submissions' = submissions
    OBVIOUS
  <2>1. CASE Next
    <3>1. PICK c \in Clients : Step(c)
      BY <2>1 DEF Next
    <3> QED
      BY <3>1 DEF Step, Read, Finish, TransitionStatus, CorrectStatus, SetNextAction,
           DeleteApplication, RecordSubmission, BeginEdit, UpdateJobText
  <2>2. CASE UNCHANGED vars
    BY <2>2 DEF vars
  <2> QED
    BY <2>1, <2>2
<1> QED
  BY <1>1, PTL DEF Spec, DeletedIsNeverSent

\* A Submission that moved the status locks the job text, for every edit that was
\* under way when it did (intake_application_store.py update_job_text).
THEOREM AppliedTextStays == Spec => AppliedLocksTheText
<1> DEFINE Locked == HasApplied(events) => application'.text = application.text
<1>1. IInv /\ [Next]_vars => [Locked]_vars
  <2> SUFFICES ASSUME IInv, [Next]_vars, HasApplied(events)
               PROVE  application'.text = application.text
    OBVIOUS
  <2>0. application \in Applications
    BY DEF IInv, TypeOK
  <2>1. CASE Next
    <3>1. PICK c \in Clients : Step(c)
      BY <2>1 DEF Next
    <3>2. CASE \E text \in Texts : UpdateJobText(c, text)
      <4>1. c \in Editing \ stale /\ ~client[c].submitted
        BY <3>2 DEF UpdateJobText, Editing
      <4> QED
        BY <4>1 DEF IInv, AppliedIsSeen
    <3>3. ASSUME NEW type, NEW from, NEW target, NEW outcome,
                 InsertEvent(c, type, from, target, outcome)
          PROVE  application'.text = application.text
      BY <2>0, <3>3 DEF InsertEvent, WriteRow, Applications
    <3>4. CASE \E target \in Targets : TransitionStatus(c, target) \/ CorrectStatus(c, target)
      BY <3>3, <3>4 DEF TransitionStatus, CorrectStatus
    <3>5. CASE SetNextAction(c)
      BY <3>3, <3>5 DEF SetNextAction
    <3>6. CASE \E kind \in {"internal", "external"} : RecordSubmission(c, kind)
      BY <3>3, <3>6 DEF RecordSubmission, Submit
    <3>7. CASE DeleteApplication(c)
      BY <2>0, <3>7 DEF DeleteApplication, WriteRow, Applications
    <3>8. CASE Read(c) \/ Finish(c) \/ BeginEdit(c)
      BY <3>8 DEF Read, Finish, BeginEdit
    <3> QED
      BY <3>1, <3>2, <3>4, <3>5, <3>6, <3>7, <3>8 DEF Step
  <2>2. CASE UNCHANGED vars
    BY <2>2 DEF vars
  <2> QED
    BY <2>1, <2>2
<1>2. Locked <=> ((\E i \in 1..Len(events) :
                     events[i].type = "status_transition" /\ events[i].to = "applied") =>
                  application'.text = application.text)
  BY DEF HasApplied
<1> QED
  BY <1>1, <1>2, Inductive, PTL DEF Spec, AppliedLocksTheText
-----------------------------------------------------------------------------
(* The creation of an Application: what a page keeps, and what the server is told *)

\* What the steps of a command leave of the page, and those of a page of the commands.
OnPage == Creation!PagesAreSound /\ Creation!PressesAreSound /\ Creation!KeptIsWhatWasNotCreated
OnServer ==
  /\ apps \in Seq({apps[i] : i \in DOMAIN apps}) /\ \A c \in commands : Creation!IsCommand(c)
  /\ Creation!NoSilentRepeat /\ Creation!CreatesWhatIsOnScreen

LEMMA InTwoParts == Creation!CreationInvariant <=> OnPage /\ OnServer
  BY DEF Creation!CreationInvariant, OnPage, OnServer

LEMMA InTwoPartsAfter == Creation!CreationInvariant' <=> OnPage' /\ OnServer'
  BY DEF Creation!CreationInvariant, OnPage, OnServer

LEMMA ServerStays ==
  ASSUME OnServer, UNCHANGED <<apps, commands>>
  PROVE  OnServer'
  BY DEF OnServer, Creation!NoSilentRepeat, Creation!CreatesWhatIsOnScreen, Creation!IsCommand

LEMMA PageStays ==
  ASSUME OnPage, UNCHANGED <<key, visit, mutation>>
  PROVE  OnPage'
  BY DEF OnPage, Creation!PagesAreSound, Creation!PressesAreSound, Creation!KeptIsWhatWasNotCreated, Creation!AcknowledgementApplies,
         Creation!Open, Creation!Settled, Creation!Pending

\* A command that settles without a creation leaves what its page has kept as it was.
LEMMA SettlingKeeps ==
  ASSUME OnPage, NEW v \in Creation!Visits, NEW outcome, outcome # "created", Creation!Pending(v),
         Creation!Settles(v, outcome), UNCHANGED <<key, visit>>
  PROVE  OnPage'
<1> DEFINE m == Creation!SettledAs(v, outcome)
<1>1. m.stage = "settled" /\ m.outcome = outcome
  BY DEF Creation!SettledAs
<1>2. mutation' = [mutation EXCEPT ![v] = m] /\ DOMAIN mutation = Creation!Visits
  BY DEF Creation!Settles, OnPage, Creation!PagesAreSound
<1> HIDE DEF m
<1>3. mutation'[v] = m /\ \A w \in Creation!Visits : w # v => mutation'[w] = mutation[w]
  BY <1>2
<1>4. Creation!PagesAreSound'
  BY <1>1, <1>2, <1>3 DEF OnPage, Creation!PagesAreSound, Creation!Open, Creation!Settled, Creation!Pending
<1>5. Creation!PressesAreSound'
  BY <1>1, <1>3 DEF OnPage, Creation!PressesAreSound, Creation!Pending
<1>6. Creation!KeptIsWhatWasNotCreated'
  BY <1>1, <1>3 DEF OnPage, Creation!KeptIsWhatWasNotCreated, Creation!AcknowledgementApplies, Creation!Settled, Creation!Pending
<1> QED BY <1>4, <1>5, <1>6 DEF OnPage

LEMMA MovingKeeps ==
  ASSUME OnPage, NEW v \in Creation!Visits, NEW stage, stage \notin {"idle", "settled"}, Creation!Pending(v),
         stage \in {"checkSent", "found", "none found"} =>
            mutation[v].stage \in {"checkSent", "found", "none found"},
         Creation!Moves(v, stage), UNCHANGED <<key, visit>>
  PROVE  OnPage'
<1> DEFINE m == [mutation[v] EXCEPT !.stage = stage]
<1>1. DOMAIN mutation[v] = {"stage", "intake", "acknowledged", "number"}
  BY DEF OnPage, Creation!PressesAreSound
<1>2. /\ m.stage = stage /\ m.acknowledged = mutation[v].acknowledged
      /\ DOMAIN m = {"stage", "intake", "acknowledged", "number"}
  BY <1>1
<1>3. mutation' = [mutation EXCEPT ![v] = m] /\ DOMAIN mutation = Creation!Visits
  BY DEF Creation!Moves, OnPage, Creation!PagesAreSound
<1> HIDE DEF m
<1>4. mutation'[v] = m /\ \A w \in Creation!Visits : w # v => mutation'[w] = mutation[w]
  BY <1>3
<1>5. Creation!PagesAreSound'
  <2>1. DOMAIN visit' = Creation!Visits /\ DOMAIN mutation' = Creation!Visits /\ DOMAIN key' = {"fields", "of"}
    BY <1>3 DEF OnPage, Creation!PagesAreSound
  <2>2. mutation'[v].stage \notin {"idle", "settled"} /\ mutation[v].stage # "idle"
    BY <1>2, <1>4 DEF Creation!Pending
  <2> QED BY <1>4, <2>1, <2>2 DEF OnPage, Creation!PagesAreSound, Creation!Open, Creation!Settled
<1>6. Creation!PressesAreSound'
  BY <1>2, <1>4 DEF OnPage, Creation!PressesAreSound, Creation!Pending
<1>7. Creation!KeptIsWhatWasNotCreated'
  BY <1>2, <1>4 DEF OnPage, Creation!KeptIsWhatWasNotCreated, Creation!AcknowledgementApplies, Creation!Settled, Creation!Pending
<1> QED BY <1>5, <1>6, <1>7 DEF OnPage

-----------------------------------------------------------------------------
(* The page *)

PageFields == {"place", "tab", "form", "timer", "status"}

\* The page of one visit becomes p, with its command and what is stored.
LEMMA PageBecomes ==
  ASSUME OnPage, NEW v \in Creation!Visits, NEW p, DOMAIN p = PageFields,
         visit' = [visit EXCEPT ![v] = p],
         DOMAIN mutation' = Creation!Visits,
         \A w \in Creation!Visits : w # v => mutation'[w] = mutation[w],
         p.place # "unborn",
         p.place = "open" =>
            /\ ~(mutation'[v].stage = "settled" /\ mutation'[v].outcome = "created")
            /\ \A w \in Creation!Visits : w # v /\ Creation!Open(w) => visit[w].tab # p.tab,
         Creation!PressesAreSound',
         DOMAIN key' = {"fields", "of"},
         key' = key \/ key'.of = v,
         p.place = "left" /\ key'.of = v =>
            key'.fields = IF /\ mutation'[v].stage = "settled" /\ mutation'[v].outcome = "created"
                             /\ mutation'[v].intake = Creation!IntakeFromFields(p.form)
                          THEN Creation!Empty ELSE p.form
  PROVE  OnPage'
<1>1. DOMAIN visit = Creation!Visits
  BY DEF OnPage, Creation!PagesAreSound
<1>2. DOMAIN visit' = Creation!Visits /\ visit'[v] = p /\ \A w \in Creation!Visits : w # v => visit'[w] = visit[w]
  BY <1>1
<1>3. Creation!PagesAreSound'
  BY <1>2 DEF OnPage, Creation!PagesAreSound, Creation!Open, Creation!Settled, PageFields
<1>4. Creation!KeptIsWhatWasNotCreated'
  BY <1>2 DEF OnPage, Creation!KeptIsWhatWasNotCreated, Creation!Settled, Creation!AcknowledgementApplies
<1> QED BY <1>3, <1>4 DEF OnPage

\* What is written is v's, and has the form when the browser stores it.
LEMMA PersistedIsOf ==
  ASSUME NEW k, NEW v, NEW f, NEW ok \in BOOLEAN
  PROVE  /\ DOMAIN Creation!Persisted(k, v, f, ok) = {"fields", "of"} /\ Creation!Persisted(k, v, f, ok).of = v
         /\ ok => Creation!Persisted(k, v, f, ok).fields = f
  BY DEF Creation!Persisted

\* The command of a visit is left alone or forgotten, those of the others are left alone.
CommandStaysOrGoes(v) ==
  /\ DOMAIN mutation' = Creation!Visits
  /\ \A w \in Creation!Visits : w # v => mutation'[w] = mutation[w]
  /\ mutation'[v] \in {mutation[v], Creation!Idle}

LEMMA CommandIsLeftOrDropped ==
  ASSUME OnPage, NEW v \in Creation!Visits,
         \/ mutation' = mutation
         \/ mutation' = [mutation EXCEPT ![v] = Creation!Idle]
         \/ mutation' = [mutation EXCEPT ![v] = IF Creation!Settled(v) THEN Creation!Idle ELSE @]
  PROVE  CommandStaysOrGoes(v)
  BY DEF OnPage, Creation!PagesAreSound, CommandStaysOrGoes

LEMMA PressesStaySound ==
  ASSUME OnPage, NEW v \in Creation!Visits, CommandStaysOrGoes(v)
  PROVE  Creation!PressesAreSound'
<1>1. Creation!Idle.stage = "idle"
  BY DEF Creation!Idle
<1> QED BY <1>1 DEF OnPage, Creation!PressesAreSound, Creation!Pending, CommandStaysOrGoes

LEMMA MountKeeps ==
  ASSUME OnPage, NEW v \in Creation!Visits, NEW t, Creation!Mount(v, t)
  PROVE  OnPage'
<1> DEFINE p == [place |-> "open", tab |-> t, form |-> key.fields, timer |-> FALSE,
                 status |-> IF Creation!HasContent(key.fields) THEN "restored" ELSE "idle"]
<1>1. visit' = [visit EXCEPT ![v] = p] /\ key' = [key EXCEPT !.of = v] /\ mutation' = mutation
  BY DEF Creation!Mount
<1>2. p.place = "open" /\ p.tab = t /\ DOMAIN p = PageFields
  BY DEF PageFields
<1>3. mutation[v].stage = "idle" /\ \A w \in Creation!Visits : Creation!Open(w) => visit[w].tab # t
  BY DEF Creation!Mount, OnPage, Creation!PagesAreSound
<1>4. DOMAIN key' = {"fields", "of"} /\ key'.of = v
  BY <1>1 DEF OnPage, Creation!PagesAreSound
<1>5. CommandStaysOrGoes(v) /\ Creation!PressesAreSound' /\ mutation'[v].stage = "idle"
  BY <1>1, <1>3, CommandIsLeftOrDropped, PressesStaySound
<1> HIDE DEF p
<1> QED BY <1>1, <1>2, <1>3, <1>4, <1>5, PageBecomes DEF CommandStaysOrGoes

\* An open page that stays where it is.
LEMMA StaysOpen ==
  ASSUME OnPage, NEW v \in Creation!Visits, Creation!Open(v), NEW p, DOMAIN p = PageFields,
         p.place = "open", p.tab = visit[v].tab,
         visit' = [visit EXCEPT ![v] = p],
         CommandStaysOrGoes(v),
         DOMAIN key' = {"fields", "of"}, key' = key \/ key'.of = v
  PROVE  OnPage'
<1>1. Creation!PressesAreSound'
  BY PressesStaySound
<1>2. ~(mutation'[v].stage = "settled" /\ mutation'[v].outcome = "created")
  <2>1. Creation!Idle.stage = "idle"
    BY DEF Creation!Idle
  <2> QED BY <2>1 DEF OnPage, Creation!PagesAreSound, Creation!Settled, CommandStaysOrGoes
<1>3. \A w \in Creation!Visits : w # v /\ Creation!Open(w) => visit[w].tab # p.tab
  BY DEF OnPage, Creation!PagesAreSound
<1> QED BY <1>1, <1>2, <1>3, PageBecomes DEF CommandStaysOrGoes

LEMMA EditKeeps ==
  ASSUME OnPage, NEW v \in Creation!Visits, NEW f, NEW ok \in BOOLEAN, Creation!Edit(v, f, ok)
  PROVE  OnPage'
<1>1. Creation!Open(v) /\ DOMAIN visit[v] = PageFields /\ DOMAIN key = {"fields", "of"}
  BY DEF Creation!Edit, OnPage, Creation!PagesAreSound, PageFields
<1>2. CommandStaysOrGoes(v)
  BY CommandIsLeftOrDropped DEF Creation!Edit, Creation!Unsettled
<1>3. CASE Creation!HasContent(f)
  <2> DEFINE p == [visit[v] EXCEPT !.form = f, !.timer = TRUE, !.status = "saving"]
  <2>1. visit' = [visit EXCEPT ![v] = p] /\ key' = key
    BY <1>1, <1>3 DEF Creation!Edit, OnPage, Creation!PagesAreSound
  <2>2. DOMAIN p = PageFields /\ p.place = "open" /\ p.tab = visit[v].tab
    BY <1>1 DEF Creation!Open, PageFields
  <2> HIDE DEF p
  <2> QED BY <1>1, <1>2, <2>1, <2>2, StaysOpen
<1>4. CASE ~Creation!HasContent(f)
  <2> DEFINE p == [visit[v] EXCEPT !.form = f, !.timer = FALSE, !.status = Creation!StatusOf(f, ok)]
  <2>1. visit' = [visit EXCEPT ![v] = p] /\ key' = Creation!Persisted(key, v, f, ok)
    BY <1>1, <1>4 DEF Creation!Edit, OnPage, Creation!PagesAreSound
  <2>2. DOMAIN p = PageFields /\ p.place = "open" /\ p.tab = visit[v].tab
    BY <1>1 DEF Creation!Open, PageFields
  <2>3. DOMAIN key' = {"fields", "of"} /\ key'.of = v
    BY <2>1, PersistedIsOf
  <2> HIDE DEF p
  <2> QED BY <1>1, <1>2, <2>1, <2>2, <2>3, StaysOpen
<1> QED BY <1>3, <1>4

\* The timer, and a page that goes to the background.
LEMMA WritingKeeps ==
  ASSUME OnPage, NEW v \in Creation!Visits, NEW ok \in BOOLEAN, Creation!TimerFires(v, ok) \/ Creation!Hidden(v, ok)
  PROVE  OnPage'
<1>1. Creation!Open(v) /\ DOMAIN visit[v] = PageFields /\ DOMAIN visit = Creation!Visits
  BY DEF Creation!TimerFires, Creation!Hidden, OnPage, Creation!PagesAreSound, PageFields
<1>2. CommandStaysOrGoes(v) /\ key' = Creation!Persisted(key, v, visit[v].form, ok)
  BY CommandIsLeftOrDropped DEF Creation!TimerFires, Creation!Hidden, Creation!Written
<1>3. DOMAIN key' = {"fields", "of"} /\ key'.of = v
  BY <1>2, PersistedIsOf
<1>4. PICK p : /\ visit' = [visit EXCEPT ![v] = p]
               /\ DOMAIN p = PageFields /\ p.place = "open" /\ p.tab = visit[v].tab
  <2>1. CASE Creation!TimerFires(v, ok)
    <3> DEFINE p == [visit[v] EXCEPT !.timer = FALSE, !.status = Creation!StatusOf(visit[v].form, ok)]
    <3>1. visit' = [visit EXCEPT ![v] = p]
      BY <1>1, <2>1 DEF Creation!TimerFires
    <3>2. DOMAIN p = PageFields /\ p.place = "open" /\ p.tab = visit[v].tab
      BY <1>1 DEF Creation!Open, PageFields
    <3> HIDE DEF p
    <3> QED BY <3>1, <3>2
  <2>2. CASE Creation!Hidden(v, ok)
    <3> DEFINE p == [visit[v] EXCEPT !.status = Creation!StatusOf(visit[v].form, ok)]
    <3>1. visit' = [visit EXCEPT ![v] = p]
      BY <1>1, <2>2 DEF Creation!Hidden
    <3>2. DOMAIN p = PageFields /\ p.place = "open" /\ p.tab = visit[v].tab
      BY <1>1 DEF Creation!Open, PageFields
    <3> HIDE DEF p
    <3> QED BY <3>1, <3>2
  <2> QED BY <2>1, <2>2
<1> QED BY <1>1, <1>2, <1>3, <1>4, StaysOpen

\* A page that is left, or dies.
LEMMA GoingKeeps ==
  ASSUME OnPage, NEW v \in Creation!Visits, Creation!Open(v), NEW p, DOMAIN p = PageFields,
         p.place \in {"left", "unkept", "dead"}, p.form = visit[v].form,
         visit' = [visit EXCEPT ![v] = p],
         CommandStaysOrGoes(v),
         DOMAIN key' = {"fields", "of"}, key' = key \/ key'.of = v,
         p.place = "left" => key'.fields = visit[v].form
  PROVE  OnPage'
<1>1. Creation!PressesAreSound'
  BY PressesStaySound
<1>2. ~(mutation'[v].stage = "settled" /\ mutation'[v].outcome = "created")
  <2>1. Creation!Idle.stage = "idle"
    BY DEF Creation!Idle
  <2> QED BY <2>1 DEF OnPage, Creation!PagesAreSound, Creation!Settled, CommandStaysOrGoes
<1>3. p.place # "unborn" /\ p.place # "open"
  OBVIOUS
<1> QED BY <1>1, <1>2, <1>3, PageBecomes DEF CommandStaysOrGoes

LEMMA LeavingKeeps ==
  ASSUME OnPage, NEW v \in Creation!Visits, NEW ok \in BOOLEAN, Creation!Leave(v, ok) \/ Creation!Unload(v, ok)
  PROVE  OnPage'
<1> DEFINE p == [visit[v] EXCEPT !.place = Creation!Left(ok), !.timer = FALSE]
<1>1. Creation!Open(v) /\ DOMAIN visit[v] = PageFields /\ DOMAIN visit = Creation!Visits
  BY DEF Creation!Leave, Creation!Unload, OnPage, Creation!PagesAreSound, PageFields
<1>2. /\ visit' = [visit EXCEPT ![v] = p] /\ key' = Creation!Persisted(key, v, visit[v].form, ok)
      /\ CommandStaysOrGoes(v)
  BY <1>1, CommandIsLeftOrDropped DEF Creation!Leave, Creation!Unload, Creation!Gone, Creation!Flushed
<1>3. DOMAIN p = PageFields /\ p.place = Creation!Left(ok) /\ p.form = visit[v].form
  BY <1>1 DEF PageFields
<1>4. /\ DOMAIN key' = {"fields", "of"} /\ key'.of = v
      /\ ok => key'.fields = visit[v].form
  BY <1>2, PersistedIsOf
<1>5. Creation!Left(ok) \in {"left", "unkept"} /\ (Creation!Left(ok) = "left" => ok)
  BY DEF Creation!Left
<1> HIDE DEF p
<1> QED BY <1>1, <1>2, <1>3, <1>4, <1>5, GoingKeeps

LEMMA CrashKeeps ==
  ASSUME OnPage, NEW v \in Creation!Visits, Creation!Crash(v)
  PROVE  OnPage'
<1> DEFINE p == [visit[v] EXCEPT !.place = "dead", !.timer = FALSE]
<1>1. Creation!Open(v) /\ DOMAIN visit[v] = PageFields /\ DOMAIN visit = Creation!Visits /\ DOMAIN key = {"fields", "of"}
  BY DEF Creation!Crash, OnPage, Creation!PagesAreSound, PageFields
<1>2. /\ visit' = [visit EXCEPT ![v] = p] /\ key' = key
      /\ CommandStaysOrGoes(v)
  BY <1>1, CommandIsLeftOrDropped DEF Creation!Crash
<1>3. DOMAIN p = PageFields /\ p.place = "dead" /\ p.form = visit[v].form
  BY <1>1 DEF PageFields
<1> HIDE DEF p
<1> QED BY <1>1, <1>2, <1>3, GoingKeeps

-----------------------------------------------------------------------------
(* The commands *)

\* Commands that came from commands, with at most one that is new and sound.
LEMMA CommandsBecome ==
  ASSUME OnServer, apps' = apps, NEW c, Creation!IsCommand(c), commands' \subseteq commands \union {c}
  PROVE  OnServer'
  BY DEF OnServer, Creation!NoSilentRepeat, Creation!CreatesWhatIsOnScreen, Creation!IsCommand

LEMMA CommandsGo ==
  ASSUME OnServer, apps' = apps, commands' \subseteq commands
  PROVE  OnServer'
  BY DEF OnServer, Creation!NoSilentRepeat, Creation!CreatesWhatIsOnScreen, Creation!IsCommand

LEMMA CommandedIsCommand ==
  ASSUME NEW v \in Creation!Visits, NEW m, NEW asked, m.acknowledged => asked,
         Creation!IntakeFromFields(visit[v].form) = m.intake
  PROVE  Creation!IsCommand(Creation!Command(v, m, asked))
<1> DEFINE c == Creation!Command(v, m, asked)
<1>1. /\ DOMAIN c = {"by", "number", "intake", "acknowledged", "asked", "onScreen", "checked", "matched"}
      /\ c.by = v /\ c.acknowledged = m.acknowledged /\ c.asked = asked
      /\ c.matched = {}
  BY DEF Creation!Command
<1>2. c.onScreen
  BY DEF Creation!Command
<1> HIDE DEF c
<1> QED BY <1>1, <1>2 DEF Creation!IsCommand, c

LEMMA PressKeeps ==
  ASSUME OnPage, OnServer, NEW v \in Creation!Visits, Creation!Press(v)
  PROVE  OnPage' /\ OnServer'
<1> DEFINE acknowledged == Creation!DuplicatesShown(v)
           m == Creation!Submission(v, acknowledged)
           asked == Creation!Asked(v, m.intake)
<1>1. /\ m.stage = IF acknowledged THEN "creating" ELSE "checkSent"
      /\ m.intake = Creation!IntakeFromFields(visit[v].form)
      /\ DOMAIN m = {"stage", "intake", "acknowledged", "number"}
  BY DEF Creation!Submission
<1>2. m.acknowledged = acknowledged
  BY DEF Creation!Submission
<1>3. acknowledged => asked
  BY <1>1 DEF Creation!DuplicatesShown, Creation!AcknowledgementApplies, Creation!Asked
<1>4. /\ mutation' = [mutation EXCEPT ![v] = m] /\ Creation!Open(v) /\ UNCHANGED <<apps, key, visit>>
      /\ commands' = IF m.acknowledged THEN commands \union {Creation!Command(v, m, asked)} ELSE commands
  BY DEF Creation!Press
<1>5. m.acknowledged => asked
  BY <1>2, <1>3
<1>6. m.stage \in {"checkSent", "found", "none found"} => ~m.acknowledged
  BY <1>1, <1>2
<1> HIDE DEF m, asked, acknowledged
<1>7. OnServer'
  <2>1. Creation!IsCommand(Creation!Command(v, m, asked))
    BY <1>1, <1>5, CommandedIsCommand
  <2>2. commands' \subseteq commands \union {Creation!Command(v, m, asked)}
    BY <1>4
  <2> QED BY <1>4, <2>1, <2>2, CommandsBecome
<1>8. /\ DOMAIN mutation' = Creation!Visits /\ mutation'[v] = m
      /\ \A w \in Creation!Visits : w # v => mutation'[w] = mutation[w]
  BY <1>4 DEF OnPage, Creation!PagesAreSound
<1>9. m.stage \notin {"idle", "settled"}
  BY <1>1
<1>10. Creation!PagesAreSound'
  <2>1. DOMAIN visit' = Creation!Visits /\ DOMAIN key' = {"fields", "of"} /\ visit[v].place = "open"
    BY <1>4 DEF OnPage, Creation!PagesAreSound, Creation!Open
  <2> QED BY <1>4, <1>8, <1>9, <2>1 DEF OnPage, Creation!PagesAreSound, Creation!Open, Creation!Settled
<1>11. Creation!PressesAreSound'
  BY <1>1, <1>6, <1>8 DEF OnPage, Creation!PressesAreSound, Creation!Pending
<1>12. Creation!KeptIsWhatWasNotCreated'
  BY <1>4, <1>8 DEF OnPage, Creation!KeptIsWhatWasNotCreated, Creation!AcknowledgementApplies, Creation!Settled, Creation!Open
<1> QED BY <1>7, <1>10, <1>11, <1>12 DEF OnPage

LEMMA CheckedKeeps ==
  ASSUME OnPage, OnServer, NEW v \in Creation!Visits, Creation!DuplicateChecked(v) \/ Creation!CreateAnswers(v)
  PROVE  OnPage' /\ OnServer'
<1>1. OnServer'
  BY ServerStays DEF Creation!DuplicateChecked, Creation!CreateAnswers
<1>2. Creation!Pending(v) /\ UNCHANGED <<key, visit>>
  BY DEF Creation!DuplicateChecked, Creation!CreateAnswers, Creation!Pending
<1>3. CASE Creation!DuplicateChecked(v)
  <2>1. PICK stage \in {"found", "none found"} : Creation!Moves(v, stage)
    BY <1>3 DEF Creation!DuplicateChecked
  <2>2. mutation[v].stage = "checkSent"
    BY <1>3 DEF Creation!DuplicateChecked
  <2> QED BY <1>1, <1>2, <2>1, <2>2, MovingKeeps
<1>4. CASE Creation!CreateAnswers(v)
  BY <1>1, <1>2, <1>4, MovingKeeps DEF Creation!CreateAnswers
<1> QED BY <1>3, <1>4

LEMMA AnswersKeep ==
  ASSUME OnPage, OnServer, NEW v \in Creation!Visits, Creation!CheckAnswers(v)
  PROVE  OnPage' /\ OnServer'
<1>1. /\ mutation[v].stage \in {"found", "none found"} /\ Creation!Pending(v)
      /\ UNCHANGED <<apps, key, visit>>
  BY DEF Creation!CheckAnswers, Creation!Pending
<1>2. CASE mutation[v].stage = "found"
  <2>1. Creation!Settles(v, "duplicates") /\ UNCHANGED commands
    BY <1>2 DEF Creation!CheckAnswers
  <2> QED BY <1>1, <2>1, SettlingKeeps, ServerStays
<1>3. CASE mutation[v].stage = "none found" /\ ~Creation!AcknowledgementApplies(v)
  <2>1. Creation!Settles(v, "stale") /\ UNCHANGED commands
    BY <1>3 DEF Creation!CheckAnswers
  <2> QED BY <1>1, <2>1, SettlingKeeps, ServerStays
<1>4. CASE mutation[v].stage = "none found" /\ Creation!AcknowledgementApplies(v)
  <2>1. Creation!Moves(v, "creating") /\ commands' = commands \union {Creation!Command(v, mutation[v], FALSE)}
    BY <1>4 DEF Creation!CheckAnswers
  <2>2. ~mutation[v].acknowledged
    BY <1>1 DEF OnPage, Creation!PressesAreSound
  <2>3. Creation!IsCommand(Creation!Command(v, mutation[v], FALSE))
    BY <1>4, <2>2, CommandedIsCommand DEF Creation!AcknowledgementApplies
  <2>4. OnServer'
    BY <1>1, <2>1, <2>3, CommandsBecome
  <2> QED BY <1>1, <2>1, <2>4, MovingKeeps
<1> QED BY <1>1, <1>2, <1>3, <1>4

LEMMA LostKeeps ==
  ASSUME OnPage, OnServer, NEW v \in Creation!Visits, Creation!Lost(v)
  PROVE  OnPage' /\ OnServer'
<1>1. Creation!Pending(v) /\ Creation!Settles(v, "failed") /\ UNCHANGED <<apps, key, visit>>
  BY DEF Creation!Lost
<1>2. commands' \subseteq commands
  BY DEF Creation!Lost
<1> QED BY <1>1, <1>2, SettlingKeeps, CommandsGo

-----------------------------------------------------------------------------
(* The server *)

LEMMA IngestChecksKeeps ==
  ASSUME OnPage, OnServer, NEW c \in commands, Creation!IngestChecks(c)
  PROVE  OnPage' /\ OnServer'
<1> DEFINE matched == Creation!DuplicateCheck(c.intake)
           d == [c EXCEPT !.checked = TRUE, !.matched = matched]
<1>1. Creation!IsCommand(c) /\ UNCHANGED <<apps, key, visit>> /\ c.by \in Creation!Visits
  BY DEF OnServer, Creation!IngestChecks, Creation!IsCommand
<1>2. CASE matched # {} /\ ~c.acknowledged
  <2>1. commands' = commands \ {c}
    BY <1>2 DEF Creation!IngestChecks
  <2>2. OnServer'
    BY <1>1, <2>1, CommandsGo
  <2>3. CASE Creation!Awaited(c)
    <3>1. Creation!Settles(c.by, "duplicates")
      BY <1>2, <2>3 DEF Creation!IngestChecks, Creation!Settles
    <3>2. Creation!Pending(c.by)
      BY <2>3 DEF Creation!Awaited, Creation!Pending
    <3> QED BY <1>1, <2>2, <3>1, <3>2, SettlingKeeps
  <2>4. CASE ~Creation!Awaited(c)
    BY <1>1, <1>2, <2>2, <2>4, PageStays DEF Creation!IngestChecks
  <2> QED BY <2>3, <2>4
<1>3. CASE ~(matched # {} /\ ~c.acknowledged)
  <2>1. commands' = (commands \ {c}) \union {d} /\ UNCHANGED mutation
    BY <1>3 DEF Creation!IngestChecks
  <2>2. /\ DOMAIN d = DOMAIN c /\ d.by = c.by /\ d.onScreen = c.onScreen
        /\ d.acknowledged = c.acknowledged /\ d.asked = c.asked /\ d.matched = matched
    BY <1>1 DEF Creation!IsCommand
  <2>3. d.checked
    BY <1>1 DEF Creation!IsCommand
  <2> HIDE DEF d, matched
  <2>4. Creation!IsCommand(d)
    BY <1>1, <1>3, <2>2, <2>3 DEF Creation!IsCommand
  <2>5. commands' \subseteq commands \union {d}
    BY <2>1
  <2> QED BY <1>1, <2>1, <2>4, <2>5, PageStays, CommandsBecome
<1> QED BY <1>2, <1>3

\* A list and one item more.
LEMMA AppendedItems ==
  ASSUME NEW s, s \in Seq({s[i] : i \in DOMAIN s}), NEW e
  PROVE  /\ Append(s, e) \in Seq({Append(s, e)[i] : i \in DOMAIN Append(s, e)})
         /\ \A i \in DOMAIN Append(s, e) : Append(s, e)[i] = e \/ (i \in DOMAIN s /\ Append(s, e)[i] = s[i])
<1> DEFINE T == {s[i] : i \in DOMAIN s} \union {e}
           q == Append(s, e)
<1>1. s \in Seq(T) /\ e \in T
  <2> DEFINE S == {s[i] : i \in DOMAIN s}
  <2>1. s \in Seq(S) /\ S \subseteq T
    OBVIOUS
  <2> HIDE DEF S, T
  <2>2. s \in Seq(T)
    BY <2>1
  <2> QED BY <2>2 DEF T
<1> HIDE DEF T
<1>2. /\ q \in Seq(T) /\ Len(q) = Len(s) + 1
      /\ \A i \in 1 .. Len(s) : q[i] = s[i] /\ q[Len(s) + 1] = e
  BY <1>1, AppendProperties
<1>3. DOMAIN q = 1 .. Len(s) + 1 /\ DOMAIN s = 1 .. Len(s) /\ Len(s) \in Nat /\ q[Len(s) + 1] = e
  BY <1>1, <1>2
<1>4. \A i \in DOMAIN q : q[i] = e \/ (i \in DOMAIN s /\ q[i] = s[i])
  BY <1>2, <1>3
<1>5. q \in Seq({q[i] : i \in DOMAIN q})
  <2> DEFINE Q == {q[i] : i \in DOMAIN q}
  <2>1. Len(q) \in Nat /\ DOMAIN q = 1 .. Len(q) /\ \A i \in 1 .. Len(q) : q[i] \in Q
    BY <1>2, <1>3
  <2> HIDE DEF Q, q
  <2>2. q \in [1 .. Len(q) -> Q]
    BY <1>2, <2>1
  <2>3. q \in Seq(Q)
    BY <2>1, <2>2
  <2> QED BY <2>3 DEF Q
<1> QED BY <1>4, <1>5

LEMMA IngestInsertsKeeps ==
  ASSUME OnPage, OnServer, NEW c \in commands, Creation!IngestInserts(c)
  PROVE  OnPage' /\ OnServer'
<1> DEFINE row == [intake |-> c.intake, acknowledged |-> c.acknowledged, asked |-> c.asked,
                   onScreen |-> c.onScreen, matched |-> c.matched]
<1>1. Creation!IsCommand(c) /\ UNCHANGED <<key, visit>> /\ c.by \in Creation!Visits
  BY DEF OnServer, Creation!IngestInserts, Creation!IsCommand
<1>2. commands' = commands \ {c} /\ apps' = Append(apps, row)
  BY DEF Creation!IngestInserts
<1>3. OnServer'
  <2>1. /\ row.acknowledged = c.acknowledged /\ row.asked = c.asked
        /\ row.onScreen = c.onScreen /\ row.matched = c.matched
    OBVIOUS
  <2>2. /\ row.matched # {} => row.acknowledged /\ row.asked
        /\ row.onScreen
    BY <1>1, <2>1 DEF Creation!IsCommand
  <2> HIDE DEF row
  <2>3. /\ apps' \in Seq({apps'[i] : i \in DOMAIN apps'})
        /\ \A i \in DOMAIN apps' : apps'[i] = row \/ (i \in DOMAIN apps /\ apps'[i] = apps[i])
    BY <1>2, AppendedItems DEF OnServer
  <2>4. Creation!NoSilentRepeat'
    BY <2>2, <2>3 DEF OnServer, Creation!NoSilentRepeat
  <2>5. Creation!CreatesWhatIsOnScreen'
    BY <1>2, <2>2, <2>3 DEF OnServer, Creation!CreatesWhatIsOnScreen
  <2>6. \A e \in commands' : Creation!IsCommand(e)'
    BY <1>2 DEF OnServer, Creation!IsCommand
  <2> QED BY <2>3, <2>4, <2>5, <2>6 DEF OnServer
<1>4. CASE Creation!Awaited(c)
  <2>1. Creation!Moves(c.by, "created")
    BY <1>4 DEF Creation!IngestInserts, Creation!Moves
  <2>2. Creation!Pending(c.by)
    BY <1>4 DEF Creation!Awaited, Creation!Pending
  <2> QED BY <1>1, <1>3, <2>1, <2>2, MovingKeeps
<1>5. CASE ~Creation!Awaited(c)
  BY <1>1, <1>3, <1>5, PageStays DEF Creation!IngestInserts
<1> QED BY <1>4, <1>5

-----------------------------------------------------------------------------
(* The creation's answer *)

LEMMA OnCreatedKeeps ==
  ASSUME OnPage, NEW v \in Creation!Visits, NEW ok \in BOOLEAN, Creation!OnCreated(v, ok)
  PROVE  OnPage'
<1> DEFINE stored == IF Creation!Clears(v) THEN Creation!Persisted(key, v, Creation!Empty, ok) ELSE key
           gone(w) == w \in Creation!InTab(v) \/ (w = v /\ ~ok)
           m == Creation!SettledAs(v, "created")
           kept == CHOOSE w \in Creation!InTab(v) : TRUE
<1>1. /\ Creation!Pending(v) /\ DOMAIN visit = Creation!Visits /\ DOMAIN mutation = Creation!Visits
      /\ DOMAIN key = {"fields", "of"}
      /\ \A w \in Creation!Visits : DOMAIN visit[w] = PageFields
  BY DEF Creation!OnCreated, Creation!Pending, OnPage, Creation!PagesAreSound, PageFields
<1>2. /\ m.stage = "settled" /\ m.outcome = "created" /\ m.intake = mutation[v].intake
      /\ mutation' = [mutation EXCEPT ![v] = m]
  BY DEF Creation!OnCreated, Creation!SettledAs
<1> HIDE DEF m
<1>3. /\ DOMAIN mutation' = Creation!Visits /\ mutation'[v] = m
      /\ \A w \in Creation!Visits : w # v => mutation'[w] = mutation[w]
  BY <1>1, <1>2
\* The pages of the tab go, and every other stays as it was.
<1>4. /\ DOMAIN visit' = Creation!Visits
      /\ \A w \in Creation!Visits :
           /\ DOMAIN visit'[w] = PageFields /\ visit'[w].form = visit[w].form
           /\ visit'[w].tab = visit[w].tab
           /\ visit'[w].place = IF gone(w) THEN Creation!Left(ok) ELSE visit[w].place
  <2>1. visit' = [w \in Creation!Visits |->
            [visit[w] EXCEPT !.timer = @ /\ w \notin Creation!InTab(v) \union {v},
                             !.place = IF w \in Creation!InTab(v) \/ (w = v /\ ~ok) THEN Creation!Left(ok) ELSE @]]
    BY DEF Creation!OnCreated
  <2>2. DOMAIN visit' = Creation!Visits
    BY <2>1
  <2>3. ASSUME NEW w \in Creation!Visits
        PROVE  /\ DOMAIN visit'[w] = PageFields /\ visit'[w].form = visit[w].form
               /\ visit'[w].tab = visit[w].tab
               /\ visit'[w].place = IF gone(w) THEN Creation!Left(ok) ELSE visit[w].place
    <3> DEFINE timer == visit[w].timer /\ w \notin Creation!InTab(v) \union {v}
    <3>1. visit'[w] = [visit[w] EXCEPT !.timer = timer,
                                       !.place = IF gone(w) THEN Creation!Left(ok) ELSE @]
      BY <2>1
    <3> HIDE DEF timer, gone
    <3> QED BY <1>1, <3>1 DEF PageFields
  <2> QED BY <2>2, <2>3
<1>5. Creation!Left(ok) \in {"left", "unkept"} /\ (Creation!Left(ok) = "left" <=> ok)
  BY DEF Creation!Left
\* One visit at a time is open in a tab.
<1>6. \A w, x \in Creation!InTab(v) : w = x
  BY DEF Creation!InTab, OnPage, Creation!PagesAreSound
<1>7. /\ \A w \in Creation!InTab(v) : w \in Creation!Visits /\ Creation!Open(w) /\ visit[w].place = "open"
      /\ Creation!Open(v) => v \in Creation!InTab(v)
  BY DEF Creation!InTab, Creation!Open
<1>8. visit[v].place # "unborn"
  BY <1>1 DEF OnPage, Creation!PagesAreSound, Creation!Pending
<1>9. /\ DOMAIN stored = {"fields", "of"}
      /\ stored = key \/ stored.of = v
      /\ Creation!Clears(v) => stored.of = v
      /\ Creation!Clears(v) /\ ok => stored.fields = Creation!Empty
      /\ ~Creation!Clears(v) => stored = key
  BY <1>1, PersistedIsOf
<1> HIDE DEF stored, gone
\* What is stored in the end: by the page that goes, or as the creation leaves it.
<1>10. /\ Creation!InTab(v) = {} => key' = stored
       /\ \A w \in Creation!InTab(v) :
            /\ w = v /\ Creation!Clears(v) => key' = stored
            /\ ~(w = v /\ Creation!Clears(v)) => key' = Creation!Persisted(stored, w, visit[w].form, ok)
  <2> DEFINE flush(w) == Creation!Flushed(stored, w, w = v /\ Creation!Clears(v), ok)
  <2>1. key' = IF Creation!InTab(v) = {} THEN stored ELSE flush(kept)
    BY DEF Creation!OnCreated, stored
  <2>2. \A w \in Creation!InTab(v) : w = kept
    BY <1>6
  <2> HIDE DEF kept
  <2> QED BY <2>1, <2>2 DEF Creation!Flushed
<1>11. Creation!PagesAreSound'
  <2>1. DOMAIN key' = {"fields", "of"}
    BY <1>9, <1>10, PersistedIsOf
  <2>2. \A w \in Creation!Visits : gone(w) => visit[w].place # "unborn" /\ visit'[w].place # "unborn"
                                    /\ visit'[w].place # "open"
    BY <1>4, <1>5, <1>7, <1>8 DEF gone
  <2>3. \A w \in Creation!Visits : visit'[w].place = "open" =>
            visit[w].place = "open" /\ w # v
    BY <1>4, <1>5, <1>7, <2>2 DEF gone, Creation!Open
  <2>4. \A w \in Creation!Visits : visit'[w].place = "unborn" => w # v /\ visit[w].place = "unborn"
    BY <1>4, <1>8, <2>2
  <2> QED BY <1>3, <1>4, <2>1, <2>3, <2>4 DEF OnPage, Creation!PagesAreSound, Creation!Open, Creation!Settled, PageFields
<1>12. Creation!PressesAreSound'
  BY <1>2, <1>3 DEF OnPage, Creation!PressesAreSound, Creation!Pending
<1>13. Creation!KeptIsWhatWasNotCreated'
  <2> SUFFICES ASSUME NEW w \in Creation!Visits, visit'[w].place = "left", key'.of = w
               PROVE  key'.fields = IF /\ mutation'[w].stage = "settled"
                                       /\ mutation'[w].outcome = "created"
                                       /\ mutation'[w].intake = Creation!IntakeFromFields(visit'[w].form)
                                    THEN Creation!Empty ELSE visit'[w].form
    BY DEF Creation!KeptIsWhatWasNotCreated, Creation!Settled, Creation!AcknowledgementApplies
  <2>1. visit'[w].form = visit[w].form
    BY <1>4
  <2>2. CASE gone(w)
    <3>1. ok
      BY <1>4, <1>5, <2>2
    <3>2. w \in Creation!InTab(v)
      BY <2>2, <3>1 DEF gone
    <3>3. CASE w = v /\ Creation!Clears(v)
      BY <1>2, <1>3, <1>9, <1>10, <2>1, <3>1, <3>2, <3>3 DEF Creation!Clears, Creation!AcknowledgementApplies
    <3>4. CASE ~(w = v /\ Creation!Clears(v))
      <4>1. key' = Creation!Persisted(stored, w, visit[w].form, ok)
        BY <1>10, <3>2, <3>4
      <4>2. key'.fields = visit[w].form
        BY <3>1, <4>1 DEF Creation!Persisted
      <4>3. ~(mutation[w].stage = "settled" /\ mutation[w].outcome = "created")
        BY <1>7, <3>2 DEF OnPage, Creation!PagesAreSound, Creation!Settled
      <4>4. w = v => mutation'[w].intake # Creation!IntakeFromFields(visit[w].form)
        BY <1>2, <1>3, <3>4 DEF Creation!Clears, Creation!AcknowledgementApplies
      <4> QED BY <1>3, <2>1, <4>2, <4>3, <4>4
    <3> QED BY <3>3, <3>4
  <2>3. CASE ~gone(w)
    <3>1. visit[w].place = "left" /\ w \notin Creation!InTab(v)
      BY <1>4, <2>3 DEF gone
    <3>2. key' = stored
      BY <1>7, <1>10, <3>1, PersistedIsOf
    <3>3. CASE w = v
      <4>1. ok
        BY <2>3, <3>3 DEF gone
      <4>2. CASE Creation!Clears(v)
        BY <1>2, <1>3, <1>9, <2>1, <3>2, <3>3, <4>1, <4>2 DEF Creation!Clears, Creation!AcknowledgementApplies
      <4>3. CASE ~Creation!Clears(v)
        <5>1. key'.fields = visit[w].form
          BY <1>1, <1>9, <3>1, <3>2, <3>3, <4>3
             DEF OnPage, Creation!KeptIsWhatWasNotCreated, Creation!Pending, Creation!Settled
        <5> QED BY <1>2, <1>3, <2>1, <3>3, <4>3, <5>1 DEF Creation!Clears, Creation!AcknowledgementApplies
      <4> QED BY <4>2, <4>3
    <3>4. CASE w # v
      <4>1. key' = key
        BY <1>9, <3>2, <3>4
      <4> QED BY <1>3, <2>1, <3>1, <3>4, <4>1
              DEF OnPage, Creation!KeptIsWhatWasNotCreated, Creation!Settled, Creation!AcknowledgementApplies
    <3> QED BY <3>3, <3>4
  <2> QED BY <2>2, <2>3
<1> QED BY <1>11, <1>12, <1>13 DEF OnPage

-----------------------------------------------------------------------------
(* Every behaviour *)

LEMMA CreationStarts == ASSUME Creation!Init PROVE Creation!CreationInvariant
<1>1. /\ Creation!Closed.place = "unborn" /\ DOMAIN Creation!Closed = PageFields /\ Creation!Idle.stage = "idle"
  BY DEF Creation!Closed, Creation!Idle, PageFields
<1>2. /\ visit = [v \in Creation!Visits |-> Creation!Closed] /\ mutation = [v \in Creation!Visits |-> Creation!Idle]
      /\ apps = <<>> /\ commands = {} /\ DOMAIN key = {"fields", "of"}
  BY DEF Creation!Init
<1>3. OnPage
  BY <1>1, <1>2 DEF OnPage, Creation!PagesAreSound, Creation!PressesAreSound, Creation!KeptIsWhatWasNotCreated, Creation!Open, Creation!Pending,
     PageFields
<1>4. OnServer
  BY <1>2 DEF OnServer, Creation!NoSilentRepeat, Creation!CreatesWhatIsOnScreen
<1> QED BY <1>3, <1>4, InTwoParts

LEMMA CreationGoesOn ==
  ASSUME Creation!CreationInvariant, [Creation!Next]_(Creation!vars)
  PROVE  Creation!CreationInvariant'
<1>1. OnPage /\ OnServer
  BY InTwoParts
<1>2. CASE UNCHANGED Creation!vars
  BY <1>1, <1>2, PageStays, ServerStays, InTwoPartsAfter DEF Creation!vars
<1>3. ASSUME NEW v \in Creation!Visits, Creation!Reader(v)
      PROVE  OnPage' /\ OnServer'
  <2>1. ASSUME NEW t, Creation!Mount(v, t) PROVE OnPage' /\ OnServer'
    BY <1>1, <2>1, MountKeeps, ServerStays DEF Creation!Mount
  <2>2. ASSUME NEW f, NEW ok \in BOOLEAN, Creation!Edit(v, f, ok) PROVE OnPage' /\ OnServer'
    <3>1. UNCHANGED <<apps, commands>>
      BY <2>2 DEF Creation!Edit
    <3> QED BY <1>1, <2>2, <3>1, EditKeeps, ServerStays
  <2>3. ASSUME NEW ok \in BOOLEAN, Creation!Hidden(v, ok) PROVE OnPage' /\ OnServer'
    BY <1>1, <2>3, WritingKeeps, ServerStays DEF Creation!Hidden, Creation!Written
  <2>4. ASSUME NEW ok \in BOOLEAN, Creation!Leave(v, ok) \/ Creation!Unload(v, ok) PROVE OnPage' /\ OnServer'
    BY <1>1, <2>4, LeavingKeeps, ServerStays DEF Creation!Leave, Creation!Unload
  <2>5. CASE Creation!Crash(v)
    BY <1>1, <2>5, CrashKeeps, ServerStays DEF Creation!Crash
  <2>6. CASE Creation!Press(v)
    BY <1>1, <2>6, PressKeeps
  <2>7. CASE Creation!Lost(v)
    BY <1>1, <2>7, LostKeeps
  <2> QED BY <1>3, <2>1, <2>2, <2>3, <2>4, <2>5, <2>6, <2>7 DEF Creation!Reader
<1>4. ASSUME NEW v \in Creation!Visits, Creation!Handles(v)
      PROVE  OnPage' /\ OnServer'
  <2>1. ASSUME NEW ok \in BOOLEAN, Creation!OnCreated(v, ok) PROVE OnPage' /\ OnServer'
    <3>1. UNCHANGED <<apps, commands>>
      BY <2>1 DEF Creation!OnCreated
    <3> QED BY <1>1, <2>1, <3>1, OnCreatedKeeps, ServerStays
  <2> QED BY <1>1, <1>4, <2>1, CheckedKeeps, AnswersKeep DEF Creation!Handles
<1>5. ASSUME NEW v \in Creation!Visits, Creation!Ingests(v)
      PROVE  OnPage' /\ OnServer'
  BY <1>1, <1>5, IngestChecksKeeps, IngestInsertsKeeps DEF Creation!Ingests
<1>6. ASSUME NEW v \in Creation!Visits, NEW ok \in BOOLEAN, Creation!TimerFires(v, ok)
      PROVE  OnPage' /\ OnServer'
  BY <1>1, <1>6, WritingKeeps, ServerStays DEF Creation!TimerFires, Creation!Written
<1> QED BY <1>2, <1>3, <1>4, <1>5, <1>6, InTwoPartsAfter DEF Creation!Next

\* What the three properties of a creation rest on, together with them, for any visits, postings
\* and budgets.
THEOREM CreationIsSound == Creation!Spec => []CreationInvariant
<1>1. Creation!CreationInvariant /\ [Creation!Next]_(Creation!vars) => Creation!CreationInvariant'
  BY CreationGoesOn
<1> QED BY <1>1, CreationStarts, PTL DEF Creation!Spec, CreationInvariant

(* An Application like one the server knew of is created only by a reader  *)
(* who was shown matches for that intake                                   *)
(* (useApplicationIntakeSubmission.ts:63, intake.py:123).                  *)
THEOREM RepeatsAreAskedFor == Creation!Spec => []NoSilentRepeat
<1>1. CreationInvariant => NoSilentRepeat
  BY DEF CreationInvariant, Creation!CreationInvariant, NoSilentRepeat
<1> QED BY <1>1, CreationIsSound, PTL

(* What the server is told to create is what the form held when it was told *)
(* (useApplicationIntakeSubmission.ts:69).                                  *)
THEOREM CreatedIsWhatWasShown == Creation!Spec => []CreatesWhatIsOnScreen
<1>1. CreationInvariant => CreatesWhatIsOnScreen
  BY DEF CreationInvariant, Creation!CreationInvariant, CreatesWhatIsOnScreen
<1> QED BY <1>1, CreationIsSound, PTL

(* A page leaves in the storage what was in its form and was not created   *)
(* (useApplicationIntakeDraft.ts:75, :112).                                *)
THEOREM DraftsAreWhatWasNotCreated == Creation!Spec => []KeptIsWhatWasNotCreated
<1>1. CreationInvariant => KeptIsWhatWasNotCreated
  BY DEF CreationInvariant, Creation!CreationInvariant, KeptIsWhatWasNotCreated
<1> QED BY <1>1, CreationIsSound, PTL
=============================================================================
