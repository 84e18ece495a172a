------------------------- MODULE OperationWorkers --------------------------
(***************************************************************************)
(* The Operation queue and the worker processes that serve it.             *)
(*                                                                         *)
(* Users submit, cancel and retry Operations and edit the sources an       *)
(* Operation was frozen against.  A worker process holds the database's    *)
(* single worker slot, interrupts every claim it finds, and lets its pool  *)
(* threads claim queued rows, execute them outside every transaction, and  *)
(* activate the result in one REPEATABLE READ transaction.  A process may  *)
(* crash, be asked to stop, or lose its slot and not know it yet.          *)
(*                                                                         *)
(* One step is one database transaction, except where a transaction has a  *)
(* window that matters: its snapshot is taken in one step and it commits,  *)
(* or is refused with 40001, in a later one.                               *)
(***************************************************************************)
EXTENDS OperationRows, FiniteSets

CONSTANTS
  Threads,        \* pool threads of all the worker processes
  Host,           \* Host[t]: the worker process thread t belongs to
  NoSnapshot,     \* what a thread outside a transaction has seen
  MaxOperations,  \* bound on the rows ever inserted
  Budget,         \* bound on each kind of disturbance
  AckLoss         \* TRUE: a commit's acknowledgement may be lost

Disturbances == {"edit", "stop", "loss", "crash"}

ASSUME HostAssumption == Host \in [Threads -> Runners]
ASSUME MaxOperationsAssumption == MaxOperations \in Nat
ASSUME BudgetAssumption == Budget \in [Disturbances -> Nat]
ASSUME AckLossAssumption == AckLoss \in BOOLEAN

VARIABLES
  operations,  \* the rows, in creation order
  text,        \* text[a]: the hash of application a's job text
  document,    \* document[a]: its CV document
  files,       \* the render attempts whose files exist, by Operation
  worker,      \* worker[r]: what process r is doing
  slot,        \* the process holding the advisory lock
  active,      \* active[r]: _active_ids
  toCancel,    \* toCancel[r]: what a stopping process has yet to ask for
  pc,          \* pc[t]: where thread t is
  current,     \* current[t]: the row it claimed
  candidates,  \* candidates[t]: the rows its claim has yet to try
  seen,        \* seen[t]: the snapshot of its open transaction
  failing,     \* failing[t]: the failure it is about to record
  prepared,    \* prepared[t]: whether execution produced a value
  held,        \* held[t]: the attempts whose files it would discard
  spent        \* spent[k]: how often k has happened

rowVars == <<operations>>
sourceVars == <<text, document>>
hostVars == <<worker, slot, toCancel, spent>>
threadVars == <<pc, current, candidates, seen, failing, prepared, held>>
vars == <<rowVars, sourceVars, files, hostVars, active, threadVars>>

-----------------------------------------------------------------------------
(* Values *)

Ids == 1..Len(operations)
IdBound == 1..MaxOperations

\* hash 0: the application has no document.  `files` and `error` name the
\* Operation whose render or whose failure the document records.  Nothing names
\* the hash of a document before it exists, so the first one is 1.
Documents == [hash: 0..MaxHash, files: 0..MaxOperations, error: 0..MaxOperations]
NoDocument == [hash |-> 0, files |-> 0, error |-> 0]
NewDocument == [hash |-> 1, files |-> 0, error |-> 0]

Snapshots == [row: Rows, document: Documents, text: Hashes]

WorkerStates == {"down", "starting", "serving", "stopping"}

\* A thread with no claimed row, and a thread at each point of run_claimed.
Free == {"idle", "submitted", "claiming", "crashed"}
Busy == {"claimed", "verifying", "verified", "ready", "executing", "recording",
         "executed", "checked", "activating", "activated", "completing", "failing",
         "failed", "finished"}

Row(t) == operations[current[t]]

SourcesHold(row, d, x) ==
  IF row.type = "analyze_job" THEN x = row.expected ELSE d.hash = row.expected

TypeOK ==
  /\ operations \in Seq(Rows) /\ Len(operations) <= MaxOperations
  /\ text \in [Applications -> Hashes]
  /\ document \in [Applications -> Documents]
  /\ files \subseteq IdBound
  /\ worker \in [Runners -> WorkerStates]
  /\ slot \in Runners \union {NoRunner}
  /\ active \in [Runners -> SUBSET Ids]
  /\ toCancel \in [Runners -> SUBSET Ids]
  /\ pc \in [Threads -> Free \union Busy]
  /\ current \in [Threads -> {0} \union Ids]
  /\ candidates \in [Threads -> SUBSET Ids]
  /\ seen \in [Threads -> Snapshots \union {NoSnapshot}]
  /\ failing \in [Threads -> Failures]
  /\ prepared \in [Threads -> BOOLEAN]
  /\ held \in [Threads -> SUBSET IdBound]
  /\ spent \in [Disturbances -> Nat]

\* A document that exists at the start has never been rendered.
Init ==
  /\ operations = <<>>
  /\ text = [a \in Applications |-> 1]
  /\ document \in [Applications -> {NoDocument, NewDocument}]
  /\ files = {}
  /\ worker = [r \in Runners |-> "down"]
  /\ slot = NoRunner
  /\ active = [r \in Runners |-> {}]
  /\ toCancel = [r \in Runners |-> {}]
  /\ pc = [t \in Threads |-> "idle"]
  /\ current = [t \in Threads |-> 0]
  /\ candidates = [t \in Threads |-> {}]
  /\ seen = [t \in Threads |-> NoSnapshot]
  /\ failing = [t \in Threads |-> "none"]
  /\ prepared = [t \in Threads |-> FALSE]
  /\ held = [t \in Threads |-> {}]
  /\ spent = [k \in Disturbances |-> 0]

-----------------------------------------------------------------------------
(* Users *)

\* One use of the budget for k.
Spend(k) ==
  /\ spent[k] < Budget[k]
  /\ spent' = [spent EXCEPT ![k] = @ + 1]

\* The document hash or the job text a new Operation is frozen against.
Source(a, type) == IF type = "analyze_job" THEN text[a] ELSE document[a].hash

Enqueue(row) ==
  /\ Len(operations) < MaxOperations
  /\ operations' = Append(operations, row)

\* Mutant: no document is asked for.
SubmitWithoutDocument(a, type) ==
  /\ Enqueue(QueuedRow(a, type, Source(a, type)))
  /\ UNCHANGED <<sourceVars, files, hostVars, active, threadVars>>

Submit(a, type) ==
  /\ Source(a, type) # 0
  /\ Enqueue(QueuedRow(a, type, Source(a, type)))
  /\ UNCHANGED <<sourceVars, files, hostVars, active, threadVars>>

RequestCancel(i) ==
  /\ operations' = [operations EXCEPT ![i] = Requested(@)]
  /\ UNCHANGED <<sourceVars, files, hostVars, active, threadVars>>

\* A document Operation is retried against the document as it is now, an
\* analysis against the job text it was frozen with.
Retry(i) ==
  LET row == operations[i]
      a == row.application
      isAnalysis == row.type = "analyze_job"
  IN /\ Retryable(row)
     /\ isAnalysis \/ document[a].hash # 0
     /\ Enqueue(QueuedRow(a, row.type,
                          IF isAnalysis THEN row.expected ELSE document[a].hash))
     /\ UNCHANGED <<sourceVars, files, hostVars, active, threadVars>>

EditText(a, x) ==
  /\ x # text[a]
  /\ text' = [text EXCEPT ![a] = x]
  /\ Spend("edit")
  /\ UNCHANGED <<rowVars, document, files, worker, slot, toCancel, active, threadVars>>

\* update_document and set_document_template: another hash, the same render.
EditDocument(a, h) ==
  /\ document[a].hash \notin {0, h}
  /\ document' = [document EXCEPT ![a].hash = h]
  /\ Spend("edit")
  /\ UNCHANGED <<rowVars, text, files, worker, slot, toCancel, active, threadVars>>

UserStep ==
  \/ \E a \in Applications :
       \/ \E type \in Kinds : Submit(a, type)
       \/ \E x \in Hashes : EditText(a, x) \/ EditDocument(a, x)
  \/ \E i \in Ids : RequestCancel(i) \/ Retry(i)

-----------------------------------------------------------------------------
(* A pool thread claims *)

Goto(t, label) == pc' = [pc EXCEPT ![t] = label]

SubmitRun(t) ==
  /\ pc[t] = "idle" /\ worker[Host[t]] = "serving"
  /\ Goto(t, "submitted")
  /\ UNCHANGED <<rowVars, sourceVars, files, hostVars, active, current, candidates,
                 seen, failing, prepared, held>>

\* The candidate query, on the claim transaction's snapshot.
BeginClaim(t) ==
  /\ pc[t] = "submitted"
  /\ candidates' = [candidates EXCEPT ![t] = {i \in Ids : Claimable(operations, i)}]
  /\ Goto(t, "claiming")
  /\ UNCHANGED <<rowVars, sourceVars, files, hostVars, active, current, seen, failing,
                 prepared, held>>

Oldest(S) == {i \in S : \A j \in S : i <= j}

\* Mutant: the oldest candidate still queued is claimed, and no index refuses it.
TryClaimOnSnapshot(t) ==
  /\ pc[t] = "claiming"
  /\ \E i \in Oldest({j \in candidates[t] : operations[j].status = "queued"}) :
       /\ operations' = [operations EXCEPT ![i] = Claimed(@, Host[t])]
       /\ current' = [current EXCEPT ![t] = i]
  /\ candidates' = [candidates EXCEPT ![t] = {}]
  /\ Goto(t, "claimed")
  /\ UNCHANGED <<sourceVars, files, hostVars, active, seen, failing, prepared, held>>

\* One savepoint: the oldest candidate left is claimed if it is still queued and
\* no unique index refuses it, and is passed over otherwise.
TryClaim(t) ==
  /\ pc[t] = "claiming"
  /\ \E i \in Oldest(candidates[t]) :
       \/ /\ Claimable(operations, i)
          /\ operations' = [operations EXCEPT ![i] = Claimed(@, Host[t])]
          /\ current' = [current EXCEPT ![t] = i]
          /\ candidates' = [candidates EXCEPT ![t] = {}]
          /\ Goto(t, "claimed")
       \/ /\ ~Claimable(operations, i)
          /\ candidates' = [candidates EXCEPT ![t] = @ \ {i}]
          /\ UNCHANGED <<operations, current, pc>>
  /\ UNCHANGED <<sourceVars, files, hostVars, active, seen, failing, prepared, held>>

NothingToClaim(t) ==
  /\ pc[t] = "claiming" /\ candidates[t] = {}
  /\ Goto(t, "idle")
  /\ UNCHANGED <<rowVars, sourceVars, files, hostVars, active, current, candidates, seen,
                 failing, prepared, held>>

Register(t) ==
  /\ pc[t] = "claimed"
  /\ active' = [active EXCEPT ![Host[t]] = @ \union {current[t]}]
  /\ Goto(t, "verifying")
  /\ UNCHANGED <<rowVars, sourceVars, files, hostVars, current, candidates, seen, failing,
                 prepared, held>>

-----------------------------------------------------------------------------
(* run_claimed up to activation: nothing here holds a transaction open *)

\* handler.discard: delete the files of an attempt that will not activate.
Discard(t) ==
  /\ files' = files \ held[t]
  /\ held' = [held EXCEPT ![t] = {}]

FailWith(t, code) ==
  /\ failing' = [failing EXCEPT ![t] = code]
  /\ Goto(t, "failing")

Verify(t) ==
  LET a == Row(t).application
  IN /\ pc[t] = "verifying"
     /\ \/ /\ SourcesHold(Row(t), document[a], text[a])
           /\ Goto(t, "verified")
           /\ UNCHANGED failing
        \/ /\ ~SourcesHold(Row(t), document[a], text[a])
           /\ FailWith(t, "PERMANENT")
     /\ UNCHANGED <<rowVars, sourceVars, files, hostVars, active, current, candidates, seen,
                    prepared, held>>

Precheck(t) ==
  /\ pc[t] = "verified"
  /\ Goto(t, IF Row(t).cancelRequested THEN "completing" ELSE "ready")
  /\ UNCHANGED <<rowVars, sourceVars, files, hostVars, active, current, candidates, seen,
                 failing, prepared, held>>

\* A handler that no longer owns the row prepares nothing and says nothing.
BeginExecution(t) ==
  LET i == current[t]
      renders == Row(t).type = "render_document"
  IN /\ pc[t] = "ready"
     /\ \/ /\ StillOwned(Row(t), Host[t])
           /\ Goto(t, "executing")
           /\ IF renders
                THEN /\ files' = files \union {i}
                     /\ held' = [held EXCEPT ![t] = {i}]
                ELSE UNCHANGED <<files, held>>
        \/ /\ ~StillOwned(Row(t), Host[t])
           /\ Goto(t, "executed")
           /\ UNCHANGED <<files, held>>
     /\ UNCHANGED <<rowVars, sourceVars, hostVars, active, current, candidates, seen,
                    failing, prepared>>

ExecutionSucceeds(t) ==
  /\ pc[t] = "executing"
  /\ prepared' = [prepared EXCEPT ![t] = TRUE]
  /\ Goto(t, "executed")
  /\ UNCHANGED <<rowVars, sourceVars, files, hostVars, active, current, candidates, seen,
                 failing, held>>

\* Provider or rendering failure; a failed check or a failed browser of a render
\* goes on to record itself on the document.
ExecutionFails(t) ==
  /\ pc[t] = "executing"
  /\ Discard(t)
  /\ \/ \E code \in {"RETRYABLE", "PERMANENT"} : FailWith(t, code)
     \/ /\ Row(t).type = "render_document"
        /\ Goto(t, "recording")
        /\ UNCHANGED failing
  /\ UNCHANGED <<rowVars, sourceVars, hostVars, active, current, candidates, seen, prepared>>

\* ExecutionStopped: a provider retry was due, but the row is no longer owned.
ExecutionStops(t) ==
  /\ pc[t] = "executing" /\ Row(t).type # "render_document"
  /\ ~StillOwned(Row(t), Host[t])
  /\ Goto(t, "completing")
  /\ UNCHANGED <<rowVars, sourceVars, files, hostVars, active, current, candidates, seen,
                 failing, prepared, held>>

\* record_render_error, at the frozen hash only; its own transaction may also be
\* refused by a concurrent one.
RecordFailure(t) ==
  LET a == Row(t).application
  IN /\ pc[t] = "recording"
     /\ document' = IF document[a].hash = Row(t).expected
                      THEN [document EXCEPT ![a].error = current[t]]
                      ELSE document
     /\ FailWith(t, "RETRYABLE")
     /\ UNCHANGED <<rowVars, text, files, hostVars, active, current, candidates, seen,
                    prepared, held>>

RecordFailureRefused(t) ==
  /\ pc[t] = "recording"
  /\ FailWith(t, "RETRYABLE")
  /\ UNCHANGED <<rowVars, sourceVars, files, hostVars, active, current, candidates, seen,
                 prepared, held>>

CheckCancelled(t) ==
  /\ pc[t] = "executed"
  /\ \/ /\ Row(t).cancelRequested
        /\ Discard(t)
        /\ Goto(t, "completing")
     \/ /\ ~Row(t).cancelRequested
        /\ Goto(t, "checked")
        /\ UNCHANGED <<files, held>>
  /\ UNCHANGED <<rowVars, sourceVars, hostVars, active, current, candidates, seen, failing,
                 prepared>>

Execution(t) ==
  \/ Verify(t) \/ Precheck(t) \/ BeginExecution(t) \/ ExecutionSucceeds(t)
  \/ ExecutionFails(t) \/ ExecutionStops(t) \/ RecordFailure(t) \/ RecordFailureRefused(t)
  \/ CheckCancelled(t)

-----------------------------------------------------------------------------
(* _activate: one transaction, from the Application lock to the commit *)

\* Taking the Application lock fixes the snapshot every later read uses.
BeginActivation(t) ==
  LET a == Row(t).application
  IN /\ pc[t] = "checked"
     /\ seen' = [seen EXCEPT ![t] = [row |-> Row(t), document |-> document[a],
                                     text |-> text[a]]]
     /\ Goto(t, "activating")
     /\ UNCHANGED <<rowVars, sourceVars, files, hostVars, active, current, candidates,
                    failing, prepared, held>>

\* 40001: something the transaction locks or writes has changed since its snapshot.
RowMoved(t) == Row(t) # seen[t].row

\* Mutant: the document row is not locked.
TextMoved(t) == text[Row(t).application] # seen[t].text

SourcesMoved(t) ==
  LET a == Row(t).application
  IN document[a] # seen[t].document \/ text[a] # seen[t].text

\* Any exception rolls back, discards, and goes on to record the failure.
ActivationFails(t, code) ==
  /\ Discard(t)
  /\ FailWith(t, code)
  /\ UNCHANGED <<rowVars, sourceVars, prepared>>

\* What activation writes to the document of row i, from the snapshot.
DocumentsAfter(i, d) ==
  LET row == operations[i]
  IN CASE row.type = "analyze_job" ->
            {IF d.hash = 0 THEN NewDocument ELSE d}
       [] row.type = "create_draft" -> {[d EXCEPT !.hash = h] : h \in Hashes \ {d.hash}}
       [] row.type = "render_document" -> {[d EXCEPT !.files = i, !.error = 0]}

\* §9: the analysis that created the document may queue its draft, at the new hash.
Continuations(row, old, new) ==
  IF row.type = "analyze_job" /\ old.hash = 0 /\ Len(operations) < MaxOperations
    THEN {<<>>, <<QueuedRow(row.application, "create_draft", new.hash)>>}
    ELSE {<<>>}

\* Mutant: READ COMMITTED, where completing a row that is no longer running
\* matches nothing and the document is written all the same.
CommitUnfenced(t) ==
  LET i == current[t]
      a == Row(t).application
  IN /\ ~SourcesMoved(t) /\ prepared[t] /\ ~seen[t].row.cancelRequested
     /\ \E d \in DocumentsAfter(i, document[a]) : document' = [document EXCEPT ![a] = d]
     /\ operations' = IF Leased(Row(t), Host[t])
                        THEN [operations EXCEPT ![i] = Activated(@)] ELSE operations
     /\ held' = [held EXCEPT ![t] = {}]
     /\ Goto(t, "activated")
     /\ UNCHANGED <<text, files, failing, prepared>>

\* The commit.  When its acknowledgement is lost the runner sees an exception,
\* and treats what is now committed as an attempt to discard.
CommitActivation(t) ==
  LET i == current[t]
      a == Row(t).application
  IN /\ ~RowMoved(t) /\ ~SourcesMoved(t)
     /\ Leased(seen[t].row, Host[t]) /\ ~seen[t].row.cancelRequested
     /\ prepared[t]
     /\ \E d \in DocumentsAfter(i, document[a]) :
        \E more \in Continuations(Row(t), document[a], d) :
          /\ operations' = [operations EXCEPT ![i] = Activated(@)] \o more
          /\ document' = [document EXCEPT ![a] = d]
     /\ \/ /\ held' = [held EXCEPT ![t] = IF Row(t).type = "render_document"
                                            THEN {document[a].files} \ {0} ELSE {}]
           /\ Goto(t, "activated")
           /\ UNCHANGED <<files, failing>>
        \/ AckLoss /\ Discard(t) /\ FailWith(t, "RETRYABLE")
     /\ UNCHANGED <<text, prepared>>

\* Mutant: the runner forgets to discard a result cancelled under the lock.
CommitCancelledKeepsFiles(t) ==
  /\ ~RowMoved(t)
  /\ Leased(seen[t].row, Host[t]) /\ seen[t].row.cancelRequested
  /\ operations' = [operations EXCEPT ![current[t]] = Completed(@)]
  /\ held' = [held EXCEPT ![t] = {}]
  /\ Goto(t, "finished")
  /\ UNCHANGED <<sourceVars, files, failing, prepared>>

\* Cancelled under the lock: completed as cancelled, and nothing is activated.
CommitCancelled(t) ==
  /\ ~RowMoved(t)
  /\ Leased(seen[t].row, Host[t]) /\ seen[t].row.cancelRequested
  /\ operations' = [operations EXCEPT ![current[t]] = Completed(@)]
  /\ Discard(t)
  /\ Goto(t, "finished")
  /\ UNCHANGED <<sourceVars, failing, prepared>>

Activate(t) ==
  LET row == seen[t].row
      sourcesHeld == SourcesHold(row, seen[t].document, seen[t].text)
  IN /\ pc[t] = "activating"
     /\ \/ ~sourcesHeld /\ ActivationFails(t, "PERMANENT")
        \/ (RowMoved(t) \/ SourcesMoved(t)) /\ ActivationFails(t, "RETRYABLE")
        \/ /\ sourcesHeld
           /\ \/ CommitCancelled(t)
              \/ CommitActivation(t)
              \* the lease is lost, or execution prepared nothing
              \/ /\ ~Leased(row, Host[t]) \/ (~prepared[t] /\ ~row.cancelRequested)
                 /\ ActivationFails(t, "RETRYABLE")
              \* the analysis context or the approval no longer holds
              \/ /\ row.type # "create_draft" /\ prepared[t] /\ ~row.cancelRequested
                 /\ ActivationFails(t, "PERMANENT")
     /\ seen' = [seen EXCEPT ![t] = NoSnapshot]
     /\ UNCHANGED <<hostVars, active, current, candidates>>

\* Mutant: after_activation discards the attempt, not what it superseded.
AfterActivationDiscardsAttempt(t) ==
  /\ pc[t] = "activated"
  /\ files' = files \ {current[t]}
  /\ held' = [held EXCEPT ![t] = {}]
  /\ Goto(t, "finished")
  /\ UNCHANGED <<rowVars, sourceVars, hostVars, active, current, candidates, seen, failing,
                 prepared>>

\* after_activation: delete the files the committed render superseded.
AfterActivation(t) ==
  /\ pc[t] = "activated"
  /\ Discard(t)
  /\ Goto(t, "finished")
  /\ UNCHANGED <<rowVars, sourceVars, hostVars, active, current, candidates, seen, failing,
                 prepared>>

-----------------------------------------------------------------------------
(* _complete and _fail: a refused write leaves the row running and raises *)

\* The crashed thread's future keeps the exception; the thread runs nothing more.
ThreadCrashes(t) ==
  /\ Goto(t, "crashed")
  /\ active' = [active EXCEPT ![Host[t]] = @ \ {current[t]}]
  /\ current' = [current EXCEPT ![t] = 0]
  /\ failing' = [failing EXCEPT ![t] = "none"]
  /\ prepared' = [prepared EXCEPT ![t] = FALSE]

Complete(t) ==
  /\ pc[t] = "completing"
  /\ \/ /\ Leased(Row(t), Host[t])
        /\ operations' = [operations EXCEPT ![current[t]] = Completed(@)]
        /\ Goto(t, "finished")
        /\ UNCHANGED <<active, current, failing, prepared>>
     \/ /\ ~Leased(Row(t), Host[t])
        /\ ThreadCrashes(t)
        /\ UNCHANGED operations
  /\ UNCHANGED <<sourceVars, files, hostVars, candidates, seen, held>>

\* The UPDATE of fail_operation may wait for a row lock, so its snapshot may be
\* older than the row it writes.  Only the row matters to it.
BeginFail(t) ==
  /\ pc[t] = "failing"
  /\ seen' = [seen EXCEPT ![t] = [row |-> Row(t), document |-> NoDocument, text |-> 1]]
  /\ Goto(t, "failed")
  /\ UNCHANGED <<rowVars, sourceVars, files, hostVars, active, current, candidates, failing,
                 prepared, held>>

Fail(t) ==
  LET writable == Leased(seen[t].row, Host[t]) /\ ~RowMoved(t)
  IN /\ pc[t] = "failed"
     /\ \/ /\ writable
           /\ operations' = [operations EXCEPT ![current[t]] = Failed(@, failing[t])]
           /\ Goto(t, "finished")
           /\ UNCHANGED <<active, current, failing, prepared>>
        \/ /\ ~writable
           /\ ThreadCrashes(t)
           /\ UNCHANGED operations
     /\ seen' = [seen EXCEPT ![t] = NoSnapshot]
     /\ UNCHANGED <<sourceVars, files, hostVars, candidates, held>>

Finish(t) ==
  /\ pc[t] = "finished"
  /\ Goto(t, "idle")
  /\ active' = [active EXCEPT ![Host[t]] = @ \ {current[t]}]
  /\ current' = [current EXCEPT ![t] = 0]
  /\ failing' = [failing EXCEPT ![t] = "none"]
  /\ prepared' = [prepared EXCEPT ![t] = FALSE]
  /\ UNCHANGED <<rowVars, sourceVars, files, hostVars, candidates, seen, held>>

Claiming(t) == SubmitRun(t) \/ BeginClaim(t) \/ TryClaim(t) \/ NothingToClaim(t) \/ Register(t)

Activation(t) == BeginActivation(t) \/ Activate(t) \/ AfterActivation(t)

Ending(t) == Complete(t) \/ BeginFail(t) \/ Fail(t) \/ Finish(t)

ThreadStep(t) == Claiming(t) \/ Execution(t) \/ Activation(t) \/ Ending(t)

-----------------------------------------------------------------------------
(* A worker process *)

ThreadsOf(r) == {t \in Threads : Host[t] = r}

\* worker_exclusivity: a process that cannot take the lock exits at once.
StartWorker(r) ==
  /\ worker[r] = "down" /\ slot = NoRunner
  /\ worker' = [worker EXCEPT ![r] = "starting"]
  /\ slot' = r
  /\ UNCHANGED <<rowVars, sourceVars, files, toCancel, active, spent, threadVars>>

\* interrupt_claims_from_previous_runners
Recover(r) ==
  /\ worker[r] = "starting"
  /\ operations' = [i \in Ids |-> Interrupted(operations[i])]
  /\ worker' = [worker EXCEPT ![r] = "serving"]
  /\ UNCHANGED <<sourceVars, files, slot, toCancel, active, spent, threadVars>>

\* The loop ends; what is active at that moment is asked to cancel, except
\* when it ends by the exception a crashed thread's future re-raises.
StopServing(r, ask) ==
  /\ worker[r] = "serving"
  /\ worker' = [worker EXCEPT ![r] = "stopping"]
  /\ toCancel' = [toCancel EXCEPT ![r] = ask]
  /\ UNCHANGED <<rowVars, sourceVars, files, slot, active, threadVars>>

NoticeStop(r) == StopServing(r, active[r]) /\ Spend("stop")

NoticeLostSlot(r) == slot # r /\ StopServing(r, active[r]) /\ UNCHANGED spent

\* Mutant: the loop swallows the exception of a crashed thread and goes on.
WorkerSwallowsFailure(r) ==
  /\ worker[r] = "serving"
  /\ \E t \in ThreadsOf(r) : pc[t] = "crashed" /\ Goto(t, "idle")
  /\ UNCHANGED <<rowVars, sourceVars, files, hostVars, active, current, candidates, seen,
                 failing, prepared, held>>

WorkerFails(r) ==
  /\ \E t \in ThreadsOf(r) : pc[t] = "crashed"
  /\ StopServing(r, {})
  /\ UNCHANGED spent

\* Mutant: the stopping loop asks for the same row for ever.
RequestHeldCancelForever(r, i) ==
  /\ worker[r] = "stopping" /\ i \in toCancel[r]
  /\ operations' = [operations EXCEPT ![i] = Requested(@)]
  /\ UNCHANGED <<sourceVars, files, hostVars, active, threadVars>>

RequestHeldCancel(r, i) ==
  /\ worker[r] = "stopping" /\ i \in toCancel[r]
  /\ operations' = [operations EXCEPT ![i] = Requested(@)]
  /\ toCancel' = [toCancel EXCEPT ![r] = @ \ {i}]
  /\ UNCHANGED <<sourceVars, files, worker, slot, active, spent, threadVars>>

\* The process is gone: its threads, its memory and its lock session with it.
ProcessEnds(r) ==
  LET reset(f, v) == [t \in Threads |-> IF Host[t] = r THEN v ELSE f[t]]
  IN /\ worker' = [worker EXCEPT ![r] = "down"]
     /\ slot' = IF slot = r THEN NoRunner ELSE slot
     /\ active' = [active EXCEPT ![r] = {}]
     /\ toCancel' = [toCancel EXCEPT ![r] = {}]
     /\ pc' = reset(pc, "idle")
     /\ current' = reset(current, 0)
     /\ candidates' = reset(candidates, {})
     /\ seen' = reset(seen, NoSnapshot)
     /\ failing' = reset(failing, "none")
     /\ prepared' = reset(prepared, FALSE)
     /\ held' = reset(held, {})
     /\ UNCHANGED <<rowVars, sourceVars, files>>

\* The executor's exit waits for every submitted run_once.
WorkerExits(r) ==
  /\ worker[r] = "stopping" /\ toCancel[r] = {}
  /\ \A t \in ThreadsOf(r) : pc[t] \in {"idle", "crashed"}
  /\ ProcessEnds(r)
  /\ UNCHANGED spent

\* At any point; startup recovery refused by a concurrent write ends the same way.
Crash(r) ==
  /\ worker[r] # "down"
  /\ ProcessEnds(r)
  /\ Spend("crash")

\* The lock session ends under a live worker.
LoseSlot(r) ==
  /\ slot = r
  /\ slot' = NoRunner
  /\ Spend("loss")
  /\ UNCHANGED <<rowVars, sourceVars, files, worker, toCancel, active, threadVars>>

HostStep(r) ==
  \/ StartWorker(r) \/ Recover(r) \/ NoticeLostSlot(r) \/ WorkerFails(r)
  \/ \E i \in toCancel[r] : RequestHeldCancel(r, i)
  \/ WorkerExits(r)

FaultStep(r) == NoticeStop(r) \/ Crash(r) \/ LoseSlot(r)

Next ==
  \/ UserStep
  \/ \E t \in Threads : ThreadStep(t)
  \/ \E r \in Runners : HostStep(r) \/ FaultStep(r)

\* Threads run, provider calls and renders end, and the supervisor keeps
\* starting a worker; users and faults owe nothing.
Fairness ==
  /\ \A t \in Threads : WF_vars(ThreadStep(t))
  /\ \A r \in Runners : WF_vars(HostStep(r))

Spec == Init /\ [][Next]_vars /\ Fairness
-----------------------------------------------------------------------------
(* Safety *)

Terminal(i) == operations[i].status \in TerminalStatuses
Succeeded(i) == operations[i].status = "succeeded"

\* Outputs and success coincide: record_operation_output and complete_operation
\* commit together, and no completion without a cancellation skips activation.
OutputIffSucceeded == \A i \in Ids : operations[i].outputs <=> Succeeded(i)

\* An Operation somebody asked to cancel never succeeds, whatever the request
\* raced with (§19; complete_operation and the activation's own recheck).
CancelledNeverSucceeds == \A i \in Ids : Succeeded(i) => ~operations[i].cancelRequested

\* architecture.md §10: one running Operation per Application and one running
\* render overall, although claims decide on snapshots and in parallel.
ClaimGuards ==
  \A i, j \in Ids :
    i # j /\ operations[i].status = "running" /\ operations[j].status = "running" =>
      /\ operations[i].application # operations[j].application
      /\ ~(operations[i].type = "render_document" /\ operations[j].type = "render_document")

\* A claimed row has one thread, of the process its lease names; so two workers
\* that both believe they hold the slot never both run one Operation.
ClaimsAreExclusive ==
  \A t, u \in Threads : current[t] # 0 =>
    /\ current[t] = current[u] => t = u
    /\ operations[current[t]].status # "queued"
    /\ operations[current[t]].status = "running" => operations[current[t]].lease = Host[t]

\* The files a document names exist: discard only ever deletes files of attempts
\* that did not activate or that a later render superseded (RenderingService.discard).
FilesReferencedExist ==
  \A a \in Applications : document[a].files # 0 => document[a].files \in files

\* Unless a process crashed, every file is named by a document or is about to be
\* by, or discarded by, a live thread: failure, cancellation and fencing leak nothing.
NoOrphanFiles ==
  spent["crash"] = 0 =>
    \A i \in files :
      \/ \E a \in Applications : document[a].files = i
      \/ \E t \in Threads : i \in held[t]

\* A document's render was produced by an Operation that succeeded: nothing an
\* interrupted, cancelled or failed render did is ever visible on the document.
RendersAreSuccesses ==
  \A a \in Applications :
    LET i == document[a].files
    IN i # 0 => /\ Succeeded(i) /\ operations[i].application = a
                /\ operations[i].type = "render_document"

\* A thread has a row exactly while it is between its claim and its return.
BusyHasRow == \A t \in Threads : pc[t] \in Busy <=> current[t] # 0

\* A thread about to complete without an activation has a row that somebody asked
\* to cancel or that is no longer running: so _complete can only cancel or raise.
CompletingIsOver ==
  \A t \in Threads : pc[t] = "completing" =>
    operations[current[t]].cancelRequested \/ operations[current[t]].status # "running"

\* The inductive strengthening of the invariants above that the proofs rest on.
RowsInvariant ==
  /\ TypeOK
  /\ BusyHasRow
  /\ ClaimsAreExclusive
  /\ CompletingIsOver
  /\ OutputIffSucceeded
  /\ CancelledNeverSucceeds
  /\ ClaimGuards

-----------------------------------------------------------------------------
(* The inductive strengthening of the invariants on files *)

\* Where run_claimed has files of its own to discard.
Rendering == {"executing", "executed", "checked", "activating"}
Unprepared == Free \union {"claimed", "verifying", "verified", "ready", "executing"}

\* What a thread would discard is what its own render stored, until it activates;
\* then it is what a render that succeeded before it stored.
HeldIsKnown ==
  \A t \in Threads : \A i \in held[t] :
    \/ pc[t] \in Rendering /\ i = current[t] /\ Row(t).type = "render_document"
    \/ pc[t] = "activated" /\ i \in Ids /\ Succeeded(i)

\* No two threads would discard the same files, and nobody those a document names.
HeldApart == \A t, u \in Threads : t # u => held[t] \cap held[u] = {}
HeldIsUnnamed == \A t \in Threads, a \in Applications : document[a].files \notin held[t]
HeldExists == \A t \in Threads : held[t] \subseteq files

\* A render that is on its way to its document holds what it stored.
PreparedIsHeld ==
  \A t \in Threads :
    /\ prepared[t] => pc[t] \notin Unprepared
    /\ pc[t] \in Rendering /\ Row(t).type = "render_document"
         /\ (prepared[t] \/ pc[t] = "executing") => held[t] = {current[t]}

\* A document names no files before it exists, and the files it names are of a row.
NamesAreRows ==
  \A a \in Applications :
    /\ document[a].hash = 0 => document[a].files = 0
    /\ document[a].files # 0 => document[a].files \in Ids

FilesInvariant ==
  /\ NamesAreRows /\ RendersAreSuccesses /\ PreparedIsHeld
  /\ HeldIsKnown /\ HeldApart /\ HeldIsUnnamed /\ HeldExists
  /\ FilesReferencedExist /\ NoOrphanFiles

-----------------------------------------------------------------------------
(* What a step may never do *)

\* A terminal row never changes again (the prevent_update_terminal_operations
\* trigger would refuse it: no statement ever tries), and rows are never removed.
TerminalIsFinal ==
  [][\A i \in Ids : i \in DOMAIN operations' /\ (Terminal(i) => operations'[i] = operations[i])]_vars

\* Success activates the frozen sources: at the commit the database, not only the
\* activation's snapshot, still holds the hash or the text the Operation froze.
ActivatesFrozenSources ==
  [][\A i \in Ids :
       LET row == operations[i] IN
       ~Succeeded(i) /\ operations'[i].status = "succeeded" =>
         SourcesHold(row, document[row.application], text[row.application])]_vars

\* What a client sees of the rows is the promised lifecycle.
Job(row) == [application |-> row.application, type |-> row.type, status |-> row.status,
             cancelRequested |-> row.cancelRequested]

Lifecycle == INSTANCE OperationLifecycle
  WITH Types <- OperationTypes, jobs <- [i \in Ids |-> Job(operations[i])]

\* Claims, leases, snapshots, crashes and takeovers implement the promised job
\* lifecycle: OperationLifecycle!Spec under the mapping above.
ImplementsLifecycle == Lifecycle!Spec

-----------------------------------------------------------------------------
(* What eventually happens *)

\* Every Operation ends, despite crashed threads, crashed processes and stops: a
\* refused final write is recovered by the next worker (§10).  It needs the slot
\* never to be lost: a fenced worker may leave a claim no later start recovers.
EveryOperationEnds ==
  \A i \in 1..MaxOperations :
    (i \in DOMAIN operations) ~> (i \in DOMAIN operations /\ Terminal(i))

\* A process that stops serving goes down: executor exit waits for threads that
\* all finish, and no request the stopping loop still has to make blocks it.
StoppingEnds == \A r \in Runners : (worker[r] = "stopping") ~> (worker[r] = "down")

-----------------------------------------------------------------------------
(* What the documentation says and the code does not do *)

\* state-and-use-cases.md §19: a running Operation asked to cancel "ends
\* `cancelled`" (a worker restart interrupts it instead).
CancelledRunsEndCancelled ==
  \A i \in Ids : Terminal(i) /\ operations[i].cancelRequested =>
    operations[i].status \in {"cancelled", "interrupted"}

\* runtime/execution.py, serve: "every runner write [...] requires `lease_owner` to
\* still be this runner"; the render error a runner writes on a document is one.
RunnerWritesRequireLease ==
  [][\A a \in Applications :
       LET i == document'[a].error IN
       i \notin {0, document[a].error} => operations[i].status = "running"]_vars

\* worker_lock.py, worker_exclusivity: "a second worker is refused at start instead
\* of interrupting the first one's live work"; no row is ever interrupted under the
\* process that holds the slot and is serving.
SlotHolderKeepsItsClaims ==
  [][\A i \in Ids :
       operations[i].status = "running" /\ operations'[i].status = "interrupted" =>
         ~\E r \in Runners : slot = r /\ worker[r] = "serving" /\ operations[i].lease = r]_vars

\* worker/runner.py, run_worker: a stop "ends the loop rather than abandoning
\* claimed work"; a process that ended without crashing holds no running row.
StopAbandonsNothing ==
  spent["stop"] > 0 /\ spent["crash"] = 0 =>
    \A r \in Runners, i \in Ids :
      worker[r] = "down" => ~(operations[i].status = "running" /\ operations[i].lease = r)
=============================================================================
