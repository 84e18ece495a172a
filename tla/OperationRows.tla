--------------------------- MODULE OperationRows ---------------------------
(***************************************************************************)
(* The rows of the `operations` table and what each statement of the       *)
(* persistence layer does to them.  An Operation is a durable job: a row   *)
(* is inserted `queued`, claimed by a worker (`running`, with that         *)
(* worker's id as its lease), and ends in one of four terminal statuses.   *)
(*                                                                         *)
(* A row is identified by its position in the sequence of all rows, which  *)
(* is the creation order claims follow; 0 stands for "no Operation".       *)
(***************************************************************************)
EXTENDS Integers, Sequences

CONSTANTS
  Applications,  \* the job applications, each with at most one CV document
  Runners,       \* the ids a worker process stamps on the rows it claims
  NoRunner,      \* the SQL NULL of lease_owner
  Kinds,         \* the operation types in play
  MaxHash        \* bound: job texts and document hashes are 1..MaxHash

\* The three types whose activation differs; regenerate_section and
\* regenerate_claim freeze, verify and write exactly what create_draft does.
OperationTypes == {"analyze_job", "create_draft", "render_document"}

ASSUME RunnersAssumption == NoRunner \notin Runners
ASSUME KindsAssumption == Kinds \subseteq OperationTypes
ASSUME MaxHashAssumption == MaxHash \in Nat /\ MaxHash >= 2

TerminalStatuses == {"succeeded", "failed", "cancelled", "interrupted"}
Statuses == {"queued", "running"} \union TerminalStatuses

\* PERMANENT is a failure of the frozen sources themselves (SOURCE_CHANGED and
\* MISSING_FACT_RENDERING); every code a retry is offered for is RETRYABLE.
Failures == {"none", "PERMANENT", "CANCELLED_BEFORE_ACTIVATION", "RETRYABLE"}

Hashes == 1..MaxHash

Rows == [application: Applications, type: OperationTypes, status: Statuses,
         cancelRequested: BOOLEAN, lease: Runners \union {NoRunner}, failure: Failures,
         expected: Hashes, outputs: BOOLEAN]

-----------------------------------------------------------------------------
(* enqueue *)

\* `expected` is the frozen source: the job text of an analysis, the document
\* hash of anything else.
QueuedRow(a, type, expected) ==
  [application |-> a, type |-> type, status |-> "queued", cancelRequested |-> FALSE,
   lease |-> NoRunner, failure |-> "none", expected |-> expected, outputs |-> FALSE]

\* Mutant: a queued row is only marked, and stays claimable.
RequestedOnlyMarked(row) ==
  IF row.status \in {"queued", "running"} THEN [row EXCEPT !.cancelRequested = TRUE] ELSE row

(* request_cancellation: a queued row ends, a running row is only marked *)
Requested(row) ==
  IF row.status = "queued"
    THEN [row EXCEPT !.status = "cancelled", !.cancelRequested = TRUE]
  ELSE IF row.status = "running" THEN [row EXCEPT !.cancelRequested = TRUE]
  ELSE row

(* the two partial unique indexes and the candidate query's own filter *)
SlotsFree(rows, i) ==
  \A j \in DOMAIN rows : rows[j].status = "running" =>
    /\ rows[j].application # rows[i].application
    /\ ~(rows[j].type = "render_document" /\ rows[i].type = "render_document")

Claimable(rows, i) == rows[i].status = "queued" /\ SlotsFree(rows, i)

Claimed(row, r) == [row EXCEPT !.status = "running", !.lease = r]

(* the guard of complete_operation, fail_operation and execution_still_owned *)
Leased(row, r) == row.status = "running" /\ row.lease = r

StillOwned(row, r) == Leased(row, r) /\ ~row.cancelRequested

\* Mutant: completion does not read the cancellation.
CompletedRegardless(row) == [row EXCEPT !.status = "succeeded", !.lease = NoRunner]

(* complete_operation: the record's own cancellation decides how it ends *)
Completed(row) ==
  IF row.cancelRequested
    THEN [row EXCEPT !.status = "cancelled", !.lease = NoRunner,
                     !.failure = "CANCELLED_BEFORE_ACTIVATION"]
    ELSE [row EXCEPT !.status = "succeeded", !.lease = NoRunner]

(* record_operation_output, then complete_operation, in one activation *)
Activated(row) == Completed([row EXCEPT !.outputs = TRUE])

Failed(row, code) ==
  [row EXCEPT !.status = "failed", !.lease = NoRunner, !.failure = code]

(* interrupt_claims_from_previous_runners *)
Interrupted(row) ==
  IF row.status = "running"
    THEN [row EXCEPT !.status = "interrupted", !.lease = NoRunner]
    ELSE row

(* OperationLifecycleService.retry: terminal, and its frozen sources may still do *)
Retryable(row) == row.status \in TerminalStatuses /\ row.failure # "PERMANENT"
=============================================================================
