---------------------- MODULE OperationWorkers_proofs ----------------------
(***************************************************************************)
(* The safety of OperationWorkers, for any Applications, processes and     *)
(* threads and any bounds.  The first half is type correctness and what    *)
(* each statement does to the table of rows.  In the second a step either  *)
(* claims one row or claims none; what it may then do to a row and to a    *)
(* thread's hold of it is one lemma, from which the inductive invariant    *)
(* RowsInvariant, the finality of ended rows and, row by row, the          *)
(* refinement of OperationLifecycle follow.  The third is about renders    *)
(* and their files: a step leaves the files documents name alone or        *)
(* commits one render, and it stores, moves, discards or keeps what one    *)
(* thread holds.  Its inductive invariant is RowsInvariant with            *)
(* FilesInvariant; its last theorems suppose that the acknowledgement of a *)
(* commit is never lost, for with AckLoss the files a document names may   *)
(* be discarded (lost_ack, README).                                        *)
(***************************************************************************)
EXTENDS OperationWorkers, SequenceTheorems, TLAPS

-----------------------------------------------------------------------------
(* Rows *)

\* Every statement turns a row into a row.
LEMMA RowsStayRows ==
  ASSUME NEW row \in Rows, NEW r \in Runners, NEW code \in Failures
  PROVE  /\ Requested(row) \in Rows
         /\ Claimed(row, r) \in Rows
         /\ Completed(row) \in Rows
         /\ Activated(row) \in Rows
         /\ Failed(row, code) \in Rows
         /\ Interrupted(row) \in Rows
<1> USE DEF Rows, Statuses, TerminalStatuses
<1>1. Requested(row) \in Rows
  BY DEF Requested
<1>2. Claimed(row, r) \in Rows
  BY DEF Claimed
<1>3. Completed(row) \in Rows /\ Activated(row) \in Rows
  BY DEF Completed, Activated, Failures
<1>4. Failed(row, code) \in Rows
  BY DEF Failed
<1>5. Interrupted(row) \in Rows
  BY DEF Interrupted
<1> QED BY <1>1, <1>2, <1>3, <1>4, <1>5

\* A new row is a row when what it is frozen against exists.
LEMMA QueuedRowIsRow ==
  ASSUME NEW a \in Applications, NEW type \in OperationTypes, NEW x \in Hashes
  PROVE  QueuedRow(a, type, x) \in Rows
BY DEF QueuedRow, Rows, Statuses, Failures

\* Writing one row leaves a sequence of rows, and the other rows, as they are.
LEMMA WriteRow ==
  ASSUME NEW rows \in Seq(Rows), NEW i \in 1..Len(rows), NEW row \in Rows
  PROVE  LET next == [rows EXCEPT ![i] = row]
         IN /\ next \in Seq(Rows)
            /\ Len(next) = Len(rows)
            /\ next[i] = row
            /\ \A j \in 1..Len(rows) : j # i => next[j] = rows[j]
BY ExceptSeq

\* Inserting a row keeps every earlier one.
LEMMA InsertRow ==
  ASSUME NEW rows \in Seq(Rows), NEW row \in Rows
  PROVE  LET next == Append(rows, row)
         IN /\ next \in Seq(Rows)
            /\ Len(next) = Len(rows) + 1
            /\ next[Len(rows) + 1] = row
            /\ \A j \in 1..Len(rows) : next[j] = rows[j]
OBVIOUS

\* Recovery rewrites every row in place.
LEMMA RewriteRows ==
  ASSUME NEW rows \in Seq(Rows)
  PROVE  LET next == [i \in 1..Len(rows) |-> Interrupted(rows[i])]
         IN /\ next \in Seq(Rows)
            /\ Len(next) = Len(rows)
            /\ \A j \in 1..Len(rows) : next[j] = Interrupted(rows[j])
<1> DEFINE next == [i \in 1..Len(rows) |-> Interrupted(rows[i])]
<1>1. next \in [1..Len(rows) -> Rows]
  <2> SUFFICES ASSUME NEW i \in 1..Len(rows)
               PROVE  Interrupted(rows[i]) \in Rows
    OBVIOUS
  <2>1. rows[i] \in Rows
    BY ElementOfSeq
  <2> QED BY <2>1 DEF Rows, Interrupted, Statuses, TerminalStatuses
<1> QED BY <1>1, LenProperties

-----------------------------------------------------------------------------
(* Types *)

Types == TypeOK /\ BusyHasRow

\* A busy thread has a row.
LEMMA BusyRow ==
  ASSUME Types, NEW t \in Threads, pc[t] \in Busy
  PROVE  current[t] \in Ids /\ Row(t) \in Rows /\ Row(t).application \in Applications
<1>1. current[t] \in Ids
  BY DEF Types, TypeOK, BusyHasRow
<1>2. Row(t) \in Rows
  BY <1>1, ElementOfSeq DEF Types, TypeOK, Ids, Row
<1> QED BY <1>1, <1>2 DEF Rows

-----------------------------------------------------------------------------
(* The steps of a thread *)

\* A thread that moves on, keeps or lacks its row, and writes no shared state but
\* files it may discard, keeps the types.
LEMMA ThreadMoves ==
  ASSUME Types, NEW t \in Threads, NEW label, Goto(t, label),
         \/ pc[t] \in Free /\ label \in Free
         \/ pc[t] \in Busy /\ label \in Busy,
         UNCHANGED <<rowVars, sourceVars, hostVars, active, current, candidates, seen>>,
         files' \subseteq IdBound, held' \in [Threads -> SUBSET IdBound],
         failing' \in [Threads -> Failures], prepared' \in [Threads -> BOOLEAN]
  PROVE  Types'
<1>1. pc' \in [Threads -> Free \union Busy]
  BY DEF Goto, Types, TypeOK
<1>2. BusyHasRow'
  BY DEF Goto, Types, TypeOK, BusyHasRow, Free, Busy
<1> QED
  BY <1>1, <1>2 DEF Types, TypeOK, Ids, rowVars, sourceVars, hostVars

\* The steps of a thread that are no more than that.
LEMMA ThreadMovesTypes ==
  ASSUME Types, NEW t \in Threads,
         \/ SubmitRun(t) \/ NothingToClaim(t) \/ Verify(t) \/ Precheck(t)
         \/ ExecutionSucceeds(t) \/ ExecutionFails(t) \/ ExecutionStops(t)
         \/ RecordFailureRefused(t) \/ CheckCancelled(t) \/ AfterActivation(t)
  PROVE  Types'
<1>1. /\ files \subseteq IdBound /\ held \in [Threads -> SUBSET IdBound]
      /\ failing \in [Threads -> Failures] /\ prepared \in [Threads -> BOOLEAN]
  BY DEF Types, TypeOK
<1>2. /\ [held EXCEPT ![t] = {}] \in [Threads -> SUBSET IdBound]
      /\ files \ held[t] \subseteq IdBound
      /\ [prepared EXCEPT ![t] = TRUE] \in [Threads -> BOOLEAN]
      /\ \A code \in Failures : [failing EXCEPT ![t] = code] \in [Threads -> Failures]
  <2>1. ASSUME NEW code \in Failures
        PROVE  [failing EXCEPT ![t] = code] \in [Threads -> Failures]
    BY <1>1
  <2> QED BY <1>1, <2>1
<1>3. CASE SubmitRun(t) \/ NothingToClaim(t)
  BY <1>1, <1>3, ThreadMoves DEF SubmitRun, NothingToClaim, Free
<1>4. CASE Verify(t)
  BY <1>1, <1>2, <1>4, ThreadMoves DEF Verify, FailWith, Failures, Busy
<1>5. CASE Precheck(t) \/ ExecutionStops(t)
  BY <1>1, <1>5, ThreadMoves DEF Precheck, ExecutionStops, Busy
<1>6. CASE ExecutionSucceeds(t)
  BY <1>1, <1>2, <1>6, ThreadMoves DEF ExecutionSucceeds, Busy
<1>7. CASE ExecutionFails(t)
  BY <1>1, <1>2, <1>7, ThreadMoves DEF ExecutionFails, FailWith, Discard, Failures, Busy
<1>8. CASE RecordFailureRefused(t)
  BY <1>1, <1>2, <1>8, ThreadMoves DEF RecordFailureRefused, FailWith, Failures, Busy
<1>9. CASE CheckCancelled(t) \/ AfterActivation(t)
  BY <1>1, <1>2, <1>9, ThreadMoves DEF CheckCancelled, AfterActivation, Discard, Busy
<1> QED BY <1>3, <1>4, <1>5, <1>6, <1>7, <1>8, <1>9

\* The candidates are rows.
LEMMA BeginClaimTypes ==
  ASSUME Types, NEW t \in Threads, BeginClaim(t)
  PROVE  Types'
<1>1. candidates' \in [Threads -> SUBSET Ids]
  BY DEF BeginClaim, Types, TypeOK
<1>2. pc' \in [Threads -> Free \union Busy] /\ BusyHasRow'
  BY DEF BeginClaim, Goto, Types, TypeOK, BusyHasRow, Free, Busy
<1> QED
  BY <1>1, <1>2 DEF BeginClaim, Types, TypeOK, Ids, rowVars, sourceVars, hostVars

\* The snapshot of an activation is a row, its document and its job text.
LEMMA BeginActivationTypes ==
  ASSUME Types, NEW t \in Threads, BeginActivation(t)
  PROVE  Types'
<1>1. /\ Row(t) \in Rows /\ document[Row(t).application] \in Documents
      /\ text[Row(t).application] \in Hashes
  BY BusyRow DEF BeginActivation, Busy, Types, TypeOK
<1>2. seen' \in [Threads -> Snapshots \union {NoSnapshot}]
  BY <1>1 DEF BeginActivation, Snapshots, Types, TypeOK
<1>3. pc' \in [Threads -> Free \union Busy] /\ BusyHasRow'
  BY DEF BeginActivation, Goto, Types, TypeOK, BusyHasRow, Busy
<1> QED
  BY <1>2, <1>3 DEF BeginActivation, Types, TypeOK, Ids, rowVars, sourceVars, hostVars

\* A thread that returns has no row and is not busy.
LEMMA FinishTypes ==
  ASSUME Types, NEW t \in Threads, Finish(t)
  PROVE  Types'
<1>1. active' \in [Runners -> SUBSET Ids]
  BY HostAssumption DEF Finish, Types, TypeOK
<1>2. /\ current' \in [Threads -> {0} \union Ids]
      /\ failing' \in [Threads -> Failures] /\ prepared' \in [Threads -> BOOLEAN]
  BY DEF Finish, Failures, Types, TypeOK
<1>3. pc' \in [Threads -> Free \union Busy] /\ BusyHasRow'
  BY DEF Finish, Goto, Types, TypeOK, BusyHasRow, Free, Busy
<1> QED
  BY <1>1, <1>2, <1>3 DEF Finish, Types, TypeOK, Ids, rowVars, sourceVars, hostVars

\* Execution of a render writes its own files.
LEMMA BeginExecutionTypes ==
  ASSUME Types, NEW t \in Threads, BeginExecution(t)
  PROVE  Types'
<1>1. current[t] \in Ids /\ current[t] \in IdBound
  BY BusyRow, MaxOperationsAssumption DEF BeginExecution, Types, TypeOK, Ids, IdBound, Busy
<1>2. files' \subseteq IdBound
  BY <1>1 DEF BeginExecution, Types, TypeOK
<1>3. held' \in [Threads -> SUBSET IdBound]
  BY <1>1 DEF BeginExecution, Types, TypeOK
<1>4. pc' \in [Threads -> Free \union Busy]
  BY DEF BeginExecution, Goto, Types, TypeOK, Busy
<1>5. BusyHasRow'
  BY DEF BeginExecution, Goto, Types, TypeOK, BusyHasRow, Busy
<1>6. UNCHANGED <<rowVars, sourceVars, hostVars, active, current, candidates, seen,
                  failing, prepared>>
  BY DEF BeginExecution
<1> QED
  BY <1>2, <1>3, <1>4, <1>5, <1>6 DEF Types, TypeOK, Ids, rowVars, sourceVars, hostVars

\* The error a failed render records names its Operation.
LEMMA RecordFailureTypes ==
  ASSUME Types, NEW t \in Threads, RecordFailure(t)
  PROVE  Types'
<1> DEFINE a == Row(t).application
<1>1. current[t] \in 0..MaxOperations /\ a \in Applications
  BY BusyRow, MaxOperationsAssumption DEF RecordFailure, Types, TypeOK, Ids, Busy
<1>2. [document[a] EXCEPT !.error = current[t]] \in Documents
  BY <1>1 DEF Types, TypeOK, Documents
<1>3. document' \in [Applications -> Documents]
  BY <1>1, <1>2 DEF RecordFailure, Types, TypeOK
<1>4. failing' \in [Threads -> Failures] /\ pc' \in [Threads -> Free \union Busy]
  BY DEF RecordFailure, FailWith, Goto, Types, TypeOK, Busy, Failures
<1>5. BusyHasRow'
  BY DEF RecordFailure, FailWith, Goto, Types, TypeOK, BusyHasRow, Busy
<1>6. UNCHANGED <<rowVars, text, files, hostVars, active, current, candidates, seen,
                  prepared, held>>
  BY DEF RecordFailure
<1> QED
  BY <1>3, <1>4, <1>5, <1>6 DEF Types, TypeOK, Ids, rowVars, hostVars

\* A registered row is a row.
LEMMA RegisterTypes ==
  ASSUME Types, NEW t \in Threads, Register(t)
  PROVE  Types'
<1>1. current[t] \in Ids
  BY BusyRow DEF Register, Busy
<1>2. active' \in [Runners -> SUBSET Ids]
  BY <1>1, HostAssumption DEF Register, Types, TypeOK
<1>3. pc' \in [Threads -> Free \union Busy] /\ BusyHasRow'
  BY DEF Register, Goto, Types, TypeOK, BusyHasRow, Busy
<1>4. UNCHANGED <<rowVars, sourceVars, files, hostVars, current, candidates, seen, failing,
                  prepared, held>>
  BY DEF Register
<1> QED
  BY <1>2, <1>3, <1>4 DEF Types, TypeOK, Ids, rowVars, sourceVars, hostVars

\* The snapshot of _fail holds its row.
LEMMA BeginFailTypes ==
  ASSUME Types, NEW t \in Threads, BeginFail(t)
  PROVE  Types'
<1>1. [row |-> Row(t), document |-> NoDocument, text |-> 1] \in Snapshots
  <2>1. Row(t) \in Rows
    BY BusyRow DEF BeginFail, Busy
  <2>2. NoDocument \in Documents
    BY MaxHashAssumption, MaxOperationsAssumption DEF NoDocument, Documents
  <2>3. 1 \in Hashes
    BY MaxHashAssumption DEF Hashes
  <2> QED BY <2>1, <2>2, <2>3 DEF Snapshots
<1>2. seen' \in [Threads -> Snapshots \union {NoSnapshot}]
  BY <1>1 DEF BeginFail, Types, TypeOK
<1>3. pc' \in [Threads -> Free \union Busy] /\ BusyHasRow'
  BY DEF BeginFail, Goto, Types, TypeOK, BusyHasRow, Busy
<1>4. UNCHANGED <<rowVars, sourceVars, files, hostVars, active, current, candidates, failing,
                  prepared, held>>
  BY DEF BeginFail
<1> QED
  BY <1>2, <1>3, <1>4 DEF Types, TypeOK, Ids, rowVars, sourceVars, hostVars

-----------------------------------------------------------------------------
(* The steps that write rows *)

\* More rows only widen what threads and processes may name.
LEMMA MoreRows ==
  ASSUME Types, operations' \in Seq(Rows), Len(operations) <= Len(operations')
  PROVE  /\ Ids \subseteq Ids'
         /\ active \in [Runners -> SUBSET (Ids')]
         /\ toCancel \in [Runners -> SUBSET (Ids')]
         /\ current \in [Threads -> {0} \union Ids']
         /\ candidates \in [Threads -> SUBSET (Ids')]
<1>1. Len(operations) \in Nat /\ Len(operations') \in Nat
  BY LenProperties DEF Types, TypeOK
<1>2. Ids \subseteq Ids'
  BY <1>1 DEF Ids
<1> QED BY <1>2 DEF Types, TypeOK

\* Inserting a row keeps every row, within the bound.
LEMMA EnqueueRow ==
  ASSUME Types, NEW row \in Rows, Enqueue(row)
  PROVE  /\ operations' \in Seq(Rows)
         /\ Len(operations') = Len(operations) + 1
         /\ Len(operations') <= MaxOperations
         /\ operations'[Len(operations) + 1] = row
         /\ \A j \in Ids : operations'[j] = operations[j]
<1>1. Len(operations) \in Nat
  BY LenProperties DEF Types, TypeOK
<1> QED BY <1>1, InsertRow, MaxOperationsAssumption DEF Enqueue, Types, TypeOK, Ids

\* The row a submission inserts.
LEMMA SubmittedRow ==
  ASSUME Types, NEW a \in Applications, NEW type \in Kinds, Submit(a, type)
  PROVE  QueuedRow(a, type, Source(a, type)) \in Rows
<1>1. text[a] \in Hashes /\ document[a].hash \in 0..MaxHash
  BY DEF Types, TypeOK, Documents
<1>2. Source(a, type) \in Hashes
  BY <1>1, MaxHashAssumption DEF Submit, Source, Hashes
<1> QED BY <1>2, QueuedRowIsRow, KindsAssumption

\* The row a retry inserts.
LEMMA RetriedRow ==
  ASSUME Types, NEW i \in Ids, Retry(i)
  PROVE  \E x \in Hashes :
           /\ QueuedRow(operations[i].application, operations[i].type, x) \in Rows
           /\ Enqueue(QueuedRow(operations[i].application, operations[i].type, x))
<1> DEFINE row == operations[i]
           a == row.application
           x == IF row.type = "analyze_job" THEN row.expected ELSE document[a].hash
<1>1. row \in Rows
  BY ElementOfSeq DEF Types, TypeOK, Ids
<1>2. a \in Applications /\ row.type \in OperationTypes /\ row.expected \in Hashes
  BY <1>1 DEF Rows
<1>3. document[a].hash \in 0..MaxHash
  BY <1>2 DEF Types, TypeOK, Documents
<1>4. x \in Hashes
  BY <1>2, <1>3, MaxHashAssumption DEF Retry, Hashes
<1>5. QueuedRow(a, row.type, x) \in Rows
  BY <1>2, <1>4, QueuedRowIsRow
<1>6. Enqueue(QueuedRow(a, row.type, x))
  BY DEF Retry
<1> QED BY <1>4, <1>5, <1>6

\* What changes nothing but the rows, and inserts or rewrites rows, keeps the types.
LEMMA RowWriteTypes ==
  ASSUME Types, operations' \in Seq(Rows), Len(operations) <= Len(operations'),
         Len(operations') <= MaxOperations,
         UNCHANGED <<sourceVars, files, hostVars, active, threadVars>>
  PROVE  Types'
BY MoreRows DEF Types, TypeOK, BusyHasRow, sourceVars, hostVars, threadVars, IdBound

\* What activation, an edit or a failed render writes to a document leaves a document.
LEMMA DocumentUpdates ==
  ASSUME NEW d \in Documents, NEW h \in Hashes, NEW i \in 0..MaxOperations
  PROVE  /\ [d EXCEPT !.hash = h] \in Documents
         /\ [d EXCEPT !.error = i] \in Documents
         /\ [d EXCEPT !.files = i, !.error = 0] \in Documents
<1>1. h \in 0..MaxHash /\ 0 \in 0..MaxOperations
  BY MaxHashAssumption, MaxOperationsAssumption DEF Hashes
<1> QED BY <1>1 DEF Documents

\* A budget is spent in whole numbers.
LEMMA SpendTypes ==
  ASSUME Types, NEW k \in Disturbances, Spend(k)
  PROVE  spent' \in [Disturbances -> Nat]
<1>1. spent[k] \in Nat
  BY DEF Types, TypeOK
<1> QED BY <1>1 DEF Spend, Types, TypeOK

\* Whatever a user does.
LEMMA UserTypes ==
  ASSUME Types, UserStep
  PROVE  Types'
<1>1. ASSUME NEW a \in Applications, NEW type \in Kinds, Submit(a, type)
      PROVE  Types'
  BY <1>1, SubmittedRow, EnqueueRow, RowWriteTypes, LenProperties DEF Submit, Types, TypeOK
<1>2. ASSUME NEW i \in Ids, Retry(i)
      PROVE  Types'
  BY <1>2, RetriedRow, EnqueueRow, RowWriteTypes, LenProperties DEF Retry, Types, TypeOK
<1>3. ASSUME NEW i \in Ids, RequestCancel(i)
      PROVE  Types'
  <2>1. operations[i] \in Rows
    BY ElementOfSeq DEF Types, TypeOK, Ids
  <2>2. Requested(operations[i]) \in Rows
    BY <2>1 DEF Requested, Rows, Statuses, TerminalStatuses
  <2> QED
    BY <1>3, <2>2, WriteRow, RowWriteTypes, LenProperties
    DEF RequestCancel, Types, TypeOK, Ids
<1>4. ASSUME NEW a \in Applications, NEW x \in Hashes, EditText(a, x)
      PROVE  Types'
  <2>1. text' \in [Applications -> Hashes]
    BY <1>4 DEF EditText, Types, TypeOK
  <2>2. spent' \in [Disturbances -> Nat]
    BY <1>4, SpendTypes DEF EditText, Disturbances
  <2> QED
    BY <1>4, <2>1, <2>2 DEF EditText, Types, TypeOK, BusyHasRow, Ids, rowVars, threadVars
<1>5. ASSUME NEW a \in Applications, NEW h \in Hashes, EditDocument(a, h)
      PROVE  Types'
  <2>1. document' \in [Applications -> Documents]
    <3>1. document[a] \in Documents /\ 0 \in 0..MaxOperations
      BY MaxOperationsAssumption DEF Types, TypeOK
    <3>2. [document[a] EXCEPT !.hash = h] \in Documents
      BY <3>1, DocumentUpdates
    <3> QED BY <1>5, <3>2 DEF EditDocument, Types, TypeOK
  <2>2. spent' \in [Disturbances -> Nat]
    BY <1>5, SpendTypes DEF EditDocument, Disturbances
  <2> QED
    BY <1>5, <2>1, <2>2 DEF EditDocument, Types, TypeOK, BusyHasRow, Ids, rowVars, threadVars
<1> QED BY <1>1, <1>2, <1>3, <1>4, <1>5 DEF UserStep

\* A claim gives a thread one of the rows.
LEMMA TryClaimTypes ==
  ASSUME Types, NEW t \in Threads, TryClaim(t)
  PROVE  Types'
<1>1. PICK i \in Oldest(candidates[t]) :
        \/ /\ operations' = [operations EXCEPT ![i] = Claimed(@, Host[t])]
           /\ current' = [current EXCEPT ![t] = i]
           /\ candidates' = [candidates EXCEPT ![t] = {}]
           /\ Goto(t, "claimed")
        \/ /\ candidates' = [candidates EXCEPT ![t] = @ \ {i}]
           /\ UNCHANGED <<operations, current, pc>>
  BY DEF TryClaim
<1>2. i \in Ids /\ operations[i] \in Rows
  BY ElementOfSeq DEF Oldest, Types, TypeOK, Ids
<1>3. Claimed(operations[i], Host[t]) \in Rows
  BY <1>2, RowsStayRows, HostAssumption DEF Failures
<1>4. UNCHANGED <<sourceVars, files, hostVars, active, seen, failing, prepared, held>>
  BY DEF TryClaim
<1>5. CASE /\ operations' = [operations EXCEPT ![i] = Claimed(@, Host[t])]
           /\ current' = [current EXCEPT ![t] = i]
           /\ candidates' = [candidates EXCEPT ![t] = {}]
           /\ Goto(t, "claimed")
  <2>1. operations' \in Seq(Rows) /\ Len(operations') = Len(operations)
    BY <1>2, <1>3, <1>5, WriteRow DEF Types, TypeOK, Ids
  <2>2. i # 0
    BY <1>2, LenProperties DEF Ids, Types, TypeOK
  <2> QED
    BY <1>2, <1>4, <1>5, <2>1, <2>2
    DEF Types, TypeOK, BusyHasRow, Goto, Busy, Ids, sourceVars, hostVars
<1>6. CASE /\ candidates' = [candidates EXCEPT ![t] = @ \ {i}]
           /\ UNCHANGED <<operations, current, pc>>
  BY <1>4, <1>6 DEF Types, TypeOK, BusyHasRow, Ids, sourceVars, hostVars
<1> QED BY <1>1, <1>5, <1>6

\* _complete ends the row or raises.
LEMMA CompleteTypes ==
  ASSUME Types, NEW t \in Threads, Complete(t)
  PROVE  Types'
<1> DEFINE i == current[t]
<1>1. i \in Ids /\ operations[i] \in Rows
  BY BusyRow DEF Complete, Busy, Row
<1>2. Completed(operations[i]) \in Rows
  BY <1>1 DEF Completed, Rows, Statuses, TerminalStatuses, Failures
<1>3. UNCHANGED <<sourceVars, files, hostVars, candidates, seen, held>>
  BY DEF Complete
<1>4. CASE /\ operations' = [operations EXCEPT ![i] = Completed(@)]
           /\ Goto(t, "finished")
           /\ UNCHANGED <<active, current, failing, prepared>>
  <2>1. operations' \in Seq(Rows) /\ Len(operations') = Len(operations)
    BY <1>1, <1>2, <1>4, WriteRow DEF Types, TypeOK, Ids
  <2>2. pc[t] \in Busy
    BY DEF Complete, Busy
  <2> QED
    BY <1>3, <1>4, <2>1, <2>2
    DEF Types, TypeOK, BusyHasRow, Goto, Busy, Ids, sourceVars, hostVars
<1>5. CASE ThreadCrashes(t) /\ UNCHANGED operations
  BY <1>3, <1>5, HostAssumption
  DEF ThreadCrashes, Goto, Types, TypeOK, BusyHasRow, Free, Busy, Ids, Failures, sourceVars,
      hostVars
<1> QED BY <1>4, <1>5 DEF Complete

\* _fail ends the row or raises.
LEMMA FailTypes ==
  ASSUME Types, NEW t \in Threads, Fail(t)
  PROVE  Types'
<1> DEFINE i == current[t]
<1>1. i \in Ids /\ operations[i] \in Rows
  BY BusyRow DEF Fail, Busy, Row
<1>2. Failed(operations[i], failing[t]) \in Rows
  BY <1>1 DEF Failed, Rows, Statuses, TerminalStatuses, Types, TypeOK
<1>3. /\ UNCHANGED <<sourceVars, files, hostVars, candidates, held>>
      /\ seen' \in [Threads -> Snapshots \union {NoSnapshot}]
  BY DEF Fail, Types, TypeOK
<1>4. CASE /\ operations' = [operations EXCEPT ![i] = Failed(@, failing[t])]
           /\ Goto(t, "finished")
           /\ UNCHANGED <<active, current, failing, prepared>>
  <2>1. operations' \in Seq(Rows) /\ Len(operations') = Len(operations)
    BY <1>1, <1>2, <1>4, WriteRow DEF Types, TypeOK, Ids
  <2>2. pc[t] \in Busy
    BY DEF Fail, Busy
  <2> QED
    BY <1>3, <1>4, <2>1, <2>2
    DEF Types, TypeOK, BusyHasRow, Goto, Busy, Ids, sourceVars, hostVars
<1>5. CASE ThreadCrashes(t) /\ UNCHANGED operations
  BY <1>3, <1>5, HostAssumption
  DEF ThreadCrashes, Goto, Types, TypeOK, BusyHasRow, Free, Busy, Ids, Failures, sourceVars,
      hostVars
<1> QED BY <1>4, <1>5 DEF Fail

-----------------------------------------------------------------------------
(* Activation *)

\* The continuation of an analysis is at most one queued create_draft.
LEMMA ContinuationRows ==
  ASSUME NEW row \in Rows, NEW old \in Documents, NEW more \in Continuations(row, old, NewDocument)
  PROVE  \/ more = <<>>
         \/ /\ Len(operations) < MaxOperations
            /\ row.type = "analyze_job"
            /\ more = <<QueuedRow(row.application, "create_draft", 1)>>
            /\ QueuedRow(row.application, "create_draft", 1) \in Rows
<1>1. 1 \in Hashes /\ row.application \in Applications /\ "create_draft" \in OperationTypes
  BY MaxHashAssumption DEF Hashes, Rows, OperationTypes
<1>2. QueuedRow(row.application, "create_draft", 1) \in Rows
  BY <1>1, QueuedRowIsRow
<1> QED BY <1>2 DEF Continuations, NewDocument

\* What an activation may do to the rows: nothing; cancel its own row; or succeed
\* with its own row, which it still leases, uncancelled, and queue a continuation.
ActivationEffect(t) ==
  LET i == current[t]
  IN \/ UNCHANGED operations
     \/ /\ Leased(operations[i], Host[t]) /\ operations[i].cancelRequested
        /\ operations' = [operations EXCEPT ![i] = Completed(@)]
     \/ /\ Leased(operations[i], Host[t]) /\ ~operations[i].cancelRequested
        /\ \/ operations' = [operations EXCEPT ![i] = Activated(@)]
           \/ /\ Len(operations) < MaxOperations
              /\ operations[i].type = "analyze_job"
              /\ LET a == operations[i].application
                 IN /\ QueuedRow(a, "create_draft", 1) \in Rows
                    /\ operations' = Append([operations EXCEPT ![i] = Activated(@)],
                                            QueuedRow(a, "create_draft", 1))

\* What an activation writes to a document leaves a document.
LEMMA ActivationDocuments ==
  ASSUME Types, NEW i \in Ids, NEW d \in Documents, NEW e \in DocumentsAfter(i, d)
  PROVE  /\ e \in Documents
         /\ operations[i].type = "analyze_job" /\ d.hash = 0 => e = NewDocument
<1>1. operations[i] \in Rows /\ i \in 0..MaxOperations
  BY ElementOfSeq, LenProperties, MaxOperationsAssumption DEF Types, TypeOK, Ids
<1>2. operations[i].type \in OperationTypes
  BY <1>1 DEF Rows
<1>3. NewDocument \in Documents
  BY MaxHashAssumption, MaxOperationsAssumption DEF NewDocument, Documents
<1>4. CASE operations[i].type = "analyze_job"
  BY <1>3, <1>4 DEF DocumentsAfter
<1>5. CASE operations[i].type = "create_draft"
  BY <1>1, <1>5, DocumentUpdates DEF DocumentsAfter
<1>6. CASE operations[i].type = "render_document"
  <2>1. [d EXCEPT !.files = i, !.error = 0] \in Documents
    <3>1. 1 \in Hashes
      BY MaxHashAssumption DEF Hashes
    <3> QED BY <1>1, <3>1, DocumentUpdates
  <2> QED BY <1>6, <2>1 DEF DocumentsAfter
<1> QED BY <1>2, <1>4, <1>5, <1>6 DEF OperationTypes

\* A committed activation succeeds with its row and writes its document.
LEMMA CommitActivationEffect ==
  ASSUME Types, NEW t \in Threads, pc[t] = "activating", CommitActivation(t)
  PROVE  /\ ActivationEffect(t)
         /\ document' \in [Applications -> Documents]
<1> DEFINE i == current[t]
           a == Row(t).application
<1>1. i \in Ids /\ operations[i] \in Rows /\ a \in Applications /\ Row(t) = operations[i]
  BY BusyRow DEF Busy, Row
<1>2. document[a] \in Documents
  BY <1>1 DEF Types, TypeOK
<1>3. Leased(operations[i], Host[t]) /\ ~operations[i].cancelRequested
  BY <1>1 DEF CommitActivation, RowMoved
<1>4. PICK d \in DocumentsAfter(i, document[a]) :
      \E more \in Continuations(Row(t), document[a], d) :
        /\ operations' = [operations EXCEPT ![i] = Activated(@)] \o more
        /\ document' = [document EXCEPT ![a] = d]
  BY DEF CommitActivation
<1>5. PICK more \in Continuations(Row(t), document[a], d) :
        /\ operations' = [operations EXCEPT ![i] = Activated(@)] \o more
        /\ document' = [document EXCEPT ![a] = d]
  BY <1>4
<1>6. d \in Documents
  BY <1>1, <1>2, ActivationDocuments
<1>7. \/ more = <<>>
      \/ /\ Len(operations) < MaxOperations
         /\ operations[i].type = "analyze_job"
         /\ more = <<QueuedRow(a, "create_draft", 1)>>
         /\ QueuedRow(a, "create_draft", 1) \in Rows
  <2>1. CASE operations[i].type = "analyze_job" /\ document[a].hash = 0
    <3>1. d = NewDocument
      BY <1>1, <1>2, <2>1, ActivationDocuments
    <3> QED BY <1>1, <1>2, <1>5, <3>1, ContinuationRows
  <2>2. CASE ~(operations[i].type = "analyze_job" /\ document[a].hash = 0)
    <3>1. more = <<>>
      BY <1>1, <1>5, <2>2 DEF Continuations
    <3> QED BY <3>1
  <2> QED BY <2>1, <2>2
<1>8. Activated(operations[i]) \in Rows
  BY <1>1 DEF Activated, Completed, Rows, Statuses, TerminalStatuses, Failures
<1>9. [operations EXCEPT ![i] = Activated(@)] \in Seq(Rows)
  BY <1>1, <1>8, WriteRow DEF Types, TypeOK, Ids
<1>10. ActivationEffect(t)
  <2>1. CASE more = <<>>
    <3>1. operations' = [operations EXCEPT ![i] = Activated(@)]
      BY <1>5, <1>9, <2>1, ConcatEmptySeq
    <3> QED BY <1>3, <3>1 DEF ActivationEffect
  <2>2. CASE /\ Len(operations) < MaxOperations
             /\ operations[i].type = "analyze_job"
             /\ more = <<QueuedRow(a, "create_draft", 1)>>
             /\ QueuedRow(a, "create_draft", 1) \in Rows
    <3>1. operations' = Append([operations EXCEPT ![i] = Activated(@)],
                               QueuedRow(a, "create_draft", 1))
      BY <1>5, <1>9, <2>2
    <3> QED BY <1>1, <1>3, <2>2, <3>1 DEF ActivationEffect
  <2> QED BY <1>7, <2>1, <2>2
<1>11. document' \in [Applications -> Documents]
  BY <1>1, <1>5, <1>6 DEF Types, TypeOK
<1> QED BY <1>10, <1>11

\* What an activation leaves behind, whichever way it ends.
ActivationOutcome(t) ==
  /\ ActivationEffect(t)
  /\ document' \in [Applications -> Documents]
  /\ text' = text
  /\ files' \subseteq IdBound
  /\ held' \in [Threads -> SUBSET IdBound]
  /\ failing' \in [Threads -> Failures]
  /\ \E label \in {"activated", "finished", "failing"} : Goto(t, label)
  /\ prepared' = prepared

\* An activation that is refused leaves the rows and the documents alone.
LEMMA ActivateEffect ==
  ASSUME Types, NEW t \in Threads, Activate(t)
  PROVE  ActivationOutcome(t)
<1>1. pc[t] = "activating"
  BY DEF Activate
<1>2. /\ Row(t) = operations[current[t]] /\ Row(t) \in Rows
      /\ Row(t).application \in Applications
  BY <1>1, BusyRow DEF Busy, Row
<1>3. ASSUME NEW code \in Failures, ActivationFails(t, code)
      PROVE  ActivationOutcome(t)
  BY <1>3
  DEF ActivationOutcome, ActivationFails, FailWith, Discard, ActivationEffect, rowVars,
      sourceVars, Types, TypeOK
<1>4. ASSUME CommitCancelled(t)
      PROVE  ActivationOutcome(t)
  BY <1>2, <1>4
  DEF ActivationOutcome, CommitCancelled, RowMoved, Discard, ActivationEffect, sourceVars,
      Types, TypeOK
<1>5. ASSUME CommitActivation(t)
      PROVE  ActivationOutcome(t)
  <2>1. ActivationEffect(t) /\ document' \in [Applications -> Documents]
    BY <1>1, <1>5, CommitActivationEffect
  <2>2. document[Row(t).application].files \in 0..MaxOperations
    BY <1>2 DEF Types, TypeOK, Documents
  <2>3. {document[Row(t).application].files} \ {0} \subseteq IdBound
    BY <2>2, MaxOperationsAssumption DEF IdBound
  <2>4. /\ text' = text /\ prepared' = prepared
        /\ \/ /\ held' = [held EXCEPT ![t] = IF Row(t).type = "render_document"
                             THEN {document[Row(t).application].files} \ {0} ELSE {}]
              /\ Goto(t, "activated")
              /\ UNCHANGED <<files, failing>>
           \/ Discard(t) /\ FailWith(t, "RETRYABLE")
    BY <1>5 DEF CommitActivation
  <2>5. /\ files' \subseteq IdBound
        /\ held' \in [Threads -> SUBSET IdBound]
        /\ failing' \in [Threads -> Failures]
        /\ \E label \in {"activated", "finished", "failing"} : Goto(t, label)
    BY <2>3, <2>4 DEF Discard, FailWith, Failures, Types, TypeOK
  <2> QED BY <2>1, <2>4, <2>5 DEF ActivationOutcome
<1> QED
  BY <1>3, <1>4, <1>5 DEF Activate, Failures

\* The rows after an activation, and which of them changed.
LEMMA ActivatedRows ==
  ASSUME Types, NEW t \in Threads, pc[t] \in Busy, ActivationEffect(t)
  PROVE  /\ operations' \in Seq(Rows)
         /\ Len(operations) <= Len(operations') /\ Len(operations') <= MaxOperations
         /\ \A j \in Ids : j # current[t] => operations'[j] = operations[j]
         /\ \A j \in Ids' : j \notin Ids => \E a \in Applications :
              operations'[j] = QueuedRow(a, "create_draft", 1)
         /\ LET i == current[t]
            IN \/ operations'[i] = operations[i]
               \/ /\ Leased(operations[i], Host[t]) /\ operations[i].cancelRequested
                  /\ operations'[i] = Completed(operations[i])
               \/ /\ Leased(operations[i], Host[t]) /\ ~operations[i].cancelRequested
                  /\ operations'[i] = Activated(operations[i])
<1> DEFINE i == current[t]
           done == [operations EXCEPT ![i] = Activated(@)]
           more == QueuedRow(operations[i].application, "create_draft", 1)
<1>1. /\ i \in Ids /\ operations[i] \in Rows /\ operations[i].application \in Applications
      /\ Len(operations) \in Nat /\ MaxOperations \in Nat
  BY BusyRow, LenProperties, MaxOperationsAssumption DEF Row, Types, TypeOK
<1>2. Completed(operations[i]) \in Rows /\ Activated(operations[i]) \in Rows
  BY <1>1 DEF Activated, Completed, Rows, Statuses, TerminalStatuses, Failures
<1>3. /\ done \in Seq(Rows) /\ Len(done) = Len(operations)
      /\ done[i] = Activated(operations[i])
      /\ \A j \in Ids : j # i => done[j] = operations[j]
  BY <1>1, <1>2, WriteRow DEF Types, TypeOK, Ids
<1>4. CASE UNCHANGED operations
  BY <1>1, <1>4 DEF Types, TypeOK, Ids
<1>5. CASE /\ Leased(operations[i], Host[t]) /\ operations[i].cancelRequested
           /\ operations' = [operations EXCEPT ![i] = Completed(@)]
  BY <1>1, <1>2, <1>5, WriteRow DEF Types, TypeOK, Ids
<1>6. CASE /\ Leased(operations[i], Host[t]) /\ ~operations[i].cancelRequested
           /\ operations' = done
  BY <1>1, <1>3, <1>6 DEF Types, TypeOK, Ids
<1>7. CASE /\ Leased(operations[i], Host[t]) /\ ~operations[i].cancelRequested
           /\ Len(operations) < MaxOperations
           /\ more \in Rows
           /\ operations' = Append(done, more)
  <2>1. /\ operations' \in Seq(Rows)
        /\ Len(operations') = Len(operations) + 1
        /\ operations'[Len(operations) + 1] = more
        /\ \A j \in Ids : operations'[j] = done[j]
    BY <1>3, <1>7, InsertRow DEF Ids
  <2>2. \A j \in Ids' : j \notin Ids => j = Len(operations) + 1
    BY <1>1, <2>1 DEF Ids
  <2>3. \A j \in Ids' : j \notin Ids => \E a \in Applications :
          operations'[j] = QueuedRow(a, "create_draft", 1)
    BY <1>1, <2>1, <2>2
  <2>4. /\ Len(operations) <= Len(operations') /\ Len(operations') <= MaxOperations
    BY <1>1, <1>7, <2>1
  <2>5. /\ \A j \in Ids : j # i => operations'[j] = operations[j]
        /\ operations'[i] = Activated(operations[i])
    <3> HIDE DEF done
    <3> QED BY <1>1, <1>3, <2>1
  <2>6. \/ operations'[i] = operations[i]
        \/ /\ Leased(operations[i], Host[t]) /\ ~operations[i].cancelRequested
           /\ operations'[i] = Activated(operations[i])
    BY <1>7, <2>5
  <2> QED BY <2>1, <2>3, <2>4, <2>5, <2>6
<1> QED BY <1>4, <1>5, <1>6, <1>7 DEF ActivationEffect

\* Activate, by its outcome.
LEMMA ActivateTypes ==
  ASSUME Types, NEW t \in Threads, Activate(t)
  PROVE  Types'
<1>1. pc[t] = "activating" /\ current[t] # 0
  BY DEF Activate, Types, TypeOK, BusyHasRow, Busy
<1>2. /\ operations' \in Seq(Rows)
      /\ Len(operations) <= Len(operations') /\ Len(operations') <= MaxOperations
  BY <1>1, ActivateEffect, ActivatedRows DEF ActivationOutcome, Busy
<1>3. pc' \in [Threads -> Free \union Busy] /\ BusyHasRow'
  <2>1. PICK label \in {"activated", "finished", "failing"} : Goto(t, label)
    BY ActivateEffect DEF ActivationOutcome
  <2>2. current' = current
    BY DEF Activate
  <2> QED BY <1>1, <2>1, <2>2 DEF Goto, Types, TypeOK, BusyHasRow, Busy
<1>4. /\ UNCHANGED <<hostVars, active, current, candidates>>
      /\ seen' \in [Threads -> Snapshots \union {NoSnapshot}]
  BY DEF Activate, Types, TypeOK
<1> QED
  BY <1>2, <1>3, <1>4, MoreRows, ActivateEffect
  DEF ActivationOutcome, Types, TypeOK, hostVars, IdBound

-----------------------------------------------------------------------------
(* A worker process *)

\* A process that starts writes no row and no document.
LEMMA StartWorkerTypes ==
  ASSUME Types, NEW r \in Runners, StartWorker(r)
  PROVE  Types'
BY DEF StartWorker, Types, TypeOK, BusyHasRow, rowVars, sourceVars, threadVars, WorkerStates,
       Ids

\* Recovery rewrites the rows in place.
LEMMA RecoverTypes ==
  ASSUME Types, NEW r \in Runners, Recover(r)
  PROVE  Types'
<1>1. /\ operations' \in Seq(Rows) /\ Len(operations') = Len(operations)
  BY RewriteRows DEF Recover, Types, TypeOK, Ids
<1>2. Ids' = Ids
  BY <1>1 DEF Ids
<1>3. worker' \in [Runners -> WorkerStates]
  BY DEF Recover, Types, TypeOK, WorkerStates
<1> QED
  BY <1>1, <1>2, <1>3
  DEF Recover, Types, TypeOK, BusyHasRow, sourceVars, threadVars

\* A loop that ends asks for rows that exist.
LEMMA StopServingTypes ==
  ASSUME Types, NEW r \in Runners, NEW ask \in SUBSET Ids, StopServing(r, ask),
         spent' \in [Disturbances -> Nat]
  PROVE  Types'
<1>1. worker' \in [Runners -> WorkerStates] /\ toCancel' \in [Runners -> SUBSET Ids]
  BY DEF StopServing, Types, TypeOK, WorkerStates
<1> QED
  BY <1>1
  DEF StopServing, Types, TypeOK, BusyHasRow, rowVars, sourceVars, threadVars, Ids

\* A request of the stopping loop writes one row, as a user's does.
LEMMA RequestHeldCancelTypes ==
  ASSUME Types, NEW r \in Runners, NEW i \in toCancel[r], RequestHeldCancel(r, i)
  PROVE  Types'
<1>1. i \in Ids
  BY DEF Types, TypeOK
<1>2. operations[i] \in Rows
  BY <1>1, ElementOfSeq DEF Types, TypeOK, Ids
<1>3. Requested(operations[i]) \in Rows
  BY <1>2 DEF Rows, Requested, Statuses, TerminalStatuses
<1>4. operations' \in Seq(Rows) /\ Len(operations') = Len(operations)
  BY <1>1, <1>3, WriteRow DEF RequestHeldCancel, Types, TypeOK, Ids
<1>5. Ids' = Ids
  BY <1>4 DEF Ids
<1>6. toCancel' \in [Runners -> SUBSET Ids]
  BY DEF RequestHeldCancel, Types, TypeOK
<1> QED
  BY <1>4, <1>5, <1>6
  DEF RequestHeldCancel, Types, TypeOK, BusyHasRow, sourceVars, threadVars

\* A process that ends forgets everything its threads held.
LEMMA ProcessEndsTypes ==
  ASSUME Types, NEW r \in Runners, ProcessEnds(r), spent' \in [Disturbances -> Nat]
  PROVE  Types'
<1>1. /\ worker' \in [Runners -> WorkerStates]
      /\ slot' \in Runners \union {NoRunner}
      /\ active' \in [Runners -> SUBSET Ids]
      /\ toCancel' \in [Runners -> SUBSET Ids]
  BY DEF ProcessEnds, Types, TypeOK, WorkerStates
<1>2. /\ pc' \in [Threads -> Free \union Busy]
      /\ current' \in [Threads -> {0} \union Ids]
      /\ BusyHasRow'
  BY DEF ProcessEnds, Types, TypeOK, BusyHasRow, Free, Busy
<1>3. /\ candidates' \in [Threads -> SUBSET Ids]
      /\ seen' \in [Threads -> Snapshots \union {NoSnapshot}]
      /\ held' \in [Threads -> SUBSET IdBound]
  BY DEF ProcessEnds, Types, TypeOK
<1>4. /\ failing' \in [Threads -> Failures]
      /\ prepared' \in [Threads -> BOOLEAN]
  BY DEF ProcessEnds, Types, TypeOK, Failures
<1> QED
  BY <1>1, <1>2, <1>3, <1>4 DEF ProcessEnds, Types, TypeOK, rowVars, sourceVars, Ids

\* Losing the slot changes nothing a process knows.
LEMMA LoseSlotTypes ==
  ASSUME Types, NEW r \in Runners, LoseSlot(r)
  PROVE  Types'
<1>1. spent' \in [Disturbances -> Nat]
  BY SpendTypes DEF LoseSlot, Disturbances
<1> QED
  BY <1>1 DEF LoseSlot, Types, TypeOK, BusyHasRow, rowVars, sourceVars, threadVars, Ids

\* Whatever a process does.
LEMMA HostTypes ==
  ASSUME Types, NEW r \in Runners, HostStep(r) \/ FaultStep(r)
  PROVE  Types'
<1>1. spent \in [Disturbances -> Nat] /\ active[r] \in SUBSET Ids
  BY DEF Types, TypeOK
<1>2. CASE StartWorker(r)
  BY <1>2, StartWorkerTypes
<1>3. CASE Recover(r)
  BY <1>3, RecoverTypes
<1>4. CASE NoticeStop(r)
  BY <1>1, <1>4, StopServingTypes, SpendTypes DEF NoticeStop, Disturbances
<1>5. CASE NoticeLostSlot(r)
  BY <1>1, <1>5, StopServingTypes DEF NoticeLostSlot
<1>6. CASE WorkerFails(r)
  BY <1>1, <1>6, StopServingTypes DEF WorkerFails
<1>7. CASE \E i \in toCancel[r] : RequestHeldCancel(r, i)
  BY <1>7, RequestHeldCancelTypes
<1>8. CASE WorkerExits(r)
  BY <1>1, <1>8, ProcessEndsTypes DEF WorkerExits
<1>9. CASE Crash(r)
  BY <1>1, <1>9, ProcessEndsTypes, SpendTypes DEF Crash, Disturbances
<1>10. CASE LoseSlot(r)
  BY <1>10, LoseSlotTypes
<1> QED
  BY <1>2, <1>3, <1>4, <1>5, <1>6, <1>7, <1>8, <1>9, <1>10 DEF HostStep, FaultStep

\* Whatever a thread does.
LEMMA ThreadTypes ==
  ASSUME Types, NEW t \in Threads, ThreadStep(t)
  PROVE  Types'
<1>1. CASE Claiming(t)
  BY <1>1, ThreadMovesTypes, BeginClaimTypes, TryClaimTypes, RegisterTypes DEF Claiming
<1>2. CASE Execution(t)
  BY <1>2, ThreadMovesTypes, BeginExecutionTypes, RecordFailureTypes DEF Execution
<1>3. CASE Activation(t)
  BY <1>3, BeginActivationTypes, ActivateTypes, ThreadMovesTypes DEF Activation
<1>4. CASE Ending(t)
  BY <1>4, CompleteTypes, BeginFailTypes, FailTypes, FinishTypes DEF Ending
<1> QED BY <1>1, <1>2, <1>3, <1>4 DEF ThreadStep

\* Every step keeps the types.
LEMMA NextTypes ==
  ASSUME Types, [Next]_vars
  PROVE  Types'
<1>1. CASE UserStep
  BY <1>1, UserTypes
<1>2. CASE \E t \in Threads : ThreadStep(t)
  BY <1>2, ThreadTypes
<1>3. CASE \E r \in Runners : HostStep(r) \/ FaultStep(r)
  BY <1>3, HostTypes
<1>4. CASE UNCHANGED vars
  BY <1>4
  DEF vars, rowVars, sourceVars, hostVars, threadVars, Types, TypeOK, BusyHasRow, Ids
<1> QED BY <1>1, <1>2, <1>3, <1>4 DEF Next

\* The initial state.
LEMMA InitTypes == Init => Types
<1> SUFFICES ASSUME Init PROVE Types
  OBVIOUS
<1>1. operations \in Seq(Rows) /\ Len(operations) = 0
  BY DEF Init
<1>2. 1 \in Hashes /\ 0 \in 0..MaxHash /\ 1 \in 0..MaxHash /\ 0 \in 0..MaxOperations
  BY MaxHashAssumption, MaxOperationsAssumption DEF Hashes
<1>3. NoDocument \in Documents /\ NewDocument \in Documents
  BY <1>2 DEF Documents, NoDocument, NewDocument
<1>4. text \in [Applications -> Hashes] /\ document \in [Applications -> Documents]
  BY <1>2, <1>3 DEF Init
<1>5. /\ worker \in [Runners -> WorkerStates] /\ slot \in Runners \union {NoRunner}
      /\ active \in [Runners -> SUBSET Ids] /\ toCancel \in [Runners -> SUBSET Ids]
  BY DEF Init, WorkerStates
<1>6. /\ pc \in [Threads -> Free \union Busy] /\ current \in [Threads -> {0} \union Ids]
      /\ candidates \in [Threads -> SUBSET Ids] /\ BusyHasRow
      /\ seen \in [Threads -> Snapshots \union {NoSnapshot}]
  BY DEF Init, Free, Busy, BusyHasRow
<1>7. /\ failing \in [Threads -> Failures] /\ prepared \in [Threads -> BOOLEAN]
      /\ held \in [Threads -> SUBSET IdBound] /\ files \subseteq IdBound
      /\ spent \in [Disturbances -> Nat]
  BY DEF Init, Failures
<1> QED
  BY <1>1, <1>4, <1>5, <1>6, <1>7, MaxOperationsAssumption DEF Types, TypeOK

\* Type correctness, with "a thread has a row exactly while it is busy", which is
\* what keeps every row a thread reads and writes inside the table.
THEOREM TypeCorrect == Spec => []TypeOK
<1>1. Types /\ [Next]_vars => Types'
  BY NextTypes
<1>2. Types => TypeOK
  BY DEF Types
<1> QED BY InitTypes, <1>1, <1>2, PTL DEF Spec

-----------------------------------------------------------------------------
(* What a step does to one row *)

\* Everything but a claim that happens to a row.
RowStep(row, next) ==
  \/ next = row
  \/ next = Requested(row)
  \/ next = Interrupted(row)
  \/ row.status = "running" /\ row.cancelRequested /\ next = Completed(row)
  \/ row.status = "running" /\ ~row.cancelRequested /\ next = Activated(row)
  \/ row.status = "running" /\ \E code \in Failures : next = Failed(row, code)

\* A row that satisfies OutputIffSucceeded and CancelledNeverSucceeds.
RowSound(row) ==
  /\ row.outputs <=> row.status = "succeeded"
  /\ row.status = "succeeded" => ~row.cancelRequested

NewRow(row) == row.status = "queued" /\ ~row.outputs /\ ~row.cancelRequested

\* A row keeps what it is, keeps a request to cancel, and never goes back: queued
\* or ended rows do not run without a claim, and nothing is queued again.
LEMMA RowStepKeeps ==
  ASSUME NEW row \in Rows, NEW next, RowStep(row, next)
  PROVE  /\ next.application = row.application /\ next.type = row.type
         /\ row.cancelRequested => next.cancelRequested
         /\ next.status = "queued" => row.status = "queued"
         /\ next.status = "running" => row.status = "running" /\ next.lease = row.lease
         /\ row.status \in TerminalStatuses => next = row
         /\ RowSound(row) => RowSound(next)
<1> USE DEF Rows, Statuses, TerminalStatuses, RowSound
<1>1. CASE next = row
  BY <1>1
<1>2. CASE next = Requested(row)
  BY <1>2 DEF Requested
<1>3. CASE next = Interrupted(row)
  BY <1>3 DEF Interrupted
<1>4. CASE row.status = "running" /\ row.cancelRequested /\ next = Completed(row)
  BY <1>4 DEF Completed
<1>5. CASE row.status = "running" /\ ~row.cancelRequested /\ next = Activated(row)
  BY <1>5 DEF Activated, Completed
<1>6. CASE row.status = "running" /\ \E code \in Failures : next = Failed(row, code)
  BY <1>6 DEF Failed
<1> QED BY <1>1, <1>2, <1>3, <1>4, <1>5, <1>6 DEF RowStep

\* A new row is sound.
LEMMA NewRowSound ==
  ASSUME NEW a, NEW type, NEW x
  PROVE  NewRow(QueuedRow(a, type, x)) /\ RowSound(QueuedRow(a, type, x))
BY DEF NewRow, RowSound, QueuedRow

-----------------------------------------------------------------------------
(* What a step that claims nothing does to the rows and to the threads' hold of them *)

Unclaimed ==
  /\ \A i \in Ids : i \in Ids' /\ RowStep(operations[i], operations'[i])
  /\ \A i \in Ids' : i \notin Ids => NewRow(operations'[i])

\* A thread takes up no row, and goes on to complete one without an activation only
\* when somebody asked to cancel it or it no longer runs.
Holding ==
  \A t \in Threads :
    /\ current'[t] \in {0, current[t]}
    /\ pc'[t] = "completing" =>
         /\ current'[t] = current[t]
         /\ \/ pc[t] = "completing"
            \/ operations[current[t]].cancelRequested
            \/ operations[current[t]].status # "running"

\* The row invariants, one by one, across such a step.
LEMMA UnclaimedStep ==
  ASSUME RowsInvariant, Types', Unclaimed, Holding
  PROVE  RowsInvariant'
<1>1. \A i \in Ids : operations[i] \in Rows
  BY ElementOfSeq DEF RowsInvariant, TypeOK, Ids
<1>2. \A i \in Ids :
        /\ i \in Ids'
        /\ operations'[i].application = operations[i].application
        /\ operations'[i].type = operations[i].type
        /\ operations[i].cancelRequested => operations'[i].cancelRequested
        /\ operations'[i].status = "queued" => operations[i].status = "queued"
        /\ operations'[i].status = "running" =>
             operations[i].status = "running" /\ operations'[i].lease = operations[i].lease
        /\ RowSound(operations[i]) => RowSound(operations'[i])
  BY <1>1, RowStepKeeps DEF Unclaimed
<1>3. \A i \in Ids' : i \notin Ids => RowSound(operations'[i]) /\ operations'[i].status = "queued"
  BY DEF Unclaimed, NewRow, RowSound
<1>4. \A i \in Ids' : RowSound(operations'[i])
  <2>1. \A i \in Ids : RowSound(operations[i])
    BY DEF RowsInvariant, OutputIffSucceeded, CancelledNeverSucceeds, Succeeded, RowSound
  <2> QED BY <1>2, <1>3, <2>1
<1>5. \A t \in Threads : current[t] # 0 => current[t] \in Ids
  BY DEF RowsInvariant, TypeOK
<1>6. ClaimsAreExclusive'
  <2> SUFFICES ASSUME NEW t \in Threads, NEW u \in Threads, current'[t] # 0
               PROVE  /\ current'[t] = current'[u] => t = u
                      /\ operations'[current'[t]].status # "queued"
                      /\ operations'[current'[t]].status = "running" =>
                           operations'[current'[t]].lease = Host[t]
    BY DEF ClaimsAreExclusive
  <2>1. current'[t] = current[t] /\ current'[u] \in {0, current[u]}
    BY DEF Holding
  <2>2. /\ current[t] = current[u] => t = u
        /\ operations[current[t]].status # "queued"
        /\ operations[current[t]].status = "running" => operations[current[t]].lease = Host[t]
    BY <2>1 DEF RowsInvariant, ClaimsAreExclusive
  <2> QED BY <1>2, <1>5, <2>1, <2>2
<1>7. CompletingIsOver'
  <2> SUFFICES ASSUME NEW t \in Threads, pc'[t] = "completing"
               PROVE  \/ operations'[current'[t]].cancelRequested
                      \/ operations'[current'[t]].status # "running"
    BY DEF CompletingIsOver
  <2>1. /\ current'[t] = current[t]
        /\ operations[current[t]].cancelRequested \/ operations[current[t]].status # "running"
    BY DEF Holding, RowsInvariant, CompletingIsOver
  <2>2. current[t] \in Ids
    BY <1>5, <2>1 DEF Types, BusyHasRow, Busy
  <2> QED BY <1>2, <2>1, <2>2
<1>8. OutputIffSucceeded' /\ CancelledNeverSucceeds'
  BY <1>4 DEF OutputIffSucceeded, CancelledNeverSucceeds, Succeeded, RowSound
<1>9. ClaimGuards'
  <2> SUFFICES ASSUME NEW i \in Ids', NEW j \in Ids', i # j,
                      operations'[i].status = "running", operations'[j].status = "running"
               PROVE  /\ operations'[i].application # operations'[j].application
                      /\ ~(/\ operations'[i].type = "render_document"
                           /\ operations'[j].type = "render_document")
    BY DEF ClaimGuards
  <2>1. i \in Ids /\ j \in Ids
    BY <1>3
  <2>2. operations[i].status = "running" /\ operations[j].status = "running"
    BY <1>2, <2>1
  <2>3. /\ operations[i].application # operations[j].application
        /\ ~(operations[i].type = "render_document" /\ operations[j].type = "render_document")
    BY <2>1, <2>2 DEF RowsInvariant, ClaimGuards
  <2> QED BY <1>2, <2>1, <2>3
<1> QED BY <1>6, <1>7, <1>8, <1>9 DEF RowsInvariant, Types

\* A step that writes no row.
LEMMA SameRows ==
  ASSUME RowsInvariant, UNCHANGED operations
  PROVE  Unclaimed
BY DEF Unclaimed, RowStep, Ids

\* A step that writes one row, otherwise than by claiming it.
LEMMA OneRow ==
  ASSUME RowsInvariant, NEW i \in Ids, NEW row \in Rows,
         operations' = [operations EXCEPT ![i] = row], RowStep(operations[i], row)
  PROVE  Unclaimed
<1>1. /\ Len(operations') = Len(operations)
      /\ operations'[i] = row
      /\ \A j \in Ids : j # i => operations'[j] = operations[j]
  BY WriteRow DEF RowsInvariant, TypeOK, Ids
<1>2. Ids' = Ids
  BY <1>1 DEF Ids
<1>3. \A j \in Ids : RowStep(operations[j], operations'[j])
  BY <1>1 DEF RowStep
<1> QED BY <1>2, <1>3 DEF Unclaimed

\* A step that inserts a row.
LEMMA OneMore ==
  ASSUME RowsInvariant, NEW row \in Rows, NewRow(row), Enqueue(row)
  PROVE  Unclaimed
<1>1. /\ Len(operations) \in Nat
      /\ Len(operations') = Len(operations) + 1
      /\ operations'[Len(operations) + 1] = row
      /\ \A j \in Ids : operations'[j] = operations[j]
  BY LenProperties, EnqueueRow DEF RowsInvariant, Types, TypeOK
<1>2. \A j \in Ids' : j \notin Ids => j = Len(operations) + 1
  BY <1>1 DEF Ids
<1>3. Ids \subseteq Ids'
  BY <1>1 DEF Ids
<1> QED BY <1>1, <1>2, <1>3 DEF Unclaimed, RowStep

\* A step of no thread.
LEMMA SameHolding ==
  ASSUME RowsInvariant, UNCHANGED <<pc, current>>
  PROVE  Holding
BY DEF Holding

\* A step after which thread t keeps its row and is not about to complete it.
LEMMA MovedThread ==
  ASSUME RowsInvariant, NEW t \in Threads, NEW label, label # "completing", Goto(t, label),
         UNCHANGED current
  PROVE  Holding
BY DEF Holding, Goto, RowsInvariant, TypeOK

\* A step after which thread t is about to complete a row that is over.
LEMMA CompletingThread ==
  ASSUME RowsInvariant, NEW t \in Threads, Goto(t, "completing"), UNCHANGED current,
         Row(t).cancelRequested \/ Row(t).status # "running"
  PROVE  Holding
BY DEF Holding, Goto, Row, RowsInvariant, TypeOK

\* A step after which thread t has no row.
LEMMA ReleasedThread ==
  ASSUME RowsInvariant, NEW t \in Threads, NEW label \in Free, Goto(t, label),
         current' = [current EXCEPT ![t] = 0]
  PROVE  Holding
BY DEF Holding, Goto, Free, RowsInvariant, TypeOK

\* What users do claims nothing.
LEMMA UserUnclaimed ==
  ASSUME RowsInvariant, UserStep
  PROVE  Unclaimed /\ Holding
<1>1. Types
  BY DEF RowsInvariant, Types
<1>2. ASSUME NEW a \in Applications, NEW type \in Kinds, Submit(a, type)
      PROVE  Unclaimed /\ Holding
  <2>1. Enqueue(QueuedRow(a, type, Source(a, type))) /\ UNCHANGED threadVars
    BY <1>2 DEF Submit
  <2> QED
    BY <1>1, <1>2, <2>1, SubmittedRow, NewRowSound, OneMore, SameHolding DEF threadVars
<1>3. ASSUME NEW i \in Ids, Retry(i)
      PROVE  Unclaimed /\ Holding
  <2>1. UNCHANGED threadVars
    BY <1>3 DEF Retry
  <2> QED BY <1>1, <1>3, <2>1, RetriedRow, NewRowSound, OneMore, SameHolding DEF threadVars
<1>4. ASSUME NEW i \in Ids, RequestCancel(i)
      PROVE  Unclaimed /\ Holding
  <2>1. operations[i] \in Rows
    BY <1>1, ElementOfSeq DEF Types, TypeOK, Ids
  <2>2. Requested(operations[i]) \in Rows
    BY <2>1 DEF Requested, Rows, Statuses, TerminalStatuses
  <2>3. UNCHANGED threadVars
    BY <1>4 DEF RequestCancel
  <2> QED
    BY <1>4, <2>2, <2>3, OneRow, SameHolding DEF RequestCancel, RowStep, threadVars
<1>5. ASSUME NEW a \in Applications, NEW x \in Hashes, EditText(a, x) \/ EditDocument(a, x)
      PROVE  Unclaimed /\ Holding
  <2>1. UNCHANGED <<operations, threadVars>>
    BY <1>5 DEF EditText, EditDocument, rowVars
  <2> QED BY <2>1, SameRows, SameHolding DEF threadVars
<1> QED BY <1>2, <1>3, <1>4, <1>5 DEF UserStep

\* What a process does claims nothing.
LEMMA HostUnclaimed ==
  ASSUME RowsInvariant, NEW r \in Runners, HostStep(r) \/ FaultStep(r)
  PROVE  Unclaimed /\ Holding
<1>1. CASE StartWorker(r) \/ LoseSlot(r)
  BY <1>1, SameRows, SameHolding DEF StartWorker, LoseSlot, rowVars, threadVars
<1>2. CASE Recover(r)
  <2>1. /\ Len(operations') = Len(operations)
        /\ \A i \in Ids : operations'[i] = Interrupted(operations[i])
    BY <1>2, RewriteRows DEF Recover, RowsInvariant, TypeOK, Ids
  <2>2. UNCHANGED threadVars
    BY <1>2 DEF Recover
  <2> QED BY <2>1, <2>2, SameHolding DEF Unclaimed, RowStep, Ids, threadVars
<1>3. CASE NoticeStop(r) \/ NoticeLostSlot(r) \/ WorkerFails(r)
  BY <1>3, SameRows, SameHolding
  DEF NoticeStop, NoticeLostSlot, WorkerFails, StopServing, rowVars, threadVars
<1>4. ASSUME NEW i \in toCancel[r], RequestHeldCancel(r, i)
      PROVE  Unclaimed /\ Holding
  <2>1. i \in Ids
    BY DEF RowsInvariant, TypeOK
  <2>2. operations[i] \in Rows
    BY <2>1, ElementOfSeq DEF RowsInvariant, TypeOK, Ids
  <2>3. Requested(operations[i]) \in Rows
    BY <2>2 DEF Requested, Rows, Statuses, TerminalStatuses
  <2>4. UNCHANGED threadVars
    BY <1>4 DEF RequestHeldCancel
  <2> QED
    BY <1>4, <2>1, <2>3, <2>4, OneRow, SameHolding DEF RequestHeldCancel, RowStep, threadVars
<1>5. CASE WorkerExits(r) \/ Crash(r)
  <2>1. ProcessEnds(r)
    BY <1>5 DEF WorkerExits, Crash
  <2>2. Holding
    BY <2>1 DEF ProcessEnds, Holding, RowsInvariant, TypeOK
  <2> QED BY <2>1, <2>2, SameRows DEF ProcessEnds, rowVars
<1> QED BY <1>1, <1>2, <1>3, <1>4, <1>5 DEF HostStep, FaultStep

\* A thread before its claim, and one that merely registers what it claimed.
LEMMA ClaimingUnclaimed ==
  ASSUME RowsInvariant, NEW t \in Threads, Claiming(t), UNCHANGED operations
  PROVE  Unclaimed /\ Holding
<1>1. CASE SubmitRun(t) \/ BeginClaim(t) \/ NothingToClaim(t) \/ Register(t)
  BY <1>1, SameRows, MovedThread DEF SubmitRun, BeginClaim, NothingToClaim, Register
<1>2. CASE TryClaim(t)
  <2>1. PICK i \in Oldest(candidates[t]) :
          \/ /\ Claimable(operations, i)
             /\ operations' = [operations EXCEPT ![i] = Claimed(@, Host[t])]
          \/ UNCHANGED <<current, pc>>
    BY <1>2 DEF TryClaim
  <2>2. i \in Ids /\ operations[i] \in Rows
    BY ElementOfSeq DEF Oldest, RowsInvariant, TypeOK, Ids
  <2>3. Claimed(operations[i], Host[t]) \in Rows
    BY <2>2, HostAssumption, RowsStayRows DEF Failures
  <2>4. ~ /\ Claimable(operations, i)
          /\ operations' = [operations EXCEPT ![i] = Claimed(@, Host[t])]
    <3> SUFFICES ASSUME Claimable(operations, i),
                        operations' = [operations EXCEPT ![i] = Claimed(@, Host[t])]
                 PROVE  FALSE
      OBVIOUS
    <3>1. operations[i] = Claimed(operations[i], Host[t])
      BY <2>2, <2>3, WriteRow DEF RowsInvariant, TypeOK, Ids
    <3>2. Claimed(operations[i], Host[t]).status = "running"
      BY <2>2 DEF Claimed, Rows
    <3> QED BY <3>1, <3>2 DEF Claimable
  <2> QED BY <2>1, <2>4, SameRows, SameHolding
<1> QED BY <1>1, <1>2 DEF Claiming

\* run_claimed up to activation writes no row, and gives up on one only when
\* somebody asked to cancel it or it is no longer this process's.
LEMMA ExecutionUnclaimed ==
  ASSUME RowsInvariant, NEW t \in Threads, Execution(t)
  PROVE  Unclaimed /\ Holding
<1>1. UNCHANGED <<operations, current>>
  BY DEF Execution, Verify, Precheck, BeginExecution, ExecutionSucceeds, ExecutionFails,
         ExecutionStops, RecordFailure, RecordFailureRefused, CheckCancelled, rowVars
<1>2. Unclaimed
  BY <1>1, SameRows
<1>3. CASE Verify(t) \/ BeginExecution(t) \/ ExecutionSucceeds(t)
  BY <1>1, <1>2, <1>3, MovedThread DEF Verify, BeginExecution, ExecutionSucceeds, FailWith
<1>4. CASE ExecutionFails(t) \/ RecordFailure(t) \/ RecordFailureRefused(t)
  BY <1>1, <1>2, <1>4, MovedThread DEF ExecutionFails, RecordFailure, RecordFailureRefused, FailWith
<1>5. CASE Precheck(t)
  <2>1. CASE Row(t).cancelRequested
    BY <1>1, <1>2, <1>5, <2>1, CompletingThread DEF Precheck
  <2>2. CASE ~Row(t).cancelRequested
    BY <1>1, <1>2, <1>5, <2>2, MovedThread DEF Precheck
  <2> QED BY <2>1, <2>2
<1>6. CASE CheckCancelled(t)
  BY <1>1, <1>2, <1>6, CompletingThread, MovedThread DEF CheckCancelled
<1>7. CASE ExecutionStops(t)
  <2>1. current[t] # 0 /\ Goto(t, "completing") /\ ~StillOwned(Row(t), Host[t])
    BY <1>7 DEF ExecutionStops, RowsInvariant, BusyHasRow, Busy
  <2>2. Row(t).status = "running" => Row(t).lease = Host[t]
    BY <2>1 DEF RowsInvariant, ClaimsAreExclusive, Row
  <2> QED BY <1>1, <1>2, <2>1, <2>2, CompletingThread DEF StillOwned, Leased
<1> QED BY <1>3, <1>4, <1>5, <1>6, <1>7 DEF Execution

\* Activation ends the row it leases or leaves every row alone.
LEMMA ActivationUnclaimed ==
  ASSUME RowsInvariant, NEW t \in Threads, Activation(t)
  PROVE  Unclaimed /\ Holding
<1>1. CASE BeginActivation(t) \/ AfterActivation(t)
  BY <1>1, SameRows, MovedThread DEF BeginActivation, AfterActivation, rowVars
<1>2. CASE Activate(t)
  <2>1. Types /\ pc[t] \in Busy
    BY <1>2 DEF RowsInvariant, Types, Activate, Busy
  <2>2. ActivationOutcome(t) /\ current' = current
    BY <1>2, <2>1, ActivateEffect DEF Activate
  <2>3. Holding
    BY <2>2, MovedThread DEF ActivationOutcome
  <2>4. /\ Len(operations) <= Len(operations')
        /\ \A j \in Ids : j # current[t] => operations'[j] = operations[j]
        /\ \A j \in Ids' : j \notin Ids => NewRow(operations'[j])
        /\ RowStep(operations[current[t]], operations'[current[t]])
    BY <2>1, <2>2, ActivatedRows, NewRowSound DEF ActivationOutcome, RowStep, Leased
  <2>5. operations' \in Seq(Rows)
    BY <2>1, <2>2, ActivatedRows DEF ActivationOutcome
  <2>6. Ids \subseteq Ids'
    BY <2>1, <2>4, <2>5, MoreRows
  <2> QED BY <2>3, <2>4, <2>6 DEF Unclaimed, RowStep
<1> QED BY <1>1, <1>2 DEF Activation

\* _complete and _fail end the row the thread leases, or raise.
LEMMA EndingUnclaimed ==
  ASSUME RowsInvariant, NEW t \in Threads, Ending(t)
  PROVE  Unclaimed /\ Holding
<1> DEFINE i == current[t]
<1>1. Types
  BY DEF RowsInvariant, Types
<1>2. CASE BeginFail(t)
  BY <1>2, SameRows, MovedThread DEF BeginFail, rowVars
<1>3. CASE Finish(t)
  BY <1>3, SameRows, ReleasedThread DEF Finish, rowVars, Free
<1>4. CASE ThreadCrashes(t) /\ UNCHANGED operations
  BY <1>4, SameRows, ReleasedThread DEF ThreadCrashes, Free
<1>5. CASE /\ pc[t] = "completing" /\ Leased(Row(t), Host[t])
           /\ operations' = [operations EXCEPT ![i] = Completed(@)]
           /\ Goto(t, "finished") /\ UNCHANGED current
  <2>1. i \in Ids /\ operations[i] \in Rows
    BY <1>1, <1>5, BusyRow DEF Busy, Row
  <2>2. Completed(operations[i]) \in Rows
    BY <2>1 DEF Completed, Rows, Statuses, TerminalStatuses, Failures
  <2>3. operations[i].status = "running" /\ operations[i].cancelRequested
    BY <1>5 DEF RowsInvariant, CompletingIsOver, Leased, Row
  <2>4. RowStep(operations[i], Completed(operations[i]))
    BY <2>3 DEF RowStep
  <2> QED BY <1>5, <2>1, <2>2, <2>4, OneRow, MovedThread
<1>6. CASE /\ pc[t] = "failed" /\ Leased(seen[t].row, Host[t]) /\ ~RowMoved(t)
           /\ operations' = [operations EXCEPT ![i] = Failed(@, failing[t])]
           /\ Goto(t, "finished") /\ UNCHANGED current
  <2>1. i \in Ids /\ operations[i] \in Rows /\ failing[t] \in Failures
    BY <1>1, <1>6, BusyRow DEF Busy, Row, Types, TypeOK
  <2>2. Failed(operations[i], failing[t]) \in Rows
    BY <2>1 DEF Failed, Rows, Statuses, TerminalStatuses
  <2>3. operations[i].status = "running"
    BY <1>6 DEF RowMoved, Leased, Row
  <2>4. RowStep(operations[i], Failed(operations[i], failing[t]))
    BY <2>1, <2>3 DEF RowStep
  <2> QED BY <1>6, <2>1, <2>2, <2>4, OneRow, MovedThread
<1> QED BY <1>2, <1>3, <1>4, <1>5, <1>6 DEF Ending, Complete, Fail

-----------------------------------------------------------------------------
(* A claim *)

\* A claim gives a queued row, which no thread holds, to one thread, while no other
\* running row is of its Application or, for a render, a render.
LEMMA ClaimStep ==
  ASSUME RowsInvariant, Types', NEW t \in Threads, TryClaim(t), ~UNCHANGED operations
  PROVE  RowsInvariant'
<1>1. PICK i \in Oldest(candidates[t]) :
        /\ Claimable(operations, i)
        /\ operations' = [operations EXCEPT ![i] = Claimed(@, Host[t])]
        /\ current' = [current EXCEPT ![t] = i]
        /\ Goto(t, "claimed")
  BY DEF TryClaim
<1>2. i \in Ids /\ operations[i] \in Rows
  BY ElementOfSeq DEF Oldest, RowsInvariant, TypeOK, Ids
<1>3. Claimed(operations[i], Host[t]) \in Rows
  BY <1>2, HostAssumption, RowsStayRows DEF Failures
<1>4. /\ Len(operations') = Len(operations)
      /\ operations'[i] = Claimed(operations[i], Host[t])
      /\ \A j \in Ids : j # i => operations'[j] = operations[j]
  BY <1>1, <1>2, <1>3, WriteRow DEF RowsInvariant, TypeOK, Ids
<1>5. Ids' = Ids /\ DOMAIN operations = Ids
  BY <1>4, LenProperties DEF Ids, RowsInvariant, TypeOK
<1>6. /\ operations'[i].status = "running" /\ operations'[i].lease = Host[t]
      /\ operations'[i].application = operations[i].application
      /\ operations'[i].type = operations[i].type
      /\ operations'[i].outputs = operations[i].outputs
  BY <1>2, <1>4 DEF Claimed, Rows
<1>7. operations[i].status = "queued" /\ SlotsFree(operations, i)
  BY <1>1 DEF Claimable
<1>8. \A u \in Threads : current[u] # i
  BY <1>2, <1>7, LenProperties DEF RowsInvariant, ClaimsAreExclusive, TypeOK, Ids
<1>9. /\ current'[t] = i /\ \A u \in Threads : u # t => current'[u] = current[u]
      /\ \A u \in Threads : current[u] # 0 => current[u] \in Ids
  BY <1>1 DEF RowsInvariant, TypeOK
<1>10. ClaimsAreExclusive'
  <2> SUFFICES ASSUME NEW u \in Threads, NEW v \in Threads, current'[u] # 0
               PROVE  /\ current'[u] = current'[v] => u = v
                      /\ operations'[current'[u]].status # "queued"
                      /\ operations'[current'[u]].status = "running" =>
                           operations'[current'[u]].lease = Host[u]
    BY DEF ClaimsAreExclusive
  <2>1. CASE u = t
    BY <1>6, <1>8, <1>9, <2>1
  <2>2. CASE u # t
    <3>1. /\ current[u] = current[v] => u = v
          /\ operations[current[u]].status # "queued"
          /\ operations[current[u]].status = "running" => operations[current[u]].lease = Host[u]
      BY <1>9, <2>2 DEF RowsInvariant, ClaimsAreExclusive
    <3> QED BY <1>4, <1>8, <1>9, <2>2, <3>1
  <2> QED BY <2>1, <2>2
<1>11. CompletingIsOver'
  <2> SUFFICES ASSUME NEW u \in Threads, pc'[u] = "completing"
               PROVE  \/ operations'[current'[u]].cancelRequested
                      \/ operations'[current'[u]].status # "running"
    BY DEF CompletingIsOver
  <2>1. u # t /\ pc[u] = "completing"
    BY <1>1 DEF Goto, RowsInvariant, TypeOK
  <2>2. current[u] \in Ids
    BY <1>9, <2>1 DEF RowsInvariant, BusyHasRow, Busy
  <2>3. operations[current[u]].cancelRequested \/ operations[current[u]].status # "running"
    BY <2>1 DEF RowsInvariant, CompletingIsOver
  <2> QED BY <1>4, <1>8, <1>9, <2>1, <2>2, <2>3
<1>12. OutputIffSucceeded' /\ CancelledNeverSucceeds'
  BY <1>4, <1>5, <1>6, <1>7
  DEF OutputIffSucceeded, CancelledNeverSucceeds, Succeeded, RowsInvariant
<1>13. ClaimGuards'
  <2> SUFFICES ASSUME NEW j \in Ids, NEW k \in Ids, j # k,
                      operations'[j].status = "running", operations'[k].status = "running"
               PROVE  /\ operations'[j].application # operations'[k].application
                      /\ ~(/\ operations'[j].type = "render_document"
                           /\ operations'[k].type = "render_document")
    BY <1>5 DEF ClaimGuards
  <2>1. CASE j # i /\ k # i
    BY <1>4, <2>1 DEF RowsInvariant, ClaimGuards
  <2>2. CASE j = i
    BY <1>4, <1>5, <1>6, <1>7, <2>2 DEF SlotsFree
  <2>3. CASE k = i
    BY <1>4, <1>5, <1>6, <1>7, <2>3 DEF SlotsFree
  <2> QED BY <2>1, <2>2, <2>3
<1> QED BY <1>10, <1>11, <1>12, <1>13 DEF RowsInvariant, Types

-----------------------------------------------------------------------------
(* The rows, over a whole run *)

\* A step either claims one row or claims nothing.
LEMMA ClaimOrNot ==
  ASSUME RowsInvariant, [Next]_vars
  PROVE  \/ Unclaimed /\ Holding
         \/ \E t \in Threads : TryClaim(t) /\ ~UNCHANGED operations
<1>1. CASE UserStep
  BY <1>1, UserUnclaimed
<1>2. ASSUME NEW t \in Threads, ThreadStep(t)
      PROVE  \/ Unclaimed /\ Holding
             \/ TryClaim(t) /\ ~UNCHANGED operations
  <2>1. CASE Claiming(t)
    <3>1. CASE TryClaim(t)
      BY <2>1, <3>1, ClaimingUnclaimed
    <3>2. CASE ~TryClaim(t)
      <4>1. UNCHANGED operations
        BY <2>1, <3>2
        DEF Claiming, SubmitRun, BeginClaim, NothingToClaim, Register, rowVars
      <4> QED BY <2>1, <4>1, ClaimingUnclaimed
    <3> QED BY <3>1, <3>2
  <2>2. CASE Execution(t) \/ Activation(t) \/ Ending(t)
    BY <2>2, ExecutionUnclaimed, ActivationUnclaimed, EndingUnclaimed
  <2> QED BY <1>2, <2>1, <2>2 DEF ThreadStep
<1>3. ASSUME NEW r \in Runners, HostStep(r) \/ FaultStep(r)
      PROVE  Unclaimed /\ Holding
  BY <1>3, HostUnclaimed
<1>4. CASE UNCHANGED vars
  BY <1>4, SameRows, SameHolding DEF vars, rowVars, threadVars
<1> QED BY <1>1, <1>2, <1>3, <1>4 DEF Next

\* Every step keeps the inductive invariant.
LEMMA NextRows ==
  ASSUME RowsInvariant, [Next]_vars
  PROVE  RowsInvariant'
<1>1. Types'
  BY NextTypes DEF RowsInvariant, Types
<1> QED BY <1>1, ClaimOrNot, UnclaimedStep, ClaimStep

\* The initial state has no rows and no thread that holds one.
LEMMA InitRows == Init => RowsInvariant
<1> SUFFICES ASSUME Init PROVE RowsInvariant
  OBVIOUS
<1>1. Types
  BY InitTypes
<1>2. Ids = {}
  BY DEF Init, Ids
<1>3. /\ \A t \in Threads : current[t] = 0
      /\ \A t \in Threads : pc[t] # "completing"
  BY DEF Init
<1> QED
  BY <1>1, <1>2, <1>3
  DEF RowsInvariant, Types, ClaimsAreExclusive, CompletingIsOver, OutputIffSucceeded,
      CancelledNeverSucceeds, ClaimGuards

\* The rows are sound and claims are exclusive in every reachable state, whatever
\* cancellations, crashes, stops and takeovers happen in between.
THEOREM RowsAreSound == Spec => []RowsInvariant
<1>1. RowsInvariant /\ [Next]_vars => RowsInvariant'
  BY NextRows
<1> QED BY InitRows, <1>1, PTL DEF Spec

\* A row has outputs exactly when it succeeded.
THEOREM OutputsAreSuccesses == Spec => []OutputIffSucceeded
<1>1. RowsInvariant => OutputIffSucceeded
  BY DEF RowsInvariant
<1> QED BY RowsAreSound, <1>1, PTL

\* No Operation somebody asked to cancel ever succeeds.
THEOREM CancellationWins == Spec => []CancelledNeverSucceeds
<1>1. RowsInvariant => CancelledNeverSucceeds
  BY DEF RowsInvariant
<1> QED BY RowsAreSound, <1>1, PTL

\* One running Operation per Application and one running render overall, for any
\* number of threads and processes, and also while a process that lost its slot
\* still claims beside the one that took it over.
THEOREM GuardsHold == Spec => []ClaimGuards
<1>1. RowsInvariant => ClaimGuards
  BY DEF RowsInvariant
<1> QED BY RowsAreSound, <1>1, PTL

\* One step: the rows of the table stay, and the ended ones stay as they are.
LEMMA EndedRowsStay ==
  ASSUME RowsInvariant, [Next]_vars
  PROVE  \A i \in Ids : i \in DOMAIN operations'
                        /\ (Terminal(i) => operations'[i] = operations[i])
<1>1. DOMAIN operations' = Ids'
  BY NextRows, LenProperties DEF RowsInvariant, TypeOK, Ids
<1>2. \A i \in Ids : operations[i] \in Rows
  BY ElementOfSeq DEF RowsInvariant, TypeOK, Ids
<1>3. CASE Unclaimed
  BY <1>1, <1>2, <1>3, RowStepKeeps DEF Unclaimed, Terminal
<1>4. ASSUME NEW t \in Threads, TryClaim(t), ~UNCHANGED operations
      PROVE  \A i \in Ids : i \in Ids' /\ (Terminal(i) => operations'[i] = operations[i])
  <2>1. PICK i \in Oldest(candidates[t]) :
          /\ Claimable(operations, i)
          /\ operations' = [operations EXCEPT ![i] = Claimed(@, Host[t])]
    BY <1>4 DEF TryClaim
  <2>2. i \in Ids /\ operations[i].status = "queued"
    BY <2>1 DEF Oldest, Claimable, RowsInvariant, TypeOK
  <2>3. Claimed(operations[i], Host[t]) \in Rows
    BY <1>2, <2>2, HostAssumption, RowsStayRows DEF Failures
  <2>4. /\ Len(operations') = Len(operations)
        /\ \A j \in Ids : j # i => operations'[j] = operations[j]
    BY <2>1, <2>2, <2>3, WriteRow DEF RowsInvariant, TypeOK, Ids
  <2> QED BY <2>2, <2>4 DEF Ids, Terminal, TerminalStatuses
<1> QED BY <1>1, <1>3, <1>4, ClaimOrNot

\* A terminal row never changes again.
THEOREM EndedIsFinal == Spec => TerminalIsFinal
<1>1. RowsInvariant /\ [Next]_vars =>
        [\A i \in Ids : i \in DOMAIN operations'
                        /\ (Terminal(i) => operations'[i] = operations[i])]_vars
  BY EndedRowsStay
<1> QED BY RowsAreSound, <1>1, PTL DEF Spec, TerminalIsFinal

-----------------------------------------------------------------------------
(* The rows implement the promised lifecycle *)

\* What clients see of the rows.
Jobs == [i \in Ids |-> Job(operations[i])]

\* Clients see as many jobs as there are rows.
LEMMA JobsAreASequence ==
  ASSUME NEW rows \in Seq(Rows)
  PROVE  /\ [i \in 1..Len(rows) |-> Job(rows[i])] \in Seq({Job(row) : row \in Rows})
         /\ Len([i \in 1..Len(rows) |-> Job(rows[i])]) = Len(rows)
<1>1. \A i \in 1..Len(rows) : rows[i] \in Rows
  BY ElementOfSeq
<1> QED BY <1>1, LenProperties

\* Writing one row writes one job.
LEMMA JobWritten ==
  ASSUME operations \in Seq(Rows), NEW i \in Ids, NEW row \in Rows,
         operations' = [operations EXCEPT ![i] = row]
  PROVE  Jobs' = [Jobs EXCEPT ![i] = Job(row)]
<1>1. /\ Len(operations') = Len(operations)
      /\ operations'[i] = row
      /\ \A j \in Ids : j # i => operations'[j] = operations[j]
  BY WriteRow DEF Ids
<1>2. Ids' = Ids
  BY <1>1 DEF Ids
<1>3. [Jobs EXCEPT ![i] = Job(row)] = [j \in Ids |-> IF j = i THEN Job(row) ELSE Jobs[j]]
  BY DEF Jobs
<1>4. \A j \in Ids : Job(operations'[j]) = IF j = i THEN Job(row) ELSE Jobs[j]
  BY <1>1 DEF Jobs
<1>5. Jobs' = [j \in Ids |-> Job(operations'[j])]
  BY <1>2 DEF Jobs
<1> QED BY <1>3, <1>4, <1>5

\* Inserting a row adds a job.
LEMMA JobAdded ==
  ASSUME NEW rows \in Seq(Rows), NEW row \in Rows
  PROVE  [i \in 1..Len(Append(rows, row)) |-> Job(Append(rows, row)[i])]
           = Append([i \in 1..Len(rows) |-> Job(rows[i])], Job(row))
<1> DEFINE jobs == [i \in 1..Len(rows) |-> Job(rows[i])]
           more == [i \in 1..Len(Append(rows, row)) |-> Job(Append(rows, row)[i])]
           S == {Job(r) : r \in Rows}
<1>1. jobs \in Seq(S) /\ Len(jobs) = Len(rows) /\ Len(rows) \in Nat
  BY JobsAreASequence, LenProperties
<1>2. /\ Append(rows, row) \in Seq(Rows)
      /\ Len(Append(rows, row)) = Len(rows) + 1
      /\ Append(rows, row)[Len(rows) + 1] = row
      /\ \A j \in 1..Len(rows) : Append(rows, row)[j] = rows[j]
  BY InsertRow
<1>3. more \in Seq(S) /\ Len(more) = Len(rows) + 1
  BY <1>2, JobsAreASequence
<1>4. Job(row) \in S
  OBVIOUS
<1>5. /\ Append(jobs, Job(row)) \in Seq(S)
      /\ Len(Append(jobs, Job(row))) = Len(rows) + 1
      /\ Append(jobs, Job(row))[Len(rows) + 1] = Job(row)
      /\ \A j \in 1..Len(rows) : Append(jobs, Job(row))[j] = jobs[j]
  BY <1>1, <1>4, AppendProperties
<1>6. \A i \in 1..(Len(rows) + 1) : more[i] = Append(jobs, Job(row))[i]
  <2> SUFFICES ASSUME NEW i \in 1..(Len(rows) + 1)
               PROVE  more[i] = Append(jobs, Job(row))[i]
    OBVIOUS
  <2>1. i \in 1..Len(rows) \/ i = Len(rows) + 1
    BY <1>1
  <2>2. more[i] = Job(Append(rows, row)[i])
    BY <1>2
  <2>3. \A j \in 1..Len(rows) : jobs[j] = Job(rows[j])
    OBVIOUS
  <2> HIDE DEF more, jobs
  <2> QED BY <1>2, <1>5, <2>1, <2>2, <2>3
<1> HIDE DEF more, jobs
<1>7. more = Append(jobs, Job(row))
  BY <1>3, <1>5, <1>6, SeqEqual
<1> QED BY <1>7 DEF more, jobs

\* The initial rows are the initial jobs.
LEMMA InitLifecycle == Init => Lifecycle!Init
<1> SUFFICES ASSUME Init PROVE Jobs = <<>>
  BY DEF Lifecycle!Init, Jobs
<1>1. operations \in Seq(Rows) /\ Len(operations) = 0
  BY DEF Init
<1>2. Jobs \in Seq({Job(row) : row \in Rows}) /\ Len(Jobs) = 0
  BY <1>1, JobsAreASequence DEF Jobs, Ids
<1> QED BY <1>2, EmptySeq

\* Recovery seen through the job.
LEMMA InterruptedJob ==
  ASSUME NEW row \in Rows
  PROVE  /\ row.status = "running" =>
              Job(Interrupted(row)) = [Job(row) EXCEPT !.status = "interrupted"]
         /\ row.status # "running" => Job(Interrupted(row)) = Job(row)
<1>1. CASE row.status = "running"
  <2>1. Interrupted(row) = [row EXCEPT !.status = "interrupted", !.lease = NoRunner]
    BY <1>1 DEF Interrupted
  <2> QED BY <1>1, <2>1 DEF Job, Rows
<1>2. CASE row.status # "running"
  BY <1>2 DEF Interrupted
<1> QED BY <1>1, <1>2

\* What an Operation and its job share.
LEMMA JobOfRow ==
  ASSUME operations \in Seq(Rows), NEW i \in Ids
  PROVE  /\ operations[i] \in Rows /\ DOMAIN Jobs = Ids /\ DOMAIN operations = Ids
         /\ Jobs[i] = Job(operations[i])
         /\ Jobs[i].status = operations[i].status
         /\ Jobs[i].cancelRequested = operations[i].cancelRequested
         /\ Jobs[i].application = operations[i].application
         /\ Jobs[i].type = operations[i].type
BY ElementOfSeq, LenProperties DEF Jobs, Job, Ids

\* A request to cancel, a user's or a stopping worker's.
LEMMA RequestLifecycle ==
  ASSUME RowsInvariant, NEW i \in Ids,
         operations' = [operations EXCEPT ![i] = Requested(@)]
  PROVE  [Lifecycle!Next]_Jobs
<1>1. operations \in Seq(Rows)
  BY DEF RowsInvariant, TypeOK
<1>2. operations[i] \in Rows /\ Requested(operations[i]) \in Rows
  BY <1>1, JobOfRow DEF Requested, Rows, Statuses, TerminalStatuses
<1>3. Jobs' = [Jobs EXCEPT ![i] = Job(Requested(operations[i]))]
  BY <1>1, <1>2, JobWritten
<1>4. CASE operations[i].status = "queued"
  <2>1. Jobs' = [Jobs EXCEPT ![i].status = "cancelled", ![i].cancelRequested = TRUE]
    BY <1>1, <1>2, <1>3, <1>4, JobOfRow DEF Job, Requested, Rows, Jobs
  <2>2. Lifecycle!AskCancel(i)
    BY <1>1, <1>4, <2>1, JobOfRow DEF Lifecycle!AskCancel, Jobs
  <2> QED BY <1>1, <2>2, JobOfRow DEF Lifecycle!Next, Jobs
<1>5. CASE operations[i].status = "running"
  <2>1. Jobs' = [Jobs EXCEPT ![i].cancelRequested = TRUE]
    BY <1>1, <1>2, <1>3, <1>5, JobOfRow DEF Job, Requested, Rows, Jobs
  <2>2. Lifecycle!AskCancel(i)
    BY <1>1, <1>5, <2>1, JobOfRow DEF Lifecycle!AskCancel, Jobs
  <2> QED BY <1>1, <2>2, JobOfRow DEF Lifecycle!Next, Jobs
<1>6. CASE operations[i].status \notin {"queued", "running"}
  <2>1. Requested(operations[i]) = operations[i]
    BY <1>6 DEF Requested
  <2>2. Jobs' = [Jobs EXCEPT ![i] = Jobs[i]]
    BY <1>1, <1>3, <2>1, JobOfRow
  <2>3. UNCHANGED Jobs
    BY <2>2 DEF Jobs
  <2> QED BY <2>3
<1> QED BY <1>4, <1>5, <1>6

\* A claim starts a job that may start.
LEMMA ClaimLifecycle ==
  ASSUME RowsInvariant, NEW t \in Threads, TryClaim(t), ~UNCHANGED operations
  PROVE  [Lifecycle!Next]_Jobs
<1>1. operations \in Seq(Rows)
  BY DEF RowsInvariant, TypeOK
<1>2. PICK i \in Oldest(candidates[t]) :
        /\ Claimable(operations, i)
        /\ operations' = [operations EXCEPT ![i] = Claimed(@, Host[t])]
  BY DEF TryClaim
<1>3. i \in Ids
  BY DEF Oldest, RowsInvariant, TypeOK
<1>4. operations[i] \in Rows /\ Claimed(operations[i], Host[t]) \in Rows
  BY <1>1, <1>3, JobOfRow, HostAssumption, RowsStayRows DEF Failures
<1>5. Jobs' = [Jobs EXCEPT ![i] = Job(Claimed(operations[i], Host[t]))]
  BY <1>1, <1>2, <1>3, <1>4, JobWritten
<1>6. Jobs' = [Jobs EXCEPT ![i].status = "running"]
  BY <1>1, <1>3, <1>4, <1>5, JobOfRow DEF Job, Claimed, Rows, Jobs
<1>7. Lifecycle!MayStart(i)
  BY <1>1, <1>2, <1>3, JobOfRow DEF Lifecycle!MayStart, Claimable, SlotsFree, Jobs
<1> QED BY <1>1, <1>3, <1>6, <1>7, JobOfRow DEF Lifecycle!Next, Lifecycle!Start, Jobs

\* Recovery interrupts what was running, all at once.
LEMMA RecoverLifecycle ==
  ASSUME RowsInvariant, NEW r \in Runners, Recover(r)
  PROVE  [Lifecycle!Next]_Jobs
<1>1. operations \in Seq(Rows)
  BY DEF RowsInvariant, TypeOK
<1>2. /\ Len(operations') = Len(operations)
      /\ \A i \in Ids : operations'[i] = Interrupted(operations[i])
  BY <1>1, RewriteRows DEF Recover, Ids
<1>3. Ids' = Ids
  BY <1>2 DEF Ids
<1>4. ASSUME NEW i \in Ids
      PROVE  Job(operations'[i]) = IF Jobs[i].status = "running"
                                     THEN [Jobs[i] EXCEPT !.status = "interrupted"]
                                     ELSE Jobs[i]
  BY <1>1, <1>2, JobOfRow, InterruptedJob
<1>5. Jobs' = [i \in Ids |-> Job(operations'[i])]
  BY <1>3 DEF Jobs
<1>6. Jobs' = [i \in DOMAIN Jobs |-> IF Jobs[i].status = "running"
                                       THEN [Jobs[i] EXCEPT !.status = "interrupted"]
                                       ELSE Jobs[i]]
  BY <1>4, <1>5 DEF Jobs
<1> QED BY <1>6 DEF Lifecycle!Next, Lifecycle!InterruptAll, Jobs

\* A submission or a retry adds a job.
LEMMA EnqueueLifecycle ==
  ASSUME RowsInvariant, NEW a \in Applications, NEW type \in OperationTypes, NEW x,
         QueuedRow(a, type, x) \in Rows, Enqueue(QueuedRow(a, type, x))
  PROVE  [Lifecycle!Next]_Jobs
<1>1. operations \in Seq(Rows) /\ operations' = Append(operations, QueuedRow(a, type, x))
  BY DEF Enqueue, RowsInvariant, TypeOK
<1>2. Jobs' = Append(Jobs, Job(QueuedRow(a, type, x)))
  BY <1>1, JobAdded DEF Jobs, Ids
<1>3. Job(QueuedRow(a, type, x)) = Lifecycle!NewJob(a, type)
  BY DEF Job, QueuedRow, Lifecycle!NewJob
<1> QED BY <1>2, <1>3 DEF Lifecycle!Next, Lifecycle!Submit, Jobs

\* The end of a running row that nothing follows.
LEMMA EndLifecycle ==
  ASSUME RowsInvariant, NEW i \in Ids, operations[i].status = "running", NEW row \in Rows,
         operations' = [operations EXCEPT ![i] = row],
         \/ operations[i].cancelRequested /\ row = Completed(operations[i])
         \/ ~operations[i].cancelRequested /\ row = Activated(operations[i])
         \/ \E code \in Failures : row = Failed(operations[i], code)
  PROVE  [Lifecycle!Next]_Jobs
<1>1. operations \in Seq(Rows) /\ operations[i] \in Rows /\ i \in DOMAIN Jobs
  BY JobOfRow DEF RowsInvariant, TypeOK
<1>2. Jobs' = [Jobs EXCEPT ![i] = Job(row)]
  BY <1>1, JobWritten
<1>3. CASE operations[i].cancelRequested /\ row = Completed(operations[i])
  <2>1. Jobs' = [Jobs EXCEPT ![i].status = "cancelled"]
    BY <1>1, <1>2, <1>3, JobOfRow DEF Job, Completed, Rows, Jobs
  <2>2. Lifecycle!Cancel(i)
    BY <1>1, <1>3, <2>1, JobOfRow DEF Lifecycle!Cancel, Jobs
  <2> QED BY <1>1, <2>2 DEF Lifecycle!Next, Jobs
<1>4. CASE ~operations[i].cancelRequested /\ row = Activated(operations[i])
  <2>1. Jobs' = [Jobs EXCEPT ![i].status = "succeeded"]
    BY <1>1, <1>2, <1>4, JobOfRow DEF Job, Activated, Completed, Rows, Jobs
  <2>2. Lifecycle!Succeed(i)
    BY <1>1, <1>4, <2>1, JobOfRow DEF Lifecycle!Succeed, Jobs
  <2> QED BY <1>1, <2>2 DEF Lifecycle!Next, Jobs
<1>5. CASE \E code \in Failures : row = Failed(operations[i], code)
  <2>1. Jobs' = [Jobs EXCEPT ![i].status = "failed"]
    BY <1>1, <1>2, <1>5, JobOfRow DEF Job, Failed, Rows, Jobs
  <2>2. Lifecycle!Fail(i)
    BY <1>1, <2>1, JobOfRow DEF Lifecycle!Fail, Jobs
  <2> QED BY <1>1, <2>2 DEF Lifecycle!Next, Jobs
<1> QED BY <1>3, <1>4, <1>5

\* An activation leaves the jobs alone, cancels its own, or succeeds with it, the
\* analysis that created a document possibly adding the draft's job.
LEMMA ActivateLifecycle ==
  ASSUME RowsInvariant, NEW t \in Threads, Activate(t)
  PROVE  [Lifecycle!Next]_Jobs
<1> DEFINE i == current[t]
           done == [operations EXCEPT ![i] = Activated(@)]
<1>1. Types /\ operations \in Seq(Rows) /\ pc[t] \in Busy
  BY DEF RowsInvariant, Types, TypeOK, Activate, Busy
<1>2. ActivationEffect(t)
  BY <1>1, ActivateEffect DEF ActivationOutcome
<1>3. i \in Ids /\ operations[i] \in Rows /\ operations[i].application \in Applications
  BY <1>1, BusyRow DEF Row
<1>4. Completed(operations[i]) \in Rows /\ Activated(operations[i]) \in Rows
  BY <1>3 DEF Activated, Completed, Rows, Statuses, TerminalStatuses, Failures
<1>5. CASE UNCHANGED operations
  BY <1>5 DEF Jobs, Ids
<1>6. CASE /\ Leased(operations[i], Host[t]) /\ operations[i].cancelRequested
           /\ operations' = [operations EXCEPT ![i] = Completed(@)]
  BY <1>3, <1>4, <1>6, EndLifecycle DEF Leased
<1>7. CASE /\ Leased(operations[i], Host[t]) /\ ~operations[i].cancelRequested
           /\ operations' = done
  BY <1>3, <1>4, <1>7, EndLifecycle DEF Leased
<1>8. ASSUME Leased(operations[i], Host[t]), ~operations[i].cancelRequested,
             operations[i].type = "analyze_job",
             QueuedRow(operations[i].application, "create_draft", 1) \in Rows,
             operations' = Append(done, QueuedRow(operations[i].application, "create_draft", 1))
      PROVE  Lifecycle!Next
  <2> DEFINE a == operations[i].application
             more == QueuedRow(a, "create_draft", 1)
             jobs == [Jobs EXCEPT ![i].status = "succeeded"]
  <2>1. done \in Seq(Rows) /\ Len(done) = Len(operations) /\ done[i] = Activated(operations[i])
        /\ \A j \in Ids : j # i => done[j] = operations[j]
    BY <1>1, <1>3, <1>4, WriteRow DEF Ids
  <2>2. [j \in 1..Len(done) |-> Job(done[j])] = jobs
    <3>1. jobs = [j \in Ids |-> IF j = i THEN [Jobs[j] EXCEPT !.status = "succeeded"]
                                         ELSE Jobs[j]]
      BY DEF Jobs
    <3>2. Job(done[i]) = [Jobs[i] EXCEPT !.status = "succeeded"]
      <4>1. Job(Activated(operations[i])) = [Job(operations[i]) EXCEPT !.status = "succeeded"]
        BY <1>3, <1>8 DEF Job, Activated, Completed, Rows
      <4> QED BY <1>1, <1>3, <2>1, <4>1, JobOfRow
    <3>3. \A j \in Ids : j # i => Job(done[j]) = Jobs[j]
      BY <2>1 DEF Jobs
    <3> HIDE DEF done, jobs
    <3> QED BY <2>1, <3>1, <3>2, <3>3 DEF Ids
  <2>3. Jobs' = Append(jobs, Job(more))
    <3>1. Jobs' = [j \in 1..Len(Append(done, more)) |-> Job(Append(done, more)[j])]
      BY <1>8 DEF Jobs, Ids
    <3> HIDE DEF done, more, jobs
    <3> QED BY <1>8, <2>1, <2>2, <3>1, JobAdded DEF more
  <2>4. Job(more) = Lifecycle!NewJob(a, "create_draft")
    BY DEF Job, QueuedRow, Lifecycle!NewJob
  <2>5. /\ Jobs[i].status = "running" /\ ~Jobs[i].cancelRequested
        /\ Jobs[i].type = "analyze_job" /\ Jobs[i].application = a /\ i \in DOMAIN Jobs
    BY <1>1, <1>3, <1>8, JobOfRow DEF Leased
  <2>6. Lifecycle!Succeed(i)
    BY <2>3, <2>4, <2>5 DEF Lifecycle!Succeed, Jobs
  <2> QED BY <2>5, <2>6 DEF Lifecycle!Next, Jobs
<1> QED BY <1>2, <1>5, <1>6, <1>7, <1>8 DEF ActivationEffect

\* Every step of the workers is a step of the lifecycle, or a stutter.
LEMMA NextLifecycle ==
  ASSUME RowsInvariant, [Next]_vars
  PROVE  [Lifecycle!Next]_Jobs
<1> USE DEF RowsInvariant
<1>1. operations \in Seq(Rows) /\ Types
  BY DEF Types, TypeOK
<1>2. CASE UNCHANGED operations
  BY <1>2 DEF Jobs, Ids
<1>3. ASSUME NEW a \in Applications, NEW type \in Kinds, Submit(a, type)
      PROVE  [Lifecycle!Next]_Jobs
  BY <1>1, <1>3, SubmittedRow, EnqueueLifecycle, KindsAssumption DEF Submit
<1>4. ASSUME NEW i \in Ids, Retry(i)
      PROVE  [Lifecycle!Next]_Jobs
  <2>1. operations[i].application \in Applications /\ operations[i].type \in OperationTypes
    BY <1>1, JobOfRow DEF Rows
  <2> QED BY <1>1, <1>4, <2>1, RetriedRow, EnqueueLifecycle
<1>5. ASSUME NEW i \in Ids, RequestCancel(i)
      PROVE  [Lifecycle!Next]_Jobs
  BY <1>5, RequestLifecycle DEF RequestCancel
<1>6. ASSUME NEW t \in Threads, TryClaim(t), ~UNCHANGED operations
      PROVE  [Lifecycle!Next]_Jobs
  BY <1>6, ClaimLifecycle
<1>7. ASSUME NEW t \in Threads, Activate(t)
      PROVE  [Lifecycle!Next]_Jobs
  BY <1>7, ActivateLifecycle
<1>8. ASSUME NEW t \in Threads, Complete(t), ~UNCHANGED operations
      PROVE  [Lifecycle!Next]_Jobs
  <2>1. /\ pc[t] = "completing" /\ Leased(Row(t), Host[t])
        /\ operations' = [operations EXCEPT ![current[t]] = Completed(@)]
    BY <1>8 DEF Complete
  <2>2. current[t] \in Ids /\ operations[current[t]] \in Rows
    BY <1>1, <2>1, BusyRow DEF Busy, Row
  <2>3. operations[current[t]].status = "running" /\ operations[current[t]].cancelRequested
    BY <2>1 DEF CompletingIsOver, Leased, Row
  <2>4. Completed(operations[current[t]]) \in Rows
    BY <2>2 DEF Completed, Rows, Statuses, TerminalStatuses, Failures
  <2> QED BY <2>1, <2>2, <2>3, <2>4, EndLifecycle
<1>9. ASSUME NEW t \in Threads, Fail(t), ~UNCHANGED operations
      PROVE  [Lifecycle!Next]_Jobs
  <2>1. /\ pc[t] = "failed" /\ Leased(seen[t].row, Host[t]) /\ ~RowMoved(t)
        /\ operations' = [operations EXCEPT ![current[t]] = Failed(@, failing[t])]
    BY <1>9 DEF Fail
  <2>2. current[t] \in Ids /\ operations[current[t]] \in Rows /\ failing[t] \in Failures
    BY <1>1, <2>1, BusyRow DEF Busy, Row, TypeOK
  <2>3. operations[current[t]].status = "running"
    BY <2>1 DEF RowMoved, Leased, Row
  <2>4. Failed(operations[current[t]], failing[t]) \in Rows
    BY <2>2 DEF Failed, Rows, Statuses, TerminalStatuses
  <2> QED BY <2>1, <2>2, <2>3, <2>4, EndLifecycle
<1>10. ASSUME NEW r \in Runners, Recover(r)
       PROVE  [Lifecycle!Next]_Jobs
  BY <1>10, RecoverLifecycle
<1>11. ASSUME NEW r \in Runners, NEW i \in toCancel[r], RequestHeldCancel(r, i)
       PROVE  [Lifecycle!Next]_Jobs
  <2>1. i \in Ids
    BY DEF TypeOK
  <2> QED BY <1>11, <2>1, RequestLifecycle DEF RequestHeldCancel
<1>12. ASSUME ~UNCHANGED operations, UserStep
       PROVE  [Lifecycle!Next]_Jobs
  BY <1>3, <1>4, <1>5, <1>12 DEF UserStep, EditText, EditDocument, rowVars
<1>13. ASSUME ~UNCHANGED operations, NEW t \in Threads, ThreadStep(t)
       PROVE  [Lifecycle!Next]_Jobs
  <2>1. TryClaim(t) \/ Activate(t) \/ Complete(t) \/ Fail(t)
    BY <1>13
    DEF ThreadStep, Claiming, Execution, Activation, Ending, SubmitRun, BeginClaim,
        NothingToClaim, Register, Verify, Precheck, BeginExecution, ExecutionSucceeds,
        ExecutionFails, ExecutionStops, RecordFailure, RecordFailureRefused, CheckCancelled,
        BeginActivation, AfterActivation, BeginFail, Finish, rowVars
  <2> QED BY <1>6, <1>7, <1>8, <1>9, <1>13, <2>1
<1>14. ASSUME ~UNCHANGED operations, NEW r \in Runners, HostStep(r) \/ FaultStep(r)
       PROVE  [Lifecycle!Next]_Jobs
  BY <1>10, <1>11, <1>14
  DEF HostStep, FaultStep, StartWorker, NoticeStop, NoticeLostSlot, WorkerFails, StopServing,
      WorkerExits, Crash, ProcessEnds, LoseSlot, rowVars
<1> QED BY <1>2, <1>12, <1>13, <1>14 DEF Next, vars, rowVars

\* The workers, with their claims, leases, snapshots, crashes and takeovers, implement
\* the promised lifecycle for any number of them.
THEOREM WorkersImplementLifecycle == Spec => ImplementsLifecycle
<1>1. Init => Lifecycle!Init
  BY InitLifecycle
<1>2. RowsInvariant /\ [Next]_vars => [Lifecycle!Next]_[i \in Ids |-> Job(operations[i])]
  BY NextLifecycle DEF Jobs
<1> QED BY RowsAreSound, <1>1, <1>2, PTL DEF Spec, ImplementsLifecycle, Lifecycle!Spec

-----------------------------------------------------------------------------
(* What every step keeps of the rows *)

\* The rows stay, with what they are and with any success.
RowsKept ==
  \A i \in Ids :
    /\ i \in Ids'
    /\ operations'[i].type = operations[i].type
    /\ operations'[i].application = operations[i].application
    /\ Succeeded(i) => operations'[i].status = "succeeded"

LEMMA NextKeepsRows ==
  ASSUME RowsInvariant, [Next]_vars
  PROVE  RowsKept
<1>1. \A i \in Ids : operations[i] \in Rows
  BY ElementOfSeq DEF RowsInvariant, TypeOK, Ids
<1>2. CASE Unclaimed
  BY <1>1, <1>2, RowStepKeeps DEF Unclaimed, RowsKept, Succeeded, TerminalStatuses
<1>3. ASSUME NEW t \in Threads, TryClaim(t), ~UNCHANGED operations
      PROVE  RowsKept
  <2>1. PICK i \in Oldest(candidates[t]) :
          /\ Claimable(operations, i)
          /\ operations' = [operations EXCEPT ![i] = Claimed(@, Host[t])]
    BY <1>3 DEF TryClaim
  <2>2. i \in Ids /\ operations[i].status = "queued"
    BY <2>1 DEF Oldest, Claimable, RowsInvariant, TypeOK
  <2>3. Claimed(operations[i], Host[t]) \in Rows
    BY <1>1, <2>2, HostAssumption, RowsStayRows DEF Failures
  <2>4. /\ Len(operations') = Len(operations)
        /\ operations'[i] = Claimed(operations[i], Host[t])
        /\ \A j \in Ids : j # i => operations'[j] = operations[j]
    BY <2>1, <2>2, <2>3, WriteRow DEF RowsInvariant, TypeOK, Ids
  <2>5. /\ Claimed(operations[i], Host[t]).type = operations[i].type
        /\ Claimed(operations[i], Host[t]).application = operations[i].application
    BY <1>1, <2>2 DEF Claimed, Rows
  <2>6. Ids' = Ids
    BY <2>4 DEF Ids
  <2> QED BY <2>2, <2>4, <2>5, <2>6 DEF RowsKept, Succeeded
<1> QED BY <1>2, <1>3, ClaimOrNot

-----------------------------------------------------------------------------
(* An Operation succeeds with its frozen sources *)

\* Only an activation that commits makes a row succeed: its own, on a snapshot that
\* nothing has moved since.
LEMMA SuccessIsCommitted ==
  ASSUME RowsInvariant, [Next]_vars, NEW i \in Ids,
         ~Succeeded(i), operations'[i].status = "succeeded"
  PROVE  \E t \in Threads : /\ Activate(t) /\ CommitActivation(t) /\ i = current[t]
                            /\ SourcesHold(seen[t].row, seen[t].document, seen[t].text)
<1>1. Types /\ operations \in Seq(Rows) /\ operations[i] \in Rows
  BY ElementOfSeq DEF RowsInvariant, Types, TypeOK, Ids
<1>2. operations'[i] # operations[i]
  BY DEF Succeeded
<1>3. Requested(operations[i]).status # "succeeded"
  BY <1>1 DEF Requested, Rows, Succeeded
<1>4. Interrupted(operations[i]).status # "succeeded"
  BY <1>1 DEF Interrupted, Rows, Succeeded
<1>5. \A j \in Ids, row \in Rows :
        operations' = [operations EXCEPT ![j] = row] => j = i /\ operations'[i] = row
  BY <1>1, <1>2, WriteRow DEF Ids
<1>6. \A j \in Ids : operations' # [operations EXCEPT ![j] = Requested(@)]
  <2> SUFFICES ASSUME NEW j \in Ids, operations' = [operations EXCEPT ![j] = Requested(@)]
               PROVE  FALSE
    OBVIOUS
  <2>1. operations[j] \in Rows
    BY <1>1, ElementOfSeq DEF Ids
  <2>2. Requested(operations[j]) \in Rows
    BY <2>1 DEF Requested, Rows, Statuses, TerminalStatuses
  <2> QED BY <1>3, <1>5, <2>2
<1>7. ~UserStep
  <2>1. ASSUME NEW row \in Rows, Enqueue(row) PROVE FALSE
    BY <1>1, <1>2, <2>1, EnqueueRow
  <2>2. ASSUME NEW a \in Applications, NEW type \in Kinds, Submit(a, type) PROVE FALSE
    BY <1>1, <2>1, <2>2, SubmittedRow DEF Submit
  <2>3. ASSUME NEW j \in Ids, Retry(j) PROVE FALSE
    BY <1>1, <2>1, <2>3, RetriedRow
  <2> QED BY <1>2, <1>6, <2>2, <2>3 DEF UserStep, RequestCancel, EditText, EditDocument, rowVars
<1>8. ASSUME NEW r \in Runners PROVE ~(HostStep(r) \/ FaultStep(r))
  <2>1. ~Recover(r)
    BY <1>1, <1>4, RewriteRows DEF Recover, Ids
  <2>2. toCancel[r] \subseteq Ids
    BY DEF RowsInvariant, TypeOK
  <2> QED
    BY <1>2, <1>6, <2>1, <2>2
    DEF HostStep, FaultStep, StartWorker, NoticeStop, NoticeLostSlot, WorkerFails, StopServing,
        RequestHeldCancel, WorkerExits, Crash, ProcessEnds, LoseSlot, rowVars
<1>9. ASSUME NEW t \in Threads, ThreadStep(t)
      PROVE  /\ Activate(t) /\ CommitActivation(t) /\ i = current[t]
             /\ SourcesHold(seen[t].row, seen[t].document, seen[t].text)
  <2>1. TryClaim(t) \/ Activate(t) \/ Complete(t) \/ Fail(t)
    BY <1>2, <1>9
    DEF ThreadStep, Claiming, Execution, Activation, Ending, SubmitRun, BeginClaim,
        NothingToClaim, Register, Verify, Precheck, BeginExecution, ExecutionSucceeds,
        ExecutionFails, ExecutionStops, RecordFailure, RecordFailureRefused, CheckCancelled,
        BeginActivation, AfterActivation, BeginFail, Finish, rowVars
  <2>2. ~TryClaim(t)
    <3> SUFFICES ASSUME TryClaim(t) PROVE FALSE
      OBVIOUS
    <3>1. PICK j \in Oldest(candidates[t]) :
            operations' = [operations EXCEPT ![j] = Claimed(@, Host[t])]
      BY <1>2 DEF TryClaim
    <3>2. j \in Ids /\ operations[j] \in Rows
      BY ElementOfSeq DEF Oldest, RowsInvariant, TypeOK, Ids
    <3>3. Claimed(operations[j], Host[t]) \in Rows
      BY <3>2, HostAssumption, RowsStayRows DEF Failures
    <3>4. Claimed(operations[j], Host[t]).status = "running"
      BY <3>2 DEF Claimed, Rows
    <3> QED BY <1>5, <3>1, <3>2, <3>3, <3>4
  <2>3. ~Complete(t)
    <3> SUFFICES ASSUME Complete(t) PROVE FALSE
      OBVIOUS
    <3>1. /\ pc[t] = "completing" /\ Leased(Row(t), Host[t])
          /\ operations' = [operations EXCEPT ![current[t]] = Completed(@)]
      BY <1>2 DEF Complete
    <3>2. current[t] \in Ids /\ operations[current[t]] \in Rows
      BY <1>1, <3>1, BusyRow DEF Busy, Row
    <3>3. operations[current[t]].cancelRequested
      BY <3>1 DEF RowsInvariant, CompletingIsOver, Leased, Row
    <3>4. Completed(operations[current[t]]) \in Rows
      BY <3>2 DEF Completed, Rows, Statuses, TerminalStatuses, Failures
    <3>5. Completed(operations[current[t]]).status = "cancelled"
      BY <3>2, <3>3 DEF Completed, Rows
    <3> QED BY <1>5, <3>1, <3>2, <3>4, <3>5
  <2>4. ~Fail(t)
    <3> SUFFICES ASSUME Fail(t) PROVE FALSE
      OBVIOUS
    <3>1. /\ pc[t] = "failed"
          /\ operations' = [operations EXCEPT ![current[t]] = Failed(@, failing[t])]
      BY <1>2 DEF Fail
    <3>2. current[t] \in Ids /\ operations[current[t]] \in Rows /\ failing[t] \in Failures
      BY <1>1, <3>1, BusyRow DEF Busy, Row, RowsInvariant, TypeOK
    <3>3. Failed(operations[current[t]], failing[t]) \in Rows
      BY <3>2 DEF Failed, Rows, Statuses, TerminalStatuses
    <3>4. Failed(operations[current[t]], failing[t]).status = "failed"
      BY <3>2 DEF Failed, Rows
    <3> QED BY <1>5, <3>1, <3>2, <3>3, <3>4
  <2>5. Activate(t)
    BY <2>1, <2>2, <2>3, <2>4
  <2>6. pc[t] = "activating" /\ pc[t] \in Busy
    BY <2>5 DEF Activate, Busy
  <2>7. current[t] = i
    BY <1>1, <1>2, <2>5, <2>6, ActivateEffect, ActivatedRows DEF ActivationOutcome
  <2>8. ~CommitCancelled(t)
    <3> SUFFICES ASSUME CommitCancelled(t) PROVE FALSE
      OBVIOUS
    <3>1. /\ operations[i].cancelRequested
          /\ operations' = [operations EXCEPT ![i] = Completed(@)]
      BY <2>7 DEF CommitCancelled, RowMoved, Row
    <3>2. Completed(operations[i]) \in Rows /\ Completed(operations[i]).status = "cancelled"
      BY <1>1, <3>1 DEF Completed, Rows, Statuses, TerminalStatuses, Failures
    <3> QED BY <1>5, <3>1, <3>2
  <2>9. \A code : ~ActivationFails(t, code)
    BY <1>2 DEF ActivationFails, rowVars
  <2> QED BY <2>5, <2>7, <2>8, <2>9 DEF Activate
<1> QED BY <1>2, <1>7, <1>8, <1>9 DEF Next, vars, rowVars

\* What a row was frozen against still holds, in the database, when it succeeds.
LEMMA SuccessIsOfFrozenSources ==
  ASSUME RowsInvariant, [Next]_vars, NEW i \in Ids,
         ~Succeeded(i), operations'[i].status = "succeeded"
  PROVE  LET row == operations[i]
         IN  SourcesHold(row, document[row.application], text[row.application])
<1>1. PICK t \in Threads : /\ CommitActivation(t) /\ i = current[t]
                           /\ SourcesHold(seen[t].row, seen[t].document, seen[t].text)
  BY SuccessIsCommitted
<1>2. /\ seen[t].row = operations[i]
      /\ seen[t].document = document[operations[i].application]
      /\ seen[t].text = text[operations[i].application]
  BY <1>1 DEF CommitActivation, RowMoved, SourcesMoved, Row
<1> QED BY <1>1, <1>2

\* An Operation succeeds only while the database still holds the hash or the text it
\* was frozen against, whatever was edited, interrupted or activated since.
THEOREM SuccessActivatesFrozenSources == Spec => ActivatesFrozenSources
<1>1. RowsInvariant /\ [Next]_vars =>
        [\A i \in Ids :
           LET row == operations[i] IN
           ~Succeeded(i) /\ operations'[i].status = "succeeded" =>
             SourcesHold(row, document[row.application], text[row.application])]_vars
  BY SuccessIsOfFrozenSources
<1> QED BY RowsAreSound, <1>1, PTL DEF Spec, ActivatesFrozenSources

-----------------------------------------------------------------------------
(* A document's render succeeded *)

RendersInvariant == NamesAreRows /\ RendersAreSuccesses

\* A step that changes no document's files and takes no document away.
NamesStay ==
  \A a \in Applications :
    /\ document'[a].files = document[a].files
    /\ document'[a].hash = 0 => document[a].hash = 0

\* The commit of a render, which puts its files in place of others.
RenderCommits(t) ==
  LET i == current[t]
      a == Row(t).application
  IN /\ pc[t] = "activating" /\ prepared[t]
     /\ i \in Ids /\ a \in Applications
     /\ operations[i].type = "render_document" /\ operations[i].status = "running"
     /\ operations'[i].status = "succeeded"
     /\ document[a].hash # 0
     /\ document' = [document EXCEPT ![a] = [@ EXCEPT !.files = i, !.error = 0]]
     /\ \/ /\ held' = [held EXCEPT ![t] = {document[a].files} \ {0}]
           /\ Goto(t, "activated") /\ UNCHANGED files
        \/ AckLoss
     /\ UNCHANGED <<current, prepared, spent>>

\* A committed activation commits a render or leaves documents the files they name.
LEMMA CommitNames ==
  ASSUME RowsInvariant, NamesAreRows, NEW t \in Threads, Activate(t), CommitActivation(t),
         SourcesHold(seen[t].row, seen[t].document, seen[t].text)
  PROVE  RenderCommits(t) \/ (Row(t).type # "render_document" /\ NamesStay)
<1> DEFINE i == current[t]
           a == Row(t).application
<1>1. /\ Types /\ pc[t] = "activating" /\ pc[t] \in Busy
      /\ document \in [Applications -> Documents] /\ operations \in Seq(Rows)
  BY DEF RowsInvariant, Types, TypeOK, Activate, Busy
<1>2. i \in Ids /\ operations[i] \in Rows /\ a \in Applications /\ Row(t) = operations[i]
  BY <1>1, BusyRow DEF Row
<1>3. PICK d \in DocumentsAfter(i, document[a]) : document' = [document EXCEPT ![a] = d]
  BY DEF CommitActivation
<1>4. document'[a] = d /\ \A b \in Applications : b # a => document'[b] = document[b]
  BY <1>1, <1>2, <1>3
<1>5. document[a] \in Documents
  BY <1>1, <1>2
<1>6. CASE operations[i].type = "analyze_job"
  <2>1. d = IF document[a].hash = 0 THEN NewDocument ELSE document[a]
    BY <1>6 DEF DocumentsAfter
  <2>2. d.files = document[a].files /\ (d.hash = 0 => document[a].hash = 0)
    BY <1>2, <2>1 DEF NamesAreRows, NewDocument
  <2> QED BY <1>2, <1>4, <1>6, <2>2 DEF NamesStay
<1>7. CASE operations[i].type = "create_draft"
  <2>1. PICK h \in Hashes : d = [document[a] EXCEPT !.hash = h]
    BY <1>7 DEF DocumentsAfter
  <2>2. d.files = document[a].files /\ d.hash # 0
    BY <1>5, <2>1 DEF Documents, Hashes
  <2> QED BY <1>2, <1>4, <1>7, <2>2 DEF NamesStay
<1>8. CASE operations[i].type = "render_document"
  <2>1. d = [document[a] EXCEPT !.files = i, !.error = 0]
    BY <1>8 DEF DocumentsAfter
  <2>2. seen[t].row = operations[i] /\ seen[t].document = document[a]
    BY <1>2 DEF CommitActivation, RowMoved, SourcesMoved
  <2>3. operations[i].status = "running" /\ ~operations[i].cancelRequested
    BY <2>2 DEF CommitActivation, Leased
  <2>4. document[a].hash # 0
    <3>1. operations[i].expected \in Hashes
      BY <1>2 DEF Rows
    <3> QED BY <1>8, <2>2, <3>1 DEF SourcesHold, Hashes
  <2>5. operations'[i].status = "succeeded"
    <3>1. operations' = [operations EXCEPT ![i] = Activated(@)] \o <<>>
      BY <1>2, <1>8 DEF CommitActivation, Continuations
    <3>2. Activated(operations[i]) \in Rows /\ Activated(operations[i]).status = "succeeded"
      BY <1>2, <2>3 DEF Activated, Completed, Rows, Statuses, TerminalStatuses, Failures
    <3>3. /\ [operations EXCEPT ![i] = Activated(@)] \in Seq(Rows)
          /\ [operations EXCEPT ![i] = Activated(@)][i] = Activated(operations[i])
      BY <1>1, <1>2, <3>2, WriteRow DEF Ids
    <3>4. operations' = [operations EXCEPT ![i] = Activated(@)]
      BY <3>1, <3>3, ConcatEmptySeq
    <3> QED BY <3>2, <3>3, <3>4
  <2>6. /\ prepared[t] /\ UNCHANGED prepared
        /\ \/ /\ held' = [held EXCEPT ![t] = {document[a].files} \ {0}]
              /\ Goto(t, "activated") /\ UNCHANGED files
           \/ AckLoss
    BY <1>2, <1>8 DEF CommitActivation
  <2>7. UNCHANGED <<current, spent>>
    BY DEF Activate, hostVars
  <2> QED
    BY <1>1, <1>2, <1>3, <1>8, <2>1, <2>3, <2>4, <2>5, <2>6, <2>7 DEF RenderCommits
<1> QED BY <1>2, <1>6, <1>7, <1>8 DEF Rows, OperationTypes

\* Users and executions leave documents the files they name.
LEMMA UserKeepsNames ==
  ASSUME RowsInvariant, UserStep
  PROVE  NamesStay
<1>1. document \in [Applications -> Documents]
  BY DEF RowsInvariant, TypeOK
<1>2. CASE UNCHANGED document
  BY <1>2 DEF NamesStay
<1>3. ASSUME NEW a \in Applications, NEW h \in Hashes, EditDocument(a, h)
      PROVE  NamesStay
  <2>1. h # 0 /\ document' = [document EXCEPT ![a].hash = h]
    BY <1>3 DEF EditDocument, Hashes
  <2>2. \A b \in Applications : document'[b].files = document[b].files
    BY <1>1, <2>1 DEF Documents
  <2>3. document'[a].hash = h /\ \A b \in Applications : b # a => document'[b] = document[b]
    BY <1>1, <2>1 DEF Documents
  <2> QED BY <2>1, <2>2, <2>3 DEF NamesStay
<1> QED
  BY <1>2, <1>3 DEF UserStep, Submit, Retry, RequestCancel, EditText, sourceVars

LEMMA ExecutionKeepsNames ==
  ASSUME RowsInvariant, NEW t \in Threads, Execution(t)
  PROVE  NamesStay
<1> DEFINE a == Row(t).application
<1>1. document \in [Applications -> Documents] /\ Types
  BY DEF RowsInvariant, Types, TypeOK
<1>2. CASE UNCHANGED document
  BY <1>2 DEF NamesStay
<1>3. CASE RecordFailure(t)
  <2>1. a \in Applications /\ document[a] \in Documents
    BY <1>1, <1>3, BusyRow DEF RecordFailure, Busy
  <2>2. \/ document' = document
        \/ document' = [document EXCEPT ![a].error = current[t]]
    BY <1>3 DEF RecordFailure
  <2>3. \A b \in Applications : /\ document'[b].files = document[b].files
                                /\ document'[b].hash = document[b].hash
    BY <1>1, <2>1, <2>2 DEF Documents
  <2> QED BY <2>3 DEF NamesStay
<1> QED
  BY <1>2, <1>3
  DEF Execution, Verify, Precheck, BeginExecution, ExecutionSucceeds, ExecutionFails,
      ExecutionStops, RecordFailureRefused, CheckCancelled, sourceVars

\* Every other step leaves documents the files they name.
LEMMA NextNames ==
  ASSUME RowsInvariant, NamesAreRows, [Next]_vars
  PROVE  NamesStay \/ \E t \in Threads : Activate(t) /\ RenderCommits(t)
<1>1. document \in [Applications -> Documents] /\ Types
  BY DEF RowsInvariant, Types, TypeOK
<1>2. UNCHANGED document => NamesStay
  BY DEF NamesStay
<1>3. ASSUME NEW t \in Threads, Activate(t)
      PROVE  NamesStay \/ RenderCommits(t)
  <2>1. \/ /\ CommitActivation(t)
           /\ SourcesHold(seen[t].row, seen[t].document, seen[t].text)
        \/ CommitCancelled(t)
        \/ \E code \in Failures : ActivationFails(t, code)
    BY <1>3 DEF Activate, Failures
  <2>2. CommitCancelled(t) \/ (\E code \in Failures : ActivationFails(t, code))
          => UNCHANGED document
    BY DEF CommitCancelled, ActivationFails, sourceVars
  <2> QED BY <1>2, <1>3, <2>1, <2>2, CommitNames
<1>4. ASSUME NEW t \in Threads, ThreadStep(t)
      PROVE  NamesStay \/ (Activate(t) /\ RenderCommits(t))
  <2>1. Execution(t) \/ Activate(t) \/ UNCHANGED document
    BY <1>4
    DEF ThreadStep, Claiming, Activation, Ending, SubmitRun, BeginClaim, TryClaim,
        NothingToClaim, Register, BeginActivation, AfterActivation, Complete, BeginFail, Fail,
        Finish, sourceVars
  <2> QED BY <1>2, <1>3, <2>1, ExecutionKeepsNames
<1>5. ASSUME NEW r \in Runners, HostStep(r) \/ FaultStep(r)
      PROVE  UNCHANGED document
  BY <1>5
  DEF HostStep, FaultStep, StartWorker, Recover, NoticeStop, NoticeLostSlot, WorkerFails,
      StopServing, RequestHeldCancel, WorkerExits, Crash, ProcessEnds, LoseSlot, sourceVars
<1> QED BY <1>2, <1>4, <1>5, UserKeepsNames DEF Next, vars, sourceVars

\* What a render's commit makes of the documents.
LEMMA CommittedNames ==
  ASSUME RowsInvariant, NEW t \in Threads, RenderCommits(t)
  PROVE  LET a == Row(t).application
         IN /\ document'[a].files = current[t] /\ document'[a].hash # 0
            /\ \A b \in Applications : b # a => document'[b] = document[b]
<1>1. document[Row(t).application] \in Documents /\ document \in [Applications -> Documents]
  BY DEF RenderCommits, RowsInvariant, TypeOK
<1> QED BY <1>1 DEF RenderCommits, Documents

\* So what a document names stays a success.
LEMMA NextRenders ==
  ASSUME RowsInvariant, RendersInvariant, [Next]_vars
  PROVE  RendersInvariant'
<1>1. RowsKept
  BY NextKeepsRows
<1>2. CASE NamesStay
  BY <1>1, <1>2
  DEF NamesStay, RowsKept, RendersInvariant, NamesAreRows, RendersAreSuccesses, Succeeded
<1>3. ASSUME NEW t \in Threads, RenderCommits(t)
      PROVE  RendersInvariant'
  <2> DEFINE a == Row(t).application
             i == current[t]
  <2>1. /\ document'[a].files = i /\ document'[a].hash # 0
        /\ \A b \in Applications : b # a => document'[b] = document[b]
    BY <1>3, CommittedNames
  <2>2. /\ i \in Ids' /\ operations'[i].status = "succeeded"
        /\ operations'[i].application = a /\ operations'[i].type = "render_document"
    BY <1>1, <1>3 DEF RenderCommits, RowsKept, Row
  <2> QED
    BY <1>1, <2>1, <2>2
    DEF RowsKept, RendersInvariant, NamesAreRows, RendersAreSuccesses, Succeeded
<1> QED BY <1>2, <1>3, NextNames DEF RendersInvariant

\* No document starts with a render.
LEMMA InitRenders == Init => RendersInvariant
BY DEF Init, RendersInvariant, NamesAreRows, RendersAreSuccesses, NoDocument, NewDocument

\* What a document shows as its render was produced by a render Operation of its own
\* Application that succeeded, also when commits lose their acknowledgements.
THEOREM RendersSucceeded == Spec => []RendersAreSuccesses
<1>1. Init => RowsInvariant /\ RendersInvariant
  BY InitRows, InitRenders
<1>2. RowsInvariant /\ RendersInvariant /\ [Next]_vars => RowsInvariant' /\ RendersInvariant'
  BY NextRows, NextRenders
<1>3. RendersInvariant => RendersAreSuccesses
  BY DEF RendersInvariant
<1> QED BY <1>1, <1>2, <1>3, PTL DEF Spec

-----------------------------------------------------------------------------
(* What a thread holds *)

\* HeldIsKnown and PreparedIsHeld, of one thread.
ThreadFiles(t) ==
  /\ \A i \in held[t] :
       \/ pc[t] \in Rendering /\ i = current[t] /\ Row(t).type = "render_document"
       \/ pc[t] = "activated" /\ i \in Ids /\ Succeeded(i)
  /\ prepared[t] => pc[t] \notin Unprepared
  /\ pc[t] \in Rendering /\ Row(t).type = "render_document"
       /\ (prepared[t] \/ pc[t] = "executing") => held[t] = {current[t]}

\* What the threads hold, and what documents name, among the files that exist.
Holdings ==
  /\ HeldApart /\ HeldIsUnnamed /\ HeldExists
  /\ FilesReferencedExist /\ NoOrphanFiles

LEMMA FilesByPart ==
  FilesInvariant <=> RendersInvariant /\ Holdings /\ \A t \in Threads : ThreadFiles(t)
BY DEF FilesInvariant, RendersInvariant, Holdings, ThreadFiles, HeldIsKnown, PreparedIsHeld

LEMMA FilesByPartPrimed ==
  RendersInvariant' /\ Holdings' /\ (\A t \in Threads : ThreadFiles(t)') => FilesInvariant'
BY DEF FilesInvariant, RendersInvariant, Holdings, ThreadFiles, HeldIsKnown, PreparedIsHeld

\* A thread that has no render under way holds nothing.
LEMMA HoldsNothing ==
  ASSUME NEW t \in Threads, ThreadFiles(t), pc[t] \notin Rendering, pc[t] # "activated"
  PROVE  held[t] = {}
BY DEF ThreadFiles

\* A thread that a step leaves where it is still holds what it did.
LEMMA ThreadStays ==
  ASSUME RowsInvariant, RowsKept, NEW t \in Threads, ThreadFiles(t),
         pc'[t] = pc[t], current'[t] = current[t], prepared'[t] = prepared[t],
         held'[t] = held[t]
  PROVE  ThreadFiles(t)'
<1>1. pc[t] \in Rendering => current[t] \in Ids
  BY DEF RowsInvariant, TypeOK, BusyHasRow, Rendering, Busy
<1>2. pc[t] \in Rendering => operations'[current[t]].type = operations[current[t]].type
  BY <1>1 DEF RowsKept
<1> QED BY <1>2 DEF ThreadFiles, RowsKept, Row, Succeeded

\* A thread that is let go of its files, and of what it prepared if it is to claim.
LEMMA ThreadSettles ==
  ASSUME NEW t \in Threads, held'[t] = {}, pc'[t] \notin Rendering,
         prepared'[t] => pc'[t] \notin Unprepared
  PROVE  ThreadFiles(t)'
BY DEF ThreadFiles

\* A thread that goes on with its render keeps what it holds.
LEMMA ThreadGoesOn ==
  ASSUME RowsInvariant, RowsKept, NEW t \in Threads, ThreadFiles(t), pc[t] \in Rendering,
         pc'[t] \in Rendering, current'[t] = current[t], held'[t] = held[t],
         \/ prepared'[t] = prepared[t] /\ pc'[t] # "executing"
         \/ pc[t] = "executing" /\ pc'[t] = "executed"
  PROVE  ThreadFiles(t)'
<1>1. current[t] \in Ids
  BY DEF RowsInvariant, TypeOK, BusyHasRow, Rendering, Busy
<1>2. (Row(t).type)' = Row(t).type
  BY <1>1 DEF RowsKept, Row
<1> QED BY <1>1, <1>2 DEF ThreadFiles, Rendering, Unprepared, Free, Row

-----------------------------------------------------------------------------
(* What a step does to the files and to who holds them *)

\* A crash, once spent, is never unspent.
SpentGrows == spent'["crash"] = 0 => spent["crash"] = 0

\* Files, names and holdings as they were.
LEMMA SameHoldings ==
  ASSUME Holdings, NamesStay, SpentGrows, files' = files, held' = held
  PROVE  Holdings'
BY DEF Holdings, HeldApart, HeldIsUnnamed, HeldExists, FilesReferencedExist, NoOrphanFiles,
       NamesStay, SpentGrows

\* A thread discards what it holds: nobody else holds it and no document names it.
LEMMA DiscardHoldings ==
  ASSUME RowsInvariant, Holdings, NamesStay, SpentGrows, NEW t \in Threads, Discard(t)
  PROVE  Holdings'
<1>1. /\ files' = files \ held[t]
      /\ held'[t] = {} /\ \A u \in Threads : u # t => held'[u] = held[u]
  BY DEF Discard, RowsInvariant, TypeOK
<1>2. HeldApart' /\ HeldIsUnnamed'
  BY <1>1 DEF Holdings, HeldApart, HeldIsUnnamed, NamesStay
<1>3. HeldExists'
  BY <1>1 DEF Holdings, HeldApart, HeldExists
<1>4. FilesReferencedExist'
  BY <1>1 DEF Holdings, HeldIsUnnamed, FilesReferencedExist, NamesStay
<1>5. NoOrphanFiles'
  BY <1>1 DEF Holdings, NoOrphanFiles, NamesStay, SpentGrows
<1> QED BY <1>2, <1>3, <1>4, <1>5 DEF Holdings

\* A render stores its files: its row runs, so no document names them yet, and no
\* other thread has it.
LEMMA StoreHoldings ==
  ASSUME RowsInvariant, RendersInvariant, Holdings, \A u \in Threads : ThreadFiles(u),
         NEW t \in Threads, pc[t] = "ready", Row(t).status = "running",
         files' = files \union {current[t]}, held' = [held EXCEPT ![t] = {current[t]}],
         UNCHANGED document, SpentGrows
  PROVE  Holdings'
<1> DEFINE i == current[t]
<1>1. i \in Ids /\ i # 0 /\ held \in [Threads -> SUBSET IdBound]
  BY DEF RowsInvariant, TypeOK, BusyHasRow, Busy
<1>2. ~Succeeded(i)
  BY DEF Row, Succeeded
<1>3. \A a \in Applications : document[a].files # i
  BY <1>1, <1>2 DEF RendersInvariant, RendersAreSuccesses
<1>4. \A u \in Threads : u # t => i \notin held[u]
  BY <1>1, <1>2 DEF ThreadFiles, RowsInvariant, ClaimsAreExclusive
<1>5. held'[t] = {i} /\ \A u \in Threads : u # t => held'[u] = held[u]
  BY <1>1
<1>6. held[t] = {}
  BY HoldsNothing DEF Rendering
<1>7. HeldApart' /\ HeldIsUnnamed' /\ HeldExists'
  BY <1>3, <1>4, <1>5 DEF Holdings, HeldApart, HeldIsUnnamed, HeldExists
<1>8. FilesReferencedExist' /\ NoOrphanFiles'
  BY <1>5, <1>6 DEF Holdings, FilesReferencedExist, NoOrphanFiles, SpentGrows
<1> QED BY <1>7, <1>8 DEF Holdings

\* A render commits: the document names what the thread held, and the thread holds
\* what the document named.
LEMMA CommitHoldings ==
  ASSUME ~AckLoss, RowsInvariant, RendersInvariant, Holdings, NEW t \in Threads,
         ThreadFiles(t), RenderCommits(t)
  PROVE  Holdings'
<1> DEFINE i == current[t]
           a == Row(t).application
           old == document[a].files
<1>1. /\ document'[a].files = i
      /\ \A b \in Applications : b # a => document'[b].files = document[b].files
      /\ a \in Applications
  BY CommittedNames DEF RenderCommits
<1>2. /\ files' = files /\ held \in [Threads -> SUBSET IdBound] /\ files \subseteq IdBound
      /\ held' = [held EXCEPT ![t] = {old} \ {0}]
  BY DEF RenderCommits, RowsInvariant, TypeOK
<1>3. held'[t] = {old} \ {0} /\ \A u \in Threads : u # t => held'[u] = held[u]
  BY <1>2
<1>4. held[t] = {i}
  BY DEF RenderCommits, ThreadFiles, Rendering, Row
<1>5. i \in files /\ (\A b \in Applications : document[b].files # i)
  BY <1>4 DEF Holdings, HeldExists, HeldIsUnnamed
<1>6. \A b \in Applications : b # a /\ old # 0 => document[b].files # old
  BY <1>1 DEF RendersInvariant, RendersAreSuccesses
<1>7. old # 0 => old \in files
  BY <1>1 DEF Holdings, FilesReferencedExist
<1>8. HeldApart'
  <2> SUFFICES ASSUME NEW u \in Threads, NEW v \in Threads, u # v
               PROVE  held'[u] \cap held'[v] = {}
    BY DEF HeldApart
  <2>1. held[u] \cap held[v] = {} /\ old \notin held[u] /\ old \notin held[v]
    BY <1>1 DEF Holdings, HeldApart, HeldIsUnnamed
  <2> QED BY <1>3, <2>1
<1>9. HeldIsUnnamed'
  <2> SUFFICES ASSUME NEW u \in Threads, NEW b \in Applications
               PROVE  document'[b].files \notin held'[u]
    BY DEF HeldIsUnnamed
  <2>1. CASE u = t
    BY <1>1, <1>3, <1>5, <1>6, <2>1
  <2>2. CASE u # t
    <3>1. i \notin held[u] /\ document[b].files \notin held[u]
      BY <1>4, <2>2 DEF Holdings, HeldApart, HeldIsUnnamed
    <3> QED BY <1>1, <1>3, <2>2, <3>1
  <2> QED BY <2>1, <2>2
<1>10. HeldExists'
  BY <1>2, <1>3, <1>7 DEF Holdings, HeldExists
<1>11. FilesReferencedExist'
  BY <1>1, <1>2, <1>5 DEF Holdings, FilesReferencedExist
<1>12. NoOrphanFiles'
  <2> SUFFICES ASSUME spent'["crash"] = 0, NEW j \in files
               PROVE  \/ \E b \in Applications : document'[b].files = j
                      \/ \E u \in Threads : j \in held'[u]
    BY <1>2 DEF NoOrphanFiles
  <2>1. j # 0
    BY <1>2, MaxOperationsAssumption DEF IdBound
  <2>2. \/ \E b \in Applications : document[b].files = j
        \/ \E u \in Threads : j \in held[u]
    BY DEF Holdings, NoOrphanFiles, RenderCommits
  <2>3. ASSUME NEW b \in Applications, document[b].files = j
        PROVE  (\E c \in Applications : document'[c].files = j) \/ j \in held'[t]
    BY <1>1, <1>3, <2>1, <2>3
  <2>4. ASSUME NEW u \in Threads, j \in held[u]
        PROVE  document'[a].files = j \/ j \in held'[u]
    BY <1>1, <1>3, <1>4, <2>4
  <2> QED BY <1>1, <2>2, <2>3, <2>4
<1> QED BY <1>8, <1>9, <1>10, <1>11, <1>12 DEF Holdings

\* A process ends: unless it crashed, its threads held nothing.
LEMMA EndHoldings ==
  ASSUME RowsInvariant, Holdings, NEW r \in Runners, ProcessEnds(r), SpentGrows,
         \/ spent'["crash"] # 0
         \/ \A t \in ThreadsOf(r) : held[t] = {}
  PROVE  Holdings'
<1>1. /\ files' = files /\ document' = document
      /\ \A t \in Threads : held'[t] = IF Host[t] = r THEN {} ELSE held[t]
  BY DEF ProcessEnds, sourceVars
<1>2. HeldApart' /\ HeldIsUnnamed' /\ HeldExists' /\ FilesReferencedExist'
  BY <1>1 DEF Holdings, HeldApart, HeldIsUnnamed, HeldExists, FilesReferencedExist
<1>3. NoOrphanFiles'
  <2>1. CASE spent'["crash"] # 0
    BY <2>1 DEF NoOrphanFiles
  <2>2. CASE \A t \in ThreadsOf(r) : held[t] = {}
    <3>1. \A t \in Threads : held'[t] = held[t]
      BY <1>1, <2>2 DEF ThreadsOf
    <3> QED BY <1>1, <3>1 DEF Holdings, NoOrphanFiles, SpentGrows
  <2> QED BY <2>1, <2>2
<1> QED BY <1>2, <1>3 DEF Holdings

-----------------------------------------------------------------------------
(* The files, step by step *)

\* A step of thread t alone.
OnlyThread(t) ==
  \A u \in Threads : u # t =>
    /\ pc'[u] = pc[u] /\ current'[u] = current[u]
    /\ prepared'[u] = prepared[u] /\ held'[u] = held[u]

\* Such a step is judged by what it makes of the holdings and of its own thread.
LEMMA OneThread ==
  ASSUME RowsInvariant, FilesInvariant, RowsKept, RendersInvariant', NEW t \in Threads,
         OnlyThread(t), Holdings', ThreadFiles(t)'
  PROVE  FilesInvariant'
<1>1. \A u \in Threads : ThreadFiles(u)
  BY FilesByPart
<1>2. \A u \in Threads : ThreadFiles(u)'
  BY <1>1, ThreadStays DEF OnlyThread
<1> QED BY <1>2, FilesByPartPrimed

\* A thread that claims, or finds nothing to claim, holds nothing.
LEMMA ClaimingFiles ==
  ASSUME RowsInvariant, FilesInvariant, RowsKept, RendersInvariant', NEW t \in Threads,
         Claiming(t)
  PROVE  FilesInvariant'
<1>1. /\ pc[t] \in {"idle", "submitted", "claiming", "claimed"}
      /\ pc'[t] \in {"idle", "submitted", "claiming", "claimed", "verifying"}
      /\ OnlyThread(t)
      /\ UNCHANGED <<document, files, prepared, held, spent>>
  BY DEF Claiming, SubmitRun, BeginClaim, TryClaim, NothingToClaim, Register, Goto, OnlyThread,
         RowsInvariant, TypeOK, sourceVars, hostVars
<1>2. Holdings /\ ThreadFiles(t)
  BY FilesByPart
<1>3. held'[t] = {} /\ ~prepared'[t] /\ pc'[t] \notin Rendering
  BY <1>1, <1>2, HoldsNothing DEF ThreadFiles, Rendering, Unprepared, Free
<1>4. ThreadFiles(t)'
  BY <1>3, ThreadSettles
<1>5. Holdings'
  BY <1>1, <1>2, SameHoldings DEF NamesStay, SpentGrows
<1> QED BY <1>1, <1>4, <1>5, OneThread

\* Execution stores what the thread then holds, and gives up on it or goes on with it.
LEMMA ExecutionFiles ==
  ASSUME RowsInvariant, FilesInvariant, RowsKept, RendersInvariant', NamesStay,
         NEW t \in Threads, Execution(t)
  PROVE  FilesInvariant'
<1>1. /\ RendersInvariant /\ Holdings /\ ThreadFiles(t) /\ (\A u \in Threads : ThreadFiles(u))
      /\ held \in [Threads -> SUBSET IdBound] /\ prepared \in [Threads -> BOOLEAN]
      /\ pc \in [Threads -> Free \union Busy]
  BY FilesByPart DEF RowsInvariant, TypeOK
<1>2. UNCHANGED <<operations, current, spent>> /\ SpentGrows
  BY DEF Execution, Verify, Precheck, BeginExecution, ExecutionSucceeds, ExecutionFails,
         ExecutionStops, RecordFailure, RecordFailureRefused, CheckCancelled, rowVars, hostVars,
         SpentGrows
<1>3. CASE Verify(t) \/ Precheck(t) \/ RecordFailure(t) \/ RecordFailureRefused(t)
  <2>1. /\ pc[t] \in {"verifying", "verified", "recording"}
        /\ pc'[t] \in {"verified", "ready", "completing", "failing"}
        /\ pc[t] = "recording" => pc'[t] = "failing"
        /\ OnlyThread(t) /\ UNCHANGED <<files, prepared, held>>
    BY <1>1, <1>2, <1>3
    DEF Verify, Precheck, RecordFailure, RecordFailureRefused, FailWith, Goto, OnlyThread
  <2>2. held'[t] = {} /\ pc'[t] \notin Rendering /\ (prepared'[t] => pc'[t] \notin Unprepared)
    BY <1>1, <2>1, HoldsNothing DEF ThreadFiles, Rendering, Unprepared, Free
  <2>3. ThreadFiles(t)'
    BY <2>2, ThreadSettles
  <2> QED BY <1>1, <1>2, <2>1, <2>3, SameHoldings, OneThread
<1>4. CASE BeginExecution(t)
  <2>1. pc[t] = "ready" /\ held[t] = {} /\ ~prepared[t] /\ UNCHANGED <<prepared, document>>
    BY <1>1, <1>4, HoldsNothing
    DEF BeginExecution, ThreadFiles, Rendering, Unprepared, sourceVars
  <2>2. CASE /\ StillOwned(Row(t), Host[t]) /\ Row(t).type = "render_document"
             /\ files' = files \union {current[t]}
             /\ held' = [held EXCEPT ![t] = {current[t]}] /\ Goto(t, "executing")
    <3>1. Row(t).status = "running"
      BY <2>2 DEF StillOwned, Leased
    <3>2. Holdings'
      BY <1>1, <1>2, <2>1, <2>2, <3>1, StoreHoldings
    <3>3. /\ held'[t] = {current[t]} /\ pc'[t] = "executing" /\ OnlyThread(t)
          /\ (Row(t).type = "render_document")'
      BY <1>1, <1>2, <2>1, <2>2 DEF Goto, OnlyThread, Row
    <3>4. ThreadFiles(t)'
      BY <1>2, <2>1, <3>3 DEF ThreadFiles, Rendering, Row
    <3> QED BY <3>2, <3>3, <3>4, OneThread
  <2>3. CASE /\ UNCHANGED <<files, held>>
             /\ \/ Goto(t, "executing") /\ Row(t).type # "render_document"
                \/ Goto(t, "executed")
    <3>1. /\ held'[t] = {} /\ ~prepared'[t] /\ OnlyThread(t)
          /\ \/ pc'[t] = "executing" /\ (Row(t).type # "render_document")'
             \/ pc'[t] = "executed"
      BY <1>1, <1>2, <2>1, <2>3 DEF Goto, OnlyThread, Row
    <3>2. ThreadFiles(t)'
      BY <3>1 DEF ThreadFiles, Rendering, Unprepared, Free
    <3> QED BY <1>1, <1>2, <2>3, <3>1, <3>2, SameHoldings, OneThread
  <2> QED BY <1>4, <2>2, <2>3 DEF BeginExecution
<1>5. CASE ExecutionSucceeds(t) \/ (CheckCancelled(t) /\ UNCHANGED <<files, held>>)
  <2>1. CASE ExecutionSucceeds(t)
    <3>1. /\ pc[t] = "executing" /\ pc'[t] = "executed" /\ OnlyThread(t)
          /\ UNCHANGED <<files, held>>
      BY <1>1, <1>2, <2>1 DEF ExecutionSucceeds, Goto, OnlyThread
    <3>2. ThreadFiles(t)'
      BY <1>1, <1>2, <3>1, ThreadGoesOn DEF Rendering
    <3> QED BY <1>1, <1>2, <3>1, <3>2, SameHoldings, OneThread
  <2>2. CASE /\ CheckCancelled(t) /\ ~Row(t).cancelRequested
    <3>1. /\ pc[t] = "executed" /\ pc'[t] = "checked" /\ OnlyThread(t)
          /\ UNCHANGED <<files, held, prepared>>
      BY <1>1, <1>2, <2>2 DEF CheckCancelled, Goto, OnlyThread
    <3>2. ThreadFiles(t)'
      BY <1>1, <1>2, <3>1, ThreadGoesOn DEF Rendering
    <3> QED BY <1>1, <1>2, <3>1, <3>2, SameHoldings, OneThread
  <2>3. CASE /\ CheckCancelled(t) /\ Row(t).cancelRequested /\ UNCHANGED <<files, held>>
    <3>1. /\ pc'[t] = "completing" /\ OnlyThread(t) /\ held'[t] = {} /\ Discard(t)
      BY <1>1, <1>2, <2>3 DEF CheckCancelled, Goto, OnlyThread, Discard
    <3>2. ThreadFiles(t)'
      BY <3>1, ThreadSettles DEF Rendering, Unprepared, Free
    <3> QED BY <1>1, <1>2, <3>1, <3>2, DiscardHoldings, OneThread
  <2> QED BY <1>5, <2>1, <2>2, <2>3
<1>6. CASE ExecutionFails(t) \/ (CheckCancelled(t) /\ Row(t).cancelRequested)
  <2>1. /\ Discard(t) /\ pc'[t] \in {"failing", "recording", "completing"} /\ OnlyThread(t)
        /\ held'[t] = {}
    BY <1>1, <1>2, <1>6
    DEF ExecutionFails, CheckCancelled, FailWith, Discard, Goto, OnlyThread
  <2>2. ThreadFiles(t)'
    BY <2>1, ThreadSettles DEF Rendering, Unprepared, Free
  <2> QED BY <1>1, <1>2, <2>1, <2>2, DiscardHoldings, OneThread
<1>7. CASE ExecutionStops(t)
  <2>1. /\ pc[t] = "executing" /\ Row(t).type # "render_document" /\ pc'[t] = "completing"
        /\ OnlyThread(t) /\ UNCHANGED <<files, held>>
    BY <1>1, <1>2, <1>7 DEF ExecutionStops, Goto, OnlyThread
  <2>2. held'[t] = {}
    BY <1>1, <2>1 DEF ThreadFiles
  <2>3. ThreadFiles(t)'
    BY <2>1, <2>2, ThreadSettles DEF Rendering, Unprepared, Free
  <2> QED BY <1>1, <1>2, <2>1, <2>3, SameHoldings, OneThread
<1>8. CheckCancelled(t) => Row(t).cancelRequested \/ UNCHANGED <<files, held>>
  BY DEF CheckCancelled
<1> QED BY <1>3, <1>4, <1>5, <1>6, <1>7, <1>8 DEF Execution

\* Activation moves a render's files to its document and takes up those it supersedes,
\* or discards them.
LEMMA ActivationFiles ==
  ASSUME ~AckLoss, RowsInvariant, FilesInvariant, RowsKept, RendersInvariant',
         NEW t \in Threads, Activation(t)
  PROVE  FilesInvariant'
<1>1. /\ RendersInvariant /\ Holdings /\ ThreadFiles(t) /\ NamesAreRows
      /\ held \in [Threads -> SUBSET IdBound] /\ pc \in [Threads -> Free \union Busy]
      /\ UNCHANGED <<current, spent, prepared>> /\ SpentGrows
  BY FilesByPart
  DEF RendersInvariant, RowsInvariant, TypeOK, Activation, BeginActivation, Activate,
      AfterActivation, ActivationFails, CommitCancelled, CommitActivation, hostVars, SpentGrows
<1>2. CASE BeginActivation(t)
  <2>1. /\ pc[t] = "checked" /\ pc'[t] = "activating" /\ OnlyThread(t)
        /\ UNCHANGED <<files, held, document>>
    BY <1>1, <1>2 DEF BeginActivation, Goto, OnlyThread, sourceVars
  <2>2. ThreadFiles(t)'
    BY <1>1, <2>1, ThreadGoesOn DEF Rendering
  <2> QED BY <1>1, <2>1, <2>2, SameHoldings, OneThread DEF NamesStay
<1>3. ASSUME Discard(t), NamesStay, NEW label \in {"failing", "finished"}, Goto(t, label)
      PROVE  FilesInvariant'
  <2>1. pc'[t] = label /\ held'[t] = {} /\ OnlyThread(t)
    BY <1>1, <1>3 DEF Discard, Goto, OnlyThread
  <2>2. ThreadFiles(t)'
    BY <1>3, <2>1, ThreadSettles DEF Rendering, Unprepared, Free
  <2> QED BY <1>1, <1>3, <2>1, <2>2, DiscardHoldings, OneThread
<1>4. CASE AfterActivation(t)
  BY <1>3, <1>4 DEF AfterActivation, NamesStay, sourceVars
<1>5. ASSUME Activate(t), NEW code, ActivationFails(t, code)
      PROVE  FilesInvariant'
  BY <1>3, <1>5 DEF ActivationFails, FailWith, NamesStay, sourceVars
<1>6. CASE Activate(t) /\ CommitCancelled(t)
  BY <1>3, <1>6 DEF CommitCancelled, NamesStay, sourceVars
<1>7. CASE /\ Activate(t) /\ CommitActivation(t)
           /\ SourcesHold(seen[t].row, seen[t].document, seen[t].text)
  <2>1. pc[t] = "activating" /\ Row(t).type \in OperationTypes
    BY <1>7, BusyRow DEF Activate, Busy, RowsInvariant, Types, Rows
  <2>2. CASE RenderCommits(t)
    <3> DEFINE old == document[Row(t).application].files
    <3>1. Holdings'
      BY <1>1, <2>2, CommitHoldings
    <3>2. pc'[t] = "activated" /\ held'[t] = {old} \ {0} /\ OnlyThread(t)
      BY <1>1, <2>2 DEF RenderCommits, Goto, OnlyThread
    <3>3. old # 0 => old \in Ids /\ Succeeded(old)
      BY <1>1, <2>2 DEF RenderCommits, RendersInvariant, NamesAreRows, RendersAreSuccesses
    <3>4. old # 0 => old \in Ids' /\ operations'[old].status = "succeeded"
      BY <3>3 DEF RowsKept, Succeeded
    <3>5. ThreadFiles(t)'
      BY <3>2, <3>4 DEF ThreadFiles, Succeeded, Rendering, Unprepared, Free
    <3> QED BY <3>1, <3>2, <3>5, OneThread
  <2>3. CASE Row(t).type # "render_document" /\ NamesStay
    <3>1. held[t] = {}
      BY <1>1, <2>1, <2>3 DEF ThreadFiles
    <3>2. held' = [held EXCEPT ![t] = {}] /\ Goto(t, "activated") /\ UNCHANGED files
      BY <1>7, <2>3 DEF CommitActivation
    <3>3. pc'[t] = "activated" /\ held'[t] = {} /\ OnlyThread(t) /\ held' = held
      BY <1>1, <3>1, <3>2 DEF Goto, OnlyThread
    <3>4. ThreadFiles(t)'
      BY <3>3, ThreadSettles DEF Rendering, Unprepared, Free
    <3> QED BY <1>1, <2>3, <3>2, <3>3, <3>4, SameHoldings, OneThread
  <2> QED BY <1>1, <1>7, <2>2, <2>3, CommitNames
<1> QED BY <1>2, <1>4, <1>5, <1>6, <1>7 DEF Activation, Activate

\* A thread that ends its run has nothing left to discard.
LEMMA EndingFiles ==
  ASSUME RowsInvariant, FilesInvariant, RowsKept, RendersInvariant', NEW t \in Threads,
         Ending(t)
  PROVE  FilesInvariant'
<1>1. /\ pc[t] \in {"completing", "failing", "failed", "finished"}
      /\ \/ pc'[t] \in {"failed", "finished"}
         \/ pc'[t] \in {"idle", "crashed"} /\ ~prepared'[t]
      /\ OnlyThread(t)
      /\ UNCHANGED <<document, files, held, spent>>
  BY DEF Ending, Complete, BeginFail, Fail, Finish, ThreadCrashes, Goto, OnlyThread,
         RowsInvariant, TypeOK, sourceVars, hostVars
<1>2. Holdings /\ ThreadFiles(t)
  BY FilesByPart
<1>3. /\ held'[t] = {} /\ pc'[t] \notin Rendering
      /\ prepared'[t] => pc'[t] \notin Unprepared
  BY <1>1, <1>2, HoldsNothing DEF Rendering, Unprepared, Free
<1>4. ThreadFiles(t)'
  BY <1>3, ThreadSettles
<1>5. Holdings'
  BY <1>1, <1>2, SameHoldings DEF NamesStay, SpentGrows
<1> QED BY <1>1, <1>4, <1>5, OneThread

\* Users neither store nor discard.
LEMMA UserFiles ==
  ASSUME RowsInvariant, FilesInvariant, RowsKept, RendersInvariant', NamesStay, UserStep
  PROVE  FilesInvariant'
<1>1. /\ UNCHANGED <<files, threadVars>> /\ SpentGrows
  <2>1. spent["crash"] \in Nat /\ spent \in [Disturbances -> Nat] /\ "crash" \in Disturbances
    BY DEF RowsInvariant, TypeOK, Disturbances
  <2> QED
    BY <2>1
    DEF UserStep, Submit, Retry, RequestCancel, EditText, EditDocument, Spend, SpentGrows,
        hostVars
<1>2. Holdings'
  BY <1>1, FilesByPart, SameHoldings DEF threadVars
<1>3. \A t \in Threads : ThreadFiles(t)'
  BY <1>1, FilesByPart, ThreadStays DEF threadVars
<1> QED BY <1>2, <1>3, FilesByPartPrimed

\* A process takes its threads' holdings with it only when it crashes.
LEMMA HostFiles ==
  ASSUME RowsInvariant, FilesInvariant, RowsKept, RendersInvariant',
         NEW r \in Runners, HostStep(r) \/ FaultStep(r)
  PROVE  FilesInvariant'
<1>1. spent["crash"] \in Nat /\ spent \in [Disturbances -> Nat] /\ "crash" \in Disturbances
  BY DEF RowsInvariant, TypeOK, Disturbances
<1>2. Holdings /\ \A t \in Threads : ThreadFiles(t)
  BY FilesByPart
<1>3. ASSUME ProcessEnds(r), SpentGrows,
             \/ spent'["crash"] # 0
             \/ \A t \in ThreadsOf(r) : pc[t] \in {"idle", "crashed"}
      PROVE  FilesInvariant'
  <2>1. \A t \in ThreadsOf(r) : t \in Threads
    BY DEF ThreadsOf
  <2>2. (\A t \in ThreadsOf(r) : pc[t] \in {"idle", "crashed"})
          => \A t \in ThreadsOf(r) : held[t] = {}
    BY <1>2, <2>1, HoldsNothing DEF Rendering
  <2>3. Holdings'
    BY <1>2, <1>3, <2>2, EndHoldings
  <2>4. ASSUME NEW t \in Threads PROVE ThreadFiles(t)'
    <3>1. CASE Host[t] = r
      <4>1. held'[t] = {} /\ pc'[t] = "idle" /\ ~prepared'[t]
        BY <1>3, <3>1 DEF ProcessEnds
      <4> QED BY <4>1, ThreadSettles DEF Rendering
    <3>2. CASE Host[t] # r
      <4>1. /\ pc'[t] = pc[t] /\ current'[t] = current[t]
            /\ prepared'[t] = prepared[t] /\ held'[t] = held[t]
        BY <1>3, <3>2 DEF ProcessEnds
      <4> QED BY <1>2, <4>1, ThreadStays
    <3> QED BY <3>1, <3>2
  <2> QED BY <2>3, <2>4, FilesByPartPrimed
<1>4. CASE WorkerExits(r)
  BY <1>3, <1>4 DEF WorkerExits, SpentGrows
<1>5. CASE Crash(r)
  <2>1. spent'["crash"] = spent["crash"] + 1
    BY <1>1, <1>5 DEF Crash, Spend
  <2> QED BY <1>1, <1>3, <1>5, <2>1 DEF Crash, SpentGrows
<1>6. CASE UNCHANGED <<document, files, threadVars>> /\ SpentGrows
  <2>1. Holdings'
    BY <1>2, <1>6, SameHoldings DEF NamesStay, threadVars
  <2>2. \A t \in Threads : ThreadFiles(t)'
    BY <1>2, <1>6, ThreadStays DEF threadVars
  <2> QED BY <2>1, <2>2, FilesByPartPrimed
<1>7. WorkerExits(r) \/ Crash(r) \/ (UNCHANGED <<document, files, threadVars>> /\ SpentGrows)
  <2>1. CASE NoticeStop(r) \/ LoseSlot(r)
    BY <1>1, <2>1 DEF NoticeStop, StopServing, LoseSlot, Spend, SpentGrows, sourceVars
  <2>2. CASE \/ StartWorker(r) \/ Recover(r) \/ NoticeLostSlot(r) \/ WorkerFails(r)
             \/ \E i \in toCancel[r] : RequestHeldCancel(r, i)
    BY <2>2
    DEF StartWorker, Recover, NoticeLostSlot, WorkerFails, StopServing, RequestHeldCancel,
        SpentGrows, sourceVars
  <2> QED BY <2>1, <2>2 DEF HostStep, FaultStep
<1> QED BY <1>4, <1>5, <1>6, <1>7

\* Every step keeps the inductive invariant.
LEMMA NextFiles ==
  ASSUME ~AckLoss, RowsInvariant, FilesInvariant, [Next]_vars
  PROVE  FilesInvariant'
<1>1. RendersInvariant /\ NamesAreRows
  BY DEF FilesInvariant, RendersInvariant
<1>2. RowsKept /\ RendersInvariant'
  BY <1>1, NextKeepsRows, NextRenders
<1>3. CASE UserStep
  BY <1>1, <1>2, <1>3, UserKeepsNames, UserFiles
<1>4. ASSUME NEW t \in Threads, ThreadStep(t) PROVE FilesInvariant'
  BY <1>1, <1>2, <1>4, ClaimingFiles, ExecutionKeepsNames, ExecutionFiles, ActivationFiles,
     EndingFiles DEF ThreadStep
<1>5. ASSUME NEW r \in Runners, HostStep(r) \/ FaultStep(r) PROVE FilesInvariant'
  BY <1>2, <1>5, HostFiles
<1>6. CASE UNCHANGED vars
  <2>1. UNCHANGED <<operations, document, files, pc, current, prepared, held, spent>>
    BY <1>6 DEF vars, rowVars, sourceVars, hostVars, threadVars
  <2> QED
    BY <2>1
    DEF FilesInvariant, NamesAreRows, RendersAreSuccesses, PreparedIsHeld, HeldIsKnown,
        HeldApart, HeldIsUnnamed, HeldExists, FilesReferencedExist, NoOrphanFiles, Succeeded,
        Row, Ids
<1> QED BY <1>3, <1>4, <1>5, <1>6 DEF Next

\* At the start there are no files and nobody holds any.
LEMMA InitFiles == Init => FilesInvariant
<1> SUFFICES ASSUME Init PROVE FilesInvariant
  OBVIOUS
<1>1. RendersInvariant
  BY InitRenders
<1>2. /\ \A t \in Threads : held[t] = {} /\ pc[t] = "idle" /\ ~prepared[t]
      /\ files = {} /\ \A a \in Applications : document[a].files = 0
  BY DEF Init, NoDocument, NewDocument
<1>3. \A t \in Threads : ThreadFiles(t)
  BY <1>2 DEF ThreadFiles, Rendering
<1>4. Holdings
  BY <1>2
  DEF Holdings, HeldApart, HeldIsUnnamed, HeldExists, FilesReferencedExist, NoOrphanFiles
<1> QED BY <1>1, <1>3, <1>4, FilesByPart

\* What threads hold and what documents name is sound in every reachable state.
THEOREM FilesAreSound ==
  ASSUME ~AckLoss
  PROVE  Spec => []FilesInvariant
<1>1. Init => RowsInvariant /\ FilesInvariant
  BY InitRows, InitFiles
<1>2. RowsInvariant /\ FilesInvariant /\ [Next]_vars => RowsInvariant' /\ FilesInvariant'
  BY NextRows, NextFiles
<1> QED BY <1>1, <1>2, PTL DEF Spec

\* The files a document names are never discarded: not by a failure, a cancellation, a
\* fenced activation, nor by a later render before it has committed.
THEOREM NamedFilesExist ==
  ASSUME ~AckLoss
  PROVE  Spec => []FilesReferencedExist
<1>1. FilesInvariant => FilesReferencedExist
  BY DEF FilesInvariant
<1> QED BY FilesAreSound, <1>1, PTL

\* As long as no process crashed, every file is named by a document or held by a
\* thread that will commit or discard it.
THEOREM NothingIsOrphaned ==
  ASSUME ~AckLoss
  PROVE  Spec => []NoOrphanFiles
<1>1. FilesInvariant => NoOrphanFiles
  BY DEF FilesInvariant
<1> QED BY FilesAreSound, <1>1, PTL

=============================================================================
