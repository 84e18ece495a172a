------------------------ MODULE OperationLifecycle -------------------------
(***************************************************************************)
(* What the Operation queue promises the people who use it, without        *)
(* threads, leases, snapshots or processes: state-and-use-cases.md §11 and *)
(* §19.  A job waits, runs alone in its Application (and alone of its kind *)
(* if it renders), and ends once; it is cancelled only if asked, never     *)
(* succeeds once asked, and only a running job can succeed.                *)
(***************************************************************************)
EXTENDS Integers, Sequences

CONSTANTS Applications, Types

VARIABLE jobs

Ended == {"succeeded", "failed", "cancelled", "interrupted"}

Jobs == [application: Applications, type: Types,
         status: {"queued", "running"} \union Ended, cancelRequested: BOOLEAN]

NewJob(a, type) ==
  [application |-> a, type |-> type, status |-> "queued", cancelRequested |-> FALSE]

MayStart(i) ==
  /\ jobs[i].status = "queued"
  /\ \A j \in DOMAIN jobs : jobs[j].status = "running" =>
       /\ jobs[j].application # jobs[i].application
       /\ ~(jobs[j].type = "render_document" /\ jobs[i].type = "render_document")

Init == jobs = <<>>

Submit == \E a \in Applications, type \in Types : jobs' = Append(jobs, NewJob(a, type))

Start(i) == MayStart(i) /\ jobs' = [jobs EXCEPT ![i].status = "running"]

\* A waiting job is cancelled at once, a running one is only asked to stop.
AskCancel(i) ==
  \/ /\ jobs[i].status = "queued"
     /\ jobs' = [jobs EXCEPT ![i].status = "cancelled", ![i].cancelRequested = TRUE]
  \/ /\ jobs[i].status = "running"
     /\ jobs' = [jobs EXCEPT ![i].cancelRequested = TRUE]

\* The analysis that creates a document may queue its draft in the same step.
Succeed(i) ==
  /\ jobs[i].status = "running" /\ ~jobs[i].cancelRequested
  /\ LET done == [jobs EXCEPT ![i].status = "succeeded"]
     IN \/ jobs' = done
        \/ /\ jobs[i].type = "analyze_job"
           /\ jobs' = Append(done, NewJob(jobs[i].application, "create_draft"))

Fail(i) == jobs[i].status = "running" /\ jobs' = [jobs EXCEPT ![i].status = "failed"]

Cancel(i) ==
  /\ jobs[i].status = "running" /\ jobs[i].cancelRequested
  /\ jobs' = [jobs EXCEPT ![i].status = "cancelled"]

\* A fresh worker gives up everything that was running, at once.
InterruptAll ==
  jobs' = [i \in DOMAIN jobs |->
             IF jobs[i].status = "running"
               THEN [jobs[i] EXCEPT !.status = "interrupted"]
               ELSE jobs[i]]

Next ==
  \/ Submit
  \/ InterruptAll
  \/ \E i \in DOMAIN jobs : Start(i) \/ AskCancel(i) \/ Succeed(i) \/ Fail(i) \/ Cancel(i)

Spec == Init /\ [][Next]_jobs
=============================================================================
