-------------------------- MODULE WatchedOperation --------------------------
(***************************************************************************)
(* What every screen of one Application knows of its runs: the cached      *)
(* projection (`detail`) and its read, the cached record of every          *)
(* Operation, and the hook that decides which run is followed and when its *)
(* outcome has been read back (useWatchedOperation).  The screens extend   *)
(* this module; `ops` is the server's, oldest first.                       *)
(***************************************************************************)
EXTENDS Naturals, Sequences, FiniteSets, SequencesExt

CONSTANT MaxOps         \* bound on Operations

VARIABLES
    ops,                    \* the Operations of this Application
    detail, detailFetch,    \* the cached projection and the read of it under way
    record,                 \* the cached record of every Operation: its status, or "unread"
    watched, projected,     \* the run under watch; the newest run the hook has seen projected
    refreshing, settledFor  \* the ended run being read back; the one that was

watching == <<record, watched, projected, refreshing, settledFor>>

OpIds == 1 .. MaxOps
Terminal == {"succeeded", "failed", "source_changed", "cancelled"}
\* the failures a retry is offered for, and accepted for
Retryable == {"failed", "cancelled"}

Latest == Len(ops)
StatusOf(id) == IF id = 0 THEN "unread" ELSE ops[id].status
EndedNow == {id \in DOMAIN ops : ops[id].status \in Terminal}

NoFetch == [stage |-> "none"]
Asked == [stage |-> "asked"]
\* fetchQuery and a focus refetch join a read under way; an invalidation restarts it
Joined(fetch) == IF fetch = NoFetch THEN Asked ELSE fetch
Invalidated == Asked

WatchedId == IF watched # 0 THEN watched ELSE detail.latest
\* the run's own record once it was read, the projection's copy before that
Candidate ==
    IF WatchedId # 0 /\ record[WatchedId] # "unread"
    THEN [id |-> WatchedId, status |-> record[WatchedId]]
    ELSE [id |-> detail.latest, status |-> detail.status]
HasOperation == Candidate.id # 0
Type == IF HasOperation THEN ops[Candidate.id].type ELSE "none"
Succeeded == Candidate.status = "succeeded"
AwaitingRecord == WatchedId # 0 /\ Candidate.id # WatchedId
Ended == Candidate.status \in Terminal
Running == HasOperation /\ ~Ended
TerminalKey == IF Ended THEN Candidate.id ELSE 0
Settled == TerminalKey # 0 /\ settledFor = TerminalKey

UnwatchedInit ==
    /\ detailFetch = NoFetch
    /\ record = [id \in OpIds |-> "unread"]
    /\ watched = 0 /\ projected = 0 /\ refreshing = 0 /\ settledFor = 0

(***************************************************************************)
(* The two effects of the hook and the poll of the Operation's query.      *)
(***************************************************************************)
ProjectedMoved == detail.latest # 0 /\ detail.latest # projected
TerminalMoved == TerminalKey # refreshing
ViewsRead == refreshing # 0 /\ settledFor # refreshing /\ detailFetch = NoFetch

\* the projection's newest run takes the watch over
ProjectionFollowed == /\ watched' = detail.latest /\ projected' = detail.latest
                      /\ UNCHANGED <<record, refreshing, settledFor>>
\* a run that ended has the views it changed read again
ViewsRefreshed == /\ refreshing' = TerminalKey
                  /\ detailFetch' = IF TerminalKey = 0 THEN detailFetch ELSE Invalidated
                  /\ UNCHANGED <<record, watched, projected, settledFor>>
RunSettled == settledFor' = refreshing /\ UNCHANGED <<record, watched, projected, refreshing>>
\* the interval of the Operation's own query, stopped by a terminal record
PollDue == /\ WatchedId # 0 /\ record[WatchedId] \notin Terminal
           /\ record[WatchedId] # ops[WatchedId].status
Polled == /\ record' = [record EXCEPT ![WatchedId] = ops[WatchedId].status]
          /\ UNCHANGED <<watched, projected, refreshing, settledFor>>
\* an accepted run: its record is on hand
RecordCached(id, status) == record' = [record EXCEPT ![id] = status]
=============================================================================
