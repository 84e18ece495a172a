---------------------------- MODULE GapQuestions ----------------------------
(***************************************************************************)
(* The questions about the unmet requirements of an analysis: the screen   *)
(* that asks, answers and skips them and confirms the fact drafted from an *)
(* answer, the server that takes those commands from two tabs, and the     *)
(* worker that writes the questions and the facts.                         *)
(*                                                                         *)
(* A command of the server is a REPEATABLE READ transaction in two steps:  *)
(* at `Begins` it has its snapshot and decides on it, at `Commits` it holds*)
(* the row locks and meets the constraints of the tables.  Between the two *)
(* other transactions commit.  A verdict "broken" is an exception no       *)
(* handler names: INTERNAL_ERROR, or a run failed as an execution fault.   *)
(*                                                                         *)
(* One analysis; the fact says what the answer said.  Left out:            *)
(* cancellation, deletion, a new analysis, the choice of a section, and    *)
(* what useWatchedOperation adds (WatchedOperation has it).                *)
(***************************************************************************)
EXTENDS Naturals, Sequences, FiniteSets, FiniteSetsExt

CONSTANTS
    Questions, Wordings,
    MaxOps,             \* bound on Operations
    Openings,           \* what the visit starts on
    Budget              \* how often each thing may be done

ReaderActs == {"ask", "answer", "skip", "edit", "confirm", "retry"}
Acts == ReaderActs \union {"focus", "lose", "refuse", "other", "reader", "surroundings"}
Slots == {"reader", "other"}
OpIds == 1 .. MaxOps

ASSUME GapQuestionsConstants ==
    /\ Questions # {} /\ Wordings # {} /\ MaxOps \in Nat
    /\ Openings \subseteq {"unasked", "asked", "answered"}
    /\ Budget \in [Acts -> Nat]

VARIABLES
    ops,                    \* [type, about, text, key, status, code], oldest first
    outcomes,               \* the rows of gap_answers: [question, outcome, fact]
    facts,                  \* the facts drafted from answers: [question, wording, status]
    version,                \* fact_store_version
    run,                    \* the run of this Application, and the snapshot it activates on
    requests,               \* the command of each tab
    set, setFetch,          \* the cached question set, and the read of it under way
    asking,                 \* the live ask in the cached projection
    askData,                \* the ask this visit made
    ended,                  \* the runs whose cached record is terminal
    finished,               \* what useRefreshOnSettled last rendered
    budget

server == <<ops, outcomes, facts, version, run>>
browser == <<set, setFetch, asking, askData, ended, finished>>
vars == <<server, requests, browser, budget>>

Spend(act) ==
    LET kind == IF act \in ReaderActs THEN "reader" ELSE "surroundings"
    IN  /\ budget[act] > 0 /\ budget[kind] > 0
        /\ budget' = [budget EXCEPT ![act] = @ - 1, ![kind] = @ - 1]

(***************************************************************************)
(* The server's rows, and what a read of the set reports of them.          *)
(***************************************************************************)
Live == {"queued", "running"}
Asked == \E id \in DOMAIN ops : ops[id].type = "ask" /\ ops[id].status = "succeeded"
OutcomesOf(q) == {i \in DOMAIN outcomes : outcomes[i].question = q}
HasOutcome(q) == OutcomesOf(q) # {}
DraftsOf(q) == {id \in DOMAIN ops : ops[id].type = "draft" /\ ops[id].about = q}

NoView == [state |-> "none", draft |-> 0, fact |-> 0, wording |-> "none", status |-> "none"]
\* gap_questions.read: an outcome first, then a live draft; the newest draft travels along
ViewOf(q) ==
    LET draft == IF DraftsOf(q) = {} THEN 0 ELSE Max(DraftsOf(q))
        bare == [NoView EXCEPT !.draft = draft]
        row == outcomes[Min(OutcomesOf(q))]
    IN  IF HasOutcome(q)
        THEN IF row.outcome = "skipped" THEN [bare EXCEPT !.state = "skipped"]
             ELSE [bare EXCEPT !.state = "answered", !.fact = row.fact,
                               !.wording = facts[row.fact].wording, !.status = facts[row.fact].status]
        ELSE IF draft # 0 /\ ops[draft].status \in Live THEN [bare EXCEPT !.state = "drafting"]
        ELSE [bare EXCEPT !.state = "open"]
SetNow == [q \in Questions |-> IF Asked THEN ViewOf(q) ELSE NoView]
AskingNow == {id \in DOMAIN ops : ops[id].type = "ask" /\ ops[id].status \in Live}

Op(type, about, text, key) == [type |-> type, about |-> about, text |-> text, key |-> key,
                               status |-> "queued", code |-> "none"]
Ends(id, status, code) == [ops EXCEPT ![id].status = status, ![id].code = code]

NoFetch == [stage |-> "none"]
Reading == [stage |-> "asked"]
NoRun == [stage |-> "idle"]
NoRequest == [stage |-> "none"]
Sent(kind, about, text, key) == [stage |-> "sent", kind |-> kind, about |-> about, text |-> text,
                                 key |-> key]
Served(slot, verdict, op) ==
    [stage |-> "served", kind |-> requests[slot].kind, about |-> requests[slot].about,
     verdict |-> verdict, op |-> op]
Answered(slot, verdict) == requests' = [requests EXCEPT ![slot] = Served(slot, verdict, 0)]

Init ==
    /\ \E opening \in Openings :
          LET q == CHOOSE any \in Questions : TRUE     \* questions and words are interchangeable
              w == CHOOSE any \in Wordings : TRUE
              written == [Op("ask", "none", "none", <<"ask">>) EXCEPT !.status = "succeeded"]
              draft == [Op("draft", q, w, <<"answer", q, 0>>) EXCEPT !.status = "succeeded"]
          IN  /\ ops = CASE opening = "unasked" -> <<>>
                         [] opening = "asked" -> <<written>>
                         [] OTHER -> <<written, draft>>
              /\ outcomes = IF opening = "answered"
                            THEN <<[question |-> q, outcome |-> "answered", fact |-> 1]>> ELSE <<>>
              /\ facts = IF opening = "answered"
                         THEN <<[question |-> q, wording |-> w, status |-> "pending"]>> ELSE <<>>
    /\ version = 0 /\ run = NoRun
    /\ requests = [slot \in Slots |-> NoRequest]
    /\ set = SetNow /\ setFetch = NoFetch
    /\ asking = (IF AskingNow = {} THEN 0 ELSE Min(AskingNow)) /\ askData = 0
    /\ ended = {} /\ finished = FALSE
    /\ budget = Budget

(***************************************************************************)
(* The screen: the section, one card per question, the panel of its fact.  *)
(***************************************************************************)
AskingId == IF asking # 0 THEN asking ELSE askData
Finished == AskingId # 0 /\ AskingId \in ended
Free == requests["reader"].stage = "none"
Sends(request) ==
    /\ Free /\ requests' = [requests EXCEPT !["reader"] = request]
    /\ UNCHANGED <<server, browser>>

\* the section offers to ask while there is no set and no ask runs; an open question is answered
\* or skipped on its card
AskOffered ==
    (\A q \in Questions : set[q].state = "none") /\ asking = 0 /\ ~(AskingId # 0 /\ ~Finished)
CardOpen(q) == set[q].state = "open"
Ask ==
    /\ AskOffered /\ Spend("ask")
    /\ Sends(Sent("ask", "none", "none", <<"ask">>))
\* the key of an answer names the draft the card last saw
Answer(q, w) ==
    /\ CardOpen(q) /\ Spend("answer")
    /\ Sends(Sent("answer", q, w, <<"answer", q, set[q].draft>>))
Skip(q) == /\ CardOpen(q) /\ Spend("skip")
           /\ Sends(Sent("skip", q, "none", <<>>))
PendingFact(q) == set[q].state = "answered" /\ set[q].status = "pending"
Edit(q, w) == /\ PendingFact(q) /\ w # set[q].wording /\ Spend("edit")
              /\ Sends(Sent("edit", set[q].fact, w, <<>>))
\* the box is ticked, and the fact confirmed with or without its attachment to the Profile: both
\* are one Knowledge mutation
Confirm(q) == /\ PendingFact(q) /\ Spend("confirm")
              /\ Sends(Sent("confirm", set[q].fact, "none", <<>>))
\* the report of a failed run offers it again
Retry(id) == /\ id \in DOMAIN ops /\ ops[id].status = "failed" /\ Spend("retry")
             /\ Sends(Sent("retry", id, "none", <<"retry", id>>))

\* the other tab shows the same questions, as they are or as they were
OtherSends(request) ==
    /\ requests["other"].stage = "none" /\ Asked /\ Spend("other")
    /\ requests' = [requests EXCEPT !["other"] = request] /\ UNCHANGED <<server, browser>>
OtherTab ==
    \/ \E q \in Questions : OtherSends(Sent("skip", q, "none", <<>>))
    \/ \E q \in Questions, w \in Wordings : \E draft \in DraftsOf(q) \union {0} :
          OtherSends(Sent("answer", q, w, <<"answer", q, draft>>))
    \/ \E f \in DOMAIN facts :
          \/ OtherSends(Sent("confirm", f, "none", <<>>))
          \/ \E w \in Wordings : OtherSends(Sent("edit", f, w, <<>>))

(***************************************************************************)
(* The commands at the server.                                             *)
(***************************************************************************)
Moves(slot, stage) == requests' = [requests EXCEPT ![slot].stage = stage]
Unwritten == UNCHANGED <<server, browser, budget>>

\* submit_gap_answer reads the question, retry the run it repeats, in a transaction before
\* the one that queues
Checks(slot) ==
    /\ requests[slot].stage = "sent" /\ requests[slot].kind \in {"answer", "retry"}
    /\ LET about == requests[slot].about
       IN  IF \/ requests[slot].kind = "answer" /\ HasOutcome(about)
              \/ requests[slot].kind = "retry" /\ ops[about].status # "failed"
           THEN Answered(slot, "conflict") ELSE Moves(slot, "checked")
    /\ Unwritten

\* operation_client.enqueue on its snapshot: one key is one Operation, of one payload
Run(slot) == IF requests[slot].kind = "retry"
             THEN Op(ops[requests[slot].about].type, ops[requests[slot].about].about,
                     ops[requests[slot].about].text, requests[slot].key)
             ELSE Op(IF requests[slot].kind = "ask" THEN "ask" ELSE "draft",
                     requests[slot].about, requests[slot].text, requests[slot].key)
SameKey(slot) == {id \in DOMAIN ops : ops[id].key = Run(slot).key}
EnqueueBegins(slot) ==
    /\ requests[slot].stage # "none"
    /\ requests[slot].stage = IF requests[slot].kind = "ask" THEN "sent" ELSE "checked"
    /\ IF SameKey(slot) = {} THEN Moves(slot, "begun")
       ELSE \E id \in SameKey(slot) :
               IF ops[id].text = Run(slot).text
               THEN requests' = [requests EXCEPT ![slot] = Served(slot, "done", id)]
               ELSE Answered(slot, "conflict")
    /\ Unwritten
\* the Application's lock is held: the index on the key refuses what the snapshot did not see
EnqueueCommits(slot) ==
    /\ requests[slot].stage = "begun" /\ requests[slot].kind \in {"ask", "answer", "retry"}
    /\ IF SameKey(slot) # {} THEN Answered(slot, "broken") /\ UNCHANGED ops
       ELSE /\ ops' = Append(ops, Run(slot))
            /\ requests' = [requests EXCEPT ![slot] = Served(slot, "done", Len(ops'))]
    /\ UNCHANGED <<outcomes, facts, version, run, browser, budget>>

SkipBegins(slot) ==
    /\ requests[slot].stage = "sent" /\ requests[slot].kind = "skip"
    /\ IF HasOutcome(requests[slot].about) THEN Answered(slot, "conflict") ELSE Moves(slot, "begun")
    /\ Unwritten
\* record_answer looks again under the lock, but on the snapshot: the unique index decides
SkipCommits(slot) ==
    /\ requests[slot].stage = "begun" /\ requests[slot].kind = "skip"
    /\ UNCHANGED <<ops, facts, version, run, browser, budget>>
    /\ LET q == requests[slot].about
       IN  IF HasOutcome(q) THEN Answered(slot, "broken") /\ UNCHANGED outcomes
           ELSE /\ outcomes' = Append(outcomes, [question |-> q, outcome |-> "skipped", fact |-> 0])
                /\ requests' = [requests EXCEPT
                      ![slot] = [stage |-> "served", kind |-> "skip", about |-> q,
                                 verdict |-> "done", op |-> 0, set |-> SetNow']]

\* Knowledge commands decide on the facts of their snapshot
KnowledgeBegins(slot) ==
    /\ requests[slot].stage = "sent" /\ requests[slot].kind \in {"edit", "confirm"}
    /\ LET fact == facts[requests[slot].about]
       IN  IF fact.status # "pending" \/ fact.wording = requests[slot].text
           THEN Answered(slot, "refused") /\ UNCHANGED <<version>>
           ELSE /\ requests' = [requests EXCEPT ![slot] =
                      [stage |-> "begun", kind |-> requests[slot].kind, about |-> requests[slot].about,
                       text |-> requests[slot].text, version |-> version, read |-> fact]]
                /\ UNCHANGED version
    /\ UNCHANGED <<ops, outcomes, facts, run, browser, budget>>
\* the fact as it was read, with the change
Changed(request) == IF request.kind = "confirm" THEN [request.read EXCEPT !.status = "canonical"]
                    ELSE [request.read EXCEPT !.wording = request.text]
\* advance_fact_store_version: of two mutations of one Knowledge the later has no place
KnowledgeCommits(slot) ==
    /\ requests[slot].stage = "begun" /\ requests[slot].kind \in {"edit", "confirm"}
    /\ IF requests[slot].version # version THEN Answered(slot, "broken") /\ UNCHANGED <<facts, version>>
       ELSE /\ facts' = [facts EXCEPT ![requests[slot].about] = Changed(requests[slot])]
            /\ version' = version + 1 /\ Answered(slot, "done")
    /\ UNCHANGED <<ops, outcomes, run, browser, budget>>

(***************************************************************************)
(* The worker: one run of an Application at a time.                        *)
(***************************************************************************)
Claim ==
    /\ run.stage = "idle"
    /\ \E id \in DOMAIN ops :
          /\ ops[id].status = "queued" /\ \A j \in DOMAIN ops : ops[j].status = "queued" => id <= j
          /\ ops' = [ops EXCEPT ![id].status = "running"]
          /\ run' = [stage |-> "running", op |-> id]
    /\ UNCHANGED <<outcomes, facts, version, requests, browser, budget>>
SourcesHold(id) == ops[id].type = "draft" => ~HasOutcome(ops[id].about)
RunOver(status, code) == ops' = Ends(run.op, status, code) /\ run' = NoRun

\* the sources are verified, then the provider is called with no transaction open
Prepare ==
    /\ run.stage = "running"
    /\ IF SourcesHold(run.op) THEN run' = [run EXCEPT !.stage = "prepared"] /\ UNCHANGED ops
       ELSE RunOver("failed", "SOURCE_CHANGED")
    /\ UNCHANGED <<outcomes, facts, version, requests, browser, budget>>
\* the provider fails, or its wording says what the answer did not
Refuse ==
    /\ run.stage = "running" /\ SourcesHold(run.op) /\ Spend("refuse")
    /\ RunOver("failed", "INVALID_OUTPUT")
    /\ UNCHANGED <<outcomes, facts, version, requests, browser>>
\* the snapshot is of when the wait for the Application's lock began
ActivationBegins ==
    /\ run.stage = "prepared"
    /\ IF SourcesHold(run.op)
       THEN run' = [stage |-> "activating", op |-> run.op, version |-> version] /\ UNCHANGED ops
       ELSE RunOver("failed", "SOURCE_CHANGED")
    /\ UNCHANGED <<outcomes, facts, version, requests, browser, budget>>
WritesFact(id) ==
    /\ facts' = Append(facts, [question |-> ops[id].about, wording |-> ops[id].text,
                               status |-> "pending"])
    /\ outcomes' = Append(outcomes, [question |-> ops[id].about, outcome |-> "answered",
                                     fact |-> Len(facts')])
    /\ version' = version + 1
\* Mutant: no index on the question.
ActivateUnconstrained ==
    /\ run.stage = "activating"
    /\ IF ops[run.op].type = "ask"
       THEN RunOver("succeeded", "none") /\ UNCHANGED <<outcomes, facts, version>>
       ELSE IF run.version # version
       THEN RunOver("failed", "EXECUTION") /\ UNCHANGED <<outcomes, facts, version>>
       ELSE WritesFact(run.op) /\ RunOver("succeeded", "none")
    /\ UNCHANGED <<requests, browser, budget>>
Activate ==
    /\ run.stage = "activating"
    /\ IF ops[run.op].type = "ask"
       THEN RunOver("succeeded", "none") /\ UNCHANGED <<outcomes, facts, version>>
       ELSE IF HasOutcome(ops[run.op].about) \/ run.version # version
       THEN RunOver("failed", "EXECUTION") /\ UNCHANGED <<outcomes, facts, version>>
       ELSE WritesFact(run.op) /\ RunOver("succeeded", "none")
    /\ UNCHANGED <<requests, browser, budget>>

(***************************************************************************)
(* The reads, the answers, and the effect of useRefreshOnSettled.          *)
(***************************************************************************)
\* Mutant: every question, for some question.
SetPollDueOnAll == /\ setFetch = NoFetch /\ \A q \in Questions : set[q].state = "drafting"
                   /\ SetNow # set
\* refetchInterval of the set: some question is being drafted
SetPollDue == /\ setFetch = NoFetch /\ \E q \in Questions : set[q].state = "drafting"
              /\ SetNow # set
PollSet ==
    /\ SetPollDue /\ setFetch' = Reading
    /\ UNCHANGED <<server, requests, set, asking, askData, ended, finished, budget>>
SetServed ==
    /\ setFetch = Reading /\ setFetch' = [stage |-> "answered", value |-> SetNow]
    /\ UNCHANGED <<server, requests, set, asking, askData, ended, finished, budget>>
SetArrives ==
    /\ setFetch.stage = "answered" /\ set' = setFetch.value /\ setFetch' = NoFetch
    /\ UNCHANGED <<server, requests, asking, askData, ended, finished, budget>>
\* the record of the ask is polled while it is followed
PollAsk ==
    /\ AskingId # 0 /\ AskingId \notin ended /\ ops[AskingId].status \notin Live
    /\ ended' = ended \union {AskingId}
    /\ UNCHANGED <<server, requests, set, setFetch, asking, askData, finished, budget>>
AskingRead == asking' = IF AskingNow = {} THEN 0 ELSE Min(AskingNow)
\* useWatchedOperation reads the projection again once the record of the run has ended
ReadProjection ==
    /\ asking # 0 /\ asking \in ended /\ AskingRead
    /\ UNCHANGED <<server, requests, set, setFetch, askData, ended, finished, budget>>
RefreshDue == finished # Finished
RefreshOnSettled ==
    /\ RefreshDue /\ finished' = Finished
    /\ setFetch' = IF Finished THEN Reading ELSE setFetch
    /\ UNCHANGED <<server, requests, set, asking, askData, ended, budget>>

\* useFollowQueued: the projection and the set are read again
Arrives ==
    LET answer == requests["reader"]
        done == answer.verdict = "done"
    IN  /\ answer.stage = "served"
        /\ requests' = [requests EXCEPT !["reader"] = NoRequest]
        /\ askData' = IF done /\ answer.kind = "ask" THEN answer.op ELSE askData
        /\ ended' = IF done /\ answer.kind = "ask" /\ ops[answer.op].status \notin Live
                    THEN ended \union {answer.op} ELSE ended
        /\ IF done /\ answer.kind = "skip" THEN set' = answer.set /\ UNCHANGED setFetch
           ELSE /\ setFetch' = IF done /\ answer.kind # "retry" THEN Reading ELSE setFetch
                /\ UNCHANGED set
        /\ IF done /\ answer.kind \in {"ask", "answer", "retry", "confirm"} THEN AskingRead
           ELSE UNCHANGED asking
        /\ UNCHANGED <<server, finished, budget>>
OtherAnswered ==
    /\ requests["other"].stage = "served" /\ requests' = [requests EXCEPT !["other"] = NoRequest]
    /\ UNCHANGED <<server, browser, budget>>
\* the answer is lost, or waited for too long: the command itself goes on
Lost ==
    /\ ~Free /\ Spend("lose")
    /\ \/ /\ requests["reader"].stage = "served"
          /\ requests' = [requests EXCEPT !["reader"] = NoRequest]
       \/ /\ requests["reader"].stage # "served" /\ requests["other"].stage = "none"
          /\ requests' = [reader |-> NoRequest, other |-> requests["reader"]]
    /\ UNCHANGED <<server, browser>>
\* the window is focused: the set is read again, the projection at once or later
Focus ==
    /\ Spend("focus")
    /\ setFetch' = IF setFetch = NoFetch THEN Reading ELSE setFetch
    /\ AskingRead \/ UNCHANGED asking
    /\ UNCHANGED <<server, requests, set, askData, ended, finished>>

Reader ==
    \/ Ask \/ \E q \in Questions : Skip(q) \/ Confirm(q)
    \/ \E q \in Questions, w \in Wordings : Answer(q, w) \/ Edit(q, w)
    \/ \E id \in OpIds : Retry(id)
Commands ==
    \E slot \in Slots :
        \/ Checks(slot) \/ EnqueueBegins(slot) \/ EnqueueCommits(slot)
        \/ SkipBegins(slot) \/ SkipCommits(slot)
        \/ KnowledgeBegins(slot) \/ KnowledgeCommits(slot)
Worker == Claim \/ Prepare \/ ActivationBegins \/ Activate
Reads == PollSet \/ SetServed \/ SetArrives \/ PollAsk \/ ReadProjection \/ Arrives \/ OtherAnswered
Machine == IF RefreshDue THEN RefreshOnSettled ELSE Commands \/ Worker \/ Reads
Next == Machine \/ (~RefreshDue /\ (Reader \/ OtherTab \/ Refuse \/ Lost \/ Focus))
Spec == Init /\ [][Next]_vars
\* The server and the worker go on, the browser reads and polls.
FairSpec == Spec /\ WF_vars(Machine)

(***************************************************************************)
(* Properties.                                                             *)
(***************************************************************************)
\* The types, and one Operation per idempotency key.
TypeOK ==
    /\ Len(ops) <= MaxOps /\ askData \in 0 .. MaxOps /\ asking \in 0 .. MaxOps
    /\ \A id \in DOMAIN ops : ops[id].status \in Live \union {"succeeded", "failed"}
    /\ \A i, j \in DOMAIN ops : ops[i].key = ops[j].key => i = j
    /\ \A q \in Questions :
          set[q].state \in {"none", "open", "drafting", "answered", "skipped"}
    /\ \A slot \in Slots :
          requests[slot].stage \in {"none", "sent", "checked", "begun", "served"}

\* "One outcome per question, ever" (gap_answers), however skips, answers, retries and the
\* activation of two drafts meet; and a drafted fact "never exists without the other"
\* (add_fact_in), the record of the answer it was drafted from.
QuestionHasOneOutcome ==
    /\ \A q \in Questions : Cardinality(OutcomesOf(q)) <= 1
    /\ \A f \in DOMAIN facts : \E i \in DOMAIN outcomes :
          outcomes[i] = [question |-> facts[f].question, outcome |-> "answered", fact |-> f]
    /\ \A i, j \in DOMAIN outcomes :
          outcomes[i].fact = outcomes[j].fact /\ outcomes[i].fact # 0 => i = j

\* A confirmed fact stays confirmed, in the words it was confirmed in: no edit that was begun
\* on the pending fact lands after the confirmation ("only a pending fact can be edited").
CanonicalStays ==
    [][\A f \in DOMAIN facts : facts[f].status = "canonical" => facts'[f] = facts[f]]_vars

\* A card that says a fact is being drafted comes to say how that went.
DraftingEnds == \A q \in Questions : set[q].state = "drafting" ~> set[q].state # "drafting"

\* The questions this visit asked for are shown once they were written.
AskedIsShown ==
    askData # 0 /\ ops[askData].status = "succeeded" ~> \A q \in Questions : set[q].state # "none"

(***************************************************************************)
(* What the proofs add to these, to make them hold step by step.           *)
(***************************************************************************)
Keys == {<<"ask">>} \union ({"answer"} \X Questions \X Nat) \union ({"retry"} \X Nat)
OpRows == [type : {"ask", "draft"}, about : Questions \union {"none"},
           text : Wordings \union {"none"}, key : Keys,
           status : Live \union {"succeeded", "failed"},
           code : {"none", "SOURCE_CHANGED", "INVALID_OUTPUT", "EXECUTION"}]
OutcomeRows == [question : Questions, outcome : {"answered", "skipped"}, fact : Nat]
FactRows == [question : Questions, wording : Wordings, status : {"pending", "canonical"}]

\* The rows: a draft is of a question, an answered outcome has its fact.
RowsTyped ==
    /\ ops \in Seq(OpRows) /\ outcomes \in Seq(OutcomeRows) /\ facts \in Seq(FactRows)
    /\ version \in Nat
    /\ \A id \in DOMAIN ops :
          ops[id].type = "draft" => ops[id].about \in Questions /\ ops[id].text \in Wordings
    /\ \A i \in DOMAIN outcomes : outcomes[i].outcome = "answered" => outcomes[i].fact # 0

\* A read of the set names facts that are there.
Names(view) ==
    \A q \in Questions : /\ view[q].draft \in Nat
                         /\ view[q].state = "answered" => view[q].fact \in DOMAIN facts
                         /\ view[q].state \in {"none", "open", "drafting", "answered", "skipped"}
\* The run is of a row, and what it writes has a place.
RunTyped ==
    /\ run.stage \in {"idle", "running", "prepared", "activating"}
    /\ run.stage # "idle" => run.op \in DOMAIN ops
    /\ run.stage = "running" => run = [stage |-> "running", op |-> run.op]
\* what a tab has sent, wherever it is
IsCommand(request) == request = [Sent(request.kind, request.about, request.text, request.key)
                                   EXCEPT !.stage = request.stage]
\* A command is about a row that is there.
AboutARow(request) ==
    /\ request.stage \in {"none", "sent", "checked", "begun", "served"}
    /\ \/ request.stage \in {"sent", "checked"}
       \/ request.stage = "begun" /\ request.kind \notin {"edit", "confirm"}
       => IsCommand(request)
    /\ request.stage = "checked" => request.kind \in {"answer", "retry"}
    /\ request.stage \in {"sent", "checked", "begun"} =>
          CASE request.kind = "ask" -> request.about = "none" /\ request.text = "none"
                                       /\ request.key \in Keys
            [] request.kind = "answer" -> request.about \in Questions /\ request.text \in Wordings
                                          /\ request.key \in Keys
            [] request.kind = "skip" -> request.about \in Questions
            [] request.kind = "retry" -> request.about \in DOMAIN ops /\ request.key \in Keys
            [] request.kind = "edit" -> request.about \in DOMAIN facts /\ request.text \in Wordings
            [] request.kind = "confirm" -> request.about \in DOMAIN facts
            [] OTHER -> FALSE
    /\ request.stage = "served" /\ request.kind = "skip" /\ request.verdict = "done" =>
          Names(request.set)
\* A Knowledge command that has begun read a pending fact; while no other has written since,
\* it holds the fact as it is.
ReadsItsFact(request) ==
    request.stage = "begun" /\ request.kind \in {"edit", "confirm"} =>
        /\ request.version \in Nat /\ request.version <= version
        /\ request.version = version => /\ request.read = facts[request.about]
                                        /\ request.read.status = "pending"
\* No two outcomes share a question or a fact, and each fact is of an outcome.
OutcomesDiffer ==
    \A i, j \in DOMAIN outcomes :
        \/ outcomes[i].question = outcomes[j].question
        \/ outcomes[i].fact = outcomes[j].fact /\ outcomes[i].fact # 0
        => i = j
FactsAnswer ==
    /\ \A i \in DOMAIN outcomes : outcomes[i].fact \in 0 .. Len(facts)
    /\ \A f \in DOMAIN facts : \E i \in DOMAIN outcomes :
          outcomes[i] = [question |-> facts[f].question, outcome |-> "answered", fact |-> f]
RowsSound == RowsTyped /\ RunTyped /\ OutcomesDiffer /\ FactsAnswer
RequestsSound ==
    /\ requests = [slot \in Slots |-> requests[slot]]
    /\ \A slot \in Slots : AboutARow(requests[slot]) /\ ReadsItsFact(requests[slot])
ViewsSound == Names(set) /\ (setFetch.stage = "answered" => Names(setFetch.value))
\* What the questions' rows, commands and views agree on at every step.
QuestionsInvariant == RowsSound /\ RequestsSound /\ ViewsSound
=============================================================================
