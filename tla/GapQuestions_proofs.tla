-------------------------- MODULE GapQuestions_proofs --------------------------
(***************************************************************************)
(* What GapQuestions promises of the rows, for any questions and wordings  *)
(* and any bounds.  The inductive invariant says three things: the rows    *)
(* fit each other, a command is about rows that are there, and a read of   *)
(* the set names facts that are there.                                     *)
(***************************************************************************)
EXTENDS GapQuestions, SequenceTheorems, FiniteSetTheorems, WellFoundedInduction, TLAPS

-----------------------------------------------------------------------------
(* Operators *)

\* A non-empty set of indices has a greatest one.
LEMMA MaxOfIndices ==
  ASSUME NEW n \in Nat, NEW S \in SUBSET (1..n), S # {}
  PROVE  Max(S) \in S
<1> DEFINE T == {m \in Nat : \A x \in S : x <= m}
<1>1. T \subseteq Nat /\ T # {}
  <2>1. n \in T
    OBVIOUS
  <2> QED BY <2>1
<1>2. PICK m \in T : \A y \in T : ~ (<<y, m>> \in OpToRel(<, Nat))
  BY <1>1, WFMin, NatLessThanWellFounded
<1>3. \A y \in T : ~ (y < m)
  BY <1>2 DEF OpToRel
<1>4. m \in S
  <2> SUFFICES ASSUME m \notin S PROVE FALSE
    OBVIOUS
  <2>1. \A x \in S : x \in Nat /\ x <= m - 1 /\ x >= 1
    OBVIOUS
  <2>2. m - 1 \in Nat
    <3>1. PICK x \in S : TRUE
      OBVIOUS
    <3>2. m \in Nat /\ x \in Nat /\ x <= m - 1 /\ x >= 1
      BY <2>1, <3>1
    <3> QED BY <3>2
  <2>3. m - 1 \in T
    BY <2>1, <2>2
  <2> QED BY <2>3, <1>3
<1>5. \A x \in S : m >= x
  OBVIOUS
<1> QED BY <1>4, <1>5 DEF Max

\* The least of one.
LEMMA MinOfOne ==
  ASSUME NEW i \in Nat
  PROVE  Min({i}) = i
  BY DEF Min

\* A row longer, a sequence of rows keeps the rows it has.
LEMMA Appended ==
  ASSUME NEW S, NEW seq \in Seq(S), NEW row \in S
  PROVE  /\ Append(seq, row) \in Seq(S)
         /\ DOMAIN seq = 1 .. Len(seq) /\ Len(seq) \in Nat
         /\ Len(Append(seq, row)) = Len(seq) + 1
         /\ DOMAIN Append(seq, row) = 1 .. (Len(seq) + 1)
         /\ \A i \in DOMAIN seq : i \in 1 .. (Len(seq) + 1) /\ Append(seq, row)[i] = seq[i]
         /\ Append(seq, row)[Len(seq) + 1] = row
<1>1. Append(seq, row) \in Seq(S) /\ Len(Append(seq, row)) = Len(seq) + 1
  BY AppendProperties
<1>2. /\ DOMAIN seq = 1 .. Len(seq) /\ Len(seq) \in Nat
      /\ DOMAIN Append(seq, row) = 1 .. Len(Append(seq, row))
  BY <1>1, LenProperties
<1> QED BY <1>1, <1>2, AppendProperties

\* One row written, the sequence keeps the others.
LEMMA Written ==
  ASSUME NEW S, NEW seq \in Seq(S), NEW i \in DOMAIN seq, NEW row \in S
  PROVE  /\ [seq EXCEPT ![i] = row] \in Seq(S)
         /\ DOMAIN seq = 1 .. Len(seq) /\ Len(seq) \in Nat
         /\ Len([seq EXCEPT ![i] = row]) = Len(seq)
         /\ DOMAIN [seq EXCEPT ![i] = row] = DOMAIN seq
         /\ \A j \in DOMAIN seq : [seq EXCEPT ![i] = row][j] = IF j = i THEN row ELSE seq[j]
<1>1. DOMAIN seq = 1 .. Len(seq) /\ Len(seq) \in Nat
  BY LenProperties
<1> QED BY <1>1, ExceptSeq

\* What a read of the set says of a question is true of the rows.
LEMMA ReadsNameFacts == RowsSound => Names(SetNow)
<1> USE DEF RowsSound
<1> SUFFICES ASSUME RowsSound, NEW q \in Questions
             PROVE  /\ ViewOf(q).draft \in Nat
                    /\ ViewOf(q).state = "answered" => ViewOf(q).fact \in DOMAIN facts
                    /\ ViewOf(q).state \in {"none", "open", "drafting", "answered", "skipped"}
  BY DEF Names, SetNow, NoView
<1> DEFINE draft == IF DraftsOf(q) = {} THEN 0 ELSE Max(DraftsOf(q))
           bare == [NoView EXCEPT !.draft = draft]
           row == outcomes[Min(OutcomesOf(q))]
<1>1. draft \in Nat
  <2>1. Len(ops) \in Nat /\ DOMAIN ops = 1 .. Len(ops)
    BY LenProperties DEF RowsTyped
  <2>2. DraftsOf(q) \in SUBSET (1 .. Len(ops))
    BY <2>1 DEF DraftsOf
  <2>3. CASE DraftsOf(q) # {}
    <3>1. Max(DraftsOf(q)) \in DraftsOf(q)
      BY <2>1, <2>2, <2>3, MaxOfIndices
    <3> QED BY <2>2, <2>3, <3>1
  <2>4. CASE DraftsOf(q) = {}
    BY <2>4
  <2> QED BY <2>3, <2>4
<1>2. bare = [state |-> "none", draft |-> draft, fact |-> 0, wording |-> "none", status |-> "none"]
  BY DEF NoView
<1>3. ASSUME HasOutcome(q), row.outcome # "skipped"
      PROVE  row.fact \in DOMAIN facts
  <2>1. PICK i \in DOMAIN outcomes : outcomes[i].question = q
    BY <1>3 DEF HasOutcome, OutcomesOf
  <2>2. OutcomesOf(q) = {i}
    BY <2>1 DEF OutcomesOf, OutcomesDiffer
  <2>3. i \in Nat /\ outcomes[i] \in OutcomeRows
    BY LenProperties, ElementOfSeq DEF RowsTyped
  <2>4. row = outcomes[i]
    BY <2>2, <2>3, MinOfOne
  <2>5. outcomes[i].fact # 0 /\ outcomes[i].fact \in 0 .. Len(facts)
    BY <1>3, <2>3, <2>4 DEF RowsTyped, FactsAnswer, OutcomeRows
  <2> QED BY <2>4, <2>5, LenProperties DEF RowsTyped
<1> HIDE DEF draft, bare, row
<1>4. ViewOf(q) = IF HasOutcome(q)
        THEN IF row.outcome = "skipped" THEN [bare EXCEPT !.state = "skipped"]
             ELSE [bare EXCEPT !.state = "answered", !.fact = row.fact,
                               !.wording = facts[row.fact].wording, !.status = facts[row.fact].status]
        ELSE IF draft # 0 /\ ops[draft].status \in Live THEN [bare EXCEPT !.state = "drafting"]
        ELSE [bare EXCEPT !.state = "open"]
  BY DEF ViewOf, draft, bare, row
<1> QED BY <1>1, <1>2, <1>3, <1>4

-----------------------------------------------------------------------------
(* The rows *)

\* Rows and facts are never taken away, a mutation of Knowledge moves the version.
RowsKept ==
  /\ DOMAIN ops \subseteq DOMAIN ops' /\ DOMAIN facts \subseteq DOMAIN facts'
  /\ version \in Nat /\ version' \in Nat /\ version' >= version
  /\ version' = version => facts' = facts

\* An Operation more.
LEMMA OpAppended ==
  ASSUME RowsSound, NEW row \in OpRows,
         row.type = "draft" => row.about \in Questions /\ row.text \in Wordings,
         ops' = Append(ops, row), UNCHANGED <<outcomes, facts, version, run>>
  PROVE  RowsSound' /\ RowsKept
<1> USE DEF RowsSound
<1>1. /\ ops' \in Seq(OpRows) /\ DOMAIN ops \subseteq DOMAIN ops'
      /\ \A id \in DOMAIN ops : ops'[id] = ops[id]
      /\ \A id \in DOMAIN ops' : id \in DOMAIN ops \/ ops'[id] = row
  <2>1. ops \in Seq(OpRows)
    BY DEF RowsTyped
  <2> QED BY <2>1, Appended
<1>2. RowsTyped'
  BY <1>1 DEF RowsTyped
<1>3. RunTyped' /\ OutcomesDiffer' /\ FactsAnswer'
  BY <1>1 DEF RunTyped, OutcomesDiffer, FactsAnswer
<1> QED BY <1>1, <1>2, <1>3 DEF RowsKept, RowsTyped

\* The state of an Operation moves, and the run with it.
LEMMA OpMoves ==
  ASSUME RowsSound, NEW id \in DOMAIN ops,
         NEW status \in Live \union {"succeeded", "failed"},
         NEW code \in {"none", "SOURCE_CHANGED", "INVALID_OUTPUT", "EXECUTION"},
         \/ ops' = [ops EXCEPT ![id].status = status]
         \/ ops' = [ops EXCEPT ![id].status = status, ![id].code = code]
  PROVE  /\ ops' \in Seq(OpRows) /\ DOMAIN ops' = DOMAIN ops
         /\ \A j \in DOMAIN ops' : /\ ops'[j].type = ops[j].type /\ ops'[j].about = ops[j].about
                                   /\ ops'[j].text = ops[j].text
<1>1. ops \in Seq(OpRows) /\ ops[id] \in OpRows
  BY LenProperties, ElementOfSeq DEF RowsSound, RowsTyped
<1>2. PICK row \in OpRows : /\ ops' = [ops EXCEPT ![id] = row]
                            /\ row.type = ops[id].type /\ row.about = ops[id].about
                            /\ row.text = ops[id].text
  <2>1. CASE ops' = [ops EXCEPT ![id].status = status]
    <3>1. [ops[id] EXCEPT !.status = status] \in OpRows
      BY <1>1 DEF OpRows
    <3> QED BY <1>1, <2>1, <3>1 DEF OpRows
  <2>2. CASE ops' = [ops EXCEPT ![id].status = status, ![id].code = code]
    <3>1. [[ops[id] EXCEPT !.status = status] EXCEPT !.code = code] \in OpRows
      BY <1>1 DEF OpRows
    <3>2. ops' = [ops EXCEPT ![id] = [[ops[id] EXCEPT !.status = status] EXCEPT !.code = code]]
      BY <1>1, <2>2 DEF OpRows
    <3> QED BY <1>1, <3>1, <3>2 DEF OpRows
  <2> QED BY <2>1, <2>2
<1>3. /\ ops' \in Seq(OpRows) /\ DOMAIN ops' = DOMAIN ops
      /\ \A j \in DOMAIN ops : ops'[j] = IF j = id THEN row ELSE ops[j]
  BY <1>1, <1>2, Written
<1> QED BY <1>2, <1>3

\* An outcome more, of a question that had none and a fact that had none.
LEMMA OutcomeAppended ==
  ASSUME RowsSound, NEW row \in OutcomeRows, ~HasOutcome(row.question),
         row.outcome = "answered" => row.fact # 0,
         \A i \in DOMAIN outcomes : outcomes[i].fact = row.fact => row.fact = 0,
         outcomes' = Append(outcomes, row)
  PROVE  /\ outcomes' \in Seq(OutcomeRows) /\ OutcomesDiffer'
         /\ \A i \in DOMAIN outcomes' : outcomes'[i].outcome = "answered" => outcomes'[i].fact # 0
         /\ \A i \in DOMAIN outcomes : i \in DOMAIN outcomes' /\ outcomes'[i] = outcomes[i]
         /\ \E i \in DOMAIN outcomes' : outcomes'[i] = row
         /\ \A i \in DOMAIN outcomes' : i \in DOMAIN outcomes \/ outcomes'[i] = row
<1> USE DEF RowsSound
<1>1. outcomes \in Seq(OutcomeRows)
  BY DEF RowsTyped
<1> DEFINE last == Len(outcomes) + 1
<1>2. /\ outcomes' \in Seq(OutcomeRows) /\ outcomes'[last] = row
      /\ DOMAIN outcomes = 1 .. Len(outcomes) /\ Len(outcomes) \in Nat
      /\ DOMAIN outcomes' = 1 .. last
      /\ \A i \in DOMAIN outcomes : i \in DOMAIN outcomes' /\ outcomes'[i] = outcomes[i]
  BY <1>1, Appended
<1>3. last \in DOMAIN outcomes' /\ \A i \in DOMAIN outcomes' : i \in DOMAIN outcomes \/ i = last
  BY <1>2
<1>4. \A i \in DOMAIN outcomes :
        /\ outcomes[i].question # row.question
        /\ outcomes[i].fact = row.fact => row.fact = 0
  BY DEF HasOutcome, OutcomesOf
<1>5. OutcomesDiffer'
  BY <1>2, <1>3, <1>4 DEF OutcomesDiffer
<1>6. \A i \in DOMAIN outcomes' : outcomes'[i].outcome = "answered" => outcomes'[i].fact # 0
  BY <1>2, <1>3 DEF RowsTyped
<1> QED BY <1>2, <1>3, <1>5, <1>6

\* What is queued is an Operation of its command.
LEMMA RunIsARow ==
  ASSUME RowsSound, NEW slot \in Slots, AboutARow(requests[slot]),
         requests[slot].stage = "begun", requests[slot].kind \in {"ask", "answer", "retry"}
  PROVE  /\ Run(slot) \in OpRows
         /\ Run(slot).type = "draft" => Run(slot).about \in Questions /\ Run(slot).text \in Wordings
<1> DEFINE request == requests[slot]
<1>1. CASE request.kind = "ask"
  <2>1. Run(slot) = Op("ask", "none", "none", request.key) /\ request.key \in Keys
    BY <1>1 DEF Run, AboutARow
  <2> QED BY <2>1 DEF Op, OpRows, Live
<1>2. CASE request.kind = "answer"
  <2>1. /\ Run(slot) = Op("draft", request.about, request.text, request.key)
        /\ request.about \in Questions /\ request.text \in Wordings /\ request.key \in Keys
    BY <1>2 DEF Run, AboutARow
  <2> QED BY <2>1 DEF Op, OpRows, Live
<1>3. CASE request.kind = "retry"
  <2> DEFINE old == ops[request.about]
  <2>1. /\ Run(slot) = Op(old.type, old.about, old.text, request.key)
        /\ request.about \in DOMAIN ops /\ request.key \in Keys
    BY <1>3 DEF Run, AboutARow
  <2>2. old \in OpRows /\ (old.type = "draft" => old.about \in Questions /\ old.text \in Wordings)
    BY <2>1, LenProperties, ElementOfSeq DEF RowsSound, RowsTyped
  <2> HIDE DEF old
  <2> QED BY <2>1, <2>2 DEF Op, OpRows, Live
<1> QED BY <1>1, <1>2, <1>3

LEMMA EnqueueKeepsRows ==
  ASSUME QuestionsInvariant, NEW slot \in Slots, EnqueueCommits(slot)
  PROVE  RowsSound' /\ RowsKept
<1> USE DEF QuestionsInvariant
<1>1. CASE UNCHANGED ops
  BY <1>1 DEF EnqueueCommits, RowsSound, RowsTyped, RunTyped, OutcomesDiffer, FactsAnswer, RowsKept
<1>2. CASE ops' = Append(ops, Run(slot))
  BY <1>2, RunIsARow, OpAppended DEF EnqueueCommits, RequestsSound
<1> QED BY <1>1, <1>2 DEF EnqueueCommits

\* A skip meets the index on the question (gap_answers): it is the first outcome of its
\* question or none.
LEMMA SkipKeepsRows ==
  ASSUME QuestionsInvariant, NEW slot \in Slots, SkipCommits(slot)
  PROVE  RowsSound' /\ RowsKept
<1> USE DEF QuestionsInvariant
<1> DEFINE q == requests[slot].about
           row == [question |-> q, outcome |-> "skipped", fact |-> 0]
<1>1. UNCHANGED <<ops, facts, version, run>>
  BY DEF SkipCommits
<1>2. CASE UNCHANGED outcomes
  BY <1>1, <1>2 DEF RowsSound, RowsTyped, RunTyped, OutcomesDiffer, FactsAnswer, RowsKept
<1>3. CASE ~HasOutcome(q) /\ outcomes' = Append(outcomes, row)
  <2>1. q \in Questions
    BY DEF SkipCommits, RequestsSound, AboutARow
  <2>2. row \in OutcomeRows
    BY <2>1 DEF OutcomeRows
  <2>3. /\ outcomes' \in Seq(OutcomeRows) /\ OutcomesDiffer'
        /\ \A i \in DOMAIN outcomes' : outcomes'[i].outcome = "answered" => outcomes'[i].fact # 0
        /\ \A i \in DOMAIN outcomes : i \in DOMAIN outcomes' /\ outcomes'[i] = outcomes[i]
        /\ \A i \in DOMAIN outcomes' : i \in DOMAIN outcomes \/ outcomes'[i] = row
    BY <1>3, <2>2, OutcomeAppended
  <2>4. RowsTyped' /\ RunTyped'
    BY <1>1, <2>3 DEF RowsSound, RowsTyped, RunTyped
  <2>5. 0 \in 0 .. Len(facts)
    BY LenProperties DEF RowsSound, RowsTyped
  <2>6. FactsAnswer'
    BY <1>1, <2>3, <2>5 DEF RowsSound, FactsAnswer
  <2> QED BY <1>1, <2>3, <2>4, <2>6 DEF RowsSound, RowsKept, RowsTyped
<1> QED BY <1>2, <1>3 DEF SkipCommits

\* An edit or a confirmation writes over the fact it read, which is of the same question.
LEMMA KnowledgeKeepsRows ==
  ASSUME QuestionsInvariant, NEW slot \in Slots, KnowledgeCommits(slot)
  PROVE  RowsSound' /\ RowsKept
<1> USE DEF QuestionsInvariant
<1> DEFINE request == requests[slot]
           f == request.about
<1>1. UNCHANGED <<ops, outcomes, run>>
  BY DEF KnowledgeCommits
<1>2. CASE UNCHANGED <<facts, version>>
  BY <1>1, <1>2 DEF RowsSound, RowsTyped, RunTyped, OutcomesDiffer, FactsAnswer, RowsKept
<1>3. CASE /\ request.version = version
           /\ facts' = [facts EXCEPT ![f] = Changed(request)]
           /\ version' = version + 1
  <2>1. /\ f \in DOMAIN facts /\ request.read = facts[f]
        /\ request.kind = "edit" => request.text \in Wordings
    BY <1>3 DEF KnowledgeCommits, RequestsSound, AboutARow, ReadsItsFact
  <2>2. facts \in Seq(FactRows) /\ facts[f] \in FactRows
    BY <2>1, LenProperties, ElementOfSeq DEF RowsSound, RowsTyped
  <2>3. Changed(request) \in FactRows /\ Changed(request).question = facts[f].question
    BY <2>1, <2>2 DEF Changed, FactRows, KnowledgeCommits
  <2>4. /\ facts' \in Seq(FactRows) /\ DOMAIN facts' = DOMAIN facts /\ Len(facts') = Len(facts)
        /\ \A g \in DOMAIN facts' : facts'[g].question = facts[g].question
    <3> HIDE DEF f, request
    <3> QED BY <1>3, <2>1, <2>2, <2>3, Written
  <2>5. RowsTyped' /\ RunTyped' /\ OutcomesDiffer'
    BY <1>1, <1>3, <2>4 DEF RowsSound, RowsTyped, RunTyped, OutcomesDiffer
  <2>6. FactsAnswer'
    BY <1>1, <2>4 DEF RowsSound, FactsAnswer
  <2> QED BY <1>1, <1>3, <2>4, <2>5, <2>6 DEF RowsSound, RowsKept, RowsTyped
<1> QED BY <1>2, <1>3 DEF KnowledgeCommits

\* The run ends, or goes on to its next stage.
LEMMA RunKeepsRows ==
  ASSUME RowsSound, UNCHANGED <<outcomes, facts, version>>,
         NEW id \in DOMAIN ops,
         \/ UNCHANGED ops
         \/ ops' = [ops EXCEPT ![id].status = "running"]
         \/ \E status \in {"succeeded", "failed"},
               code \in {"none", "SOURCE_CHANGED", "INVALID_OUTPUT", "EXECUTION"} :
               ops' = Ends(id, status, code),
         \/ run' = NoRun
         \/ run' = [stage |-> "running", op |-> id]
         \/ run' = [stage |-> "prepared", op |-> id]
         \/ run' = [stage |-> "activating", op |-> id, version |-> version]
  PROVE  RowsSound' /\ RowsKept
<1> USE DEF RowsSound
<1>1. /\ ops' \in Seq(OpRows) /\ DOMAIN ops' = DOMAIN ops
      /\ \A j \in DOMAIN ops' : /\ ops'[j].type = ops[j].type /\ ops'[j].about = ops[j].about
                                /\ ops'[j].text = ops[j].text
  <2>1. CASE UNCHANGED ops
    BY <2>1 DEF RowsTyped
  <2>2. CASE ops' = [ops EXCEPT ![id].status = "running"]
    BY <2>2, OpMoves DEF Live
  <2>3. ASSUME NEW status \in {"succeeded", "failed"},
               NEW code \in {"none", "SOURCE_CHANGED", "INVALID_OUTPUT", "EXECUTION"},
               ops' = Ends(id, status, code)
        PROVE  <1>1!:
    BY <2>3, OpMoves DEF Ends
  <2> QED BY <2>1, <2>2, <2>3
<1>2. RowsTyped'
  BY <1>1 DEF RowsTyped
<1>3. OutcomesDiffer' /\ FactsAnswer'
  BY DEF OutcomesDiffer, FactsAnswer
<1>4. RunTyped'
  BY <1>1 DEF RunTyped, NoRun
<1> QED BY <1>1, <1>2, <1>3, <1>4 DEF RowsKept, RowsTyped

\* An activation writes a fact with its outcome, or neither.
LEMMA ActivationKeepsRows ==
  ASSUME RowsSound, Activate
  PROVE  RowsSound' /\ RowsKept
<1> USE DEF RowsSound
<1> DEFINE id == run.op
           q == ops[id].about
           fact == [question |-> q, wording |-> ops[id].text, status |-> "pending"]
           row == [question |-> q, outcome |-> "answered", fact |-> Len(facts')]
<1>1. id \in DOMAIN ops
  BY DEF Activate, RunTyped
<1>2. CASE UNCHANGED <<outcomes, facts, version>>
  <2>1. \E status \in {"succeeded", "failed"},
            code \in {"none", "SOURCE_CHANGED", "INVALID_OUTPUT", "EXECUTION"} :
            ops' = Ends(id, status, code) /\ run' = NoRun
    BY DEF Activate, RunOver, WritesFact
  <2> QED BY <1>1, <1>2, <2>1, RunKeepsRows
<1>3. CASE /\ ops[id].type # "ask" /\ ~HasOutcome(q) /\ WritesFact(id)
           /\ ops' = Ends(id, "succeeded", "none") /\ run' = NoRun
  <2>1. ops[id] \in OpRows
    BY <1>1, LenProperties, ElementOfSeq DEF RowsTyped
  <2>2. q \in Questions /\ ops[id].text \in Wordings
    BY <1>1, <1>3, <2>1 DEF OpRows, RowsTyped
  <2>3. fact \in FactRows /\ facts \in Seq(FactRows)
    BY <2>2 DEF FactRows, RowsTyped
  <2>4. /\ facts' = Append(facts, fact)
        /\ outcomes' = Append(outcomes, row) /\ version' = version + 1
    BY <1>3 DEF WritesFact
  <2> HIDE DEF fact
  <2>5. /\ facts' \in Seq(FactRows) /\ DOMAIN facts = 1 .. Len(facts) /\ Len(facts) \in Nat
        /\ Len(facts') = Len(facts) + 1 /\ DOMAIN facts' = 1 .. (Len(facts) + 1)
        /\ \A f \in DOMAIN facts : f \in DOMAIN facts' /\ facts'[f] = facts[f]
        /\ facts'[Len(facts')] = fact
    BY <2>3, <2>4, Appended
  <2>6. row \in OutcomeRows /\ row.fact # 0 /\ row.outcome = "answered" /\ row.question = q
    BY <2>2, <2>5 DEF OutcomeRows
  <2>7. \A i \in DOMAIN outcomes : outcomes[i].fact # row.fact
    BY <2>5 DEF FactsAnswer
  <2>8. /\ outcomes' \in Seq(OutcomeRows) /\ OutcomesDiffer'
        /\ \A i \in DOMAIN outcomes' : outcomes'[i].outcome = "answered" => outcomes'[i].fact # 0
        /\ \A i \in DOMAIN outcomes : i \in DOMAIN outcomes' /\ outcomes'[i] = outcomes[i]
        /\ \E i \in DOMAIN outcomes' : outcomes'[i] = row
        /\ \A i \in DOMAIN outcomes' : i \in DOMAIN outcomes \/ outcomes'[i] = row
    <3> HIDE DEF row
    <3> QED BY <1>3, <2>4, <2>6, <2>7, OutcomeAppended
  <2>9. /\ ops' \in Seq(OpRows) /\ DOMAIN ops' = DOMAIN ops
        /\ \A j \in DOMAIN ops' : /\ ops'[j].type = ops[j].type /\ ops'[j].about = ops[j].about
                                  /\ ops'[j].text = ops[j].text
    BY <1>1, <1>3, OpMoves DEF Ends
  <2>10. RowsTyped' /\ RunTyped'
    <3>1. version' \in Nat
      BY <2>4 DEF RowsTyped
    <3>2. \A j \in DOMAIN ops' :
            ops'[j].type = "draft" => ops'[j].about \in Questions /\ ops'[j].text \in Wordings
      BY <2>9 DEF RowsTyped
    <3>3. RowsTyped'
      BY <2>5, <2>8, <2>9, <3>1, <3>2 DEF RowsTyped
    <3> QED BY <1>3, <3>3 DEF RunTyped, NoRun
  <2>11. \A i \in DOMAIN outcomes' : outcomes'[i].fact \in 0 .. Len(facts')
    BY <2>5, <2>8 DEF FactsAnswer
  <2>12. \A f \in DOMAIN facts' : \E i \in DOMAIN outcomes' :
            outcomes'[i] = [question |-> facts'[f].question, outcome |-> "answered", fact |-> f]
    <3> SUFFICES ASSUME NEW f \in DOMAIN facts'
                 PROVE  \E i \in DOMAIN outcomes' : outcomes'[i] =
                          [question |-> facts'[f].question, outcome |-> "answered", fact |-> f]
      OBVIOUS
    <3>1. CASE f \in DOMAIN facts
      BY <2>5, <2>8, <3>1 DEF FactsAnswer
    <3>2. CASE f = Len(facts')
      <4>1. facts'[f].question = q
        BY <2>5, <3>2 DEF fact
      <4> QED BY <2>8, <3>2, <4>1
    <3> QED BY <2>5, <3>1, <3>2
  <2>13. RowsSound'
    BY <2>8, <2>10, <2>11, <2>12 DEF FactsAnswer
  <2>14. version \in Nat /\ version' = version + 1
    BY <2>4 DEF RowsTyped
  <2>15. RowsKept
    BY <2>5, <2>9, <2>14 DEF RowsKept
  <2> QED BY <2>13, <2>15
<1> QED BY <1>2, <1>3 DEF Activate, RunOver

LEMMA WorkerKeepsRows ==
  ASSUME RowsSound, Worker \/ Refuse
  PROVE  RowsSound' /\ RowsKept
<1> USE DEF RowsSound
<1>1. CASE Claim
  BY <1>1, RunKeepsRows DEF Claim
<1>2. CASE Prepare
  <2>1. run.op \in DOMAIN ops /\ run = [stage |-> "running", op |-> run.op]
    BY <1>2 DEF Prepare, RunTyped
  <2>2. \/ run' = [stage |-> "prepared", op |-> run.op] /\ UNCHANGED ops
        \/ ops' = Ends(run.op, "failed", "SOURCE_CHANGED") /\ run' = NoRun
    BY <1>2, <2>1 DEF Prepare, RunOver
  <2> QED BY <1>2, <2>1, <2>2, RunKeepsRows DEF Prepare
<1>3. CASE Refuse
  <2>1. run.op \in DOMAIN ops
    BY <1>3 DEF Refuse, RunTyped
  <2> QED BY <1>3, <2>1, RunKeepsRows DEF Refuse, RunOver
<1>4. CASE ActivationBegins
  <2>1. run.op \in DOMAIN ops
    BY <1>4 DEF ActivationBegins, RunTyped
  <2> QED BY <1>4, <2>1, RunKeepsRows DEF ActivationBegins, RunOver
<1>5. CASE Activate
  BY <1>5, ActivationKeepsRows
<1> QED BY <1>1, <1>2, <1>3, <1>4, <1>5 DEF Worker

\* Every step keeps the rows in order.
LEMMA NextKeepsRows ==
  ASSUME QuestionsInvariant, [Next]_vars
  PROVE  RowsSound' /\ RowsKept
<1> USE DEF QuestionsInvariant
<1>1. CASE UNCHANGED server
  BY <1>1 DEF server, RowsSound, RowsTyped, RunTyped, OutcomesDiffer, FactsAnswer, RowsKept
<1>2. CASE \E slot \in Slots : \/ EnqueueCommits(slot) \/ SkipCommits(slot)
                               \/ KnowledgeCommits(slot)
  BY <1>2, EnqueueKeepsRows, SkipKeepsRows, KnowledgeKeepsRows
<1>3. CASE Worker \/ Refuse
  BY <1>3, WorkerKeepsRows
<1>4. CASE Commands
  <2>1. \/ UNCHANGED server
        \/ \E slot \in Slots : \/ EnqueueCommits(slot) \/ SkipCommits(slot)
                               \/ KnowledgeCommits(slot)
    BY <1>4 DEF Commands, Checks, EnqueueBegins, SkipBegins, KnowledgeBegins, Unwritten, server
  <2> QED BY <1>1, <1>2, <2>1
<1>5. CASE Reads \/ RefreshOnSettled
  BY <1>1, <1>5 DEF Reads, RefreshOnSettled, PollSet, SetServed, SetArrives, PollAsk,
                    ReadProjection, Arrives, OtherAnswered, server
<1>6. CASE Reader \/ OtherTab \/ Lost \/ Focus
  BY <1>1, <1>6 DEF Reader, Ask, Answer, Skip, Edit, Confirm, Retry, Sends, OtherTab, OtherSends,
                    Lost, Focus, server
<1>7. CASE UNCHANGED vars
  BY <1>1, <1>7 DEF vars
<1> QED BY <1>3, <1>4, <1>5, <1>6, <1>7 DEF Next, Machine

-----------------------------------------------------------------------------
(* The commands *)

Sound(slot) == AboutARow(requests[slot]) /\ ReadsItsFact(requests[slot])

\* A command that stays as it is stays sound.
LEMMA KeptCommand ==
  ASSUME RowsKept, NEW slot \in Slots, Sound(slot), requests'[slot] = requests[slot]
  PROVE  Sound(slot)'
<1> DEFINE r == requests[slot]
<1>1. /\ DOMAIN ops \subseteq DOMAIN ops' /\ DOMAIN facts \subseteq DOMAIN facts'
      /\ requests'[slot] = r
  BY DEF RowsKept
<1>2. ReadsItsFact(requests[slot])'
  <2> SUFFICES ASSUME r.stage = "begun", r.kind \in {"edit", "confirm"}
               PROVE  /\ r.version \in Nat /\ r.version <= version'
                      /\ r.version = version' => r.read = facts'[r.about] /\ r.read.status = "pending"
    BY <1>1 DEF ReadsItsFact
  <2>1. /\ r.version \in Nat /\ r.version <= version
        /\ r.version = version => r.read = facts[r.about] /\ r.read.status = "pending"
    BY DEF Sound, ReadsItsFact
  <2> HIDE DEF r
  <2>2. /\ version \in Nat /\ version' \in Nat /\ version' >= version
        /\ version' = version => facts' = facts
    BY DEF RowsKept
  <2>3. r.version <= version' /\ (r.version = version' => version' = version)
    BY <2>1, <2>2
  <2> QED BY <2>1, <2>2, <2>3
<1>3. AboutARow(requests[slot])'
  <2>1. AboutARow(r)
    BY DEF Sound
  <2> QED BY <1>1, <2>1 DEF AboutARow, IsCommand, Names
<1> QED BY <1>2, <1>3 DEF Sound

\* One command moves and is sound: all are.
LEMMA OneMoves ==
  ASSUME RequestsSound, RowsKept, NEW slot \in Slots, NEW r,
         requests' = [requests EXCEPT ![slot] = r], requests'[slot] = r => Sound(slot)'
  PROVE  RequestsSound'
<1>1. /\ requests' = [s \in Slots |-> requests'[s]] /\ requests'[slot] = r
      /\ \A s \in Slots : s # slot => requests'[s] = requests[s]
  BY DEF RequestsSound
<1>2. \A s \in Slots : Sound(s)
  BY DEF RequestsSound, Sound
<1>3. \A s \in Slots : Sound(s)'
  BY <1>1, <1>2, KeptCommand
<1> QED BY <1>1, <1>3 DEF RequestsSound, Sound

\* Nothing sent, or an answer that carries no set: nothing to be wrong.
LEMMA EmptyIsSound ==
  ASSUME NEW slot \in Slots,
         \/ requests'[slot] = NoRequest
         \/ /\ requests'[slot].stage = "served"
            /\ requests'[slot].kind = "skip" => requests'[slot].verdict # "done"
  PROVE  Sound(slot)'
  BY DEF Sound, AboutARow, ReadsItsFact, NoRequest

LEMMA AnsweredIsSound ==
  ASSUME RequestsSound, RowsKept, NEW slot \in Slots, NEW verdict, NEW op,
         requests[slot].kind = "skip" => verdict # "done",
         requests' = [requests EXCEPT ![slot] = Served(slot, verdict, op)]
  PROVE  RequestsSound'
<1>1. requests'[slot] = Served(slot, verdict, op) => Sound(slot)'
  BY EmptyIsSound DEF Served
<1> QED BY <1>1, OneMoves

\* A command on its way to the server.
LEMMA MovedIsSound ==
  ASSUME RequestsSound, RowsKept, NEW slot \in Slots,
         requests[slot].stage \in {"sent", "checked"},
         NEW stage \in {"checked", "begun"},
         stage = "begun" => requests[slot].kind \notin {"edit", "confirm"},
         stage = "checked" => requests[slot].kind \in {"answer", "retry"},
         requests' = [requests EXCEPT ![slot].stage = stage]
  PROVE  RequestsSound'
<1> DEFINE r == requests[slot]
           moved == [r EXCEPT !.stage = stage]
<1>1. AboutARow(r) /\ IsCommand(r)
  BY DEF RequestsSound, AboutARow
<1>2. moved = [Sent(r.kind, r.about, r.text, r.key) EXCEPT !.stage = stage]
  BY <1>1 DEF IsCommand, Sent
<1>3. /\ moved.stage = stage /\ moved.kind = r.kind /\ moved.about = r.about
      /\ moved.text = r.text /\ moved.key = r.key
  BY <1>2 DEF Sent
<1>4. IsCommand(moved)
  BY <1>2, <1>3 DEF IsCommand, Sent
<1>5. requests' = [requests EXCEPT ![slot] = moved]
  BY DEF RequestsSound
<1> HIDE DEF moved
<1>6. ASSUME requests'[slot] = moved PROVE Sound(slot)'
  <2>1. AboutARow(requests[slot])'
    BY <1>1, <1>3, <1>4, <1>6 DEF AboutARow, IsCommand, RowsKept
  <2>2. ReadsItsFact(requests[slot])'
    BY <1>3, <1>6 DEF ReadsItsFact
  <2> QED BY <2>1, <2>2 DEF Sound
<1> QED BY <1>5, <1>6, OneMoves

\* What a page may send: a command about a row that is there.
WellSent(kind, about, text, key) ==
  \/ kind = "ask" /\ about = "none" /\ text = "none" /\ key \in Keys
  \/ kind = "answer" /\ about \in Questions /\ text \in Wordings /\ key \in Keys
  \/ kind = "skip" /\ about \in Questions
  \/ kind = "retry" /\ about \in DOMAIN ops /\ key \in Keys
  \/ kind = "edit" /\ about \in DOMAIN facts /\ text \in Wordings
  \/ kind = "confirm" /\ about \in DOMAIN facts

LEMMA SentIsSound ==
  ASSUME RequestsSound, RowsKept, NEW slot \in Slots,
         NEW kind, NEW about, NEW text, NEW key, WellSent(kind, about, text, key),
         requests' = [requests EXCEPT ![slot] = Sent(kind, about, text, key)]
  PROVE  RequestsSound'
<1> DEFINE r == Sent(kind, about, text, key)
<1>1. /\ r.stage = "sent" /\ r.kind = kind /\ r.about = about /\ r.text = text /\ r.key = key
      /\ IsCommand(r)
  BY DEF Sent, IsCommand
<1> HIDE DEF r
<1>2. ASSUME requests'[slot] = r PROVE Sound(slot)'
  <2>1. AboutARow(requests[slot])'
    BY <1>1, <1>2 DEF AboutARow, WellSent, RowsKept, IsCommand
  <2>2. ReadsItsFact(requests[slot])'
    BY <1>1, <1>2 DEF ReadsItsFact
  <2> QED BY <2>1, <2>2 DEF Sound
<1> QED BY <1>2, OneMoves DEF r

\* Where no row moves, what the rows are kept as is what they are.
LEMMA SameRows ==
  ASSUME RowsSound, UNCHANGED server
  PROVE  RowsKept
  BY DEF RowsSound, RowsTyped, RowsKept, server

LEMMA ReaderSendsSoundly ==
  ASSUME QuestionsInvariant, Reader
  PROVE  RequestsSound'
<1> USE DEF QuestionsInvariant
<1>1. RowsKept /\ "reader" \in Slots
  BY SameRows DEF Reader, Ask, Answer, Skip, Edit, Confirm, Retry, Sends, Slots
<1>2. CASE Ask
  <2>1. WellSent("ask", "none", "none", <<"ask">>)
    BY DEF WellSent, Keys
  <2> QED BY <1>1, <1>2, <2>1, SentIsSound DEF Ask, Sends
<1>3. ASSUME NEW q \in Questions, NEW w \in Wordings, Answer(q, w)
      PROVE  RequestsSound'
  <2>1. <<"answer", q, set[q].draft>> \in Keys
    BY DEF Keys, ViewsSound, Names
  <2>2. WellSent("answer", q, w, <<"answer", q, set[q].draft>>)
    BY <2>1 DEF WellSent
  <2> QED BY <1>1, <1>3, <2>2, SentIsSound DEF Answer, Sends
<1>4. ASSUME NEW q \in Questions, Skip(q)
      PROVE  RequestsSound'
  BY <1>1, <1>4, SentIsSound DEF Skip, Sends, WellSent
<1>5. ASSUME NEW q \in Questions, NEW w \in Wordings, Edit(q, w)
      PROVE  RequestsSound'
  <2>1. WellSent("edit", set[q].fact, w, <<>>)
    BY <1>5 DEF Edit, PendingFact, WellSent, ViewsSound, Names
  <2> QED BY <1>1, <1>5, <2>1, SentIsSound DEF Edit, Sends
<1>6. ASSUME NEW q \in Questions, Confirm(q)
      PROVE  RequestsSound'
  <2>1. WellSent("confirm", set[q].fact, "none", <<>>)
    BY <1>6 DEF Confirm, PendingFact, WellSent, ViewsSound, Names
  <2> QED BY <1>1, <1>6, <2>1, SentIsSound DEF Confirm, Sends
<1>7. ASSUME NEW id \in OpIds, Retry(id)
      PROVE  RequestsSound'
  <2>1. id \in DOMAIN ops /\ <<"retry", id>> \in Keys
    BY <1>7, LenProperties DEF Retry, Keys, RowsSound, RowsTyped
  <2>2. WellSent("retry", id, "none", <<"retry", id>>)
    BY <2>1 DEF WellSent
  <2> QED BY <1>1, <1>7, <2>2, SentIsSound DEF Retry, Sends
<1> QED BY <1>2, <1>3, <1>4, <1>5, <1>6, <1>7 DEF Reader

LEMMA OtherSendsSoundly ==
  ASSUME QuestionsInvariant, OtherTab
  PROVE  RequestsSound'
<1> USE DEF QuestionsInvariant
<1>1. RowsKept /\ "other" \in Slots
  BY SameRows DEF OtherTab, OtherSends, Slots
<1>2. \A kind, about, text, key :
        WellSent(kind, about, text, key) /\ OtherSends(Sent(kind, about, text, key))
        => RequestsSound'
  BY <1>1, SentIsSound DEF OtherSends
<1>3. \A q \in Questions : WellSent("skip", q, "none", <<>>)
  BY DEF WellSent
<1>4. \A q \in Questions, w \in Wordings : \A draft \in DraftsOf(q) \union {0} :
        WellSent("answer", q, w, <<"answer", q, draft>>)
  <2>1. \A q \in Questions : DraftsOf(q) \union {0} \subseteq Nat
    BY LenProperties DEF DraftsOf, RowsSound, RowsTyped
  <2>2. \A q \in Questions : \A draft \in DraftsOf(q) \union {0} :
          <<"answer", q, draft>> \in Keys
    BY <2>1 DEF Keys
  <2> QED BY <2>2 DEF WellSent
<1>5. \A f \in DOMAIN facts : /\ WellSent("confirm", f, "none", <<>>)
                              /\ \A w \in Wordings : WellSent("edit", f, w, <<>>)
  BY DEF WellSent
<1> QED BY <1>2, <1>3, <1>4, <1>5 DEF OtherTab

LEMMA ServerAnswersSoundly ==
  ASSUME QuestionsInvariant, RowsSound', RowsKept, NEW slot \in Slots,
         \/ Checks(slot) \/ EnqueueBegins(slot) \/ EnqueueCommits(slot)
         \/ SkipBegins(slot) \/ SkipCommits(slot)
         \/ KnowledgeBegins(slot) \/ KnowledgeCommits(slot)
  PROVE  RequestsSound'
<1> USE DEF QuestionsInvariant
<1>1. CASE Checks(slot)
  BY <1>1, AnsweredIsSound, MovedIsSound DEF Checks, Answered, Moves
<1>2. CASE EnqueueBegins(slot)
  <2>1. /\ requests[slot].stage \in {"sent", "checked"}
        /\ requests[slot].kind \in {"ask", "answer", "retry"}
    BY <1>2 DEF EnqueueBegins, RequestsSound, AboutARow
  <2> QED BY <1>2, <2>1, AnsweredIsSound, MovedIsSound DEF EnqueueBegins, Answered, Moves
<1>3. CASE EnqueueCommits(slot)
  BY <1>3, AnsweredIsSound DEF EnqueueCommits, Answered
<1>4. CASE SkipBegins(slot)
  BY <1>4, AnsweredIsSound, MovedIsSound DEF SkipBegins, Answered, Moves
<1>5. CASE SkipCommits(slot)
  <2> DEFINE r == [stage |-> "served", kind |-> "skip", about |-> requests[slot].about,
                   verdict |-> "done", op |-> 0, set |-> SetNow']
  <2>1. CASE requests' = [requests EXCEPT ![slot] = r]
    <3>1. Names(SetNow)'
      BY ReadsNameFacts, PTL
    <3>2. requests'[slot] = r => Sound(slot)'
      BY <3>1 DEF Sound, AboutARow, ReadsItsFact, Names
    <3> QED BY <2>1, <3>2, OneMoves
  <2>2. CASE Answered(slot, "broken")
    BY <2>2, AnsweredIsSound DEF Answered
  <2> QED BY <1>5, <2>1, <2>2 DEF SkipCommits
<1>6. CASE KnowledgeBegins(slot)
  <2> DEFINE fact == facts[requests[slot].about]
             r == [stage |-> "begun", kind |-> requests[slot].kind,
                   about |-> requests[slot].about, text |-> requests[slot].text,
                   version |-> version, read |-> fact]
  <2>1. CASE fact.status = "pending" /\ requests' = [requests EXCEPT ![slot] = r]
    <3>1. /\ requests[slot].kind \in {"edit", "confirm"} /\ requests[slot].stage = "sent"
          /\ UNCHANGED <<ops, facts, version>> /\ version \in Nat
      BY <1>6 DEF KnowledgeBegins, RowsSound, RowsTyped
    <3>2. AboutARow(requests[slot])
      BY DEF RequestsSound
    <3>3. ASSUME requests'[slot] = r PROVE Sound(slot)'
      <4>1. ReadsItsFact(requests[slot])'
        BY <2>1, <3>1, <3>3 DEF ReadsItsFact
      <4>2. AboutARow(requests[slot])'
        BY <3>1, <3>2, <3>3 DEF AboutARow
      <4> QED BY <4>1, <4>2 DEF Sound
    <3> QED BY <2>1, <3>3, OneMoves
  <2>2. CASE Answered(slot, "refused")
    BY <1>6, <2>2, AnsweredIsSound DEF Answered, KnowledgeBegins
  <2> QED BY <1>6, <2>1, <2>2 DEF KnowledgeBegins
<1>7. CASE KnowledgeCommits(slot)
  BY <1>7, AnsweredIsSound DEF KnowledgeCommits, Answered
<1> QED BY <1>1, <1>2, <1>3, <1>4, <1>5, <1>6, <1>7

LEMMA NextKeepsRequests ==
  ASSUME QuestionsInvariant, RowsSound', RowsKept, [Next]_vars
  PROVE  RequestsSound'
<1> USE DEF QuestionsInvariant
<1>1. CASE UNCHANGED requests
  <2>1. \A slot \in Slots : Sound(slot)'
    BY <1>1, KeptCommand DEF RequestsSound, Sound
  <2> QED BY <1>1, <2>1 DEF RequestsSound, Sound
<1>2. CASE Commands
  BY <1>2, ServerAnswersSoundly DEF Commands
<1>3. CASE Worker \/ Refuse \/ RefreshOnSettled \/ Focus
  BY <1>1, <1>3 DEF Worker, Refuse, RefreshOnSettled, Focus, Claim, Prepare, ActivationBegins,
                    Activate
<1>4. CASE Reads
  <2>1. CASE UNCHANGED requests
    BY <1>1, <2>1
  <2>2. ASSUME NEW slot \in Slots, requests' = [requests EXCEPT ![slot] = NoRequest]
        PROVE  RequestsSound'
    BY <2>2, EmptyIsSound, OneMoves
  <2> QED BY <1>4, <2>1, <2>2 DEF Reads, PollSet, SetServed, SetArrives, PollAsk, ReadProjection,
                                  Arrives, OtherAnswered, Slots
<1>5. CASE Lost
  <2>1. ASSUME NEW slot \in Slots, requests' = [requests EXCEPT ![slot] = NoRequest]
        PROVE  RequestsSound'
    BY <2>1, EmptyIsSound, OneMoves
  <2>2. CASE requests' = [reader |-> NoRequest, other |-> requests["reader"]]
    <3>1. /\ requests'["reader"] = NoRequest /\ requests'["other"] = requests["reader"]
          /\ requests' = [slot \in Slots |-> requests'[slot]]
      BY <2>2 DEF Slots
    <3>2. Sound("reader")'
      BY <3>1, EmptyIsSound DEF Slots
    <3>3. Sound("reader")
      BY DEF RequestsSound, Sound, Slots
    <3>4. Sound("other")'
      <4>1. UNCHANGED <<ops, facts, version>>
        BY <1>5 DEF Lost, server
      <4> QED BY <3>1, <3>3, <4>1 DEF Sound, AboutARow, ReadsItsFact, IsCommand, Names
    <3> QED BY <3>1, <3>2, <3>4 DEF RequestsSound, Sound, Slots
  <2> QED BY <1>5, <2>1, <2>2 DEF Lost, Slots
<1>6. CASE Reader \/ OtherTab
  BY <1>6, ReaderSendsSoundly, OtherSendsSoundly
<1>7. CASE UNCHANGED vars
  BY <1>1, <1>7 DEF vars
<1> QED BY <1>2, <1>3, <1>4, <1>5, <1>6, <1>7 DEF Next, Machine

-----------------------------------------------------------------------------
(* The views *)

LEMMA NextKeepsViews ==
  ASSUME QuestionsInvariant, RowsSound', RowsKept, [Next]_vars
  PROVE  ViewsSound'
<1> USE DEF QuestionsInvariant
<1>1. DOMAIN facts \subseteq DOMAIN facts'
  BY DEF RowsKept
<1>2. ASSUME UNCHANGED set PROVE Names(set)'
  BY <1>1, <1>2 DEF ViewsSound, Names
<1>3. ASSUME UNCHANGED setFetch, setFetch.stage = "answered" PROVE Names(setFetch.value)'
  BY <1>1, <1>3 DEF ViewsSound, Names
<1>4. CASE UNCHANGED set /\ (UNCHANGED setFetch \/ setFetch'.stage # "answered")
  BY <1>2, <1>3, <1>4 DEF ViewsSound
<1>5. Reading.stage # "answered" /\ NoFetch.stage # "answered"
  BY DEF Reading, NoFetch
<1>6. CASE SetServed
  <2>1. Names(SetNow)
    BY ReadsNameFacts
  <2>2. setFetch'.value = SetNow
    BY <1>6 DEF SetServed
  <2>3. Names(setFetch.value)'
    BY <1>1, <2>1, <2>2 DEF Names
  <2> QED BY <1>2, <1>6, <2>3 DEF ViewsSound, SetServed
<1>7. CASE SetArrives
  <2>1. Names(set)'
    BY <1>1, <1>7 DEF SetArrives, ViewsSound, Names
  <2> QED BY <1>5, <1>7, <2>1 DEF ViewsSound, SetArrives
<1>8. CASE Arrives
  <2> DEFINE answer == requests["reader"]
  <2>1. CASE UNCHANGED set
    BY <1>4, <1>5, <1>8, <2>1 DEF Arrives
  <2>2. CASE answer.verdict = "done" /\ answer.kind = "skip" /\ set' = answer.set /\ UNCHANGED setFetch
    <3>1. Names(answer.set)
      BY <1>8, <2>2 DEF Arrives, RequestsSound, AboutARow, Slots
    <3>2. Names(set)'
      BY <1>1, <2>2, <3>1 DEF Names
    <3> QED BY <1>3, <2>2, <3>2 DEF ViewsSound
  <2> QED BY <1>8, <2>1, <2>2 DEF Arrives
<1>9. CASE Reader \/ OtherTab \/ Refuse \/ Lost \/ Commands \/ Worker
  BY <1>4, <1>9 DEF Reader, OtherTab, OtherSends, Refuse, Lost, Commands, Worker, Ask, Answer, Skip,
     Edit, Confirm, Retry, Sends, Checks, EnqueueBegins, EnqueueCommits, SkipBegins, SkipCommits,
     KnowledgeBegins, KnowledgeCommits, Claim, Prepare, ActivationBegins, Activate, Unwritten, browser
<1>10. CASE Focus \/ RefreshOnSettled \/ PollSet \/ PollAsk \/ ReadProjection \/ OtherAnswered
  BY <1>4, <1>5, <1>10 DEF Focus, RefreshOnSettled, PollSet, PollAsk, ReadProjection, OtherAnswered,
     browser
<1>11. CASE UNCHANGED vars
  BY <1>4, <1>11 DEF vars, browser
<1> QED BY <1>6, <1>7, <1>8, <1>9, <1>10, <1>11 DEF Next, Machine, Reads

-----------------------------------------------------------------------------
(* The specification *)

LEMMA InitQuestions == Init => QuestionsInvariant
<1> SUFFICES ASSUME Init PROVE QuestionsInvariant
  OBVIOUS
<1> DEFINE q == CHOOSE any \in Questions : TRUE
           w == CHOOSE any \in Wordings : TRUE
           written == [Op("ask", "none", "none", <<"ask">>) EXCEPT !.status = "succeeded"]
           draft == [Op("draft", q, w, <<"answer", q, 0>>) EXCEPT !.status = "succeeded"]
           row == [question |-> q, outcome |-> "answered", fact |-> 1]
           fact == [question |-> q, wording |-> w, status |-> "pending"]
<1>1. q \in Questions /\ w \in Wordings
  BY GapQuestionsConstants
<1>2. /\ written \in OpRows /\ written.type = "ask"
      /\ draft \in OpRows /\ draft.about = q /\ draft.text = w
      /\ row \in OutcomeRows /\ fact \in FactRows
  <2> HIDE DEF q, w
  <2> QED BY <1>1 DEF Op, OpRows, Keys, Live, OutcomeRows, FactRows
<1>3. /\ ops \in {<<>>, <<written>>, <<written, draft>>}
      /\ \/ outcomes = <<>> /\ facts = <<>>
         \/ outcomes = <<row>> /\ facts = <<fact>>
      /\ version = 0 /\ run = NoRun
      /\ requests = [slot \in Slots |-> NoRequest]
      /\ set = SetNow /\ setFetch = NoFetch
  BY DEF Init
<1> HIDE DEF q, w, written, draft
<1>4. RowsTyped
  <2>1. /\ ops \in Seq(OpRows)
        /\ \A id \in DOMAIN ops : ops[id] \in {written, draft}
    <3>1. CASE ops = <<>>
      BY <3>1
    <3>2. CASE ops = <<written>>
      BY <1>2, <3>2
    <3>3. CASE ops = <<written, draft>>
      BY <1>2, <3>3
    <3> QED BY <1>3, <3>1, <3>2, <3>3
  <2>2. /\ outcomes \in Seq(OutcomeRows) /\ facts \in Seq(FactRows)
        /\ \A i \in DOMAIN outcomes : outcomes[i] = row
    <3>1. CASE outcomes = <<>> /\ facts = <<>>
      BY <3>1
    <3>2. CASE outcomes = <<row>> /\ facts = <<fact>>
      BY <1>2, <3>2
    <3> QED BY <1>3, <3>1, <3>2
  <2>3. row.fact = 1
    BY DEF row
  <2> QED BY <1>1, <1>2, <1>3, <2>1, <2>2, <2>3 DEF RowsTyped
<1>5. OutcomesDiffer /\ FactsAnswer /\ RunTyped
  BY <1>3 DEF OutcomesDiffer, FactsAnswer, RunTyped, NoRun, row, fact
<1>6. RowsSound
  BY <1>4, <1>5 DEF RowsSound
<1>7. RequestsSound
  BY <1>3 DEF RequestsSound, AboutARow, ReadsItsFact, NoRequest
<1>8. ViewsSound
  BY <1>3, <1>6, ReadsNameFacts DEF ViewsSound, NoFetch
<1> QED BY <1>6, <1>7, <1>8 DEF QuestionsInvariant

LEMMA NextQuestions == QuestionsInvariant /\ [Next]_vars => QuestionsInvariant'
  BY NextKeepsRows, NextKeepsRequests, NextKeepsViews DEF QuestionsInvariant

\* The rows of the questions, the commands of both tabs and what the browser has read fit each
\* other at every step (gap_questions.py, knowledge/lifecycle.py, the gap_answers table).
THEOREM QuestionsFit == Spec => []QuestionsInvariant
  BY InitQuestions, NextQuestions, PTL DEF Spec

LEMMA OneOutcome == QuestionsInvariant => QuestionHasOneOutcome
<1> SUFFICES ASSUME QuestionsInvariant PROVE QuestionHasOneOutcome
  OBVIOUS
<1> USE DEF QuestionsInvariant, RowsSound
<1>1. ASSUME NEW q \in Questions PROVE Cardinality(OutcomesOf(q)) <= 1
  <2>1. CASE OutcomesOf(q) = {}
    BY <2>1, FS_EmptySet
  <2>2. ASSUME NEW i \in OutcomesOf(q) PROVE Cardinality(OutcomesOf(q)) <= 1
    <3>1. OutcomesOf(q) = {i}
      BY <2>2 DEF OutcomesOf, OutcomesDiffer
    <3> QED BY <3>1, FS_Singleton
  <2> QED BY <2>1, <2>2
<1>2. \A f \in DOMAIN facts : \E i \in DOMAIN outcomes :
        outcomes[i] = [question |-> facts[f].question, outcome |-> "answered", fact |-> f]
  BY DEF FactsAnswer
<1>3. \A i, j \in DOMAIN outcomes :
        outcomes[i].fact = outcomes[j].fact /\ outcomes[i].fact # 0 => i = j
  BY DEF OutcomesDiffer
<1> QED BY <1>1, <1>2, <1>3 DEF QuestionHasOneOutcome

\* "One outcome per question, ever" (gap_answers), and no drafted fact without the answer it
\* was drafted from, however the commands of two tabs and the activations interleave.
THEOREM OneOutcomePerQuestion == Spec => []QuestionHasOneOutcome
  BY QuestionsFit, OneOutcome, PTL

\* A step leaves a confirmed fact as it is.
LEMMA StepKeepsCanonical ==
  ASSUME QuestionsInvariant, [Next]_vars
  PROVE  \A f \in DOMAIN facts : facts[f].status = "canonical" => facts'[f] = facts[f]
<1> USE DEF QuestionsInvariant
<1>1. CASE UNCHANGED facts
  BY <1>1
<1>2. ASSUME NEW slot \in Slots, KnowledgeCommits(slot), requests[slot].version = version
      PROVE  \A f \in DOMAIN facts : facts[f].status = "canonical" => facts'[f] = facts[f]
  <2> DEFINE f == requests[slot].about
  <2>1. facts[f].status = "pending"
    BY <1>2 DEF KnowledgeCommits, RequestsSound, ReadsItsFact
  <2>2. facts' = [facts EXCEPT ![f] = Changed(requests[slot])]
    BY <1>2 DEF KnowledgeCommits
  <2>3. \A g \in DOMAIN facts : g # f => facts'[g] = facts[g]
    BY <2>2
  <2> QED BY <2>1, <2>3
<1>3. CASE Activate
  <2>1. UNCHANGED facts \/ WritesFact(run.op)
    BY <1>3 DEF Activate
  <2>2. CASE WritesFact(run.op)
    <3> DEFINE fact == facts'[Len(facts) + 1]
    <3>1. facts \in Seq(FactRows) /\ DOMAIN facts = 1 .. Len(facts)
      BY LenProperties DEF RowsSound, RowsTyped
    <3>2. PICK row : facts' = Append(facts, row)
      BY <2>2 DEF WritesFact
    <3>3. \A f \in 1 .. Len(facts) : Append(facts, row)[f] = facts[f]
      <4>1. facts \in Seq(FactRows \union {row})
        BY <3>1, SeqMonotonic
      <4> QED BY <4>1, AppendProperties
    <3> QED BY <3>1, <3>2, <3>3
  <2> QED BY <1>1, <2>1, <2>2
<1>4. \/ UNCHANGED facts \/ Activate
      \/ \E slot \in Slots : KnowledgeCommits(slot) /\ requests[slot].version = version
  <2>1. CASE Commands
    BY <2>1 DEF Commands, Checks, EnqueueBegins, EnqueueCommits, SkipBegins, SkipCommits,
                KnowledgeBegins, KnowledgeCommits, Unwritten, server
  <2>2. CASE Worker \/ Refuse
    BY <2>2 DEF Worker, Refuse, Claim, Prepare, ActivationBegins
  <2>3. CASE Reads \/ RefreshOnSettled
    BY <2>3 DEF Reads, RefreshOnSettled, PollSet, SetServed, SetArrives, PollAsk,
                ReadProjection, Arrives, OtherAnswered, server
  <2>4. CASE Reader \/ OtherTab \/ Lost \/ Focus
    BY <2>4 DEF Reader, Ask, Answer, Skip, Edit, Confirm, Retry, Sends, OtherTab, OtherSends,
                Lost, Focus, server
  <2> QED BY <2>1, <2>2, <2>3, <2>4 DEF Next, Machine, vars, server
<1> QED BY <1>1, <1>2, <1>3, <1>4

\* A confirmed fact stays confirmed in the words it was confirmed in: no edit that began on
\* the pending fact lands after it (knowledge/lifecycle.py, advance_fact_store_version).
THEOREM ConfirmedStaysConfirmed == Spec => CanonicalStays
<1>1. QuestionsInvariant /\ [Next]_vars =>
        [\A f \in DOMAIN facts : facts[f].status = "canonical" => facts'[f] = facts[f]]_vars
  BY StepKeepsCanonical
<1> QED BY <1>1, QuestionsFit, PTL DEF Spec, CanonicalStays
=============================================================================
