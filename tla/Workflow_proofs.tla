---------------------------- MODULE Workflow_proofs ----------------------------
(***************************************************************************)
(* What Workflow promises of the two tables for any record the server can  *)
(* hold, however many analyses and runs it has, and of the search dialog   *)
(* for any texts and rows.  The tables agree on a record that fits         *)
(* (RecordFits): a content has a document, a document an analysis, a stamp *)
(* a content that passed its check, and a draft is queued for a document.  *)
(* No command, result, or write of another screen makes a record that does *)
(* not.                                                                    *)
(***************************************************************************)
EXTENDS Workflow, SequenceTheorems, TLAPS

-----------------------------------------------------------------------------
(* What is read off a record *)

LEMMA StatesOfARecord ==
  ASSUME NEW r, RecordFits(r)
  PROVE  /\ ~HasDocument(r) => PreparationOf(r) = "needs_analysis"
         /\ HasDocument(r) /\ ~r.content => PreparationOf(r) = "ready_to_draft"
         /\ r.content /\ r.stage = "none" => PreparationOf(r) = "draft_in_progress"
         /\ r.content /\ r.stage = "approved" => PreparationOf(r) = "approved"
         /\ r.content /\ r.stage = "rendered" => PreparationOf(r) = "ready"
         /\ r.content => HasDocument(r)
  BY DEF RecordFits, PreparationOf, HasDocument

LEMMA ReadyRecords ==
  ASSUME NEW r, RecordFits(r)
  PROVE  IsReady(r) <=> r.content /\ r.stage = "rendered"
  BY StatesOfARecord DEF RecordFits, IsReady

\* A record that is classified has been analysed as it is.
LEMMA ClassifiedIsAnalysed ==
  ASSUME NEW r, RecordFits(r), Classified(r)
  PROVE  Analysed(r)
<1>1. r.analyses # <<>> /\ r.analyses \in Seq(Texts) /\ r.analyses[Len(r.analyses)] = r.posting
  BY DEF RecordFits, Classified, Last
<1>2. Len(r.analyses) \in DOMAIN r.analyses
  BY <1>1, EmptySeq, LenProperties
<1> QED BY <1>1, <1>2 DEF Analysed, ToSet

LEMMA NothingRuns ==
  ASSUME NEW r, r.queue = <<>>
  PROVE  /\ Active(r) = "none" /\ Live(r) = {}
         /\ \A here : ~RunIsScreen(r, here)
<1>1. Active(r) = "none"
  BY DEF Active
<1>2. Live(r) = {}
  BY DEF Live, ToSet
<1> QED BY <1>1, <1>2 DEF RunIsScreen

\* What the server offers, by the record.
LEMMA Offers ==
  ASSUME NEW r, RecordFits(r)
  PROVE  /\ "analyze" \in Available(r) => ~Analysed(r)
         /\ "create_draft" \in Available(r) => HasDocument(r) /\ ~r.content
         /\ "build_from_analysis" \in Available(r) => HasDocument(r) /\ r.pinned < Latest(r)
         /\ \A action \in {"edit", "regenerate_section", "confirm_and_use_fact", "check"} \intersect Available(r) :
               r.content
         /\ "confirm_and_use_fact" \in Available(r) => r.fact = "pending"
         /\ "check" \in Available(r) => r.check # "passed"
         /\ "approve" \in Available(r) => r.content /\ r.stage = "none" /\ ~Reasoned(r)
         /\ "render" \in Available(r) => r.content /\ r.stage = "approved"
         /\ \A action \in {"submit", "download_pdf"} \intersect Available(r) : IsReady(r)
<1>1. \A action : action \in Available(r) => action \in Allowed(r) /\ action \notin Blocked(r)
  BY DEF Available
<1>2. "analyze" \in Allowed(r) => ~Analysed(r)
  BY DEF Allowed, Resolutions
<1>3. "create_draft" \in Allowed(r) => HasDocument(r) /\ ~r.content
  BY DEF Allowed, Resolutions
<1>4. "build_from_analysis" \in Allowed(r) => HasDocument(r) /\ r.pinned < Latest(r)
  <2>1. Latest(r) \in Nat /\ r.pinned \in Nat
    BY LenProperties DEF Latest, RecordFits
  <2> QED BY <2>1 DEF Allowed, Resolutions
<1>5. \A action \in {"edit", "regenerate_section", "confirm_and_use_fact", "check"} \intersect Allowed(r) :
         r.content
  BY DEF Allowed, Resolutions
<1>6. "confirm_and_use_fact" \in Allowed(r) => r.fact = "pending"
  BY DEF Allowed, Resolutions
<1>7. "check" \in Allowed(r) => r.check # "passed"
  BY DEF Allowed, Resolutions
<1>8. "approve" \in Allowed(r) => r.content /\ r.stage = "none"
  BY StatesOfARecord DEF Allowed, Resolutions, RecordFits
<1>9. "render" \in Allowed(r) => r.content /\ r.stage = "approved"
  BY StatesOfARecord DEF Allowed, Resolutions, RecordFits
<1>10. \A action \in {"submit", "download_pdf"} \intersect Allowed(r) : IsReady(r)
  BY StatesOfARecord DEF Allowed, Resolutions, RecordFits, IsReady
<1>11. "approve" \notin Blocked(r) => ~Reasoned(r)
  BY DEF Blocked
<1> QED BY <1>1, <1>2, <1>3, <1>4, <1>5, <1>6, <1>7, <1>8, <1>9, <1>10, <1>11

-----------------------------------------------------------------------------
(* Advice *)

LEMMA AdviceIsOneOf ==
  ASSUME NEW r, RecordFits(r)
  PROVE  /\ ~HasDocument(r) => Advice(r) = "analyze"
         /\ HasDocument(r) /\ ~r.content => Advice(r) \in {"create_draft", "analyze"}
         /\ r.content => Advice(r) \in {"check", "approve", "render", "submit"}
  BY StatesOfARecord DEF Advice, RecordFits, Checks

\* The server's advice has its command on the page that is resumed, whatever the record.
LEMMA AdviceHasItsCommand ==
  ASSUME NEW r, RecordFits(r), r.queue = <<>>, Recommended(r) # "none"
  PROVE  Recommended(r) \in Commands(r, Resume(r))
<1> DEFINE action == Recommended(r)
<1>1. action \in Available(r) /\ action = Advice(r)
  BY DEF Recommended
<1>2. ~r.deleted
  BY <1>1 DEF Available
<1>3. Resume(r) = Destination(action) /\ \A here : ~RunIsScreen(r, here)
  BY NothingRuns DEF Resume
<1>4. action \in {"analyze", "create_draft", "check", "approve", "render", "submit"}
  BY <1>1, AdviceIsOneOf
<1> HIDE DEF action
<1>5. CASE action = "analyze"
  <2>1. ~Classified(r)
    BY <1>1, <1>5, Offers, ClassifiedIsAnalysed
  <2>2. AnalysisCommands(r) = Available(r) \intersect {"analyze"}
    BY <1>2, <2>1 DEF AnalysisCommands
  <2>3. Commands(r, "analysis") = AnalysisCommands(r)
    BY <1>3 DEF Commands
  <2>4. Destination(action) = "analysis"
    BY <1>5 DEF Destination
  <2> QED BY <1>1, <1>3, <1>5, <2>2, <2>3, <2>4 DEF action
<1>6. CASE action = "create_draft"
  <2>1. action \in VerificationCommands(r)
    BY <1>1, <1>2, <1>6 DEF VerificationCommands, OffersDraft
  <2>2. Commands(r, "verification") = VerificationCommands(r)
    BY <1>3 DEF Commands
  <2>3. Destination(action) = "verification"
    BY <1>6 DEF Destination
  <2> QED BY <1>3, <2>1, <2>2, <2>3 DEF action
<1>7. CASE action \in {"check", "approve", "render"}
  <2>1. /\ r.content /\ (action = "approve" => r.stage = "none" /\ ~Reasoned(r))
        /\ (action = "render" => r.stage = "approved")
    BY <1>1, <1>7, Offers
  <2>2. action \in DraftCommands(r)
    BY <1>7, <2>1, NothingRuns DEF DraftCommands
  <2>3. Commands(r, "draft") = DraftCommands(r)
    BY <1>3 DEF Commands
  <2>4. Destination(action) = "draft"
    BY <1>7 DEF Destination
  <2> QED BY <1>3, <2>2, <2>3, <2>4 DEF action
<1>8. CASE action = "submit"
  <2>1. IsReady(r)
    BY <1>1, <1>8, Offers
  <2>2. action \in ReadyCommands(r)
    BY <1>1, <1>8, <2>1 DEF ReadyCommands
  <2>3. Commands(r, "ready") = ReadyCommands(r)
    BY <1>3 DEF Commands
  <2>4. Destination(action) = "ready"
    BY <1>8 DEF Destination
  <2> QED BY <1>3, <2>2, <2>3, <2>4 DEF action
<1> QED BY <1>4, <1>5, <1>6, <1>7, <1>8

-----------------------------------------------------------------------------
(* Ways through the pages *)

LEMMA OnwardGoesOn ==
  ASSUME NEW r, NEW pages
  PROVE  /\ pages \subseteq Onward(r, pages)
         /\ \A here \in pages : Links(r, here) \subseteq Onward(r, pages)
  BY DEF Onward

LEMMA ThreeLinks ==
  ASSUME NEW r
  PROVE  /\ Resume(r) \in Reached(r)
         /\ \A a \in Links(r, Resume(r)) :
              /\ a \in Reached(r)
              /\ \A b \in Links(r, a) : /\ b \in Reached(r)
                                        /\ \A c \in Links(r, b) : c \in Reached(r)
<1> DEFINE none == {Resume(r)}
           one == Onward(r, none)
           two == Onward(r, one)
<1>1. Reached(r) = Onward(r, two)
  BY DEF Reached
<1>2. /\ none \subseteq one /\ \A here \in none : Links(r, here) \subseteq one
  BY OnwardGoesOn
<1>3. /\ one \subseteq two /\ \A here \in one : Links(r, here) \subseteq two
  BY OnwardGoesOn
<1> HIDE DEF one, two
<1>4. /\ two \subseteq Reached(r) /\ \A here \in two : Links(r, here) \subseteq Reached(r)
  <2>1. /\ two \subseteq Onward(r, two) /\ \A here \in two : Links(r, here) \subseteq Onward(r, two)
    BY OnwardGoesOn
  <2> QED BY <1>1, <2>1
<1> QED BY <1>2, <1>3, <1>4

\* Where a record without a run, that is not deleted, resumes, and what leads on from there.
LEMMA ResumePages ==
  ASSUME NEW r, RecordFits(r), r.queue = <<>>
  PROVE  /\ r.content => Resume(r) \in {"draft", "ready"}
         /\ ~r.content => Resume(r) \in {"analysis", "verification"}
         /\ IsReady(r) => Resume(r) = "ready"
<1>1. Active(r) = "none"
  BY NothingRuns
<1>2. Recommended(r) # "none" => Recommended(r) = Advice(r) /\ Advice(r) \in Available(r)
  BY DEF Recommended
<1>3. Recommended(r) # "none" => Resume(r) = Destination(Recommended(r))
  BY <1>1 DEF Resume
<1>4. Recommended(r) = "none" =>
        /\ PreparationOf(r) = "ready" => Resume(r) = "ready"
        /\ PreparationOf(r) \in {"draft_in_progress", "approved"} => Resume(r) = "draft"
        /\ PreparationOf(r) \in {"needs_analysis", "ready_to_draft"} => Resume(r) = "analysis"
  BY <1>1 DEF Resume
<1>5. CASE r.content
  <2>1. CASE Recommended(r) = "none"
    <3>1. PreparationOf(r) \in {"draft_in_progress", "approved", "ready"}
      BY <1>5, StatesOfARecord DEF RecordFits
    <3> QED BY <1>4, <1>5, <2>1, <3>1 DEF IsReady
  <2>2. CASE Recommended(r) # "none"
    <3>1. Recommended(r) \in {"check", "approve", "render", "submit"}
      BY <1>2, <1>5, <2>2, AdviceIsOneOf
    <3>2. Resume(r) \in {"draft", "ready"}
      BY <1>3, <2>2, <3>1 DEF Destination
    <3>3. IsReady(r) => Recommended(r) = "submit"
      <4>1. ASSUME IsReady(r) PROVE r.stage = "rendered" /\ r.check = "passed"
        BY <4>1, ReadyRecords DEF RecordFits
      <4> QED BY <1>2, <2>2, <3>1, <4>1, Offers
    <3>4. IsReady(r) => Resume(r) = "ready"
      BY <1>3, <2>2, <3>3 DEF Destination
    <3> QED BY <1>5, <3>2, <3>4
  <2> QED BY <2>1, <2>2
<1>6. CASE ~r.content
  <2>1. ~IsReady(r)
    BY <1>6, ReadyRecords
  <2>2. CASE Recommended(r) = "none"
    <3>1. PreparationOf(r) \in {"needs_analysis", "ready_to_draft"}
      BY <1>6, StatesOfARecord
    <3> QED BY <1>4, <1>6, <2>1, <2>2, <3>1
  <2>3. CASE Recommended(r) # "none"
    <3>1. Recommended(r) \in {"analyze", "create_draft"}
      BY <1>2, <1>6, <2>3, AdviceIsOneOf
    <3>2. Resume(r) \in {"analysis", "verification"}
      BY <1>3, <2>3, <3>1 DEF Destination
    <3> QED BY <1>6, <2>1, <3>2
  <2> QED BY <2>2, <2>3
<1> QED BY <1>5, <1>6

\* The links the proof takes.
LEMMA LinksOn ==
  ASSUME NEW r, RecordFits(r), r.queue = <<>>, ~r.deleted
  PROVE  /\ "hub" \in Links(r, "draft") /\ "hub" \in Links(r, "ready")
         /\ "draft" \in Links(r, "ready")
         /\ "analysis" \in Links(r, "hub") /\ "analysis" \in Links(r, "verification")
         /\ "matching" \in Links(r, "analysis") \/ ~Classified(r)
         /\ HasDocument(r) /\ ~r.content => "verification" \in Links(r, "analysis")
         /\ r.content /\ r.pinned < Latest(r) /\ "build_from_analysis" \in Available(r)
               => /\ "verification" \in Links(r, "draft")
                  /\ "verification" \in Links(r, "ready")
<1>1. \A here : ~RunIsScreen(r, here)
  BY NothingRuns
<1>2. /\ Links(r, "hub") = HubLinks(r) /\ Links(r, "analysis") = AnalysisLinks(r)
      /\ Links(r, "verification") = VerificationLinks(r)
      /\ Links(r, "draft") = DraftLinks(r) /\ Links(r, "ready") = ReadyLinks(r)
  BY <1>1 DEF Links
<1>3. "hub" \in DraftLinks(r) /\ "hub" \in ReadyLinks(r) /\ "draft" \in ReadyLinks(r)
  BY DEF DraftLinks, ReadyLinks, DraftHeader
<1>4. "analysis" \in VerificationLinks(r)
  BY DEF VerificationLinks, Frame
<1>5. "analysis" \in HubLinks(r)
  <2>1. DoneRows(r) \in 0..5
    BY DEF DoneRows
  <2>2. 1 \in {i \in 1..5 : i <= DoneRows(r) + 1}
    BY <2>1
  <2>3. "analysis" \in RowPage(r, ProgressRows[1])
    BY DEF RowPage, ProgressRows
  <2>4. "analysis" \in ProgressLinks(r)
    BY <2>2, <2>3 DEF ProgressLinks
  <2> QED BY <2>4 DEF HubLinks
<1>6. "matching" \in AnalysisLinks(r) \/ ~Classified(r)
  BY DEF AnalysisLinks
<1>7. HasDocument(r) /\ ~r.content => "verification" \in AnalysisLinks(r)
  <2> SUFFICES ASSUME HasDocument(r), ~r.content PROVE "verification" \in AnalysisLinks(r)
    OBVIOUS
  <2>1. Latest(r) > 0
    BY LenProperties DEF HasDocument, Latest, RecordFits
  <2>2. "verification" \in DraftStep(r)
    BY <2>1 DEF DraftStep
  <2> QED BY <2>2 DEF AnalysisLinks, Frame, Rail, StageSteps
<1>8. r.content /\ r.pinned < Latest(r) /\ "build_from_analysis" \in Available(r)
        => "verification" \in DraftLinks(r) /\ "verification" \in ReadyLinks(r)
  <2> SUFFICES ASSUME r.content, r.pinned < Latest(r), "build_from_analysis" \in Available(r)
               PROVE  "verification" \in DraftLinks(r) /\ "verification" \in ReadyLinks(r)
    OBVIOUS
  <2>1. r.pinned \in Nat /\ Latest(r) \in Nat
    BY LenProperties DEF RecordFits, Latest
  <2>2. OnOlderAnalysis(r) /\ OffersRebuild(r)
    BY <2>1, StatesOfARecord DEF OnOlderAnalysis, OffersRebuild
  <2>3. Destination("build_from_analysis") = "verification"
    BY DEF Destination
  <2>4. "verification" \in RebuildLinks(r, "draft") /\ "verification" \in RebuildLinks(r, "ready")
    BY <2>2, <2>3 DEF RebuildLinks
  <2> QED BY <2>4 DEF DraftLinks, ReadyLinks
<1> QED BY <1>2, <1>3, <1>4, <1>5, <1>6, <1>7, <1>8

\* The commands of a page without a run, by what the server offers.
LEMMA CommandsOn ==
  ASSUME NEW r, RecordFits(r), r.queue = <<>>, ~r.deleted
  PROVE  /\ "analyze" \in Available(r) => "analyze" \in Commands(r, "analysis")
         /\ Classified(r) /\ "ask_gap_questions" \in Available(r)
               => "ask_gap_questions" \in Commands(r, "analysis")
         /\ Classified(r) /\ "edit_matching_configuration" \in Available(r)
               => "edit_matching_configuration" \in Commands(r, "matching")
         /\ \A action \in {"build_from_analysis", "create_draft"} \intersect Available(r) :
               action \in Commands(r, "verification")
         /\ \A action \in {"edit", "regenerate_section", "check", "confirm_and_use_fact",
                          "approve", "render"} \intersect Available(r) :
               r.content /\ action \in Commands(r, "draft")
         /\ \A action \in {"submit", "download_pdf"} \intersect Available(r) :
               IsReady(r) /\ action \in Commands(r, "ready")
<1>1. /\ Commands(r, "analysis") = AnalysisCommands(r) /\ Commands(r, "matching") = MatchingCommands(r)
      /\ Commands(r, "verification") = VerificationCommands(r)
      /\ Commands(r, "draft") = DraftCommands(r) /\ Commands(r, "ready") = ReadyCommands(r)
  BY NothingRuns DEF Commands
<1>2. /\ "analyze" \in Available(r) => "analyze" \in AnalysisCommands(r)
      /\ Classified(r) /\ "ask_gap_questions" \in Available(r)
            => "ask_gap_questions" \in AnalysisCommands(r)
  BY DEF AnalysisCommands
<1>3. Classified(r) /\ "edit_matching_configuration" \in Available(r)
        => "edit_matching_configuration" \in MatchingCommands(r)
  BY DEF MatchingCommands
<1>4. \A action \in {"build_from_analysis", "create_draft"} \intersect Available(r) :
        action \in VerificationCommands(r)
  BY DEF VerificationCommands, OffersRebuild, OffersDraft
<1>5. \A action \in {"edit", "regenerate_section", "check", "confirm_and_use_fact",
                   "approve", "render"} \intersect Available(r) :
        r.content /\ action \in DraftCommands(r)
  BY Offers, NothingRuns DEF DraftCommands
<1>6. \A action \in {"submit", "download_pdf"} \intersect Available(r) :
        IsReady(r) /\ action \in ReadyCommands(r)
  BY Offers DEF ReadyCommands
<1> QED BY <1>1, <1>2, <1>3, <1>4, <1>5, <1>6

LEMMA OffersAreReached ==
  ASSUME NEW r, RecordFits(r), r.queue = <<>>,
         NEW action \in Available(r) \ NotShown(r)
  PROVE  \E here \in Reached(r) : action \in Commands(r, here)
<1>1. ~r.deleted
  BY DEF Available
<1>2. /\ r.content => Resume(r) \in {"draft", "ready"}
      /\ ~r.content => Resume(r) \in {"analysis", "verification"}
      /\ IsReady(r) => Resume(r) = "ready"
  BY ResumePages
<1>3. "analysis" \in Reached(r) /\ (Classified(r) => "matching" \in Reached(r))
  <2>1. "analysis" \in Reached(r)
    BY <1>1, <1>2, LinksOn, ThreeLinks
  <2>2. ASSUME Classified(r)
        PROVE  "matching" \in Reached(r)
    <3>1. CASE Resume(r) \in {"draft", "ready"}
      <4>1. "hub" \in Links(r, Resume(r)) /\ "analysis" \in Links(r, "hub")
        BY <1>1, <3>1, LinksOn
      <4> QED BY <1>1, <2>2, <4>1, LinksOn, ThreeLinks
    <3>2. CASE Resume(r) = "verification"
      BY <1>1, <2>2, <3>2, LinksOn, ThreeLinks
    <3>3. CASE Resume(r) = "analysis"
      BY <1>1, <2>2, <3>3, LinksOn, ThreeLinks
    <3> QED BY <1>2, <3>1, <3>2, <3>3
  <2> QED BY <2>1, <2>2
<1>4. action \in {"build_from_analysis", "create_draft"} => "verification" \in Reached(r)
  <2>1. CASE ~r.content
    BY <1>1, <1>2, <2>1, LinksOn, ThreeLinks, Offers
  <2>2. CASE r.content
    BY <1>1, <1>2, <2>2, LinksOn, ThreeLinks, Offers
  <2> QED BY <2>1, <2>2
<1>5. r.content => "draft" \in Reached(r)
  BY <1>1, <1>2, LinksOn, ThreeLinks
<1>6. IsReady(r) => "ready" \in Reached(r)
  BY <1>2, ThreeLinks
<1>7. action \in {"analyze", "edit_matching_configuration", "ask_gap_questions",
                 "build_from_analysis", "confirm_and_use_fact", "create_draft", "edit",
                 "regenerate_section", "check", "approve", "render", "submit", "download_pdf"}
  BY DEF Available, Allowed, Resolutions
<1>8. action \in {"edit_matching_configuration", "ask_gap_questions"} => Classified(r)
  BY DEF NotShown
<1> QED BY <1>1, <1>3, <1>4, <1>5, <1>6, <1>7, <1>8, CommandsOn

-----------------------------------------------------------------------------
(* What is done to a record *)

LEMMA InitialRecordFits ==
  ASSUME NEW text \in Texts
  PROVE  RecordFits(NewRecord(text))
<1> DEFINE r == NewRecord(text)
<1>1. /\ DOMAIN r = Fields /\ r.posting = text /\ r.analyses = <<>> /\ r.pinned = 0
      /\ r.fact = "canonical" /\ r.check = "none" /\ r.stage = "none" /\ ~r.content
  BY DEF NewRecord, Fields
<1>2. Len(<<>>) = 0 /\ <<>> \in Seq(Texts) /\ QueueFits(<<>>, 0)
  BY EmptySeq DEF QueueFits
<1>3. r.queue = <<>>
  BY DEF NewRecord
<1> HIDE DEF r
<1> QED BY <1>1, <1>2, <1>3 DEF RecordFits, Facts, Checks, r

LEMMA SequenceOfItsItems ==
  ASSUME NEW S, NEW s \in Seq(S)
  PROVE  s \in Seq({s[i] : i \in DOMAIN s})
<1>1. Len(s) \in Nat /\ DOMAIN s = 1..Len(s) /\ s \in [1..Len(s) -> S]
  BY LenProperties
<1>2. s \in [1..Len(s) -> {s[i] : i \in DOMAIN s}]
  BY <1>1
<1> QED BY <1>1, <1>2, SeqDef

\* What a queue fits: a document that is pinned again, one run more or one less.
LEMMA QueueKeepsFitting ==
  ASSUME NEW queue, NEW pinned, QueueFits(queue, pinned)
  PROVE  /\ \A other : (other = 0 => pinned = 0) => QueueFits(queue, other)
         /\ \A run : (run.type = "create_draft" => pinned # 0) => QueueFits(Append(queue, run), pinned)
         /\ queue # <<>> => /\ QueueFits(Tail(queue), pinned)
                            /\ Head(queue).type = "create_draft" => pinned # 0
<1> DEFINE S == {queue[i] : i \in DOMAIN queue}
<1>1. \A other : (other = 0 => pinned = 0) => QueueFits(queue, other)
  BY DEF QueueFits
<1>2. ASSUME NEW run, run.type = "create_draft" => pinned # 0
      PROVE  QueueFits(Append(queue, run), pinned)
  <2> DEFINE more == Append(queue, run)
  <2>1. queue \in Seq(S \union {run})
    BY DEF QueueFits
  <2>2. /\ more \in Seq(S \union {run}) /\ Len(more) = Len(queue) + 1 /\ Len(queue) \in Nat
        /\ \A i \in 1..Len(queue) : more[i] = queue[i]
        /\ more[Len(queue) + 1] = run
    BY <2>1, AppendProperties, LenProperties
  <2>3. DOMAIN more = 1..Len(more) /\ DOMAIN queue = 1..Len(queue)
    BY <2>1, <2>2, LenProperties
  <2> HIDE DEF more
  <2>4. more \in Seq({more[i] : i \in DOMAIN more})
    BY <2>2, SequenceOfItsItems
  <2>5. \A i \in DOMAIN more : more[i].type = "create_draft" => pinned # 0
    BY <1>2, <2>2, <2>3 DEF QueueFits
  <2> QED BY <2>4, <2>5 DEF QueueFits, more
<1>3. ASSUME queue # <<>>
      PROVE  /\ QueueFits(Tail(queue), pinned)
             /\ Head(queue).type = "create_draft" => pinned # 0
  <2> DEFINE less == Tail(queue)
  <2>1. queue \in Seq(S)
    BY DEF QueueFits
  <2>2. /\ less \in Seq(S) /\ Len(less) = Len(queue) - 1 /\ Len(queue) \in Nat
        /\ \A i \in 1..Len(less) : less[i] = queue[i + 1]
        /\ Head(queue) = queue[1] /\ Len(queue) # 0
    BY <1>3, <2>1, HeadTailProperties, LenProperties, EmptySeq
  <2>3. DOMAIN less = 1..Len(less) /\ DOMAIN queue = 1..Len(queue)
    BY <2>1, <2>2, LenProperties
  <2> HIDE DEF less
  <2>4. less \in Seq({less[i] : i \in DOMAIN less})
    BY <2>2, SequenceOfItsItems
  <2>5. \A i \in DOMAIN less : less[i].type = "create_draft" => pinned # 0
    BY <2>2, <2>3 DEF QueueFits
  <2> QED BY <2>2, <2>3, <2>4, <2>5 DEF QueueFits, less
<1> QED BY <1>1, <1>2, <1>3

\* A write that leaves analyses, stamps and content alone.
LEMMA OtherFieldsFit ==
  ASSUME NEW r, RecordFits(r), NEW value
  PROVE  /\ QueueFits(value, r.pinned) => RecordFits([r EXCEPT !.queue = value])
         /\ RecordFits([r EXCEPT !.hash = value])
         /\ RecordFits([r EXCEPT !.submitted = value]) /\ RecordFits([r EXCEPT !.deleted = value])
         /\ value \in Facts => RecordFits([r EXCEPT !.fact = value])
         /\ value \in Texts => RecordFits([r EXCEPT !.posting = value])
<1>1. QueueFits(value, r.pinned) => RecordFits([r EXCEPT !.queue = value])
  BY DEF RecordFits, Fields
<1>2. RecordFits([r EXCEPT !.hash = value])
  BY DEF RecordFits, Fields
<1>3. RecordFits([r EXCEPT !.submitted = value])
  BY DEF RecordFits, Fields
<1>4. RecordFits([r EXCEPT !.deleted = value])
  BY DEF RecordFits, Fields
<1>5. value \in Facts => RecordFits([r EXCEPT !.fact = value])
  BY DEF RecordFits, Fields
<1>6. value \in Texts => RecordFits([r EXCEPT !.posting = value])
  BY DEF RecordFits, Fields
<1> QED BY <1>1, <1>2, <1>3, <1>4, <1>5, <1>6

LEMMA AnalysisFits ==
  ASSUME NEW r, RecordFits(r)
  PROVE  /\ RecordFits([r EXCEPT !.analyses = Append(@, r.posting)])
         /\ RecordFits([r EXCEPT !.analyses = Append(@, r.posting),
                               !.pinned = IF @ = 0 THEN Latest(r) + 1 ELSE @])
<1> DEFINE more == Append(r.analyses, r.posting)
           p == [r EXCEPT !.analyses = more]
           q == [r EXCEPT !.analyses = more, !.pinned = IF @ = 0 THEN Latest(r) + 1 ELSE @]
<1>1. more \in Seq(Texts) /\ Len(more) = Latest(r) + 1 /\ Latest(r) \in Nat
  BY AppendProperties, LenProperties DEF RecordFits, Latest
<1> HIDE DEF more
<1>2. RecordFits(p)
  BY <1>1 DEF RecordFits, Fields, Latest
<1>3. RecordFits(q)
  <2>1. q.pinned # 0 /\ q.queue = r.queue
    BY <1>1 DEF RecordFits, Fields
  <2>2. QueueFits(q.queue, q.pinned)
    BY <2>1, QueueKeepsFitting DEF RecordFits
  <2> QED BY <1>1, <2>2 DEF RecordFits, Fields, Latest
<1> QED BY <1>2, <1>3 DEF more

LEMMA StampsFit ==
  ASSUME NEW r, RecordFits(r)
  PROVE  /\ r.stage = "none" => RecordFits([r EXCEPT !.check = "failed"])
         /\ RecordFits([r EXCEPT !.check = "passed"])
         /\ r.content => RecordFits([r EXCEPT !.check = "passed", !.stage = "approved"])
         /\ r.stage = "approved" => RecordFits([r EXCEPT !.stage = "rendered"])
<1>1. r.stage = "none" => RecordFits([r EXCEPT !.check = "failed"])
  BY DEF RecordFits, Fields, Checks
<1>2. RecordFits([r EXCEPT !.check = "passed"])
  BY DEF RecordFits, Fields, Checks
<1>3. r.content => RecordFits([r EXCEPT !.check = "passed", !.stage = "approved"])
  BY DEF RecordFits, Fields, Checks
<1>4. r.stage = "approved" => RecordFits([r EXCEPT !.stage = "rendered"])
  BY DEF RecordFits, Fields, Checks
<1> QED BY <1>1, <1>2, <1>3, <1>4

LEMMA MovedFits ==
  ASSUME NEW r, RecordFits(r)
  PROVE  /\ RecordFits(BasisMoved(r)) /\ BasisMoved(r).pinned = r.pinned
         /\ RecordFits(Written(r)) /\ Written(r).pinned = r.pinned
<1> DEFINE p == BasisMoved(r)
<1>1. RecordFits(p) /\ p.pinned = r.pinned
  BY DEF BasisMoved, RecordFits, Fields, Checks
<1>2. Written(r) = [p EXCEPT !.hash = @ + 1]
  BY DEF Written
<1> HIDE DEF p
<1>3. RecordFits([p EXCEPT !.hash = p.hash + 1]) /\ [p EXCEPT !.hash = p.hash + 1].pinned = p.pinned
  BY <1>1, OtherFieldsFit DEF RecordFits, Fields
<1> QED BY <1>1, <1>2, <1>3 DEF p

LEMMA RebuiltFits ==
  ASSUME NEW r, RecordFits(r)
  PROVE  RecordFits(Rebuilt(r))
<1> DEFINE p == Rebuilt(r)
<1>1. Latest(r) \in Nat /\ (Latest(r) = 0 => r.pinned = 0)
  BY LenProperties DEF RecordFits, Latest
<1>2. QueueFits(r.queue, Latest(r))
  BY <1>1, QueueKeepsFitting DEF RecordFits
<1> QED BY <1>1, <1>2 DEF Rebuilt, RecordFits, Fields, Checks, Facts, Latest

LEMMA QueuedFits ==
  ASSUME NEW r, RecordFits(r), NEW type, type = "create_draft" => HasDocument(r)
  PROVE  RecordFits(Queued(r, type))
<1> DEFINE run == [type |-> type, hash |-> r.hash, posting |-> r.posting]
<1>1. run.type = type
  OBVIOUS
<1> HIDE DEF run
<1>2. QueueFits(Append(r.queue, run), r.pinned)
  BY <1>1, QueueKeepsFitting DEF RecordFits, HasDocument
<1> QED BY <1>2, OtherFieldsFit DEF Queued, run

\* Every outcome of an accepted command fits.
LEMMA OutcomesFit ==
  ASSUME NEW r, RecordFits(r), NEW action \in Available(r), NEW next \in Outcomes(r, action)
  PROVE  RecordFits(next)
<1>1. action \in Allowed(r)
  BY DEF Available
<1>2. CASE action \in {"analyze", "ask_gap_questions", "create_draft", "regenerate_section", "render"}
  BY <1>2, QueuedFits, Offers DEF Outcomes
<1>3. CASE action = "edit_matching_configuration"
  BY <1>3, AnalysisFits DEF Outcomes
<1>4. CASE action = "build_from_analysis"
  BY <1>4, RebuiltFits DEF Outcomes
<1>5. CASE action \in {"edit", "confirm_and_use_fact"}
  <2>1. next = [Written(r) EXCEPT !.fact = "canonical"]
    BY <1>5 DEF Outcomes
  <2> QED BY <2>1, MovedFits, OtherFieldsFit DEF Facts
<1>6. CASE action = "check"
  <2>1. r.stage = "none"
    BY <1>6, Offers DEF RecordFits
  <2> QED BY <1>6, <2>1, StampsFit DEF Outcomes
<1>7. CASE action = "approve"
  <2>1. r.stage = "none" /\ r.content
    BY <1>7, Offers
  <2> QED BY <1>7, <2>1, StampsFit DEF Outcomes
<1>8. CASE action = "submit"
  <2>1. next = [r EXCEPT !.submitted = @ \union {r.hash}]
    BY <1>8 DEF Outcomes
  <2> QED BY <2>1, OtherFieldsFit
<1>9. CASE action = "download_pdf"
  BY <1>9 DEF Outcomes
<1>10. action \in {"analyze", "edit_matching_configuration", "ask_gap_questions",
                 "build_from_analysis", "confirm_and_use_fact", "create_draft", "edit",
                 "regenerate_section", "check", "approve", "render", "submit", "download_pdf"}
  BY <1>1 DEF Allowed, Resolutions
<1> QED BY <1>2, <1>3, <1>4, <1>5, <1>6, <1>7, <1>8, <1>9, <1>10

LEMMA ResultsFit ==
  ASSUME NEW r, RecordFits(r), r.queue # <<>>
  PROVE  RecordFits(Result(r, Head(r.queue)))
<1> DEFINE operation == Head(r.queue)
           rest == [r EXCEPT !.queue = Tail(@)]
           fresh == operation.hash = r.hash
           analysed == [rest EXCEPT !.analyses = Append(@, r.posting),
                                    !.pinned = IF @ = 0 THEN Latest(r) + 1 ELSE @]
           drafted == [Written(rest) EXCEPT !.content = TRUE]
           regenerated == [Written(rest) EXCEPT !.fact = "canonical"]
           rendered == [rest EXCEPT !.stage = "rendered"]
<1>1. /\ RecordFits(rest) /\ Latest(rest) = Latest(r) /\ rest.posting = r.posting
      /\ rest.stage = r.stage /\ rest.pinned = r.pinned
  BY QueueKeepsFitting, OtherFieldsFit DEF RecordFits, Fields, Latest
<1>2. operation.type = "create_draft" => r.pinned # 0
  BY QueueKeepsFitting DEF RecordFits
<1>7. \/ Result(r, operation) \in {rest, analysed, regenerated}
      \/ Result(r, operation) = drafted /\ operation.type = "create_draft"
      \/ Result(r, operation) = rendered /\ r.stage = "approved"
  BY DEF Result
<1> HIDE DEF rest
<1>3. RecordFits(analysed)
  BY <1>1, AnalysisFits
<1>4. RecordFits(regenerated)
  BY <1>1, MovedFits, OtherFieldsFit DEF Facts
<1>5. r.pinned # 0 => RecordFits(drafted)
  <2>1. RecordFits(Written(rest)) /\ Written(rest).pinned = r.pinned
    BY <1>1, MovedFits
  <2> QED BY <2>1 DEF RecordFits, Fields
<1>6. r.stage = "approved" => RecordFits(rendered)
  BY <1>1, StampsFit
<1> QED BY <1>1, <1>2, <1>3, <1>4, <1>5, <1>6, <1>7

-----------------------------------------------------------------------------
(* The steps *)

LEMMA PressFits ==
  ASSUME WorkflowInvariant, NEW action, Press(action)
  PROVE  WorkflowInvariant'
<1>1. CASE Accepts(action)
  <2>1. PICK r \in Outcomes(record, action) : record' = r /\ seen' = r
    BY <1>1 DEF Press
  <2>2. RecordFits(r)
    BY <1>1, OutcomesFit DEF Accepts, WorkflowInvariant
  <2> QED BY <2>1, <2>2 DEF WorkflowInvariant
<1>2. CASE ~Accepts(action)
  BY <1>2 DEF Press, WorkflowInvariant
<1> QED BY <1>1, <1>2

LEMMA RunEndsFits ==
  ASSUME WorkflowInvariant, RunEnds
  PROVE  WorkflowInvariant'
<1>1. RecordFits(record) /\ record.queue # <<>> /\ seen' = seen
  BY DEF WorkflowInvariant, RunEnds
<1>2. QueueFits(Tail(record.queue), record.pinned)
  BY <1>1, QueueKeepsFitting DEF RecordFits
<1>3. RecordFits([record EXCEPT !.queue = Tail(@)])
  BY <1>1, <1>2, OtherFieldsFit
<1> QED BY <1>1, <1>3, ResultsFit DEF RunEnds, WorkflowInvariant

LEMMA SurroundingsFit ==
  ASSUME WorkflowInvariant, Surroundings
  PROVE  WorkflowInvariant'
<1>1. RecordFits(record) /\ seen' = seen
  BY DEF WorkflowInvariant, Surroundings, PostingEdited, Corrected, Edited, RebuiltElsewhere,
         Deleted, FactDeleted, Elsewhere
<1>2. ASSUME PostingEdited PROVE RecordFits(record')
  <2>1. PICK text \in Texts : record' = [record EXCEPT !.posting = text]
    BY <1>2 DEF PostingEdited, Elsewhere
  <2> QED BY <1>1, <2>1, OtherFieldsFit
<1>3. ASSUME Corrected PROVE RecordFits(record')
  BY <1>1, <1>3, AnalysisFits DEF Corrected, Elsewhere
<1>4. ASSUME Edited PROVE RecordFits(record')
  <2>1. PICK fact \in {"canonical", "pending"} : record' = [Written(record) EXCEPT !.fact = fact]
    BY <1>4 DEF Edited, Elsewhere
  <2> QED BY <1>1, <2>1, MovedFits, OtherFieldsFit DEF Facts
<1>5. ASSUME RebuiltElsewhere PROVE RecordFits(record')
  BY <1>1, <1>5, RebuiltFits DEF RebuiltElsewhere, Elsewhere
<1>6. ASSUME Deleted PROVE RecordFits(record')
  BY <1>1, <1>6, OtherFieldsFit DEF Deleted, Elsewhere
<1>7. ASSUME FactDeleted PROVE RecordFits(record')
  BY <1>1, <1>7, MovedFits, OtherFieldsFit DEF FactDeleted, Elsewhere, Facts
<1>8. RecordFits(record')
  BY <1>2, <1>3, <1>4, <1>5, <1>6, <1>7 DEF Surroundings
<1> QED BY <1>1, <1>8 DEF WorkflowInvariant

\* Every step keeps the server's record, and the one the pages were drawn from, fitting.
LEMMA NextFits ==
  ASSUME WorkflowInvariant, [Next]_vars
  PROVE  WorkflowInvariant'
<1>1. CASE Read \/ Resumes \/ Searches \/ EndsSearch \/ UNCHANGED vars
  <2>1. record' = record /\ seen' \in {seen, record}
    BY <1>1 DEF Read, Resumes, Searches, EndsSearch, vars
  <2> QED BY <2>1 DEF WorkflowInvariant
<1>2. CASE FollowsLead
  <2>1. CASE LeadCommand(seen, page) # "none"
    <3>1. Press(LeadCommand(seen, page))
      BY <1>2, <2>1 DEF FollowsLead
    <3> QED BY <3>1, PressFits
  <2>2. CASE LeadCommand(seen, page) = "none"
    <3>1. record' = record /\ seen' = seen
      BY <1>2, <2>2 DEF FollowsLead, Goes
    <3> QED BY <3>1 DEF WorkflowInvariant
  <2> QED BY <2>1, <2>2
<1>3. CASE Wanders
  <2>1. CASE UNCHANGED <<record, seen>>
    BY <2>1 DEF WorkflowInvariant
  <2>2. CASE ~UNCHANGED <<record, seen>>
    <3>1. PICK action \in Commands(seen, page) :
            Accepts(action) /\ \E r \in Outcomes(record, action) : record' = r /\ seen' = r
      BY <1>3, <2>2 DEF Wanders
    <3>2. PICK r \in Outcomes(record, action) : record' = r /\ seen' = r
      BY <3>1
    <3>3. RecordFits(r)
      BY <3>1, OutcomesFit DEF Accepts, WorkflowInvariant
    <3> QED BY <3>2, <3>3 DEF WorkflowInvariant
  <2> QED BY <2>1, <2>2
<1>4. CASE RunEnds
  BY <1>4, RunEndsFits
<1>5. CASE Surroundings
  BY <1>5, SurroundingsFit
<1> QED BY <1>1, <1>2, <1>3, <1>4, <1>5 DEF Next

\* What the server holds, and what the pages were drawn from, always fits: a content has a
\* document and a document an analysis, a stamp has a checked content, and a draft is only queued
\* for a document (state.py derives what it offers from it).
THEOREM RecordsFit == Spec => []WorkflowInvariant
<1>1. Init => WorkflowInvariant
  BY InitialRecordFits DEF Init, WorkflowInvariant
<1>2. WorkflowInvariant /\ [Next]_vars => WorkflowInvariant'
  BY NextFits
<1> QED BY <1>1, <1>2, PTL DEF Spec

\* Whatever the server advises has its command on the page the record resumes at, for every
\* record: state.py's derive_actions and the browser's actionDestinations.ts agree.
THEOREM AdviceIsFound == Spec => []AdviceIsWhereItResumes
<1>1. WorkflowInvariant => AdviceIsWhereItResumes
  BY AdviceHasItsCommand DEF WorkflowInvariant, AdviceIsWhereItResumes
<1> QED BY <1>1, RecordsFit, PTL

\* Nothing the server offers is further than three links from where the reader resumes
\* (actionDestinations.ts, useWorkflowSteps, PreparationAlerts, preparationProgress).
THEOREM OffersAreFound == Spec => []OffersAreInReach
<1>1. WorkflowInvariant => OffersAreInReach
  BY OffersAreReached DEF WorkflowInvariant, OffersAreInReach
<1> QED BY <1>1, RecordsFit, PTL

-----------------------------------------------------------------------------
(* The search dialog *)

LEMMA RowsAreASequence ==
  ASSUME NEW p \in Queries, NEW q \in Queries
  PROVE  LET rows == Listed[p] \o Found(q)
         IN  /\ Len(rows) \in Nat /\ DOMAIN rows = 1..Len(rows)
             /\ Len(rows) = 0 => rows = <<>>
             /\ \A i \in 1..Len(rows) : rows[i] \in ToSet(rows)
<1> DEFINE S == ToSet(Listed[p]) \union ToSet(Matched[q])
           rows == Listed[p] \o Found(q)
<1>1. Listed[p] \in Seq(ToSet(Listed[p])) /\ Matched[q] \in Seq(ToSet(Matched[q]))
  BY SearchConstants
<1>2. Listed[p] \in Seq(S) /\ Matched[q] \in Seq(S)
  BY <1>1
<1> HIDE DEF S
<1>3. Found(q) \in Seq(S)
  BY <1>2, EmptySeq DEF Found
<1>4. rows \in Seq(S)
  BY <1>2, <1>3, ConcatProperties
<1> HIDE DEF rows
<1>5. Len(rows) \in Nat /\ DOMAIN rows = 1..Len(rows) /\ (Len(rows) = 0 => rows = <<>>)
  BY <1>4, LenProperties, EmptySeq
<1> QED BY <1>5 DEF ToSet, rows

\* Enter on rows that are not stale takes one of the answers to the text.
LEMMA EnterTakesAnAnswer ==
  ASSUME DialogFits, Enter
  PROVE  EnterOpensAnAnswer'
<1> DEFINE q == Trimmed[dialog.text]
           rows == Listed[q] \o Found(q)
<1>1. dialog.answer = q /\ dialog.deferred = q /\ q \in Queries
  BY DEF Enter, IsStale, Queries, DialogFits
<1>2. Items = rows
  BY <1>1 DEF Items
<1>3. /\ Len(rows) \in Nat /\ DOMAIN rows = 1..Len(rows)
      /\ Len(rows) = 0 => rows = <<>>
      /\ \A i \in 1..Len(rows) : rows[i] \in ToSet(rows)
  BY <1>1, RowsAreASequence
<1>4. opened' = [by |-> "enter", item |-> Items[ActiveRow], text |-> dialog.text] /\ Items # <<>>
  BY DEF Enter, SelectItem
<1> HIDE DEF rows, q
<1>5. ActiveRow \in 1..Len(rows)
  BY <1>2, <1>3, <1>4 DEF ActiveRow, DialogFits
<1>6. opened'.item \in ToSet(rows) /\ opened'.text = dialog.text
  BY <1>2, <1>3, <1>4, <1>5
<1> QED BY <1>6 DEF EnterOpensAnAnswer, rows, q, Found

LEMMA HighlightStaysARow ==
  ASSUME DialogFits, MoveTo \/ (\E row \in DOMAIN Items : Hover(row))
  PROVE  DialogFits'
<1>1. PICK row : dialog' = [dialog EXCEPT !.active = row]
               /\ \/ /\ row \in {IF ActiveRow = Len(Items) THEN 1 ELSE ActiveRow + 1,
                                IF ActiveRow <= 1 THEN Len(Items) ELSE ActiveRow - 1}
                     /\ Items # <<>>
                  \/ row \in DOMAIN Items
               /\ ShowRows
  BY DEF MoveTo, Hover
<1>2. /\ Len(Items) \in Nat /\ DOMAIN Items = 1..Len(Items)
      /\ Len(Items) = 0 => Items = <<>>
  BY <1>1, RowsAreASequence DEF Items, ShowRows, DialogFits
<1>3. row \in Nat \ {0}
  BY <1>1, <1>2 DEF ActiveRow, DialogFits
<1> QED BY <1>1, <1>3 DEF DialogFits

LEMMA SearchKeepsItsInvariant ==
  ASSUME SearchInvariant, [Next]_vars
  PROVE  SearchInvariant'
<1>1. DialogFits
  BY DEF SearchInvariant
<1>2. Closed.text \in Typed /\ Closed.deferred \in Queries /\ DOMAIN Closed = DOMAIN dialog
      /\ Closed.active = 1
  <2>1. "" \in Queries
    BY SearchConstants DEF Queries
  <2>2. /\ DOMAIN Closed = {"open", "text", "deferred", "answer", "active"}
        /\ Closed.text = "" /\ Closed.deferred = "" /\ Closed.active = 1
    BY DEF Closed
  <2>3. "" \in Typed
    BY SearchConstants
  <2> QED BY <1>1, <2>1, <2>2, <2>3 DEF DialogFits
<1>3. ASSUME dialog' = dialog, opened' \in {opened, NotOpened} PROVE SearchInvariant'
  <2>1. DialogFits'
    BY <1>1, <1>3 DEF DialogFits
  <2>2. CASE opened' = opened
    BY <2>1, <2>2 DEF SearchInvariant, EnterOpensAnAnswer
  <2>3. CASE opened' = NotOpened
    <3>1. opened'.by = "none"
      BY <2>3 DEF NotOpened
    <3> QED BY <2>1, <3>1 DEF SearchInvariant, EnterOpensAnAnswer
  <2> QED BY <1>3, <2>2, <2>3
<1>4. ASSUME DialogFits', opened' = NotOpened PROVE SearchInvariant'
  BY <1>4 DEF SearchInvariant, EnterOpensAnAnswer, NotOpened
<1>5. CASE OpenDialog \/ CloseDialog
  <2>1. \/ dialog' = [Closed EXCEPT !.open = TRUE]
        \/ dialog' = Closed
    BY <1>5 DEF OpenDialog, CloseDialog
  <2>2. DialogFits'
    BY <1>1, <1>2, <2>1 DEF DialogFits
  <2> QED BY <1>4, <1>5, <2>2 DEF OpenDialog, CloseDialog
<1>6. ASSUME NEW text \in Typed, UpdateSearch(text) PROVE SearchInvariant'
  <2>1. DialogFits'
    BY <1>1, <1>6 DEF UpdateSearch, DialogFits
  <2> QED BY <1>4, <1>6, <2>1 DEF UpdateSearch
<1>7. CASE Defer
  <2>1. DialogFits'
    BY <1>1, <1>7 DEF Defer, DialogFits, Queries
  <2> QED BY <1>4, <1>7, <2>1 DEF Defer
<1>8. CASE Retry \/ (\E answer \in Queries \union {"failed"} : Answer(answer))
  <2>1. DialogFits'
    BY <1>1, <1>8 DEF Retry, Answer, DialogFits
  <2> QED BY <1>4, <1>8, <2>1 DEF Retry, Answer
<1>9. CASE MoveTo \/ (\E row \in DOMAIN Items : Hover(row))
  <2>1. DialogFits'
    BY <1>1, <1>9, HighlightStaysARow
  <2> QED BY <1>4, <1>9, <2>1 DEF MoveTo, Hover
<1>10. CASE Enter
  <2>1. DialogFits'
    BY <1>1, <1>2, <1>10 DEF Enter, SelectItem, DialogFits
  <2> QED BY <1>1, <1>10, <2>1, EnterTakesAnAnswer DEF SearchInvariant
<1>11. CASE \E row \in DOMAIN Items : Click(row)
  <2>1. DialogFits' /\ opened'.by = "click"
    BY <1>1, <1>2, <1>11 DEF Click, SelectItem, DialogFits
  <2> QED BY <2>1 DEF SearchInvariant, EnterOpensAnAnswer
<1>12. CASE Searches
  BY <1>5, <1>6, <1>7, <1>8, <1>9, <1>10, <1>11, <1>12 DEF Searches
<1>13. CASE EndsSearch
  BY <1>5, <1>13 DEF EndsSearch
<1>14. CASE UNCHANGED vars
  BY <1>3, <1>14 DEF vars
<1>15. CASE Read \/ Resumes \/ RunEnds \/ Wanders
  BY <1>3, <1>15 DEF Read, Resumes, RunEnds, Wanders
<1>16. CASE FollowsLead
  <2>1. dialog' = dialog /\ opened' = NotOpened
    BY <1>16 DEF FollowsLead, Press, Goes
  <2> QED BY <1>3, <2>1
<1>17. CASE Surroundings
  BY <1>3, <1>17 DEF Surroundings, PostingEdited, Corrected, Edited, RebuiltElsewhere, Deleted,
     FactDeleted, Elsewhere
<1> QED BY <1>12, <1>13, <1>14, <1>15, <1>16, <1>17 DEF Next

\* What Enter opens is an answer to the text in the field, for any texts, lists and orders of
\* answers: never a row left from the text before (GlobalSearchDialog, useApplicationSearch).
THEOREM EnterOpensAnswers == Spec => []EnterOpensAnAnswer
<1>1. Init => SearchInvariant
  <2>1. "" \in Queries
    BY SearchConstants DEF Queries
  <2>2. /\ DOMAIN Closed = {"open", "text", "deferred", "answer", "active"}
        /\ Closed.text = "" /\ Closed.deferred = "" /\ Closed.active = 1
    BY DEF Closed
  <2>3. ASSUME dialog = Closed PROVE DialogFits
    <3>1. "" \in Typed
      BY SearchConstants
    <3>2. DOMAIN dialog = {"open", "text", "deferred", "answer", "active"}
      BY <2>2, <2>3
    <3>3. dialog.text \in Typed /\ dialog.deferred \in Queries
      BY <2>1, <2>2, <2>3, <3>1
    <3>4. dialog.active = 1
      BY <2>2, <2>3
    <3> QED BY <3>2, <3>3, <3>4 DEF DialogFits
  <2>4. ASSUME opened = NotOpened PROVE EnterOpensAnAnswer
    BY <2>4 DEF EnterOpensAnAnswer, NotOpened
  <2> QED BY <2>3, <2>4 DEF Init, SearchInvariant
<1>2. SearchInvariant /\ [Next]_vars => SearchInvariant'
  BY SearchKeepsItsInvariant
<1>3. SearchInvariant => EnterOpensAnAnswer
  BY DEF SearchInvariant
<1> QED BY <1>1, <1>2, <1>3, PTL DEF Spec
=============================================================================
