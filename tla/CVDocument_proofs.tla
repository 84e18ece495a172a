-------------------------- MODULE CVDocument_proofs --------------------------
(***************************************************************************)
(* The safety of CVDocument for every set of requests, attempts, contents, *)
(* analyses, templates and facts, and without a bound on the changes.      *)
(*                                                                         *)
(* What a command writes is true of the document because it was true of    *)
(* the document it read, and the hash says that is the same document.  So  *)
(* the inductive invariant follows two things over time: what the files at *)
(* each path show, from the attempt that wrote them, and what each request *)
(* knows of the hash and the basis in its hands.                           *)
(*                                                                         *)
(* At the end, the screen that edits the document (DraftScreen), for any   *)
(* texts, templates, number of Operations and budgets: which run the       *)
(* comparison of a regeneration is of, and what a link leaves unsaved.     *)
(***************************************************************************)
EXTENDS CVDocument, DraftPromises, SequenceTheorems, TLAPS

\* Files are what their attempt drew, until they are deleted; nothing releases
\* the path of an attempt that is not over.
FilesFollowAttempts ==
  \A p \in Attempts :
    /\ attempt[p].stage \in {"unused", "queued"} => files[p] = Null
    /\ attempt[p].stage = "written" => files[p] = Draw(attempt[p].hash)
    /\ attempt[p].stage = "over" => files[p] \in {Null, Draw(attempt[p].hash)}
    /\ attempt[p].stage # "over" => p \notin released

\* The path and the render stamp of a document, as any request may hold them,
\* belong together: the attempt that wrote the path drew what the stamp names.
Drawn(rendered) == [content |-> rendered.basis.content, template |-> rendered.template]

PathIsRendered(d) ==
  /\ d.rendered # Null => d.path # Null
  /\ d.path # Null =>
       /\ d.rendered # Null
       /\ attempt[d.path].stage = "over"
       /\ Draw(attempt[d.path].hash) = Drawn(d.rendered)

\* The document's own files are there, and nobody is about to delete them.
OwnFilesAreKept ==
  /\ PathIsRendered(doc)
  /\ doc.path # Null =>
       doc.path \notin released /\ files[doc.path] = Draw(attempt[doc.path].hash)

\* A request's basis is one of the content whose hash it names.
Agrees(state) ==
  /\ state.hash.content # Null
  /\ state.basis.content = state.hash.content
  /\ state.basis.analysis = state.hash.analysis

\* A basis that was looked at names its facts canonical, and since a fact is
\* confirmed, then deleted, and never comes back, none of them is pending after.
RestsOnCanonicalFacts(basis) == \A f \in Facts : basis.facts[f] \in {"canonical", "uncited"}
IsPast(basis, r) == \A f \in Facts : basis.facts[f] = "canonical" => r[f] # "pending"

\* What a request with the document in hand knows of the facts: an approval it saw
\* was given before it began, and a fact it began without is deleted still.
BeganOver(state) ==
  /\ state.seen.approved # Null => IsPast(state.seen.approved, state.began)
  /\ \A f \in Facts : state.began[f] = "deleted" => records[f] = "deleted"

\* Every fact a Submission will cite was canonical when its request began.
WereUsable(state) == \A f \in Cites[state.hash.content] : state.began[f] = "canonical"

RequestKnows(state) ==
  /\ state.stage = "read" => PathIsRendered(state.seen) /\ BeganOver(state)
  /\ state.stage \in {"check", "approve", "submit", "copied", "recorded"} => Agrees(state)
  /\ state.stage = "approve" =>
       RestsOnCanonicalFacts(state.basis) /\ IsPast(state.basis, records)
  /\ state.stage \in {"submit", "copied", "recorded"} => WereUsable(state)
  /\ state.stage \in {"submit", "copied"} =>
       attempt[state.path].stage = "over" /\ Draw(attempt[state.path].hash) = Draw(state.hash)
  /\ state.stage \in {"copied", "recorded"} => state.copy = Draw(state.hash)

RequestsKnow == \A c \in Clients : RequestKnows(client[c])

ApprovalRestsOnCanonicalFacts ==
  doc.approved # Null => RestsOnCanonicalFacts(doc.approved) /\ IsPast(doc.approved, records)

IInv ==
  /\ TypeOK
  /\ FilesFollowAttempts
  /\ OwnFilesAreKept
  /\ RequestsKnow
  /\ ApprovalRestsOnCanonicalFacts
  /\ EmptyHasNoStamps

-----------------------------------------------------------------------------
(* Types *)

LEMMA HashType ==
  ASSUME NEW d \in Documents
  PROVE  Hash(d) \in Hashes
BY DEF Documents, Hash, Hashes

LEMMA BasisType ==
  ASSUME NEW d \in Documents, d.content # Null, NEW r \in Knowledge
  PROVE  Basis(d, r) \in Bases
<1>1. FactsHash(d.content, r) \in [Facts -> FactRecords \union {"uncited"}]
  BY DEF FactsHash, Knowledge
<1>2. d.analysis \in Analyses /\ d.content \in Contents
  BY DEF Documents
<1> QED  BY <1>1, <1>2 DEF Basis, Bases

LEMMA DocumentDraws ==
  ASSUME NEW d
  PROVE  Draw(Hash(d)) = Draw(d)
BY DEF Hash, Draw

LEMMA NewDocumentType ==
  ASSUME NEW a \in Analyses, NEW t \in Templates
  PROVE  NewDocument(a, t) \in Documents
BY DEF NewDocument, Documents

\* What a request's state holds at each stage.
LEMMA StateFields ==
  ASSUME NEW s \in ClientStates
  PROVE  /\ s.stage = "read" => s.seen \in Documents /\ s.began \in Knowledge
         /\ s.stage \in {"check", "approve", "submit", "copied", "recorded"} =>
              s.hash \in Hashes /\ s.basis \in Bases
         /\ s.stage \in {"submit", "copied"} => s.path \in Attempts
         /\ s.stage \in {"submit", "copied", "recorded"} => s.began \in Knowledge
         /\ s.stage \in {"copied", "recorded"} => s.copy \in Drawings
BY DEF ClientStates

\* A request writes its own state only.
LEMMA GotoType ==
  ASSUME NEW c \in Clients, client \in [Clients -> ClientStates],
         NEW state \in ClientStates, Goto(c, state)
  PROVE  /\ client' \in [Clients -> ClientStates]
         /\ client'[c] = state
         /\ \A d \in Clients \ {c} : client'[d] = client[d]
BY DEF Goto

LEMMA IdleType == Idle \in ClientStates
BY DEF Idle, ClientStates

LEMMA TypedInit == Init => TypeOK
<1> SUFFICES ASSUME Init PROVE TypeOK
  OBVIOUS
<1>1. doc \in Documents
  BY NewDocumentType DEF Init
<1>2. client \in [Clients -> ClientStates]
  BY IdleType DEF Init
<1>3. attempt \in [Attempts -> AttemptStates]
  BY DEF Init, AttemptStates
<1> QED  BY <1>1, <1>2, <1>3 DEF Init, TypeOK, Knowledge, FactRecords

\* What an approving write makes of the document, in both of its outcomes.
LEMMA ApprovalWrites ==
  ASSUME NEW c \in Clients, ApproveDocument(c)
  PROVE  \/ doc' = doc
         \/ \E passed \in BOOLEAN : doc' = CheckStamped(doc, client[c].basis, passed)
         \/ /\ doc' = ApprovalStamped(CheckStamped(doc, client[c].basis, TRUE),
                                      client[c].basis, c)
            /\ doc.approved # client[c].basis
BY DEF ApproveDocument

\* A request keeps types when its new state and the document it writes have theirs.
LEMMA ClientTyped ==
  ASSUME TypeOK, NEW c \in Clients, NEW state \in ClientStates, Goto(c, state),
         doc' \in Documents, UNCHANGED <<records, attempt, files>>,
         released' \subseteq Attempts, changes' \in Nat
  PROVE  TypeOK'
<1>1. client' \in [Clients -> ClientStates]
  BY GotoType DEF TypeOK
<1> QED  BY <1>1 DEF TypeOK

LEMMA ChangeTyped ==
  ASSUME changes \in Nat, Change
  PROVE  changes' \in Nat
BY DEF Change

\* What a request with content in hand has read.
LEMMA ReadContent ==
  ASSUME TypeOK, NEW c \in Clients, HasReadContent(c)
  PROVE  /\ client[c].seen \in Documents /\ client[c].seen.content # Null
         /\ Hash(client[c].seen) \in Hashes
         /\ SeenBasis(c) \in Bases
<1>1. client[c].seen \in Documents /\ client[c].seen.content # Null
  BY StateFields DEF HasReadContent, TypeOK
<1> QED  BY <1>1, HashType, BasisType DEF SeenBasis, TypeOK

\* Requests that only move: what they take with them has its type.
LEMMA RequestTyped ==
  ASSUME TypeOK, NEW c \in Clients,
         \/ Read(c) \/ Finish(c) \/ CheckAgainst(c) \/ ApproveAgainst(c)
         \/ SubmitAgainst(c) \/ CopyForSubmission(c) \/ RecordSubmission(c)
  PROVE  TypeOK'
<1> USE DEF renderVars
<1>0. /\ doc \in Documents /\ client[c] \in ClientStates /\ records \in Knowledge
      /\ released \subseteq Attempts /\ changes \in Nat
  BY DEF TypeOK
<1>1. CASE Read(c)
  <2>1. [stage |-> "read", seen |-> doc, began |-> records] \in ClientStates
    BY <1>0 DEF ClientStates
  <2> QED  BY <1>0, <1>1, <2>1, ClientTyped DEF Read
<1>2. CASE Finish(c)
  BY <1>0, <1>2, IdleType, ClientTyped DEF Finish
<1>3. CASE CheckAgainst(c)
  <2>1. [stage |-> "check", hash |-> Hash(client[c].seen), basis |-> SeenBasis(c)]
          \in ClientStates
    BY <1>3, ReadContent DEF CheckAgainst, ClientStates
  <2> QED  BY <1>0, <1>3, <2>1, ClientTyped DEF CheckAgainst
<1>4. CASE ApproveAgainst(c)
  <2>1. [stage |-> "approve", hash |-> Hash(client[c].seen), basis |-> SeenBasis(c)]
          \in ClientStates
    BY <1>4, ReadContent DEF ApproveAgainst, ClientStates
  <2> QED  BY <1>0, <1>4, <2>1, ClientTyped DEF ApproveAgainst
<1>5. CASE SubmitAgainst(c)
  <2> DEFINE d == client[c].seen
             state == [stage |-> "submit", hash |-> Hash(d), basis |-> SeenBasis(c),
                       path |-> d.path, began |-> client[c].began]
  <2>1. d.path \in Attempts /\ client[c].began \in Knowledge
    <3>1. d \in Documents /\ d.path # Null
      BY <1>5, ReadContent DEF SubmitAgainst
    <3>2. client[c].stage = "read"
      BY <1>5 DEF SubmitAgainst, HasReadContent
    <3> QED  BY <1>0, <3>1, <3>2, StateFields DEF Documents
  <2>2. state \in ClientStates
    BY <1>5, <2>1, ReadContent DEF SubmitAgainst, ClientStates
  <2>3. Goto(c, state) /\ UNCHANGED <<doc, records, renderVars, changes>>
    BY <1>5 DEF SubmitAgainst
  <2> HIDE DEF state
  <2> QED  BY <1>0, <2>2, <2>3, ClientTyped
<1>6. CASE CopyForSubmission(c)
  <2>1. /\ client[c].hash \in Hashes /\ client[c].basis \in Bases
        /\ client[c].path \in Attempts /\ client[c].began \in Knowledge
    BY <1>0, <1>6, StateFields DEF CopyForSubmission
  <2>2. files[client[c].path] \in Drawings
    BY <1>6, <2>1 DEF CopyForSubmission, TypeOK
  <2>3. Copied(client[c], files[client[c].path]) \in ClientStates
    BY <2>1, <2>2 DEF Copied, ClientStates
  <2> QED  BY <1>0, <1>6, <2>3, ClientTyped DEF CopyForSubmission
<1>7. CASE RecordSubmission(c)
  <2>1. /\ client[c].basis \in Bases /\ client[c].copy \in Drawings
        /\ Hash(doc) \in Hashes /\ client[c].began \in Knowledge
    BY <1>0, <1>7, StateFields, HashType DEF RecordSubmission
  <2>2. Recorded(client[c]) \in ClientStates
    BY <2>1 DEF Recorded, ClientStates
  <2> QED  BY <1>0, <1>7, <2>2, ClientTyped DEF RecordSubmission
<1> QED  BY <1>1, <1>2, <1>3, <1>4, <1>5, <1>6, <1>7

\* Requests that write the document.
LEMMA WriteTyped ==
  ASSUME TypeOK, NEW c \in Clients,
         \/ \E content \in Contents : UpdateBody(c, content)
         \/ \E t \in Templates : SetTemplate(c, t)
         \/ \E a \in Analyses : BuildFromAnalysis(c, a)
         \/ CheckDocument(c) \/ ApproveDocument(c)
  PROVE  TypeOK'
<1> USE DEF renderVars
<1>0. /\ doc \in Documents /\ client[c] \in ClientStates
      /\ released \subseteq Attempts /\ changes \in Nat
  BY DEF TypeOK
<1>1. CASE \E content \in Contents : UpdateBody(c, content)
  <2>1. PICK content \in Contents : UpdateBody(c, content)
    BY <1>1
  <2>2. doc' \in Documents
    BY <1>0, <2>1 DEF UpdateBody, Documents
  <2> QED  BY <1>0, <2>1, <2>2, IdleType, ChangeTyped, ClientTyped DEF UpdateBody
<1>2. CASE \E t \in Templates : SetTemplate(c, t)
  <2>1. PICK t \in Templates : SetTemplate(c, t)
    BY <1>2
  <2>2. doc' \in Documents
    BY <1>0, <2>1 DEF SetTemplate, Documents
  <2> QED  BY <1>0, <2>1, <2>2, IdleType, ChangeTyped, ClientTyped DEF SetTemplate
<1>3. CASE \E a \in Analyses : BuildFromAnalysis(c, a)
  <2>1. PICK a \in Analyses : BuildFromAnalysis(c, a)
    BY <1>3
  <2>2. doc' \in Documents
    BY <1>0, <2>1, NewDocumentType DEF BuildFromAnalysis, Documents
  <2>3. released' \subseteq Attempts
    BY <1>0, <2>1 DEF BuildFromAnalysis, Releasing, Documents
  <2> QED
    BY <1>0, <2>1, <2>2, <2>3, IdleType, ChangeTyped, ClientTyped DEF BuildFromAnalysis
<1>4. CASE CheckDocument(c)
  <2>1. client[c].basis \in Bases
    BY <1>0, <1>4, StateFields DEF CheckDocument
  <2>2. doc' \in Documents
    BY <1>0, <1>4, <2>1 DEF CheckDocument, CheckStamped, Documents
  <2> QED  BY <1>0, <1>4, <2>2, IdleType, ClientTyped DEF CheckDocument
<1>5. CASE ApproveDocument(c)
  <2>1. client[c].basis \in Bases
    BY <1>0, <1>5, StateFields DEF ApproveDocument
  <2>2. doc' \in Documents
    BY <1>0, <1>5, <2>1, ApprovalWrites DEF CheckStamped, ApprovalStamped, Documents
  <2> QED  BY <1>0, <1>5, <2>2, IdleType, ClientTyped DEF ApproveDocument
<1> QED  BY <1>1, <1>2, <1>3, <1>4, <1>5

\* Renders, from their admission to the deletion of their files.
LEMMA RenderTyped ==
  ASSUME TypeOK, NEW p \in Attempts,
         \/ \E c \in Clients : AdmitRender(c, p)
         \/ RetryRender(p) \/ ExecuteRender(p) \/ FailRender(p)
         \/ ActivateRender(p) \/ RefuseActivation(p) \/ Discard(p)
  PROVE  TypeOK'
<1>0. /\ doc \in Documents /\ attempt[p] \in AttemptStates
      /\ attempt \in [Attempts -> AttemptStates] /\ files \in [Attempts -> Drawings \union {Null}]
  BY DEF TypeOK
<1>1. CASE \E c \in Clients : AdmitRender(c, p)
  <2>1. PICK c \in Clients : AdmitRender(c, p)
    BY <1>1
  <2>2. Hash(client[c].seen) \in Hashes
    BY <2>1, ReadContent DEF AdmitRender
  <2>3. attempt' \in [Attempts -> AttemptStates]
    BY <1>0, <2>1, <2>2 DEF AdmitRender, AttemptStates, TypeOK
  <2>4. client' \in [Clients -> ClientStates]
    BY <2>1, IdleType, GotoType DEF AdmitRender, TypeOK
  <2> QED  BY <2>1, <2>3, <2>4 DEF AdmitRender, TypeOK
<1>2. ASSUME attempt[p].stage # "unused", NEW stage \in {"queued", "written", "over"},
             AttemptGoesTo(p, stage)
      PROVE  attempt' \in [Attempts -> AttemptStates]
  BY <1>0, <1>2 DEF AttemptGoesTo, AttemptStates, TypeOK
<1>3. CASE ExecuteRender(p)
  <2>2. Draw(doc) \in Drawings
    BY <1>0, <1>3 DEF ExecuteRender, Draw, Drawings, Documents
  <2> QED  BY <1>0, <1>2, <1>3, <2>2 DEF ExecuteRender, TypeOK
<1>4. CASE FailRender(p)
  BY <1>2, <1>4 DEF FailRender, TypeOK
<1>5. CASE ActivateRender(p)
  <2>1. Basis(doc, records) \in Bases
    BY <1>0, <1>5, BasisType DEF ActivateRender, IsApproved, TypeOK
  <2>2. doc' \in Documents
    BY <1>0, <1>5, <2>1 DEF ActivateRender, RenderBasis, RenderBases, Documents
  <2>3. released' \subseteq Attempts
    BY <1>0, <1>5 DEF ActivateRender, Releasing, Documents, TypeOK
  <2> QED  BY <1>2, <1>5, <2>2, <2>3 DEF ActivateRender, TypeOK
<1>6. CASE RefuseActivation(p)
  <2>1. released' \subseteq Attempts
    BY <1>6 DEF RefuseActivation, Releasing, TypeOK
  <2> QED  BY <1>2, <1>6, <2>1 DEF RefuseActivation, TypeOK
<1>8. CASE RetryRender(p)
  <2>1. attempt' \in [Attempts -> AttemptStates]
    BY <1>0, <1>8, HashType DEF RetryRender, AttemptStates
  <2> QED  BY <1>8, <2>1 DEF RetryRender, TypeOK
<1>7. CASE Discard(p)
  <2>1. files' \in [Attempts -> Drawings \union {Null}]
    BY <1>0, <1>7 DEF Discard
  <2> QED  BY <1>7, <2>1 DEF Discard, TypeOK
<1> QED  BY <1>1, <1>3, <1>4, <1>5, <1>6, <1>7, <1>8

LEMMA FactsTyped ==
  ASSUME TypeOK, NEW f \in Facts, ConfirmFact(f) \/ DeleteFact(f)
  PROVE  TypeOK'
<1>1. changes' \in Nat /\ records' \in Knowledge
  BY ChangeTyped DEF ConfirmFact, DeleteFact, Knowledge, FactRecords, TypeOK
<1> QED  BY <1>1 DEF ConfirmFact, DeleteFact, renderVars, TypeOK

\* The disjuncts of Next, grouped by what they write.
LEMMA NextCases ==
  ASSUME Next
  PROVE  \/ \E c \in Clients :
              \/ Read(c) \/ Finish(c) \/ CheckAgainst(c) \/ ApproveAgainst(c)
              \/ SubmitAgainst(c) \/ CopyForSubmission(c) \/ RecordSubmission(c)
         \/ \E c \in Clients :
              \/ \E content \in Contents : UpdateBody(c, content)
              \/ \E t \in Templates : SetTemplate(c, t)
              \/ \E a \in Analyses : BuildFromAnalysis(c, a)
              \/ CheckDocument(c) \/ ApproveDocument(c)
         \/ \E p \in Attempts :
              \/ \E c \in Clients : AdmitRender(c, p)
              \/ RetryRender(p) \/ ExecuteRender(p) \/ FailRender(p)
              \/ ActivateRender(p) \/ RefuseActivation(p) \/ Discard(p)
         \/ \E f \in Facts : ConfirmFact(f) \/ DeleteFact(f)
BY DEF Next, ClientStep, AttemptStep, UpdateDocument, ActivateGeneration

LEMMA TypedNext == TypeOK /\ [Next]_vars => TypeOK'
<1> SUFFICES ASSUME TypeOK, [Next]_vars PROVE TypeOK'
  OBVIOUS
<1>1. CASE Next
  BY <1>1, NextCases, RequestTyped, WriteTyped, RenderTyped, FactsTyped
<1>2. CASE UNCHANGED vars
  BY <1>2 DEF vars, renderVars, TypeOK
<1> QED  BY <1>1, <1>2

\* Every variable keeps its type: no request ever holds a basis, a path or a
\* copy that does not exist, and nothing is ever drawn of an empty document.
THEOREM DocumentTypes == Spec => []TypeOK
BY TypedInit, TypedNext, PTL DEF Spec

-----------------------------------------------------------------------------
(* What requests know *)

\* A fact is confirmed, then deleted, and never goes back.
FactsGoOn ==
  \A f \in Facts : /\ records[f] # "pending" => records'[f] # "pending"
                   /\ records[f] = "deleted" => records'[f] = "deleted"

\* Nor does an attempt that is over.
PastStays ==
  /\ \A p \in Attempts : attempt[p].stage = "over" => attempt'[p] = attempt[p]
  /\ FactsGoOn

LEMMA FactsStay == UNCHANGED records => FactsGoOn
BY DEF FactsGoOn

\* What a request knows stays true: it speaks of what it holds, of attempts that
\* are over and of facts that were.
LEMMA KnowledgeStays ==
  ASSUME PastStays, NEW state \in ClientStates, RequestKnows(state)
  PROVE  RequestKnows(state)'
<1>0. /\ state.stage = "read" => BeganOver(state)'
      /\ state.stage = "approve" => IsPast(state.basis, records)'
  BY DEF RequestKnows, BeganOver, IsPast, PastStays, FactsGoOn
<1>1. state.stage = "read" => PathIsRendered(state.seen)'
  <2> SUFFICES ASSUME state.stage = "read" PROVE PathIsRendered(state.seen)'
    OBVIOUS
  <2>1. state.seen \in Documents
    BY StateFields
  <2>2. state.seen.path # Null => state.seen.path \in Attempts
    BY <2>1 DEF Documents
  <2>3. PathIsRendered(state.seen)
    BY DEF RequestKnows
  <2> QED  BY <2>2, <2>3 DEF PastStays, PathIsRendered, Draw
<1>2. state.stage \in {"submit", "copied"} =>
        /\ attempt'[state.path].stage = "over"
        /\ Draw(attempt'[state.path].hash) = Draw(state.hash)
  BY StateFields DEF PastStays, RequestKnows
<1> QED  BY <1>0, <1>1, <1>2 DEF RequestKnows, Agrees, RestsOnCanonicalFacts, WereUsable

LEMMA RequestsStay ==
  ASSUME TypeOK, RequestsKnow, PastStays, UNCHANGED client
  PROVE  RequestsKnow'
<1> SUFFICES ASSUME NEW c \in Clients PROVE RequestKnows(client[c])'
  BY DEF RequestsKnow
<1>1. client[c] \in ClientStates /\ RequestKnows(client[c])
  BY DEF TypeOK, RequestsKnow
<1> QED  BY <1>1, KnowledgeStays

LEMMA RequestMoves ==
  ASSUME TypeOK, RequestsKnow, PastStays, NEW c \in Clients,
         NEW state \in ClientStates, RequestKnows(state), Goto(c, state)
  PROVE  RequestsKnow'
<1> SUFFICES ASSUME NEW d \in Clients PROVE RequestKnows(client[d])'
  BY DEF RequestsKnow
<1>1. \A e \in Clients : client[e] \in ClientStates /\ RequestKnows(client[e])
  BY DEF TypeOK, RequestsKnow
<1>2. client'[c] = state /\ \A e \in Clients \ {c} : client'[e] = client[e]
  BY GotoType DEF TypeOK
<1>3. CASE d = c
  BY <1>2, <1>3, KnowledgeStays
<1>4. CASE d # c
  BY <1>1, <1>2, <1>4, KnowledgeStays
<1> QED  BY <1>3, <1>4

LEMMA IdleKnows == RequestKnows(Idle)
BY DEF Idle, RequestKnows

\* A basis without a review reason rests on canonical facts, and it agrees with
\* the hash it was computed beside.
LEMMA SeenAgrees ==
  ASSUME TypeOK, NEW c \in Clients, HasReadContent(c)
  PROVE  /\ SeenBasis(c).content = Hash(client[c].seen).content
         /\ SeenBasis(c).analysis = Hash(client[c].seen).analysis
         /\ Hash(client[c].seen).content # Null
         /\ ~HasReviewReason(client[c].seen, records) =>
              RestsOnCanonicalFacts(SeenBasis(c)) /\ IsPast(SeenBasis(c), records)
BY DEF HasReadContent, SeenBasis, Basis, Hash, FactsHash, HasReviewReason,
       RestsOnCanonicalFacts, IsPast

\* A request about to submit began with every fact of the document canonical: the
\* approval it saw names them so, none was deleted then, for none is now, and none
\* was pending after an approval that names it canonical.
LEMMA SubmitsUsable ==
  ASSUME TypeOK, NEW c \in Clients, HasReadContent(c), RequestKnows(client[c]),
         IsReady(client[c].seen, records), ~HasReviewReason(client[c].seen, records),
         NEW f \in Cites[client[c].seen.content]
  PROVE  client[c].began[f] = "canonical"
<1> DEFINE d == client[c].seen
<1>0. /\ client[c] \in ClientStates /\ client[c].stage = "read"
      /\ d.content # Null /\ SeenBasis(c) \in Bases /\ d \in Documents
  BY ReadContent DEF TypeOK, HasReadContent
<1>1. f \in Facts
  BY <1>0, CitesAssumption DEF Documents
<1>2. records[f] = "canonical"
  BY DEF HasReviewReason
<1>3. d.approved = SeenBasis(c) /\ d.approved # Null
  BY <1>0, NullStampAssumption DEF IsReady, IsApproved, SeenBasis
<1>4. d.approved.facts[f] = "canonical"
  BY <1>1, <1>2, <1>3 DEF SeenBasis, Basis, FactsHash
<1>5. client[c].began[f] \notin {"pending", "deleted"}
  BY <1>0, <1>1, <1>2, <1>3, <1>4 DEF RequestKnows, BeganOver, IsPast
<1>6. client[c].began[f] \in FactRecords
  BY <1>0, <1>1, StateFields DEF Knowledge
<1> QED  BY <1>5, <1>6 DEF FactRecords

-----------------------------------------------------------------------------
(* The invariant *)

LEMMA IInvInit == Init => IInv
<1> SUFFICES ASSUME Init PROVE IInv
  OBVIOUS
<1>1. PICK a \in Analyses, t \in Templates : doc = NewDocument(a, t)
  BY DEF Init
<1>2. OwnFilesAreKept /\ ApprovalRestsOnCanonicalFacts /\ EmptyHasNoStamps
  BY <1>1 DEF NewDocument, OwnFilesAreKept, PathIsRendered, ApprovalRestsOnCanonicalFacts,
              EmptyHasNoStamps
<1>3. FilesFollowAttempts
  BY DEF Init, FilesFollowAttempts
<1>4. RequestsKnow
  BY IdleKnows DEF Init, RequestsKnow
<1> QED  BY <1>2, <1>3, <1>4, TypedInit DEF IInv

\* Requests that move: the document, the attempts and the files are not theirs to
\* change, so it is enough that they know what they take with them.
LEMMA RequestIInv ==
  ASSUME IInv, NEW c \in Clients,
         \/ Read(c) \/ Finish(c) \/ CheckAgainst(c) \/ ApproveAgainst(c)
         \/ SubmitAgainst(c) \/ CopyForSubmission(c) \/ RecordSubmission(c)
  PROVE  IInv'
<1> USE DEF renderVars
<1>0. /\ TypeOK /\ RequestsKnow /\ RequestKnows(client[c])
      /\ client[c] \in ClientStates /\ doc \in Documents
  BY DEF IInv, RequestsKnow, TypeOK
<1>1. TypeOK'
  BY <1>0, RequestTyped
<1>2. UNCHANGED <<doc, records, attempt, files, released>>
  BY DEF Read, Finish, CheckAgainst, ApproveAgainst, SubmitAgainst, CopyForSubmission,
         RecordSubmission
<1>3. PastStays
  BY <1>2, FactsStay DEF PastStays
<1>4. /\ FilesFollowAttempts' /\ OwnFilesAreKept' /\ ApprovalRestsOnCanonicalFacts'
      /\ EmptyHasNoStamps'
  BY <1>2 DEF IInv, FilesFollowAttempts, OwnFilesAreKept, PathIsRendered,
              ApprovalRestsOnCanonicalFacts, EmptyHasNoStamps
<1>5. client' \in [Clients -> ClientStates]
  BY <1>1 DEF TypeOK
<1>6. ASSUME NEW state, Goto(c, state), RequestKnows(state)
      PROVE  RequestsKnow'
  <2>1. state \in ClientStates
    BY <1>0, <1>5, <1>6 DEF Goto, TypeOK
  <2> QED  BY <1>0, <1>3, <1>6, <2>1, RequestMoves
<1>7. CASE Read(c)
  <2>1. RequestKnows([stage |-> "read", seen |-> doc, began |-> records])
    BY DEF IInv, OwnFilesAreKept, ApprovalRestsOnCanonicalFacts, RequestKnows, BeganOver
  <2> QED  BY <1>1, <1>4, <1>6, <1>7, <2>1 DEF Read, IInv
<1>8. CASE Finish(c)
  BY <1>1, <1>4, <1>6, <1>8, IdleKnows DEF Finish, IInv
<1>9. CASE CheckAgainst(c)
  <2>1. RequestKnows([stage |-> "check", hash |-> Hash(client[c].seen),
                      basis |-> SeenBasis(c)])
    BY <1>0, <1>9, SeenAgrees DEF CheckAgainst, RequestKnows, Agrees
  <2> QED  BY <1>1, <1>4, <1>6, <1>9, <2>1 DEF CheckAgainst, IInv
<1>10. CASE ApproveAgainst(c)
  <2>1. RequestKnows([stage |-> "approve", hash |-> Hash(client[c].seen),
                      basis |-> SeenBasis(c)])
    BY <1>0, <1>10, SeenAgrees DEF ApproveAgainst, RequestKnows, Agrees
  <2> QED  BY <1>1, <1>4, <1>6, <1>10, <2>1 DEF ApproveAgainst, IInv
<1>11. CASE SubmitAgainst(c)
  <2> DEFINE d == client[c].seen
             state == [stage |-> "submit", hash |-> Hash(d), basis |-> SeenBasis(c),
                       path |-> d.path, began |-> client[c].began]
  <2>1. /\ HasReadContent(c) /\ IsReady(d, records) /\ d.path # Null
        /\ ~HasReviewReason(d, records) /\ Goto(c, state)
    BY <1>11 DEF SubmitAgainst
  <2>2. attempt[d.path].stage = "over" /\ Draw(attempt[d.path].hash) = Drawn(d.rendered)
    BY <1>0, <2>1 DEF HasReadContent, RequestKnows, PathIsRendered
  <2>3. Drawn(d.rendered) = Draw(Hash(d))
    BY <2>1 DEF IsReady, RenderBasis, Basis, Drawn, Draw, Hash
  <2>4. WereUsable(state)
    BY <1>0, <2>1, SubmitsUsable DEF WereUsable, Hash
  <2>5. RequestKnows(state)
    BY <1>0, <2>1, <2>2, <2>3, <2>4, SeenAgrees DEF RequestKnows, Agrees
  <2> HIDE DEF state
  <2> QED  BY <1>1, <1>4, <1>6, <2>1, <2>5 DEF IInv
<1>12. CASE CopyForSubmission(c)
  <2>1. client[c].stage = "submit" /\ files[client[c].path] # Null
    BY <1>12 DEF CopyForSubmission
  <2>2. client[c].path \in Attempts
    BY <1>0, <2>1, StateFields
  <2>3. /\ attempt[client[c].path].stage = "over"
        /\ Draw(attempt[client[c].path].hash) = Draw(client[c].hash)
        /\ Agrees(client[c]) /\ WereUsable(client[c])
    BY <1>0, <2>1 DEF RequestKnows
  <2>4. files[client[c].path] = Draw(client[c].hash)
    BY <2>1, <2>2, <2>3 DEF IInv, FilesFollowAttempts
  <2>5. RequestKnows(Copied(client[c], files[client[c].path]))
    BY <2>3, <2>4 DEF RequestKnows, Copied, Agrees, WereUsable
  <2> QED  BY <1>1, <1>4, <1>6, <1>12, <2>5 DEF CopyForSubmission, IInv
<1>13. CASE RecordSubmission(c)
  <2>1. client[c].stage = "copied" /\ Hash(doc) = client[c].hash
    BY <1>13 DEF RecordSubmission, StillHolds
  <2>2. /\ client[c].copy = Draw(client[c].hash)
        /\ Agrees(client[c]) /\ WereUsable(client[c])
    BY <1>0, <2>1 DEF RequestKnows
  <2>3. RequestKnows(Recorded(client[c]))
    BY <2>1, <2>2 DEF RequestKnows, Recorded, Agrees, WereUsable
  <2> QED  BY <1>1, <1>4, <1>6, <1>13, <2>3 DEF RecordSubmission, IInv
<1> QED  BY <1>7, <1>8, <1>9, <1>10, <1>11, <1>12, <1>13

\* Requests that write: what is left of the invariant is about the document.
LEMMA WriteIInv ==
  ASSUME IInv, NEW c \in Clients,
         \/ \E content \in Contents : UpdateBody(c, content)
         \/ \E t \in Templates : SetTemplate(c, t)
         \/ \E a \in Analyses : BuildFromAnalysis(c, a)
         \/ CheckDocument(c) \/ ApproveDocument(c)
  PROVE  IInv'
<1> USE DEF renderVars
<1> DEFINE DocumentIInv ==
             OwnFilesAreKept /\ ApprovalRestsOnCanonicalFacts /\ EmptyHasNoStamps
<1>0. /\ TypeOK /\ RequestsKnow /\ RequestKnows(client[c]) /\ DocumentIInv
      /\ doc \in Documents
  BY DEF IInv, RequestsKnow, TypeOK
<1>1. TypeOK'
  BY <1>0, WriteTyped
<1>2. UNCHANGED <<attempt, files, records>> /\ Goto(c, Idle)
  BY DEF UpdateBody, SetTemplate, BuildFromAnalysis, CheckDocument, ApproveDocument
<1>3. RequestsKnow'
  BY <1>0, <1>2, IdleType, IdleKnows, RequestMoves, FactsStay DEF PastStays
<1>4. released' \subseteq released \union {doc.path}
  BY DEF UpdateBody, SetTemplate, BuildFromAnalysis, CheckDocument, ApproveDocument,
         Releasing
<1>5. FilesFollowAttempts'
  <2>1. doc.path # Null => doc.path \in Attempts /\ attempt[doc.path].stage = "over"
    BY <1>0 DEF Documents, OwnFilesAreKept, PathIsRendered
  <2>2. Null \notin Attempts
    BY NullAssumption
  <2> QED  BY <1>2, <1>4, <2>1, <2>2 DEF IInv, FilesFollowAttempts
<1>6. SUFFICES DocumentIInv'
  BY <1>1, <1>3, <1>5 DEF IInv
<1> USE DEF OwnFilesAreKept, PathIsRendered, ApprovalRestsOnCanonicalFacts, EmptyHasNoStamps, IsPast
<1>7. CASE \E content \in Contents : UpdateBody(c, content)
  <2>1. PICK content \in Contents : UpdateBody(c, content)
    BY <1>7
  <2>2. content # Null
    BY NullAssumption
  <2> QED  BY <1>0, <2>1, <2>2 DEF UpdateBody, Documents
<1>8. CASE \E t \in Templates : SetTemplate(c, t)
  BY <1>0, <1>8 DEF SetTemplate, Documents
<1>9. CASE \E a \in Analyses : BuildFromAnalysis(c, a)
  BY <1>9 DEF BuildFromAnalysis, NewDocument
<1>10. ASSUME client[c].stage \in {"check", "approve"}, StillHolds(c)
       PROVE  doc.content # Null
  BY <1>0, <1>10 DEF RequestKnows, Agrees, StillHolds, Hash
<1>11. CASE CheckDocument(c)
  BY <1>0, <1>10, <1>11 DEF CheckDocument, CheckStamped, Documents
<1>12. CASE ApproveDocument(c)
  <2>1. /\ RestsOnCanonicalFacts(client[c].basis) /\ IsPast(client[c].basis, records)
        /\ doc.content # Null
    BY <1>0, <1>10, <1>12 DEF ApproveDocument, RequestKnows
  <2>2. released' = released
    BY <1>12 DEF ApproveDocument
  <2>3. /\ doc'.content = doc.content /\ doc'.rendered = doc.rendered /\ doc'.path = doc.path
        /\ doc'.approved \in {doc.approved, client[c].basis}
    BY <1>0, <1>12, ApprovalWrites DEF CheckStamped, ApprovalStamped, Documents
  <2>4. OwnFilesAreKept'
    BY <1>0, <1>2, <2>2, <2>3
  <2>5. ApprovalRestsOnCanonicalFacts'
    BY <1>0, <1>2, <2>1, <2>3 DEF IsPast, RestsOnCanonicalFacts
  <2> QED  BY <2>1, <2>3, <2>4, <2>5
<1> QED  BY <1>7, <1>8, <1>9, <1>11, <1>12

\* Renders.  The step that matters is the activation: the hash ties what the
\* attempt drew to the document, whose basis the stamp names.
LEMMA RenderIInv ==
  ASSUME IInv, NEW p \in Attempts,
         \/ \E c \in Clients : AdmitRender(c, p)
         \/ RetryRender(p) \/ ExecuteRender(p) \/ FailRender(p)
         \/ ActivateRender(p) \/ RefuseActivation(p) \/ Discard(p)
  PROVE  IInv'
<1>0. /\ TypeOK /\ RequestsKnow /\ doc \in Documents
      /\ attempt \in [Attempts -> AttemptStates] /\ files \in [Attempts -> Drawings \union {Null}]
      /\ Null \notin Attempts
  BY NullAssumption DEF IInv, TypeOK
<1>1. TypeOK'
  BY <1>0, RenderTyped
<1>2. /\ attempt[p].stage = "over" => attempt' = attempt
      /\ \A q \in Attempts \ {p} : attempt'[q] = attempt[q]
  BY <1>0 DEF AdmitRender, RetryRender, ExecuteRender, FailRender, ActivateRender,
              RefuseActivation, Discard, AttemptGoesTo
<1>3. PastStays
  <2>1. UNCHANGED records
    BY DEF AdmitRender, RetryRender, ExecuteRender, FailRender, ActivateRender,
           RefuseActivation, Discard
  <2> QED  BY <1>2, <2>1, FactsStay DEF PastStays
<1>4. RequestsKnow'
  <2>1. CASE \E c \in Clients : AdmitRender(c, p)
    BY <1>0, <1>3, <2>1, IdleType, IdleKnows, RequestMoves DEF AdmitRender
  <2>2. CASE \/ RetryRender(p) \/ ExecuteRender(p) \/ FailRender(p)
             \/ ActivateRender(p) \/ RefuseActivation(p) \/ Discard(p)
    BY <1>0, <1>3, <2>2, RequestsStay
       DEF RetryRender, ExecuteRender, FailRender, ActivateRender, RefuseActivation, Discard
  <2> QED  BY <2>1, <2>2
<1> USE DEF FilesFollowAttempts, AttemptGoesTo
<1>5. doc.path # Null => doc.path \in Attempts /\ attempt[doc.path].stage = "over"
  BY <1>0 DEF IInv, OwnFilesAreKept, PathIsRendered, Documents
<1>6. FilesFollowAttempts'
  <2>1. CASE \E c \in Clients : AdmitRender(c, p)
    BY <1>0, <2>1 DEF AdmitRender, IInv
  <2>2. CASE ExecuteRender(p)
    BY <1>0, <2>2, DocumentDraws DEF ExecuteRender, IInv, AttemptStates
  <2>3. CASE FailRender(p)
    BY <1>0, <2>3 DEF FailRender, IInv, AttemptStates
  <2>4. CASE ActivateRender(p)
    BY <1>0, <1>5, <2>4 DEF ActivateRender, Releasing, IInv, AttemptStates
  <2>5. CASE RefuseActivation(p)
    BY <1>0, <2>5 DEF RefuseActivation, Releasing, IInv, AttemptStates
  <2>6. CASE Discard(p)
    BY <1>0, <2>6 DEF Discard, IInv
  <2>7. CASE RetryRender(p)
    BY <1>0, <2>7 DEF RetryRender, IInv
  <2> QED  BY <2>1, <2>2, <2>3, <2>4, <2>5, <2>6, <2>7
<1>7. ApprovalRestsOnCanonicalFacts'
  BY <1>0 DEF AdmitRender, RetryRender, ExecuteRender, FailRender, ActivateRender,
              RefuseActivation, Discard, IInv, ApprovalRestsOnCanonicalFacts, IsPast, Documents
<1>8. EmptyHasNoStamps'
  BY <1>0 DEF AdmitRender, RetryRender, ExecuteRender, FailRender, ActivateRender,
              RefuseActivation, Discard, IInv, EmptyHasNoStamps, IsApproved, Documents
<1> USE DEF OwnFilesAreKept, PathIsRendered
<1>9. OwnFilesAreKept'
  <2>1. CASE \E c \in Clients : AdmitRender(c, p)
    BY <1>0, <1>5, <2>1 DEF AdmitRender, IInv
  <2>2. CASE ExecuteRender(p) \/ FailRender(p) \/ RefuseActivation(p)
    BY <1>0, <1>5, <2>2
       DEF ExecuteRender, FailRender, RefuseActivation, Releasing, IInv
  <2>3. CASE Discard(p)
    BY <1>0, <1>5, <2>3 DEF Discard, IInv
  <2>5. CASE RetryRender(p)
    BY <1>0, <1>5, <2>5 DEF RetryRender, IInv
  <2>4. CASE ActivateRender(p)
    <3>1. /\ doc'.rendered = RenderBasis(doc, Basis(doc, records)) /\ doc'.path = p
          /\ attempt'[p].stage = "over" /\ attempt'[p].hash = attempt[p].hash
          /\ files' = files
      BY <1>0, <2>4 DEF ActivateRender, Documents, AttemptStates
    <3>2. Draw(attempt[p].hash) = Draw(doc) /\ files[p] = Draw(attempt[p].hash)
      BY <2>4, DocumentDraws DEF ActivateRender, IInv
    <3>3. Drawn(doc'.rendered) = Draw(doc)
      BY <3>1 DEF Drawn, RenderBasis, Basis, Draw
    <3>4. p \notin released'
      BY <1>5, <2>4 DEF ActivateRender, Releasing, IInv
    <3>5. doc'.rendered # Null
      BY <1>1, <3>1, NullStampAssumption, <1>0, BasisType, <2>4
         DEF ActivateRender, IsApproved, RenderBasis, RenderBases, Documents, TypeOK
    <3> QED  BY <1>0, <3>1, <3>2, <3>3, <3>4, <3>5
  <2> QED  BY <2>1, <2>2, <2>3, <2>4, <2>5
<1> QED  BY <1>1, <1>4, <1>6, <1>7, <1>8, <1>9 DEF IInv

LEMMA FactsIInv ==
  ASSUME IInv, NEW f \in Facts, ConfirmFact(f) \/ DeleteFact(f)
  PROVE  IInv'
<1>1. TypeOK /\ RequestsKnow /\ UNCHANGED <<doc, client, attempt, files, released>>
  BY DEF IInv, ConfirmFact, DeleteFact, renderVars
<1>2. TypeOK'
  BY <1>1, FactsTyped
<1>3. FactsGoOn
  BY <1>1 DEF ConfirmFact, DeleteFact, FactsGoOn, TypeOK, Knowledge
<1>4. RequestsKnow'
  BY <1>1, <1>3, RequestsStay DEF PastStays
<1>5. ApprovalRestsOnCanonicalFacts'
  BY <1>1, <1>3 DEF IInv, ApprovalRestsOnCanonicalFacts, RestsOnCanonicalFacts, IsPast, FactsGoOn
<1> QED
  BY <1>1, <1>2, <1>4, <1>5 DEF IInv, FilesFollowAttempts, OwnFilesAreKept, PathIsRendered,
                                EmptyHasNoStamps

LEMMA IInvNext == IInv /\ [Next]_vars => IInv'
<1> SUFFICES ASSUME IInv, [Next]_vars PROVE IInv'
  OBVIOUS
<1>1. CASE Next
  BY <1>1, NextCases, RequestIInv, WriteIInv, RenderIInv, FactsIInv
<1>2. CASE UNCHANGED vars
  <2>1. TypeOK /\ RequestsKnow /\ UNCHANGED <<doc, records, client, attempt, files, released>>
    BY <1>2 DEF IInv, vars, renderVars
  <2>2. TypeOK'
    BY <1>2, TypedNext DEF IInv
  <2>3. RequestsKnow'
    BY <2>1, RequestsStay, FactsStay DEF PastStays
  <2> QED
    BY <2>1, <2>2, <2>3 DEF IInv, FilesFollowAttempts, OwnFilesAreKept, PathIsRendered,
                            ApprovalRestsOnCanonicalFacts, EmptyHasNoStamps
<1> QED  BY <1>1, <1>2

LEMMA Invariance == Spec => []IInv
BY IInvInit, IInvNext, PTL DEF Spec

-----------------------------------------------------------------------------
(* The theorems *)

\* The files of a Ready document are there and show its content in its template
\* (rendering.py activate, documents.py activate_render and repin).
THEOREM ReadyFilesShowTheDocument == Spec => []ReadyShowsTheDocument
<1>1. IInv => ReadyShowsTheDocument
  <2> SUFFICES ASSUME IInv, IsReady(doc, records)
               PROVE  doc.path # Null /\ files[doc.path] = Draw(doc)
    BY DEF ReadyShowsTheDocument
  <2>1. doc.rendered = RenderBasis(doc, Basis(doc, records)) /\ doc.rendered # Null
    <3>1. Basis(doc, records) \in Bases
      BY BasisType DEF IsReady, IsApproved, IInv, TypeOK
    <3>2. RenderBasis(doc, Basis(doc, records)) \in RenderBases
      BY <3>1 DEF RenderBasis, RenderBases, IInv, TypeOK, Documents
    <3> QED  BY <3>2, NullStampAssumption DEF IsReady
  <2>2. doc.path # Null /\ files[doc.path] = Drawn(doc.rendered)
    BY <2>1 DEF IInv, OwnFilesAreKept, PathIsRendered
  <2> QED  BY <2>1, <2>2 DEF Drawn, RenderBasis, Basis, Draw
<1> QED  BY <1>1, Invariance, PTL

\* An approval in force cites canonical facts, however late its stamp was written;
\* a Submission cites facts that were canonical when its request began
\* (review.py approve_document, submission.py submit_application).
THEOREM ApprovalsRestOnUsableFacts == Spec => []ApprovedFactsAreUsable
<1>1. ASSUME IInv PROVE IsApproved(doc, records) => ~HasReviewReason(doc, records)
  <2> SUFFICES ASSUME IsApproved(doc, records), NEW f \in Cites[doc.content]
               PROVE  records[f] = "canonical"
    BY DEF HasReviewReason
  <2>0. doc \in Documents /\ records \in Knowledge /\ doc.content \in Contents
    BY <1>1 DEF IInv, TypeOK, IsApproved, Documents
  <2>1. f \in Facts
    BY <2>0, CitesAssumption
  <2>2. doc.approved = Basis(doc, records) /\ doc.approved # Null
    BY <2>0, NullStampAssumption, BasisType DEF IsApproved
  <2>3. doc.approved.facts[f] = records[f]
    BY <2>1, <2>2 DEF Basis, FactsHash
  <2>4. records[f] \in {"canonical", "uncited"}
    BY <1>1, <2>1, <2>2, <2>3 DEF IInv, ApprovalRestsOnCanonicalFacts, RestsOnCanonicalFacts
  <2> QED  BY <2>0, <2>1, <2>4 DEF Knowledge, FactRecords
<1>2. IInv => ApprovedFactsAreUsable
  BY <1>1 DEF IInv, ApprovedFactsAreUsable, RequestsKnow, RequestKnows, WereUsable
<1> QED  BY <1>2, Invariance, PTL

\* A document without content carries no stamp and no files
\* (documents.py _CLEARED_STAMPS).
THEOREM NoContentNoStamps == Spec => []EmptyHasNoStamps
<1>1. IInv => EmptyHasNoStamps
  BY DEF IInv
<1> QED  BY <1>1, Invariance, PTL

\* What is submitted is what the copied files show (submission.py
\* submit_application, _record).
THEOREM SubmissionsAreWhatWasCopied == Spec => []SubmissionsShowTheirContent
<1>1. IInv => SubmissionsShowTheirContent
  BY DEF IInv, SubmissionsShowTheirContent, RequestsKnow, RequestKnows, Agrees
<1> QED  BY <1>1, Invariance, PTL

\* What a step does to the approval: nothing, clears it with everything else, or
\* gives a new one with its report.
LEMMA ApprovalStep ==
  ASSUME TypeOK, [Next]_vars
  PROVE  \/ doc'.approved = doc.approved /\ doc'.approvedBy = doc.approvedBy
         \/ doc'.approved = Null
         \/ /\ doc'.approved # doc.approved
            /\ doc'.passed /\ doc'.checked = doc'.approved
<1>0. doc \in Documents
  BY DEF TypeOK
<1>1. CASE UNCHANGED doc
  BY <1>1
<1>2. ASSUME NEW c \in Clients,
             \/ \E content \in Contents : UpdateBody(c, content)
             \/ \E t \in Templates : SetTemplate(c, t)
             \/ \E a \in Analyses : BuildFromAnalysis(c, a)
             \/ CheckDocument(c)
      PROVE  \/ doc'.approved = doc.approved /\ doc'.approvedBy = doc.approvedBy
             \/ doc'.approved = Null
  <2>1. CASE \/ \E content \in Contents : UpdateBody(c, content)
             \/ \E t \in Templates : SetTemplate(c, t)
    BY <1>0, <2>1 DEF UpdateBody, SetTemplate, Documents
  <2>2. CASE \E a \in Analyses : BuildFromAnalysis(c, a)
    BY <2>2 DEF BuildFromAnalysis, NewDocument
  <2>3. CASE CheckDocument(c)
    BY <1>0, <2>3 DEF CheckDocument, CheckStamped, Documents
  <2> QED  BY <1>2, <2>1, <2>2, <2>3
<1>3. ASSUME NEW c \in Clients, ApproveDocument(c)
      PROVE  \/ doc'.approved = doc.approved /\ doc'.approvedBy = doc.approvedBy
             \/ /\ doc'.approved # doc.approved
                /\ doc'.passed /\ doc'.checked = doc'.approved
  BY <1>0, <1>3, ApprovalWrites DEF CheckStamped, ApprovalStamped, Documents
<1>4. ASSUME NEW p \in Attempts, ActivateRender(p)
      PROVE  doc'.approved = doc.approved /\ doc'.approvedBy = doc.approvedBy
  BY <1>0, <1>4 DEF ActivateRender, Documents
<1>5. CASE Next
  BY <1>1, <1>2, <1>3, <1>4, <1>5, NextCases
     DEF Read, Finish, CheckAgainst, ApproveAgainst, SubmitAgainst, CopyForSubmission,
         RecordSubmission, AdmitRender, RetryRender, ExecuteRender, FailRender,
         RefuseActivation, Discard, ConfirmFact, DeleteFact
<1> QED  BY <1>1, <1>5 DEF vars

\* No approval without the report it was given on (review.py approve_document).
THEOREM ApprovalsCarryTheirReport == Spec => ApprovalCarriesItsReport
<1>1. TypeOK /\ [Next]_vars =>
        [doc'.approved \notin {doc.approved, Null} =>
           doc'.passed /\ doc'.checked = doc'.approved]_vars
  BY ApprovalStep
<1> QED  BY <1>1, TypedInit, TypedNext, PTL DEF Spec, ApprovalCarriesItsReport

\* An approval in force is never given again (review.py _existing_approval).
THEOREM ApprovalsAreGivenOnce == Spec => ApprovalIsGivenOnce
<1>1. TypeOK /\ [Next]_vars =>
        [doc.approved # Null /\ doc'.approved = doc.approved =>
           doc'.approvedBy = doc.approvedBy]_vars
  BY ApprovalStep
<1> QED  BY <1>1, TypedInit, TypedNext, PTL DEF Spec, ApprovalIsGivenOnce
-----------------------------------------------------------------------------
(* The screen of the document: DraftScreen, whose `doc` and `Templates` are *)
(* its own server's and no more than the same names.                        *)

CONSTANTS Texts, Failing, Budgets
VARIABLES
    read, docFetch, seen, session, rowOpen, shown, token, request, resolving, resolutionFailed,
    approvalOpen, stale, renderOnApproval, renderQueuedHere, attempted, snapshot, budget

S == INSTANCE DraftScreen

-----------------------------------------------------------------------------
(* What a step does to the commands, the runs, the comparison and the flow *)

\* None of them moves.
Quiet == UNCHANGED <<ops, request, S!regeneration, flow, resolving>>
\* A command moves that is neither a regeneration's nor a flow's.
OthersMove ==
  /\ UNCHANGED <<ops, S!regeneration, flow, resolving>>
  /\ S!RequestsAreRecorded'
  /\ \A kind \in {"regenerate", "confirm", "template"} : request'[kind] = request[kind]

LEMMA Updated ==
  ASSUME S!RequestsAreRecorded, NEW kind \in S!Commands, NEW r, DOMAIN r = DOMAIN S!NoRequest,
         request' = [request EXCEPT ![kind] = r]
  PROVE  /\ S!RequestsAreRecorded' /\ request'[kind] = r
         /\ \A other \in S!Commands \ {kind} : request'[other] = request[other]
  BY DEF S!RequestsAreRecorded

LEMMA NewRequests ==
  /\ DOMAIN S!NoRequest = {"stage", "hash", "template", "opens", "op", "verdict", "status"}
  /\ \A hash : /\ DOMAIN S!About(hash) = DOMAIN S!NoRequest
               /\ S!About(hash).stage = "sent" /\ S!About(hash).hash = hash
               /\ S!About(hash).verdict = "none"
  BY DEF S!NoRequest, S!About

\* A command other than the three is sent, waits or is over.
LEMMA AnotherMoves ==
  ASSUME S!RequestsAreRecorded, UNCHANGED <<ops, S!regeneration, flow, resolving>>,
         NEW kind \in S!Commands \ {"regenerate", "confirm", "template"},
         NEW r, DOMAIN r = DOMAIN S!NoRequest, request' = [request EXCEPT ![kind] = r]
  PROVE  OthersMove
  BY Updated DEF OthersMove, S!Commands

LEMMA WaitingMoves ==
  ASSUME S!RequestsAreRecorded, NEW kind \in S!Commands, NEW stage, S!Waits(kind, stage)
  PROVE  /\ request' = [request EXCEPT ![kind] = [request[kind] EXCEPT !.stage = stage]]
         /\ DOMAIN [request[kind] EXCEPT !.stage = stage] = DOMAIN S!NoRequest
  BY DEF S!Waits, S!RequestsAreRecorded

LEMMA ClosingMoves ==
  ASSUME S!RequestsAreRecorded, NEW kind \in S!Commands \ {"regenerate", "confirm", "template"},
         S!Closes(kind) \/ (\E stage \in {"views", "reading"} : S!Waits(kind, stage)),
         UNCHANGED <<ops, S!regeneration, flow, resolving>>
  PROVE  OthersMove
<1>1. CASE S!Closes(kind)
  BY <1>1, AnotherMoves DEF S!Closes
<1>2. ASSUME NEW stage \in {"views", "reading"}, S!Waits(kind, stage) PROVE OthersMove
  BY <1>2, AnotherMoves, WaitingMoves
<1> QED BY <1>1, <1>2

LEMMA EffectsStep ==
  ASSUME S!RequestsAreRecorded, S!Effect
  PROVE  Quiet \/ OthersMove \/ S!SettleDiff \/ S!FlowContinues
<1> USE DEF S!server, S!reads, S!watch, S!autosave, S!flows, S!approval, S!render, S!watching
<1>1. CASE S!FollowProjection \/ S!RefreshViews \/ S!SettleRun
  BY <1>1 DEF S!FollowProjection, S!RefreshViews, S!SettleRun, Quiet, S!flows
<1>2. CASE S!ReadBack \/ S!LeaveForReady \/ S!StartSession \/ S!EndSession \/ S!ShutApproval
  BY <1>2 DEF S!ReadBack, S!LeaveForReady, S!StartSession, S!EndSession, S!ShutApproval, Quiet
<1>3. CASE S!AutoRender
  <2>1. request' = [request EXCEPT !["render"] = S!About(detail.hash)]
        /\ UNCHANGED <<ops, S!regeneration, flow, resolving>>
    BY <1>3 DEF S!AutoRender
  <2> QED BY <2>1, AnotherMoves, NewRequests DEF S!Commands
<1>4. CASE S!CheckReads \/ S!CheckOver
  <2>1. /\ S!Closes("check") \/ (\E stage \in {"views", "reading"} : S!Waits("check", stage))
        /\ UNCHANGED <<ops, S!regeneration, flow, resolving>>
    BY <1>4 DEF S!CheckReads, S!CheckOver
  <2> QED BY <2>1, ClosingMoves DEF S!Commands
<1>5. CASE S!ApproveOver
  <2>1. S!Closes("approve") /\ UNCHANGED <<ops, S!regeneration, flow, resolving>>
    BY <1>5 DEF S!ApproveOver
  <2> QED BY <2>1, ClosingMoves DEF S!Commands
<1> QED BY <1>1, <1>2, <1>3, <1>4, <1>5 DEF S!Effect

LEMMA ReaderSteps ==
  ASSUME S!RequestsAreRecorded, S!Reader
  PROVE  \/ Quiet \/ OthersMove \/ S!DismissDiff \/ S!Regenerate \/ S!FollowLink \/ S!ConfirmFact
         \/ \E template \in Templates : S!ChooseTemplate(template)
<1> USE DEF S!server, S!reads, S!watch, S!autosave, S!flows, S!approval, S!render
<1>1. CASE \/ S!OpenRow \/ S!Flush \/ S!RevertDiff \/ S!CloseApproval
           \/ \E text \in Texts : S!TypeText(text)
  BY <1>1 DEF S!OpenRow, S!Flush, S!RevertDiff, S!CloseApproval, S!TypeText, S!EditLine, Quiet
<1>2. CASE S!HidePanel \/ S!OpenReport \/ S!CloseReport \/ S!SuccessGoes
  BY <1>2 DEF S!HidePanel, S!OpenReport, S!CloseReport, S!SuccessGoes, S!SetSession, Quiet
<1>3. CASE S!DiscardLocal \/ S!ReapplyLocal
  BY <1>3 DEF S!DiscardLocal, S!ReapplyLocal, Quiet
<1>4. CASE S!CheckThenApprove
  <2> DEFINE r == [S!About(S!Hash(read)) EXCEPT !.opens = TRUE]
  <2>1. UNCHANGED <<ops, S!regeneration, flow, resolving>>
        /\ (request' = request \/ request' = [request EXCEPT !["check"] = r])
    BY <1>4 DEF S!CheckThenApprove
  <2>2. DOMAIN r = DOMAIN S!NoRequest
    BY NewRequests
  <2> QED BY <2>1, <2>2, AnotherMoves DEF S!Commands, Quiet
<1>5. CASE S!Approve \/ S!Render
  <2>1. UNCHANGED <<ops, S!regeneration, flow, resolving>>
        /\ \E kind \in {"approve", "render"}, hash \in {S!Hash(read), detail.hash} :
              request' = [request EXCEPT ![kind] = S!About(hash)]
    BY <1>5 DEF S!Approve, S!Render
  <2>2. PICK kind \in {"approve", "render"}, hash \in {S!Hash(read), detail.hash} :
          request' = [request EXCEPT ![kind] = S!About(hash)]
    BY <2>1
  <2>3. DOMAIN S!About(hash) = DOMAIN S!NoRequest
    BY NewRequests
  <2> QED BY <2>1, <2>2, <2>3, AnotherMoves DEF S!Commands
<1>6. CASE S!Retry \/ S!Cancel
  <2> DEFINE r == [S!About(None) EXCEPT !.op = S!Candidate.id]
  <2>1. UNCHANGED <<ops, S!regeneration, flow, resolving>>
        /\ \E kind \in {"retry", "cancel"} : request' = [request EXCEPT ![kind] = r]
    BY <1>6 DEF S!Retry, S!Cancel, S!Ask
  <2>2. DOMAIN r = DOMAIN S!NoRequest
    BY NewRequests
  <2> QED BY <2>1, <2>2, AnotherMoves DEF S!Commands
<1> QED BY <1>1, <1>2, <1>3, <1>4, <1>5, <1>6 DEF S!Reader

LEMMA ArrivalsStep ==
  ASSUME S!RequestsAreRecorded, S!Arrivals
  PROVE  \/ Quiet \/ OthersMove
         \/ \E kind \in S!Commands : S!WorkQueued(kind) \/ S!FlowAnswered(kind)
<1> USE DEF S!server, S!reads, S!watch, S!autosave, S!flows, S!approval, S!render
<1>1. CASE S!DetailArrives \/ S!DocumentArrives \/ S!Poll \/ S!SaveArrives \/ S!SaveConflicts
  BY <1>1 DEF S!DetailArrives, S!DocumentArrives, S!Poll, S!SaveArrives, S!SaveConflicts, Quiet
<1>2. CASE S!CancelAnswered
  <2>1. S!Closes("cancel") /\ UNCHANGED <<ops, S!regeneration, flow, resolving>>
    BY <1>2 DEF S!CancelAnswered
  <2> QED BY <2>1, ClosingMoves DEF S!Commands
<1>3. CASE S!CheckAnswered \/ S!ApproveAnswered
  <2>1. UNCHANGED <<ops, S!regeneration, flow, resolving>>
        /\ \E kind \in {"check", "approve"} :
              S!Closes(kind) \/ (\E stage \in {"views", "reading"} : S!Waits(kind, stage))
    BY <1>3 DEF S!CheckAnswered, S!ApproveAnswered
  <2> QED BY <2>1, ClosingMoves DEF S!Commands
<1> QED BY <1>1, <1>2, <1>3 DEF S!Arrivals

\* Every step, by what it does to the commands, the runs, the comparison and the flow.
StepKinds ==
  \/ Quiet \/ OthersMove \/ S!SettleDiff \/ S!DismissDiff \/ S!Regenerate
  \/ S!FlowContinues \/ S!FollowLink \/ S!ConfirmFact
  \/ \E template \in Templates : S!ChooseTemplate(template)
  \/ \E kind \in S!Commands : \/ S!Serve(kind) \/ S!WorkQueued(kind) \/ S!FlowAnswered(kind)
                            \/ S!RequestFails(kind)
  \/ \E id \in DOMAIN ops : S!RunSucceeds(id) \/ S!RunIsLate(id) \/ S!RunFails(id)

LEMMA NextSteps ==
  ASSUME S!RequestsAreRecorded, [S!Next]_(S!vars)
  PROVE  StepKinds
<1>1. CASE UNCHANGED S!vars
  BY <1>1 DEF S!vars, S!server, S!flows, Quiet, StepKinds
<1>2. CASE S!Next
  <2>1. CASE S!Effect
    BY <2>1, EffectsStep DEF StepKinds
  <2>2. CASE S!Reader
    BY <2>2, ReaderSteps DEF StepKinds
  <2>3. CASE S!Arrivals
    BY <2>3, ArrivalsStep DEF StepKinds
  <2>4. CASE S!ServerAnswers
    <3>1. CASE S!DetailServed \/ S!DocumentServed \/ S!ServeSave
      BY <3>1 DEF S!DetailServed, S!DocumentServed, S!ServeSave, S!server, S!flows, Quiet, StepKinds
    <3> QED BY <2>4, <3>1 DEF S!ServerAnswers, StepKinds
  <2>5. CASE S!RunEnds
    BY <2>5 DEF S!RunEnds, StepKinds
  <2>6. CASE S!Surroundings
    <3>1. CASE S!OtherTab \/ S!FactsChange \/ S!Focus \/ S!SaveFails
      BY <3>1 DEF S!OtherTab, S!FactsChange, S!Focus, S!SaveFails, S!Elsewhere, S!server, S!flows,
           Quiet, StepKinds
    <3> QED BY <2>6, <3>1 DEF S!Surroundings, StepKinds
  <2> QED BY <1>2, <2>1, <2>2, <2>3, <2>4, <2>5, <2>6 DEF S!Next, S!Machine
<1> QED BY <1>1, <1>2
-----------------------------------------------------------------------------
(* The comparison of a regeneration *)

\* The runs a step finds go on with what they were given.
RunsGoOn ==
  /\ S!OpsAreRecorded' /\ DOMAIN ops \subseteq DOMAIN ops'
  /\ \A i \in DOMAIN ops : ops'[i].source = ops[i].source
\* A press goes on with what it asked for, and its answer names a run that was given that.
PressGoesOn ==
  LET press == request["regenerate"]
      next == request'["regenerate"]
  IN  \/ next = press
      \/ next = S!NoRequest
      \/ /\ press.stage # "none" /\ next.hash = press.hash
         /\ next.verdict = "accepted" =>
              next.op \in DOMAIN ops' /\ ops'[next.op].source = next.hash

LEMMA SameRuns == ASSUME S!OpsAreRecorded, UNCHANGED ops PROVE RunsGoOn
  BY DEF S!OpsAreRecorded, RunsGoOn

LEMMA ComparisonStays ==
  ASSUME S!DiffInvariant, RunsGoOn, S!RequestsAreRecorded', PressGoesOn, UNCHANGED snapshot,
         diff' \in {diff, None}
  PROVE  S!DiffInvariant'
<1>1. S!PressIsOfItsCapture'
  BY DEF S!DiffInvariant, RunsGoOn, PressGoesOn, S!PressIsOfItsCapture, S!NoRequest
<1>2. \A id, text : S!WasGiven(id, text) => S!WasGiven(id, text)'
  BY DEF S!WasGiven, RunsGoOn
<1>3. snapshot' # None => /\ DOMAIN snapshot' = {"op", "hash", "text"}
                          /\ snapshot'.op # 0 => S!WasGiven(snapshot.op, snapshot.text)'
  BY <1>2 DEF S!DiffInvariant
<1>4. diff' # None => S!WasGiven(diff.op, diff.before)' /\ diff' = diff
  BY <1>2 DEF S!DiffInvariant
<1> QED BY <1>1, <1>3, <1>4 DEF S!DiffInvariant, RunsGoOn, S!WasGiven

LEMMA RunsAppended ==
  ASSUME S!OpsAreRecorded, NEW run, DOMAIN run = S!OperationFields, ops' = Append(ops, run)
  PROVE  RunsGoOn /\ S!Latest + 1 \in DOMAIN ops' /\ ops'[S!Latest + 1] = run
<1> DEFINE Runs == {ops[i] : i \in DOMAIN ops} \union {run}
<1>1. ops \in Seq(Runs)
  <2>1. ops \in Seq({ops[i] : i \in DOMAIN ops})
    BY DEF S!OpsAreRecorded
  <2> QED BY <2>1
<1>2. /\ ops' \in Seq(Runs) /\ Len(ops') = Len(ops) + 1
      /\ \A i \in 1 .. Len(ops) : ops'[i] = ops[i]
      /\ ops'[Len(ops) + 1] = run
  BY <1>1, AppendProperties
<1>3. DOMAIN ops = 1 .. Len(ops) /\ DOMAIN ops' = 1 .. Len(ops) + 1 /\ Len(ops) \in Nat
  BY <1>1, <1>2, LenProperties
<1>4. ops' \in Seq({ops'[i] : i \in DOMAIN ops'})
  BY <1>2, <1>3, LenProperties
<1>5. \A i \in DOMAIN ops' : DOMAIN ops'[i] = S!OperationFields
  BY <1>2, <1>3 DEF S!OpsAreRecorded
<1> QED BY <1>2, <1>3, <1>4, <1>5 DEF RunsGoOn, S!OpsAreRecorded, S!Latest

LEMMA StatusMoves ==
  ASSUME S!OpsAreRecorded, NEW id, NEW status, ops' = [ops EXCEPT ![id].status = status]
  PROVE  RunsGoOn
<1> DEFINE Runs == {ops[i] : i \in DOMAIN ops}
<1>1. ops \in Seq(Runs)
  BY DEF S!OpsAreRecorded
<1>2. Len(ops) \in Nat /\ DOMAIN ops = 1 .. Len(ops)
  BY <1>1, LenProperties
<1>3. DOMAIN ops' = DOMAIN ops
  OBVIOUS
<1>4. \A i \in DOMAIN ops :
        DOMAIN ops'[i] = S!OperationFields /\ ops'[i].source = ops[i].source
  BY DEF S!OpsAreRecorded, S!OperationFields
<1>5. ops' \in [1 .. Len(ops) -> {ops'[j] : j \in DOMAIN ops'}]
  BY <1>2
<1>6. ops' \in Seq({ops'[i] : i \in DOMAIN ops'})
  <2> DEFINE T == {ops'[j] : j \in DOMAIN ops'}
  <2>1. ops' \in [1 .. Len(ops) -> T]
    BY <1>5
  <2> HIDE DEF T
  <2>2. ops' \in Seq(T)
    BY <1>2, <2>1, SeqDef
  <2> QED BY <2>2 DEF T
<1> QED BY <1>3, <1>4, <1>6 DEF RunsGoOn, S!OpsAreRecorded

\* What a command sends or gets back, in the fields that the comparison reads.
LEMMA Answers ==
  ASSUME S!RequestsAreRecorded, NEW kind \in S!Commands, NEW verdict,
         request' = S!Answered(kind, verdict)
  PROVE  /\ S!RequestsAreRecorded'
         /\ request'[kind].verdict = verdict /\ request'[kind].hash = request[kind].hash
         /\ request'[kind].stage = "answered"
         /\ \A other \in S!Commands \ {kind} : request'[other] = request[other]
  BY NewRequests DEF S!Answered, S!RequestsAreRecorded

LEMMA Acceptances ==
  ASSUME S!RequestsAreRecorded, NEW kind \in S!Commands, NEW id, NEW status,
         request' = S!Accepted(kind, id, status)
  PROVE  /\ S!RequestsAreRecorded'
         /\ request'[kind].op = id /\ request'[kind].hash = request[kind].hash
         /\ request'[kind].stage = "answered"
         /\ \A other \in S!Commands \ {kind} : request'[other] = request[other]
  BY NewRequests DEF S!Accepted, S!RequestsAreRecorded

\* A command that asks for work is answered by a run that was given the document as it is.
LEMMA Enqueued ==
  ASSUME S!OpsAreRecorded, S!RequestsAreRecorded, NEW kind \in S!Commands, NEW type, NEW key,
         S!Enqueue(kind, type, key)
  PROVE  /\ RunsGoOn /\ S!RequestsAreRecorded'
         /\ request'[kind].hash = request[kind].hash /\ request'[kind].stage = "answered"
         /\ request'[kind].verdict = "accepted" =>
              request'[kind].op \in DOMAIN ops' /\ ops'[request'[kind].op].source = S!Hash(doc)
         /\ \A other \in S!Commands \ {kind} : request'[other] = request[other]
<1> DEFINE run == [type |-> type, key |-> key, source |-> S!Hash(doc), status |-> "live"]
<1>1. CASE ops' = Append(ops, run) /\ request' = S!Accepted(kind, S!Latest + 1, "live")
  <2>1. DOMAIN run = S!OperationFields /\ run.source = S!Hash(doc)
    BY DEF S!OperationFields
  <2> HIDE DEF run
  <2> QED BY <1>1, <2>1, RunsAppended, Acceptances
<1>2. ASSUME NEW i \in DOMAIN ops, UNCHANGED ops,
             request' = IF ops[i].source = S!Hash(doc) THEN S!Accepted(kind, i, ops[i].status)
                        ELSE S!Answered(kind, "refused")
      PROVE  /\ RunsGoOn /\ S!RequestsAreRecorded'
             /\ request'[kind].hash = request[kind].hash /\ request'[kind].stage = "answered"
             /\ request'[kind].verdict = "accepted" =>
                  request'[kind].op \in DOMAIN ops' /\ ops'[request'[kind].op].source = S!Hash(doc)
             /\ \A other \in S!Commands \ {kind} : request'[other] = request[other]
  <2>1. CASE ops[i].source = S!Hash(doc)
    BY <1>2, <2>1, SameRuns, Acceptances
  <2>2. CASE ops[i].source # S!Hash(doc)
    BY <1>2, <2>2, SameRuns, Answers
  <2> QED BY <2>1, <2>2
<1> QED BY <1>1, <1>2 DEF S!Enqueue

\* What serving a command leaves of it and of the others.
LEMMA Served ==
  ASSUME S!OpsAreRecorded, S!RequestsAreRecorded, NEW kind \in S!Commands, S!Serve(kind)
  PROVE  /\ RunsGoOn /\ S!RequestsAreRecorded' /\ PressGoesOn
         /\ \A other \in S!Commands \ {kind} : request'[other] = request[other]
<1>0. request[kind].stage = "sent"
  BY DEF S!Serve
<1>1. CASE kind = "regenerate"
  <2>1. S!ServeRegenerate
    BY <1>1 DEF S!Serve
  <2>2. CASE S!Current("regenerate")
    BY <1>0, <1>1, <2>1, <2>2, Enqueued DEF S!ServeRegenerate, S!Current, PressGoesOn
  <2>3. CASE ~S!Current("regenerate")
    BY <1>0, <1>1, <2>1, <2>3, Answers, SameRuns DEF S!ServeRegenerate, PressGoesOn, S!server
  <2> QED BY <2>2, <2>3
<1>2. CASE kind = "render"
  <2>1. S!ServeRender
    BY <1>2 DEF S!Serve
  <2>2. \/ S!Enqueue("render", "render_document", <<"of", S!Hash(doc)>>)
        \/ request' = S!Answered("render", "refused") /\ UNCHANGED ops
    BY <2>1 DEF S!ServeRender, S!server
  <2> QED BY <1>2, <2>2, Enqueued, Answers, SameRuns DEF PressGoesOn, S!Commands
<1>3. CASE kind = "retry"
  <2>1. S!ServeRetry
    BY <1>3 DEF S!Serve
  <2>2. \/ S!Enqueue("retry", ops[request["retry"].op].type, <<"retry", request["retry"].op>>)
        \/ request' = S!Answered("retry", "refused") /\ UNCHANGED ops
    BY <2>1 DEF S!ServeRetry, S!server
  <2>3. CASE S!Enqueue("retry", ops[request["retry"].op].type, <<"retry", request["retry"].op>>)
    BY <1>3, <2>3, Enqueued DEF PressGoesOn, S!Commands
  <2>4. CASE request' = S!Answered("retry", "refused") /\ UNCHANGED ops
    BY <1>3, <2>4, Answers, SameRuns DEF PressGoesOn, S!Commands
  <2> QED BY <2>2, <2>3, <2>4
<1>4. CASE kind = "cancel"
  <2> DEFINE id == request["cancel"].op
  <2>1. S!ServeCancel
    BY <1>4 DEF S!Serve
  <2>2. PICK status : ops' = [ops EXCEPT ![id].status = status]
                      /\ request' = S!Accepted("cancel", id, status)
    BY <2>1 DEF S!ServeCancel
  <2>3. RunsGoOn
    BY <2>2, StatusMoves
  <2> QED BY <1>4, <2>2, <2>3, Acceptances DEF PressGoesOn, S!Commands
<1>5. CASE kind \in {"check", "approve", "template", "confirm"}
  <2>1. S!ServeCheck \/ S!ServeApprove \/ S!ServeTemplate \/ S!ServeConfirm
    BY <1>5 DEF S!Serve
  <2>2. UNCHANGED ops /\ \E verdict : request' = S!Answered(kind, verdict)
    <3>1. CASE kind = "check"
      BY <1>5, <3>1 DEF S!Serve, S!ServeCheck, S!server
    <3>2. CASE kind = "approve"
      BY <1>5, <3>2 DEF S!Serve, S!ServeApprove, S!server
    <3>3. CASE kind = "template"
      BY <1>5, <3>3 DEF S!Serve, S!ServeTemplate, S!server
    <3>4. CASE kind = "confirm"
      BY <1>5, <3>4 DEF S!Serve, S!ServeConfirm, S!server
    <3> QED BY <1>5, <3>1, <3>2, <3>3, <3>4
  <2> QED BY <1>5, <2>2, Answers, SameRuns DEF PressGoesOn, S!Commands
<1> QED BY <1>1, <1>2, <1>3, <1>4, <1>5 DEF S!Commands

\* The answer of a run queued: the capture is bound to it if it was the press's.
LEMMA BoundToItsRun ==
  ASSUME S!DiffInvariant, NEW kind \in S!Commands, S!WorkQueued(kind)
  PROVE  S!DiffInvariant'
<1> DEFINE answer == request[kind]
<1>1. /\ answer.stage = "answered" /\ UNCHANGED <<ops, diff>> /\ S!Closes(kind)
      /\ snapshot' = IF answer.verdict = "accepted" THEN S!Bound(kind, answer.op) ELSE snapshot
  BY DEF S!WorkQueued, S!Reply, S!server
<1>2. RunsGoOn
  BY <1>1, SameRuns DEF S!DiffInvariant
<1>3. /\ S!RequestsAreRecorded' /\ request'[kind] = S!NoRequest
      /\ \A other \in S!Commands \ {kind} : request'[other] = request[other]
  BY <1>1, Updated DEF S!Closes, S!DiffInvariant
<1>4. PressGoesOn
  BY <1>3 DEF PressGoesOn, S!Commands
<1>5. CASE snapshot' = snapshot
  BY <1>1, <1>2, <1>3, <1>4, <1>5, ComparisonStays
<1>6. CASE snapshot' # snapshot
  <2>1. /\ kind = "regenerate" /\ snapshot # None /\ snapshot.op = 0
        /\ answer.verdict = "accepted" /\ snapshot' = [snapshot EXCEPT !.op = answer.op]
    BY <1>1, <1>6 DEF S!Bound
  <2>2. /\ answer.op \in DOMAIN ops /\ ops[answer.op].source = answer.hash
        /\ answer.hash[1] = snapshot.text
    BY <1>1, <2>1 DEF S!DiffInvariant, S!PressIsOfItsCapture
  <2>3. DOMAIN snapshot = {"op", "hash", "text"}
    BY <2>1 DEF S!DiffInvariant
  <2>4. DOMAIN snapshot' = {"op", "hash", "text"} /\ snapshot'.op = answer.op
        /\ snapshot'.text = snapshot.text
    BY <2>1, <2>3
  <2>5. S!WasGiven(snapshot.op, snapshot.text)'
    BY <1>1, <2>2, <2>4 DEF S!WasGiven
  <2>6. S!PressIsOfItsCapture'
    BY <1>3, <2>1 DEF S!PressIsOfItsCapture, S!NoRequest
  <2>7. S!OpsAreRecorded'
    BY <1>2 DEF RunsGoOn
  <2>8. diff' # None => S!WasGiven(diff.op, diff.before)'
    BY <1>1 DEF S!DiffInvariant, S!WasGiven
  <2> QED BY <1>1, <1>3, <2>4, <2>5, <2>6, <2>7, <2>8 DEF S!DiffInvariant, S!WasGiven
<1> QED BY <1>5, <1>6

LEMMA CapturedAtThePress ==
  ASSUME S!DiffInvariant, S!Regenerate
  PROVE  S!DiffInvariant'
<1>1. UNCHANGED ops /\ S!Captured /\ S!AsksRegeneration
  BY DEF S!Regenerate, S!server
<1>2. S!RequestsAreRecorded' /\ request'["regenerate"] = S!About(S!Hash(read))
  BY <1>1, NewRequests, Updated DEF S!AsksRegeneration, S!DiffInvariant, S!Commands
<1>3. S!PressIsOfItsCapture'
  BY <1>1, <1>2, NewRequests DEF S!PressIsOfItsCapture, S!Captured, S!Hash
<1> QED BY <1>1, <1>2, <1>3 DEF S!DiffInvariant, S!Captured, S!OpsAreRecorded

LEMMA SettledOfItsRun ==
  ASSUME S!DiffInvariant, S!SettleDiff
  PROVE  S!DiffInvariant'
<1>1. UNCHANGED <<ops, request>> /\ snapshot' = None /\ snapshot # None /\ snapshot.op # 0
  BY DEF S!SettleDiff, S!DiffDue, S!Ours, S!server
<1>2. diff' \in {diff, [op |-> snapshot.op, before |-> snapshot.text, after |-> read.text]}
  BY DEF S!SettleDiff
<1>3. S!OpsAreRecorded' /\ S!RequestsAreRecorded' /\ S!PressIsOfItsCapture'
  BY <1>1 DEF S!DiffInvariant, S!OpsAreRecorded, S!RequestsAreRecorded, S!PressIsOfItsCapture
<1>4. diff' # None => S!WasGiven(diff'.op, diff'.before)
  BY <1>1, <1>2 DEF S!DiffInvariant
<1> QED BY <1>1, <1>3, <1>4 DEF S!DiffInvariant, S!WasGiven

\* The next await of a flow sends a command of its own or none.
LEMMA SentByAFlow ==
  ASSUME S!RequestsAreRecorded, NEW step, S!Begins(step)
  PROVE  /\ S!RequestsAreRecorded'
         /\ request'["regenerate"] = request["regenerate"]
         /\ \A kind \in {"confirm", "template"} :
              step # kind => request'[kind] = request[kind]
<1> DEFINE chosen == [S!About(S!Hash(read)) EXCEPT !.template = flow.content]
<1>1. CASE step = "confirm"
  <2>1. request' = [request EXCEPT !["confirm"] = S!About(None)]
    BY <1>1 DEF S!Begins
  <2>2. DOMAIN S!About(None) = DOMAIN S!NoRequest
    BY NewRequests
  <2> QED BY <1>1, <2>1, <2>2, Updated DEF S!Commands
<1>2. CASE step = "template"
  <2>1. request' = [request EXCEPT !["template"] = chosen]
    BY <1>2 DEF S!Begins
  <2>2. DOMAIN chosen = DOMAIN S!NoRequest
    BY NewRequests
  <2> HIDE DEF chosen
  <2> QED BY <1>2, <2>1, <2>2, Updated DEF S!Commands
<1>3. CASE step = "check"
  <2>1. request' = [request EXCEPT !["check"] = S!About(S!Hash(read))]
    BY <1>3 DEF S!Begins
  <2>2. DOMAIN S!About(S!Hash(read)) = DOMAIN S!NoRequest
    BY NewRequests
  <2> QED BY <1>3, <2>1, <2>2, Updated DEF S!Commands
<1>4. CASE step \notin {"confirm", "template", "check"}
  BY <1>4 DEF S!Begins, S!RequestsAreRecorded
<1> QED BY <1>1, <1>2, <1>3, <1>4

LEMMA ComparisonKeeps ==
  ASSUME S!DiffInvariant, [S!Next]_(S!vars)
  PROVE  S!DiffInvariant'
<1>1. S!OpsAreRecorded /\ S!RequestsAreRecorded /\ StepKinds
  BY NextSteps DEF S!DiffInvariant
<1>2. CASE Quiet
  <2>1. RunsGoOn /\ S!RequestsAreRecorded' /\ PressGoesOn /\ UNCHANGED <<snapshot, diff>>
    BY <1>1, <1>2, SameRuns DEF Quiet, PressGoesOn, S!RequestsAreRecorded, S!regeneration
  <2> QED BY <2>1, ComparisonStays
<1>3. CASE OthersMove
  <2>1. RunsGoOn /\ S!RequestsAreRecorded' /\ PressGoesOn /\ UNCHANGED <<snapshot, diff>>
    BY <1>1, <1>3, SameRuns DEF OthersMove, PressGoesOn, S!regeneration
  <2> QED BY <2>1, ComparisonStays
<1>4. CASE S!SettleDiff
  BY <1>4, SettledOfItsRun
<1>5. CASE S!DismissDiff
  <2>1. RunsGoOn /\ S!RequestsAreRecorded' /\ PressGoesOn /\ UNCHANGED snapshot /\ diff' = None
    BY <1>1, <1>5, SameRuns DEF S!DismissDiff, PressGoesOn, S!RequestsAreRecorded, S!server
  <2> QED BY <2>1, ComparisonStays
<1>6. CASE S!Regenerate
  BY <1>6, CapturedAtThePress
<1>7. CASE S!FlowContinues
  <2>1. UNCHANGED <<ops, snapshot, diff>> /\ \E step : S!Begins(step)
    BY <1>7 DEF S!FlowContinues, S!Advances, S!server, S!regeneration
  <2>2. PICK step : S!Begins(step)
    BY <2>1
  <2>3. S!RequestsAreRecorded' /\ request'["regenerate"] = request["regenerate"]
    BY <1>1, <2>2, SentByAFlow
  <2>4. RunsGoOn /\ PressGoesOn
    BY <1>1, <2>1, <2>3, SameRuns DEF PressGoesOn
  <2> QED BY <2>1, <2>3, <2>4, ComparisonStays
<1>8. CASE S!FollowLink \/ S!ConfirmFact \/ (\E template \in Templates : S!ChooseTemplate(template))
  <2>1. UNCHANGED <<ops, request, snapshot, diff>>
    BY <1>8 DEF S!FollowLink, S!ConfirmFact, S!ChooseTemplate, S!Starts, S!server, S!regeneration
  <2>2. RunsGoOn /\ S!RequestsAreRecorded' /\ PressGoesOn
    BY <1>1, <2>1, SameRuns DEF PressGoesOn, S!RequestsAreRecorded
  <2> QED BY <2>1, <2>2, ComparisonStays
<1>9. ASSUME NEW kind \in S!Commands,
             S!Serve(kind) \/ S!WorkQueued(kind) \/ S!FlowAnswered(kind) \/ S!RequestFails(kind)
      PROVE  S!DiffInvariant'
  <2>1. CASE S!Serve(kind)
    <3>1. UNCHANGED <<snapshot, diff>>
      BY <2>1 DEF S!Serve, S!regeneration
    <3> QED BY <1>1, <2>1, <3>1, Served, ComparisonStays
  <2>2. CASE S!WorkQueued(kind)
    BY <2>2, BoundToItsRun
  <2>3. CASE S!FlowAnswered(kind)
    <3>1. UNCHANGED <<ops, snapshot, diff>> /\ S!Closes(kind)
      BY <2>3 DEF S!FlowAnswered, S!server, S!regeneration
    <3>2. RunsGoOn /\ S!RequestsAreRecorded' /\ PressGoesOn
      BY <1>1, <3>1, SameRuns, Updated DEF S!Closes, PressGoesOn, S!Commands
    <3> QED BY <3>1, <3>2, ComparisonStays
  <2>4. CASE S!RequestFails(kind)
    <3>1. UNCHANGED <<ops, snapshot, diff>> /\ request' = S!Answered(kind, "lost")
          /\ request[kind].stage # "none"
      BY <2>4 DEF S!RequestFails, S!server, S!regeneration
    <3>2. RunsGoOn /\ S!RequestsAreRecorded' /\ PressGoesOn
      BY <1>1, <3>1, SameRuns, Answers DEF PressGoesOn, S!Commands
    <3> QED BY <3>1, <3>2, ComparisonStays
  <2> QED BY <1>9, <2>1, <2>2, <2>3, <2>4
<1>10. ASSUME NEW id \in DOMAIN ops, S!RunSucceeds(id) \/ S!RunIsLate(id) \/ S!RunFails(id)
       PROVE  S!DiffInvariant'
  <2>1. /\ \E status : ops' = [ops EXCEPT ![id].status = status]
        /\ UNCHANGED <<request, snapshot, diff>>
    BY <1>10 DEF S!RunSucceeds, S!RunIsLate, S!RunFails, S!Ends, S!regeneration
  <2>2. RunsGoOn /\ S!RequestsAreRecorded' /\ PressGoesOn
    BY <1>1, <2>1, StatusMoves DEF PressGoesOn, S!RequestsAreRecorded
  <2> QED BY <2>1, <2>2, ComparisonStays
<1> QED BY <1>1, <1>2, <1>3, <1>4, <1>5, <1>6, <1>7, <1>8, <1>9, <1>10 DEF StepKinds

LEMMA NothingToCompareFirst == S!Init => S!DiffInvariant
<1> SUFFICES ASSUME S!Init PROVE S!DiffInvariant
  OBVIOUS
<1>1. S!OpsAreRecorded
  BY EmptySeq DEF S!Init, S!OpsAreRecorded
<1>2. S!RequestsAreRecorded /\ request["regenerate"] = S!NoRequest
  BY DEF S!Init, S!RequestsAreRecorded, S!Commands
<1> QED BY <1>1, <1>2 DEF S!Init, S!DiffInvariant, S!PressIsOfItsCapture, S!NoRequest

LEMMA ComparisonsAreOfTheirRun == S!Spec => []S!DiffInvariant
<1>1. S!DiffInvariant /\ [S!Next]_(S!vars) => S!DiffInvariant'
  BY ComparisonKeeps
<1> QED BY <1>1, NothingToCompareFirst, PTL DEF S!Spec

\* The before and after on the screen are of the run that the press was bound to
\* (useRegenerationDiff), through any other runs, reads and edits in between.
THEOREM DiffsAreOfTheirPress == S!Spec => []DiffIsOfItsPress
<1>1. S!DiffInvariant => DiffIsOfItsPress
  <2>1. ASSUME S!DiffInvariant,
         diff # None PROVE diff.op # 0 /\ ops[diff.op].source[1] = diff.before
    <3>1. diff.op \in DOMAIN ops /\ ops[diff.op].source[1] = diff.before
      BY <2>1 DEF S!DiffInvariant, S!WasGiven
    <3>2. DOMAIN ops = 1 .. Len(ops)
      <4>1. ops \in Seq({ops[i] : i \in DOMAIN ops})
        BY <2>1 DEF S!DiffInvariant, S!OpsAreRecorded
      <4> QED BY <4>1, LenProperties
    <3> QED BY <3>1, <3>2
  <2> QED BY <2>1 DEF DiffIsOfItsPress
<1> QED BY <1>1, ComparisonsAreOfTheirRun, PTL

-----------------------------------------------------------------------------
(* The longer flows *)

Goals == {"link", "fact", "template"}
Awaits == {"settle", "views", "document", "leave", "confirm", "try", "fresh", "check", "template",
           "both", "render"}

LEMMA FlowsAreSequences ==
  ASSUME NEW goal \in Goals
  PROVE  LET steps == S!StepsOf(goal)
         IN  /\ steps \in Seq(Awaits) /\ Len(steps) \in Nat \ {0} /\ DOMAIN steps = 1 .. Len(steps)
             /\ steps[Len(steps)] \notin {"confirm", "template"}
<1> DEFINE P(steps) ==
      /\ steps \in Seq(Awaits) /\ Len(steps) \in Nat \ {0} /\ DOMAIN steps = 1 .. Len(steps)
      /\ steps[Len(steps)] \notin {"confirm", "template"}
<1>1. P(S!LinkSteps)
  <2>1. S!LinkSteps \in Seq(Awaits) /\ Len(S!LinkSteps) = 5 /\ S!LinkSteps[5] = "leave"
    BY DEF S!LinkSteps, Awaits
  <2>2. DOMAIN S!LinkSteps = 1 .. Len(S!LinkSteps)
    BY <2>1, LenProperties
  <2> QED BY <2>1, <2>2
<1>2. P(S!FactSteps)
  <2>1. S!FactSteps \in Seq(Awaits) /\ Len(S!FactSteps) = 11 /\ S!FactSteps[11] = "check"
    BY DEF S!FactSteps, Awaits
  <2>2. DOMAIN S!FactSteps = 1 .. Len(S!FactSteps)
    BY <2>1, LenProperties
  <2> QED BY <2>1, <2>2
<1>3. P(S!TemplateSteps)
  <2>1. S!TemplateSteps \in Seq(Awaits) /\ Len(S!TemplateSteps) = 6 /\ S!TemplateSteps[6] = "render"
    BY DEF S!TemplateSteps, Awaits
  <2>2. DOMAIN S!TemplateSteps = 1 .. Len(S!TemplateSteps)
    BY <2>1, LenProperties
  <2> QED BY <2>1, <2>2
<1>4. S!StepsOf(goal) \in {S!LinkSteps, S!FactSteps, S!TemplateSteps}
  BY DEF S!StepsOf
<1>5. P(S!StepsOf(goal))
  <2> HIDE DEF P
  <2> QED BY <1>1, <1>2, <1>3, <1>4
<1> QED BY <1>5

\* What is left after the k-th await, and what comes next.
LEMMA FlowGoesOn ==
  ASSUME NEW steps \in Seq(Awaits), NEW k \in 1 .. Len(steps)
  PROVE  /\ S!From(steps, k) # <<>> /\ Head(S!From(steps, k)) = steps[k]
         /\ k < Len(steps) => Tail(S!From(steps, k)) = S!From(steps, k + 1)
         /\ k = Len(steps) => Tail(S!From(steps, k)) = <<>>
<1>1. Len(steps) \in Nat /\ DOMAIN steps = 1 .. Len(steps)
  BY LenProperties
<1>2. /\ S!From(steps, k) \in Seq(Awaits) /\ Len(S!From(steps, k)) = Len(steps) - k + 1
      /\ \A i \in 1 .. Len(steps) - k + 1 : S!From(steps, k)[i] = steps[k + i - 1]
  BY <1>1, SubSeqProperties DEF S!From
<1>3. S!From(steps, k) # <<>> /\ Head(S!From(steps, k)) = steps[k]
  BY <1>1, <1>2, HeadTailProperties, EmptySeq
<1>4. /\ Tail(S!From(steps, k)) \in Seq(Awaits) /\ Len(Tail(S!From(steps, k))) = Len(steps) - k
      /\ \A i \in 1 .. Len(steps) - k : Tail(S!From(steps, k))[i] = steps[k + i]
  <2>1. /\ Tail(S!From(steps, k)) \in Seq(Awaits)
        /\ Len(Tail(S!From(steps, k))) = Len(S!From(steps, k)) - 1
        /\ \A i \in 1 .. Len(Tail(S!From(steps, k))) :
              Tail(S!From(steps, k))[i] = S!From(steps, k)[i + 1]
    BY <1>2, <1>3, HeadTailProperties
  <2> QED BY <1>1, <1>2, <2>1
<1> DEFINE t == Tail(S!From(steps, k))
           u == S!From(steps, k + 1)
<1>5. ASSUME k < Len(steps) PROVE t = u
  <2>1. /\ u \in Seq(Awaits) /\ Len(u) = Len(steps) - k
        /\ \A i \in 1 .. Len(steps) - k : u[i] = steps[k + i]
    <3>1. k + 1 \in 1 .. Len(steps) /\ Len(steps) \in 0 .. Len(steps)
      BY <1>1, <1>5
    <3> QED BY <1>1, <1>5, <3>1, SubSeqProperties DEF S!From
  <2> HIDE DEF t, u
  <2>2. t \in Seq(Awaits) /\ Len(t) = Len(u) /\ \A i \in 1 .. Len(t) : t[i] = u[i]
    BY <1>4, <2>1 DEF t
  <2> QED BY <2>1, <2>2, SeqEqual
<1>6. ASSUME k = Len(steps) PROVE t = <<>>
  <2>1. t \in Seq(Awaits) /\ Len(t) = 0
    BY <1>1, <1>4, <1>6
  <2> HIDE DEF t
  <2> QED BY <2>1, EmptySeq
<1> QED BY <1>3, <1>5, <1>6

\* Where a flow is that has a step to take.
LEMMA FlowIsSomewhere ==
  ASSUME S!FlowInvariant, flow.goal # "none"
  PROVE  /\ flow.goal \in Goals /\ flow.steps # <<>>
         /\ \E k \in 1 .. Len(S!StepsOf(flow.goal)) :
              /\ flow.steps = S!From(S!StepsOf(flow.goal), k) /\ S!Step = S!StepsOf(flow.goal)[k]
              /\ k < Len(S!StepsOf(flow.goal)) =>
                    Tail(flow.steps) = S!From(S!StepsOf(flow.goal), k + 1)
              /\ k = Len(S!StepsOf(flow.goal)) => Tail(flow.steps) = <<>>
<1>1. flow.goal \in Goals
  BY DEF S!FlowInvariant, Goals
<1> DEFINE steps == S!StepsOf(flow.goal)
<1>2. steps \in Seq(Awaits)
  BY <1>1, FlowsAreSequences
<1>3. PICK k \in 1 .. Len(steps) : flow.steps = S!From(steps, k)
  BY DEF S!FlowInvariant
<1> HIDE DEF steps
<1>4. /\ flow.steps # <<>> /\ Head(flow.steps) = steps[k]
      /\ k < Len(steps) => Tail(flow.steps) = S!From(steps, k + 1)
      /\ k = Len(steps) => Tail(flow.steps) = <<>>
  BY <1>2, <1>3, FlowGoesOn
<1> QED BY <1>1, <1>3, <1>4 DEF S!Step, steps

LEMMA WholeFlow ==
  ASSUME NEW goal \in Goals
  PROVE  1 \in 1 .. Len(S!StepsOf(goal)) /\ S!StepsOf(goal) = S!From(S!StepsOf(goal), 1)
<1> DEFINE steps == S!StepsOf(goal)
<1>1. steps \in Seq(Awaits) /\ Len(steps) \in Nat \ {0}
  BY FlowsAreSequences
<1> HIDE DEF steps
<1>2. S!From(steps, 1) = steps
  <2>1. /\ S!From(steps, 1) \in Seq(Awaits) /\ Len(S!From(steps, 1)) = Len(steps)
        /\ \A i \in 1 .. Len(steps) : S!From(steps, 1)[i] = steps[i]
    BY <1>1, SubSeqProperties DEF S!From
  <2> QED BY <1>1, <2>1, SeqEqual
<1> QED BY <1>1, <1>2 DEF steps

LEMMA FlowStays ==
  ASSUME S!FlowInvariant, UNCHANGED <<flow, resolving>>, S!RequestsAreRecorded',
         \A kind \in {"confirm", "template"} :
            request'[kind].stage # "none" => request[kind].stage # "none"
  PROVE  S!FlowInvariant'
  BY DEF S!FlowInvariant, S!Pending, S!Step

LEMMA FlowEnds ==
  ASSUME S!RequestsAreRecorded', NEW error, S!EndsFlow(error),
         \A kind \in {"confirm", "template"} : request'[kind].stage = "none"
  PROVE  S!FlowInvariant'
<1>1. flow' = S!NoFlow /\ resolving' = FALSE
  BY DEF S!EndsFlow
<1> QED BY <1>1 DEF S!FlowInvariant, S!NoFlow, S!Pending

LEMMA NobodyWaits ==
  ASSUME S!FlowInvariant, S!Step \notin {"confirm", "template"}
  PROVE  \A kind \in {"confirm", "template"} : request[kind].stage = "none"
  BY DEF S!FlowInvariant, S!Pending

LEMMA FlowStarts ==
  ASSUME S!FlowInvariant, S!OnPage, ~resolving, NEW goal \in Goals, NEW content,
         S!Starts(goal, S!StepsOf(goal), content)
  PROVE  S!FlowInvariant'
<1>1. flow.goal = "none"
  BY DEF S!OnPage, S!InDialog, S!FlowInvariant
<1>2. \A kind \in {"confirm", "template"} : request[kind].stage = "none"
  BY <1>1, NobodyWaits DEF S!FlowInvariant, S!Step
<1>3. /\ DOMAIN flow' = DOMAIN S!NoFlow /\ flow'.goal = goal /\ flow'.steps = S!StepsOf(goal)
      /\ resolving' = (goal # "template") /\ UNCHANGED request
  BY DEF S!Starts, S!NoFlow
<1>4. \E k \in 1 .. Len(S!StepsOf(goal)) : flow'.steps = S!From(S!StepsOf(goal), k)
  BY <1>3, WholeFlow
<1>5. S!RequestsAreRecorded' /\ \A kind \in {"confirm", "template"} : ~S!Pending(kind)'
  BY <1>2, <1>3 DEF S!FlowInvariant, S!RequestsAreRecorded, S!Pending
<1>6. goal \in {"link", "fact", "template"} /\ (resolving' <=> goal \in {"link", "fact"})
  BY <1>3 DEF Goals
<1> QED BY <1>3, <1>4, <1>5, <1>6 DEF S!FlowInvariant

\* A flow that goes on: to its next await, or it is over.
LEMMA FlowKeepsItsPlace ==
  ASSUME S!FlowInvariant, S!FlowContinues
  PROVE  /\ S!FlowInvariant'
         /\ left' /\ flow.goal = "link" => S!Step = "settle" /\ ~S!Failed
<1> DEFINE steps == S!StepsOf(flow.goal)
           rest == Tail(flow.steps)
           next == IF rest = <<>> THEN "none" ELSE Head(rest)
<1>1. flow.steps # <<>> /\ S!Step \notin {"confirm", "template"}
  BY DEF S!FlowContinues, S!FlowDue, S!Over
<1>2. flow.goal # "none"
  BY <1>1 DEF S!FlowInvariant
<1>3. \A kind \in {"confirm", "template"} : request[kind].stage = "none"
  BY <1>1, NobodyWaits
<1>4. S!RequestsAreRecorded
  BY DEF S!FlowInvariant
<1>5. CASE S!Failed \/ S!Done
  <2>1. S!EndsFlow(S!Failed) /\ S!Begins("none")
    BY <1>5 DEF S!FlowContinues
  <2>2. /\ S!RequestsAreRecorded'
       /\ \A kind \in {"confirm", "template"} : request'[kind].stage = "none"
    BY <1>3, <1>4, <2>1, SentByAFlow
  <2>3. ~left'
    BY <2>1 DEF S!Begins
  <2> QED BY <2>1, <2>2, <2>3, FlowEnds
<1>6. CASE ~(S!Failed \/ S!Done)
  <2>1. S!Advances
    BY <1>6 DEF S!FlowContinues
  <2>2. PICK k \in 1 .. Len(steps) : /\ flow.steps = S!From(steps, k) /\ S!Step = steps[k]
                                     /\ k < Len(steps) => rest = S!From(steps, k + 1)
                                     /\ k = Len(steps) => rest = <<>>
    BY <1>2, FlowIsSomewhere
  <2>3. steps \in Seq(Awaits) /\ Len(steps) \in Nat /\ flow.goal \in Goals
    BY <1>2, FlowsAreSequences DEF S!FlowInvariant, Goals
  <2>4. next # "none" => k < Len(steps) /\ next = steps[k + 1]
    <3>1. CASE k < Len(steps)
      <4>1. rest = S!From(steps, k + 1) /\ k + 1 \in 1 .. Len(steps)
        BY <2>2, <2>3, <3>1
      <4> HIDE DEF steps, rest
      <4>2. rest # <<>> /\ Head(rest) = steps[k + 1]
        BY <2>3, <4>1, FlowGoesOn
      <4> QED BY <3>1, <4>2
    <3>2. CASE k = Len(steps)
      BY <2>2, <3>2
    <3> HIDE DEF steps, rest, next
    <3> QED BY <2>3, <3>1, <3>2
  <2>5. CASE \E step : S!EndsFlow(FALSE) /\ S!Begins(step)
                       /\ step \in {"none", next} /\ step \notin {"confirm", "template"}
    <3>1. PICK step : /\ S!EndsFlow(FALSE) /\ S!Begins(step)
                      /\ step \in {"none", next} /\ step \notin {"confirm", "template"}
      BY <2>5
    <3>2. /\ S!RequestsAreRecorded'
         /\ \A kind \in {"confirm", "template"} : request'[kind].stage = "none"
      BY <1>3, <1>4, <3>1, SentByAFlow
    <3>3. left' => step = "leave"
      BY <3>1 DEF S!Begins
    <3>4. step = "leave" /\ flow.goal = "link" => S!Step = "settle"
      BY <2>2, <2>4, <3>1 DEF S!StepsOf, S!LinkSteps
    <3> QED BY <1>6, <3>1, <3>2, <3>3, <3>4, FlowEnds
  <2>6. CASE /\ next \notin {"none", "leave", "render", "check"} /\ S!Begins(next)
             /\ \E saved : flow' = [flow EXCEPT !.steps = rest, !.saved = saved]
             /\ UNCHANGED resolving
    <3>1. DOMAIN flow' = DOMAIN S!NoFlow /\ flow'.goal = flow.goal /\ flow'.steps = rest
      BY <2>6 DEF S!FlowInvariant, S!NoFlow
    <3>2. k + 1 \in 1 .. Len(steps) /\ rest = S!From(steps, k + 1) /\ next = steps[k + 1]
      <4> HIDE DEF steps, rest, next
      <4> QED BY <2>2, <2>3, <2>4, <2>6
    <3>3. S!Step' = next
      BY <2>6, <3>1 DEF S!Step
    <3>4. /\ S!RequestsAreRecorded'
          /\ \A kind \in {"confirm", "template"} : S!Pending(kind)' => next = kind
      BY <1>3, <1>4, <2>6, SentByAFlow DEF S!Pending
    <3>5. ~left'
      BY <2>6 DEF S!Begins
    <3>6. \E j \in 1 .. Len(S!StepsOf(flow'.goal)) : flow'.steps = S!From(S!StepsOf(flow'.goal), j)
      BY <3>1, <3>2
    <3> HIDE DEF steps, rest, next
    <3> QED BY <1>2, <2>6, <3>1, <3>3, <3>4, <3>5, <3>6 DEF S!FlowInvariant
  <2>7. CASE next = "render" /\ ~flow.stamped
    <3>1. S!EndsFlow(FALSE) /\ S!Begins("none")
      BY <2>1, <2>7 DEF S!Advances
    <3>2. "none" \in {"none", next} /\ "none" \notin {"confirm", "template"}
      OBVIOUS
    <3> HIDE DEF next
    <3>3. \E step : S!EndsFlow(FALSE) /\ S!Begins(step)
                    /\ step \in {"none", next} /\ step \notin {"confirm", "template"}
      BY <3>1, <3>2
    <3> QED BY <2>5, <3>3
  <2>8. CASE next \in {"none", "leave", "render", "check"} /\ ~(next = "render" /\ ~flow.stamped)
    BY <2>1, <2>5, <2>8 DEF S!Advances
  <2>9. CASE next \notin {"none", "leave", "render", "check"}
    BY <2>1, <2>6, <2>9 DEF S!Advances
  <2> QED BY <2>7, <2>8, <2>9
<1> QED BY <1>5, <1>6

\* The answer to a flow's own command.
LEMMA FlowHearsItsAnswer ==
  ASSUME S!FlowInvariant, NEW kind \in S!Commands, S!FlowAnswered(kind)
  PROVE  S!FlowInvariant' /\ UNCHANGED left
<1> DEFINE steps == S!StepsOf(flow.goal)
           rest == Tail(flow.steps)
<1>1. /\ kind \in {"confirm", "template"} /\ request[kind].stage = "answered"
      /\ S!Closes(kind) /\ UNCHANGED left
      /\ \/ flow' = [flow EXCEPT !.steps = rest] /\ UNCHANGED resolving
         \/ S!EndsFlow(FALSE)
  BY DEF S!FlowAnswered, S!Reply
<1>2. S!Step = kind /\ flow.goal # "none"
  BY <1>1 DEF S!FlowInvariant, S!Pending, S!Step
<1>3. /\ S!RequestsAreRecorded' /\ request'[kind] = S!NoRequest
      /\ \A other \in S!Commands \ {kind} : request'[other] = request[other]
  BY <1>1, Updated DEF S!Closes, S!FlowInvariant
<1>4. \A other \in {"confirm", "template"} : request'[other].stage = "none"
  BY <1>1, <1>2, <1>3 DEF S!FlowInvariant, S!Pending, S!NoRequest, S!Commands
<1>5. CASE S!EndsFlow(FALSE)
  BY <1>1, <1>3, <1>4, <1>5, FlowEnds
<1>6. CASE flow' = [flow EXCEPT !.steps = rest] /\ UNCHANGED resolving
  <2>1. PICK k \in 1 .. Len(steps) : /\ S!Step = steps[k]
                                     /\ k < Len(steps) => rest = S!From(steps, k + 1)
    BY <1>2, FlowIsSomewhere
  <2>2. Len(steps) \in Nat /\ steps[Len(steps)] \notin {"confirm", "template"}
    BY <1>2, FlowsAreSequences, FlowIsSomewhere
  <2>3. k + 1 \in 1 .. Len(steps) /\ rest = S!From(steps, k + 1)
    <3> HIDE DEF steps, rest
    <3> QED BY <1>1, <1>2, <2>1, <2>2
  <2>4. DOMAIN flow' = DOMAIN S!NoFlow /\ flow'.goal = flow.goal /\ flow'.steps = rest
    BY <1>6 DEF S!FlowInvariant, S!NoFlow
  <2>5. \E j \in 1 .. Len(S!StepsOf(flow'.goal)) : flow'.steps = S!From(S!StepsOf(flow'.goal), j)
    BY <2>3, <2>4
  <2>6. \A other \in {"confirm", "template"} : ~S!Pending(other)'
    BY <1>4 DEF S!Pending
  <2> HIDE DEF steps, rest
  <2> QED BY <1>1, <1>2, <1>3, <1>6, <2>4, <2>5, <2>6 DEF S!FlowInvariant
<1> QED BY <1>1, <1>5, <1>6

LEMMA ServingWhatIsSent ==
  ASSUME S!OpsAreRecorded, S!RequestsAreRecorded, NEW kind \in S!Commands, S!Serve(kind)
  PROVE  /\ S!RequestsAreRecorded'
         /\ \A other \in S!Commands \ {kind} : request'[other] = request[other]
         /\ request[kind].stage # "none" /\ UNCHANGED <<flow, resolving>>
  BY Served DEF S!Serve, S!flows

LEMMA FlowKeeps ==
  ASSUME S!FlowInvariant, S!OpsAreRecorded, [S!Next]_(S!vars)
  PROVE  S!FlowInvariant'
<1>1. S!RequestsAreRecorded /\ StepKinds
  BY NextSteps DEF S!FlowInvariant
<1>2. CASE Quiet \/ OthersMove \/ S!SettleDiff \/ S!DismissDiff
  <2>1. /\ UNCHANGED <<flow, resolving>> /\ S!RequestsAreRecorded'
        /\ \A kind \in {"confirm", "template"} : request'[kind] = request[kind]
    BY <1>1, <1>2 DEF Quiet, OthersMove, S!SettleDiff, S!DismissDiff, S!flows, S!RequestsAreRecorded
  <2> QED BY <2>1, FlowStays
<1>3. CASE S!Regenerate
  <2>1. UNCHANGED <<flow, resolving>> /\ S!AsksRegeneration
    BY <1>3 DEF S!Regenerate, S!flows
  <2>2. /\ S!RequestsAreRecorded'
        /\ \A kind \in {"confirm", "template"} : request'[kind] = request[kind]
    <3>1. DOMAIN S!About(S!Hash(read)) = DOMAIN S!NoRequest
      BY NewRequests
    <3> QED BY <1>1, <2>1, <3>1, Updated DEF S!AsksRegeneration, S!Commands
  <2> QED BY <2>1, <2>2, FlowStays
<1>4. CASE S!FlowContinues
  BY <1>4, FlowKeepsItsPlace
<1>5. CASE S!FollowLink \/ S!ConfirmFact
  <2>1. /\ S!OnPage /\ ~resolving
        /\ \E goal \in {"link", "fact"} : \E content : S!Starts(goal, S!StepsOf(goal), content)
    BY <1>5 DEF S!FollowLink, S!ConfirmFact, S!Resolvable, S!StepsOf
  <2> QED BY <2>1, FlowStarts DEF Goals
<1>6. ASSUME NEW template \in Templates, S!ChooseTemplate(template) PROVE S!FlowInvariant'
  <2>1. S!OnPage /\ ~resolving /\ S!Starts("template", S!StepsOf("template"), template)
    BY <1>6 DEF S!ChooseTemplate, S!TemplateOffered, S!StepsOf
  <2> QED BY <2>1, FlowStarts DEF Goals
<1>7. ASSUME NEW kind \in S!Commands,
             S!Serve(kind) \/ S!WorkQueued(kind) \/ S!FlowAnswered(kind) \/ S!RequestFails(kind)
      PROVE  S!FlowInvariant'
  <2>1. CASE S!Serve(kind)
    <3>1. \A other \in {"confirm", "template"} :
             request'[other].stage # "none" => request[other].stage # "none"
      BY <1>1, <2>1, ServingWhatIsSent DEF S!Commands
    <3> QED BY <1>1, <2>1, <3>1, ServingWhatIsSent, FlowStays
  <2>2. CASE S!WorkQueued(kind)
    <3>1. kind \notin {"confirm", "template"} /\ S!Closes(kind) /\ UNCHANGED <<flow, resolving>>
      BY <2>2 DEF S!WorkQueued, S!flows
    <3>2. /\ S!RequestsAreRecorded'
          /\ \A other \in {"confirm", "template"} : request'[other] = request[other]
      BY <1>1, <3>1, Updated DEF S!Closes, S!Commands
    <3> QED BY <3>1, <3>2, FlowStays
  <2>3. CASE S!FlowAnswered(kind)
    BY <2>3, FlowHearsItsAnswer
  <2>4. CASE S!RequestFails(kind)
    <3>1. /\ UNCHANGED <<flow, resolving>> /\ request' = S!Answered(kind, "lost")
          /\ request[kind].stage # "none"
      BY <2>4 DEF S!RequestFails, S!flows
    <3>2. /\ S!RequestsAreRecorded'
          /\ \A other \in {"confirm", "template"} :
                request'[other].stage # "none" => request[other].stage # "none"
      BY <1>1, <3>1, Answers DEF S!Commands
    <3> QED BY <3>1, <3>2, FlowStays
  <2> QED BY <1>7, <2>1, <2>2, <2>3, <2>4
<1>8. ASSUME NEW id \in DOMAIN ops, S!RunSucceeds(id) \/ S!RunIsLate(id) \/ S!RunFails(id)
      PROVE  S!FlowInvariant'
  <2>1. UNCHANGED <<flow, resolving, request>>
    BY <1>8 DEF S!RunSucceeds, S!RunIsLate, S!RunFails, S!Ends, S!flows
  <2> QED BY <1>1, <2>1, FlowStays DEF S!RequestsAreRecorded
<1> QED BY <1>1, <1>2, <1>3, <1>4, <1>5, <1>6, <1>7, <1>8 DEF StepKinds

\* A flow is always in one of its awaits, and no other has its command under way.
THEOREM FlowsKeepTheirPlace == S!Spec => []S!FlowInvariant
<1>1. S!Init => S!FlowInvariant
  BY DEF S!Init, S!FlowInvariant, S!NoFlow, S!Pending, S!RequestsAreRecorded, S!NoRequest,
       S!Commands
<1>2. S!FlowInvariant /\ S!DiffInvariant /\ [S!Next]_(S!vars) => S!FlowInvariant'
  BY FlowKeeps DEF S!DiffInvariant
<1> QED BY <1>1, <1>2, ComparisonsAreOfTheirRun, PTL DEF S!Spec

\* What moves a flow and leaves the screen in one step is the flow going on.
LEMMA LeavingByTheFlow ==
  ASSUME S!RequestsAreRecorded, [S!Next]_(S!vars), left', ~left, flow' # flow
  PROVE  S!FlowContinues
<1>1. StepKinds
  BY NextSteps
<1>2. ~(Quiet \/ OthersMove \/ S!SettleDiff \/ S!DismissDiff \/ S!Regenerate)
  BY DEF Quiet, OthersMove, S!SettleDiff, S!DismissDiff, S!Regenerate, S!flows
<1>3. ~(S!FollowLink \/ S!ConfirmFact \/ \E template \in Templates : S!ChooseTemplate(template))
  BY DEF S!FollowLink, S!ConfirmFact, S!ChooseTemplate, S!Starts
<1>4. ~\E kind \in S!Commands :
          S!Serve(kind) \/ S!WorkQueued(kind) \/ S!FlowAnswered(kind) \/ S!RequestFails(kind)
  BY DEF S!Serve, S!WorkQueued, S!FlowAnswered, S!RequestFails
<1>5. ~\E id \in DOMAIN ops : S!RunSucceeds(id) \/ S!RunIsLate(id) \/ S!RunFails(id)
  BY DEF S!RunSucceeds, S!RunIsLate, S!RunFails, S!Ends
<1> QED BY <1>1, <1>2, <1>3, <1>4, <1>5 DEF StepKinds

\* The link out of the editor is followed when the second settling found nothing unsaved
\* (navigateSaved, beforeResolve), whatever was typed while the reads were under way.
THEOREM LinksLeaveNothing == S!Spec => LinkLeavesNothingUnsaved
<1>1. ASSUME S!FlowInvariant, [S!Next]_(S!vars), left', ~left, flow.goal = "link", flow' # flow
      PROVE  Saved'
  <2>1. S!FlowContinues
    BY <1>1, LeavingByTheFlow DEF S!FlowInvariant
  <2>2. S!Step = "settle" /\ ~S!Failed
    BY <1>1, <2>1, FlowKeepsItsPlace
  <2>3. Saved
    BY <2>2 DEF S!Failed, S!Saved, Saved
  <2>4. UNCHANGED conflict /\ \E step : S!Begins(step) /\ step \notin {"settle", "try"}
    BY <1>1, <2>1 DEF S!FlowContinues, S!Advances, S!Begins
  <2>5. UNCHANGED <<flight, buffer>>
    BY <2>4 DEF S!Begins
  <2> QED BY <2>3, <2>4, <2>5 DEF Saved
<1>2. S!FlowInvariant /\ [S!Next]_(S!vars)
        => [left' /\ ~left /\ flow.goal = "link" /\ flow' # flow => Saved']_left
  BY <1>1
<1> QED BY <1>2, FlowsKeepTheirPlace, PTL DEF S!Spec, LinkLeavesNothingUnsaved
=============================================================================
