-------------------------- MODULE Preparation_proofs --------------------------
(***************************************************************************)
(* What the preparation screens promise for any postings, budgets and      *)
(* number of Operations: a decision is saved on the analysis it was made   *)
(* on, and content is thrown away only after a question that named it.     *)
(***************************************************************************)
EXTENDS Preparation, SequenceTheorems, TLAPS

-----------------------------------------------------------------------------
(* Commands of the screen *)

\* What a step may do to a command that is not sent in it: its screen goes, its answer comes, it
\* is over; what it names stays.
GoesOn(r, next) ==
  \/ next = NoRequest
  \/ /\ DOMAIN next = RequestFields
     /\ next.hash = r.hash /\ next.analysis = r.analysis /\ next.on = r.on
     /\ next.confirmed = r.confirmed
     /\ next.stage = "sent" => r.stage = "sent"
AllGoOn == DOMAIN request' = Commands /\ \A kind \in Commands : GoesOn(request[kind], request'[kind])

\* What is known of the commands, of the form and of the server's records.
RequestsKnow ==
  /\ DOMAIN request = Commands /\ \A kind \in Commands : DOMAIN request[kind] = RequestFields
  /\ request["save"].on = request["save"].analysis
  /\ request["rebuild"].stage = "sent" /\ request["rebuild"].hash[2] # 0
        => request["rebuild"].confirmed
FormKnows == DOMAIN form = {"key", "changed", "on"} /\ (form.changed => form.on = form.key[1])
RecordsAreSound ==
  /\ DOMAIN doc = {"analysis", "content", "writes", "review"}
  /\ analyses \in Seq({analyses[i] : i \in DOMAIN analyses})
  /\ DecisionsAreOnTheAnalysisShown

LEMMA InParts == PreparationInvariant <=> RequestsKnow /\ FormKnows /\ RecordsAreSound
  BY DEF PreparationInvariant, RequestsKnow, FormKnows, RecordsAreSound

LEMMA InPartsAfter == PreparationInvariant' <=> RequestsKnow' /\ FormKnows' /\ RecordsAreSound'
  BY DEF PreparationInvariant, RequestsKnow, FormKnows, RecordsAreSound

LEMMA FormStays == ASSUME FormKnows, UNCHANGED form PROVE FormKnows'
  BY DEF FormKnows

LEMMA RecordsStay == ASSUME RecordsAreSound, UNCHANGED <<analyses, doc>> PROVE RecordsAreSound'
  BY DEF RecordsAreSound, DecisionsAreOnTheAnalysisShown

\* A command that was never given.
LEMMA NoRequestKnows ==
  /\ DOMAIN NoRequest = RequestFields /\ NoRequest.on = 0 /\ NoRequest.analysis = 0
  /\ NoRequest.stage = "none" /\ NoRequest.hash[2] = 0
  BY DEF NoRequest, RequestFields, NoHash

LEMMA RequestsStay == ASSUME RequestsKnow, UNCHANGED request PROVE RequestsKnow'
  BY DEF RequestsKnow

LEMMA GoingOnKnows == ASSUME RequestsKnow, AllGoOn PROVE RequestsKnow'
<1>1. "save" \in Commands /\ "rebuild" \in Commands
  BY DEF Commands
<1>2. \A kind \in Commands : DOMAIN request'[kind] = RequestFields
  BY NoRequestKnows DEF AllGoOn, GoesOn
<1>3. request'["save"].on = request'["save"].analysis
  BY <1>1, NoRequestKnows DEF AllGoOn, GoesOn, RequestsKnow
<1>4. request'["rebuild"].stage = "sent" /\ request'["rebuild"].hash[2] # 0
         => request'["rebuild"].confirmed
  BY <1>1, NoRequestKnows DEF AllGoOn, GoesOn, RequestsKnow
<1> QED BY <1>2, <1>3, <1>4 DEF RequestsKnow, AllGoOn

LEMMA OrphansGoOn ==
  ASSUME RequestsKnow, NEW kinds, NEW from, request' = Orphaned(kinds, from)
  PROVE  AllGoOn
<1>1. ASSUME NEW kind \in Commands PROVE GoesOn(request[kind], request'[kind])
  <2> DEFINE r == request[kind]
             q == [r EXCEPT !.from = from]
  <2>1. request'[kind] = q \/ request'[kind] = r
    BY DEF Orphaned
  <2>2. DOMAIN r = RequestFields
    BY DEF RequestsKnow
  <2>3. /\ DOMAIN q = RequestFields /\ q.hash = r.hash /\ q.analysis = r.analysis /\ q.on = r.on
        /\ q.confirmed = r.confirmed /\ q.stage = r.stage
    BY <2>2 DEF RequestFields
  <2> HIDE DEF q, r
  <2>4. GoesOn(r, request'[kind])
    BY <2>1, <2>2, <2>3 DEF GoesOn
  <2> QED BY <2>4 DEF r
<1>2. DOMAIN request' = Commands
  BY DEF Orphaned
<1> QED BY <1>1, <1>2 DEF AllGoOn

\* One command becomes what goes on from it.
LEMMA OneGoesOn ==
  ASSUME RequestsKnow, NEW kind \in Commands, NEW next, GoesOn(request[kind], next),
         request' = [request EXCEPT ![kind] = next]
  PROVE  AllGoOn
<1>1. /\ DOMAIN request' = Commands /\ request'[kind] = next
      /\ \A other \in Commands : other # kind => request'[other] = request[other]
  BY DEF RequestsKnow
<1>2. \A other \in Commands : GoesOn(request[other], request[other])
  BY DEF RequestsKnow, GoesOn
<1> QED BY <1>1, <1>2 DEF AllGoOn

LEMMA AnswersGoOn ==
  ASSUME RequestsKnow, NEW kind \in Commands,
         \/ \E verdict : Answered(kind, verdict)
         \/ \E id, status : Queued(kind, id, status)
         \/ request' = [request EXCEPT ![kind].stage = "views"]
         \/ Closes(kind)
  PROVE  AllGoOn
<1> DEFINE r == request[kind]
<1>1. DOMAIN r = RequestFields
  BY DEF RequestsKnow
<1>2. ASSUME NEW verdict, Answered(kind, verdict) PROVE AllGoOn
  <2> DEFINE q == [r EXCEPT !.stage = "answered", !.verdict = verdict]
  <2>1. request' = [request EXCEPT ![kind] = q]
    BY <1>2 DEF Answered, RequestsKnow
  <2>2. /\ DOMAIN q = RequestFields /\ q.hash = r.hash /\ q.analysis = r.analysis /\ q.on = r.on
        /\ q.confirmed = r.confirmed /\ q.stage = "answered"
    BY <1>1 DEF RequestFields
  <2> HIDE DEF q
  <2>3. GoesOn(r, q)
    BY <2>2 DEF GoesOn
  <2> QED BY <2>1, <2>3, OneGoesOn
<1>3. ASSUME NEW id, NEW status, Queued(kind, id, status) PROVE AllGoOn
  <2> DEFINE q == [r EXCEPT !.stage = "answered", !.verdict = "accepted", !.op = id,
                            !.status = status]
  <2>1. request' = [request EXCEPT ![kind] = q]
    BY <1>3 DEF Queued, RequestsKnow
  <2>2. /\ DOMAIN q = RequestFields /\ q.hash = r.hash /\ q.analysis = r.analysis /\ q.on = r.on
        /\ q.confirmed = r.confirmed /\ q.stage = "answered"
    BY <1>1 DEF RequestFields
  <2> HIDE DEF q
  <2>3. GoesOn(r, q)
    BY <2>2 DEF GoesOn
  <2> QED BY <2>1, <2>3, OneGoesOn
<1>4. CASE request' = [request EXCEPT ![kind].stage = "views"]
  <2> DEFINE q == [r EXCEPT !.stage = "views"]
  <2>1. request' = [request EXCEPT ![kind] = q]
    BY <1>4 DEF RequestsKnow
  <2>2. /\ DOMAIN q = RequestFields /\ q.hash = r.hash /\ q.analysis = r.analysis /\ q.on = r.on
        /\ q.confirmed = r.confirmed /\ q.stage = "views"
    BY <1>1 DEF RequestFields
  <2> HIDE DEF q
  <2>3. GoesOn(r, q)
    BY <2>2 DEF GoesOn
  <2> QED BY <2>1, <2>3, OneGoesOn
<1>5. CASE Closes(kind)
  BY <1>5, OneGoesOn DEF Closes, GoesOn
<1> QED BY <1>2, <1>3, <1>4, <1>5

\* A command that is given: its fields, by what the press sets.
LEMMA GivenKnows ==
  ASSUME RequestsKnow, NEW kind \in Commands, NEW new, DOMAIN new = RequestFields,
         kind = "save" => new.on = new.analysis,
         kind = "rebuild" => (new.hash[2] # 0 => new.confirmed),
         request' = [request EXCEPT ![kind] = new]
  PROVE  RequestsKnow'
<1>1. /\ DOMAIN request' = Commands /\ request'[kind] = new
      /\ \A other \in Commands : other # kind => request'[other] = request[other]
  BY DEF RequestsKnow
<1>2. "save" \in Commands /\ "rebuild" \in Commands
  BY DEF Commands
<1> QED BY <1>1, <1>2 DEF RequestsKnow

-----------------------------------------------------------------------------
(* What the screen does by itself *)

LEMMA EnteringFills == ASSUME NEW to, NEW intents, Enters(to, intents) PROVE FormKnows'
<1>1. /\ DOMAIN NoForm = {"key", "changed", "on"} /\ ~NoForm.changed
  BY DEF NoForm
<1> DEFINE keyed == [NoForm EXCEPT !.key = FormKey]
<1>2. DOMAIN keyed = {"key", "changed", "on"} /\ ~keyed.changed
  BY DEF NoForm
<1>3. form' = keyed \/ form' = NoForm
  BY DEF Enters
<1> HIDE DEF keyed
<1> QED BY <1>1, <1>2, <1>3 DEF FormKnows

LEMMA EffectsKeep ==
  ASSUME PreparationInvariant, Effect
  PROVE  PreparationInvariant' /\ UNCHANGED doc
<1>1. RequestsKnow /\ FormKnows /\ RecordsAreSound
  BY InParts
<1>2. UNCHANGED <<analyses, doc>>
  BY DEF Effect, FormRemounts, PanelUnmounts, FollowProjection, RefreshViews, SettleRun,
     FollowContinuation, GoToEditor, SaveOver, RebuildOver, server
<1>3. RecordsAreSound'
  BY <1>1, <1>2, RecordsStay
<1>4. CASE FormRemounts
  <2> DEFINE keyed == [NoForm EXCEPT !.key = FormKey]
  <2>1. DOMAIN keyed = {"key", "changed", "on"} /\ ~keyed.changed
    BY DEF NoForm
  <2>2. form' = keyed /\ request' = Orphaned({"save"}, "gone")
    BY <1>4 DEF FormRemounts
  <2> HIDE DEF keyed
  <2>3. FormKnows'
    BY <2>1, <2>2 DEF FormKnows
  <2>4. RequestsKnow'
    BY <1>1, <2>2, OrphansGoOn, GoingOnKnows
  <2> QED BY <1>2, <1>3, <2>3, <2>4, InPartsAfter
<1>5. CASE PanelUnmounts
  <2>1. request' = Orphaned({"analyze", "draft", "rebuild"}, "page") /\ UNCHANGED form
    BY <1>5 DEF PanelUnmounts
  <2>2. RequestsKnow' /\ FormKnows'
    BY <1>1, <2>1, OrphansGoOn, GoingOnKnows, FormStays
  <2> QED BY <1>2, <1>3, <2>2, InPartsAfter
<1>6. CASE FollowProjection \/ RefreshViews \/ SettleRun \/ FollowContinuation
  <2>1. UNCHANGED <<request, form>>
    BY <1>6 DEF FollowProjection, RefreshViews, SettleRun, FollowContinuation, screen
  <2> QED BY <1>1, <1>2, <1>3, <2>1, RequestsStay, FormStays, InPartsAfter
<1>7. CASE GoToEditor
  <2>1. request' = Orphaned(Commands, "gone") /\ FormKnows'
    BY <1>7, EnteringFills DEF GoToEditor
  <2> QED BY <1>1, <1>2, <1>3, <2>1, OrphansGoOn, GoingOnKnows, InPartsAfter
<1>8. CASE SaveOver
  <2>1. request' = [Orphaned(Commands, "gone") EXCEPT !["save"] = NoRequest] /\ FormKnows'
    BY <1>8, EnteringFills DEF SaveOver
  <2>2. AllGoOn
    <3> DEFINE orphans == Orphaned(Commands, "gone")
    <3>1. /\ DOMAIN orphans = Commands
          /\ \A kind \in Commands : orphans[kind] = request[kind]
                                    \/ orphans[kind] = [request[kind] EXCEPT !.from = "gone"]
      BY DEF Orphaned
    <3> HIDE DEF orphans
    <3>2. \A kind \in Commands : request'[kind] = NoRequest \/ request'[kind] = orphans[kind]
      BY <2>1, <3>1 DEF orphans
    <3>3. DOMAIN request' = Commands
      BY <2>1, <3>1 DEF orphans
    <3>4. ASSUME NEW kind \in Commands PROVE GoesOn(request[kind], orphans[kind])
      <4> DEFINE r == request[kind]
                 q == [r EXCEPT !.from = "gone"]
      <4>1. DOMAIN r = RequestFields
        BY <1>1 DEF RequestsKnow
      <4>2. /\ DOMAIN q = RequestFields /\ q.hash = r.hash /\ q.analysis = r.analysis
            /\ q.on = r.on /\ q.confirmed = r.confirmed /\ q.stage = r.stage
        BY <4>1 DEF RequestFields
      <4>3. orphans[kind] = r \/ orphans[kind] = q
        BY <3>1
      <4> HIDE DEF q, r
      <4>4. GoesOn(r, orphans[kind])
        BY <4>1, <4>2, <4>3 DEF GoesOn
      <4> QED BY <4>4 DEF r
    <3> QED BY <3>2, <3>3, <3>4 DEF AllGoOn, GoesOn
  <2> QED BY <1>1, <1>2, <1>3, <2>1, <2>2, GoingOnKnows, InPartsAfter
<1>9. CASE RebuildOver
  <2>1. Closes("rebuild") /\ UNCHANGED form /\ "rebuild" \in Commands
    BY <1>9 DEF RebuildOver, Closes, Commands
  <2> QED BY <1>1, <1>2, <1>3, <2>1, AnswersGoOn, GoingOnKnows, FormStays, InPartsAfter
<1> QED BY <1>4, <1>5, <1>6, <1>7, <1>8, <1>9 DEF Effect

-----------------------------------------------------------------------------
(* What the reader does *)

\* A form is of the analysis it is keyed by, as long as it is not stale.
LEMMA FormIsOfTheAnalysis ==
  ASSUME FormKnows, Calm, FormShown
  PROVE  form.key[1] = detail.analysis
<1>1. form.key = FormKey /\ FormKey = <<detail.analysis, detail.hash>>
  BY DEF Calm, FormStale, FormShown, FormKey
<1> QED BY <1>1

LEMMA ReaderKeeps ==
  ASSUME PreparationInvariant, Calm, Reader
  PROVE  PreparationInvariant' /\ UNCHANGED doc
<1>1. RequestsKnow /\ FormKnows /\ RecordsAreSound
  BY InParts
<1>2. UNCHANGED <<analyses, doc>>
  BY DEF Reader, Analyze, CreateDraft, StartRebuild, RebuildSent, ConfirmRebuild, CloseRebuild,
     ChangeSettings, SaveSettings, Retry, Cancel, Navigate, Asks, server
<1>3. RecordsAreSound'
  BY <1>1, <1>2, RecordsStay
\* A new command is a blank one with the fields of its press.
<1>4. ASSUME NEW kind \in Commands, NEW new, Asks(kind, new), DOMAIN new = RequestFields,
             kind = "save" => new.on = new.analysis,
             kind = "rebuild" => (new.hash[2] # 0 => new.confirmed)
      PROVE  RequestsKnow'
  BY <1>1, <1>4, GivenKnows DEF Asks
<1>5. \A from : /\ DOMAIN Sent(from) = RequestFields /\ Sent(from).on = 0
                /\ Sent(from).analysis = 0 /\ Sent(from).hash[2] = 0
  BY DEF Sent, NoRequest, RequestFields, NoHash
<1>6. CASE Analyze
  <2> DEFINE new == [Sent(Home) EXCEPT !.text = detail.posting]
  <2>1. Asks("analyze", new) /\ UNCHANGED form /\ "analyze" \in Commands
    BY <1>6 DEF Analyze, screen, Commands
  <2>2. DOMAIN new = RequestFields
    BY <1>5
  <2> HIDE DEF new
  <2>3. RequestsKnow'
    BY <1>4, <2>1, <2>2
  <2> QED BY <1>1, <1>2, <1>3, <2>1, <2>3, FormStays, InPartsAfter
<1>7. CASE CreateDraft
  <2> DEFINE new == [Sent("panel") EXCEPT !.hash = detail.hash]
  <2>1. Asks("draft", new) /\ UNCHANGED form /\ "draft" \in Commands
    BY <1>7 DEF CreateDraft, screen, Commands
  <2>2. DOMAIN new = RequestFields
    BY <1>5
  <2> HIDE DEF new
  <2>3. RequestsKnow'
    BY <1>4, <2>1, <2>2
  <2> QED BY <1>1, <1>2, <1>3, <2>1, <2>3, FormStays, InPartsAfter
<1>8. ASSUME NEW confirmed, RebuildSent(confirmed), detail.hash[2] # 0 => confirmed
      PROVE  RequestsKnow'
  <2> DEFINE new == [Sent("panel") EXCEPT !.hash = detail.hash, !.analysis = detail.analysis,
                                          !.confirmed = confirmed]
  <2>1. Asks("rebuild", new) /\ "rebuild" \in Commands
    BY <1>8 DEF RebuildSent, Commands
  <2>2. DOMAIN new = RequestFields /\ new.hash = detail.hash /\ new.confirmed = confirmed
    BY <1>5 DEF RequestFields
  <2> HIDE DEF new
  <2> QED BY <1>4, <1>8, <2>1, <2>2
<1>9. CASE StartRebuild
  <2>1. UNCHANGED form
    BY <1>9 DEF StartRebuild
  <2>2. RequestsKnow'
    <3>1. CASE ContentArrived
      BY <1>1, <1>9, <3>1, RequestsStay DEF StartRebuild
    <3>2. CASE ~ContentArrived
      BY <1>8, <1>9, <3>2 DEF StartRebuild, ContentArrived
    <3> QED BY <3>1, <3>2
  <2> QED BY <1>1, <1>2, <1>3, <2>1, <2>2, FormStays, InPartsAfter
<1>10. CASE ConfirmRebuild
  BY <1>1, <1>2, <1>3, <1>8, <1>10, FormStays, InPartsAfter DEF ConfirmRebuild, screen
<1>11. CASE CloseRebuild
  BY <1>1, <1>2, <1>3, <1>11, FormStays, RequestsStay, InPartsAfter DEF CloseRebuild
<1>12. CASE ChangeSettings
  <2> DEFINE changed == [form EXCEPT !.changed = TRUE, !.on = detail.analysis]
  <2>1. form' = changed /\ UNCHANGED request /\ FormShown
    BY <1>12 DEF ChangeSettings, FormOpen
  <2>2. form.key[1] = detail.analysis
    BY <1>1, <2>1, FormIsOfTheAnalysis
  <2>3. /\ DOMAIN changed = {"key", "changed", "on"} /\ changed.on = detail.analysis
        /\ changed.key = form.key
    BY <1>1 DEF FormKnows
  <2> HIDE DEF changed
  <2>4. FormKnows'
    BY <2>1, <2>2, <2>3 DEF FormKnows
  <2> QED BY <1>1, <1>2, <1>3, <2>1, <2>4, RequestsStay, InPartsAfter
<1>13. CASE SaveSettings
  <2> DEFINE new == [Sent("page") EXCEPT !.analysis = detail.analysis, !.hash = detail.hash,
                                         !.on = form.on]
  <2>1. Asks("save", new) /\ UNCHANGED form /\ "save" \in Commands /\ FormShown /\ form.changed
    BY <1>13 DEF SaveSettings, screen, Commands, FormOpen
  <2>2. DOMAIN new = RequestFields /\ new.on = form.on /\ new.analysis = detail.analysis
    BY <1>5 DEF RequestFields
  <2>3. form.on = detail.analysis
    BY <1>1, <2>1, FormIsOfTheAnalysis DEF FormKnows
  <2> HIDE DEF new
  <2>4. RequestsKnow'
    BY <1>4, <2>1, <2>2, <2>3
  <2> QED BY <1>1, <1>2, <1>3, <2>1, <2>4, FormStays, InPartsAfter
<1>14. CASE Retry
  <2> DEFINE new == [Sent("page") EXCEPT !.op = Candidate.id]
  <2>1. Asks("retry", new) /\ UNCHANGED form /\ "retry" \in Commands
    BY <1>14 DEF Retry, screen, Commands
  <2>2. DOMAIN new = RequestFields
    BY <1>5
  <2> HIDE DEF new
  <2>3. RequestsKnow'
    BY <1>4, <2>1, <2>2
  <2> QED BY <1>1, <1>2, <1>3, <2>1, <2>3, FormStays, InPartsAfter
<1>15. CASE Cancel
  <2> DEFINE new == [Sent("page") EXCEPT !.op = Candidate.id]
  <2>1. Asks("cancel", new) /\ UNCHANGED form /\ "cancel" \in Commands
    BY <1>15 DEF Cancel, screen, Commands
  <2>2. DOMAIN new = RequestFields
    BY <1>5
  <2> HIDE DEF new
  <2>3. RequestsKnow'
    BY <1>4, <2>1, <2>2
  <2> QED BY <1>1, <1>2, <1>3, <2>1, <2>3, FormStays, InPartsAfter
<1>16. ASSUME NEW to, Navigate(to) PROVE PreparationInvariant'
  <2>1. request' = Orphaned(Commands, "gone") /\ FormKnows'
    BY <1>16, EnteringFills DEF Navigate
  <2> QED BY <1>1, <1>3, <2>1, OrphansGoOn, GoingOnKnows, InPartsAfter
<1> QED BY <1>2, <1>6, <1>7, <1>9, <1>10, <1>11, <1>12, <1>13, <1>14, <1>15, <1>16 DEF Reader

-----------------------------------------------------------------------------
(* The server *)

\* A list and one item more.
LEMMA AppendedItems ==
  ASSUME NEW s, s \in Seq({s[i] : i \in DOMAIN s}), NEW e
  PROVE  /\ Append(s, e) \in Seq({Append(s, e)[i] : i \in DOMAIN Append(s, e)})
         /\ \A i \in DOMAIN Append(s, e) :
                \/ i = Len(s) + 1 /\ Append(s, e)[i] = e
                \/ i \in DOMAIN s /\ Append(s, e)[i] = s[i]
         /\ DOMAIN s \subseteq Nat /\ Len(s) \in Nat
<1> DEFINE T == {s[i] : i \in DOMAIN s} \union {e}
           q == Append(s, e)
<1>1. s \in Seq(T) /\ e \in T
  <2> DEFINE S == {s[i] : i \in DOMAIN s}
  <2>1. s \in Seq(S) /\ S \subseteq T
    OBVIOUS
  <2> HIDE DEF S, T
  <2>2. s \in Seq(T)
    BY <2>1
  <2> QED BY <2>2 DEF T
<1> HIDE DEF T
<1>2. /\ q \in Seq(T) /\ Len(q) = Len(s) + 1
      /\ \A i \in 1 .. Len(s) : q[i] = s[i] /\ q[Len(s) + 1] = e
  BY <1>1, AppendProperties
<1>3. DOMAIN q = 1 .. Len(s) + 1 /\ DOMAIN s = 1 .. Len(s) /\ Len(s) \in Nat /\ q[Len(s) + 1] = e
  BY <1>1, <1>2
<1>4. \A i \in DOMAIN q : (i = Len(s) + 1 /\ q[i] = e) \/ (i \in DOMAIN s /\ q[i] = s[i])
  BY <1>2, <1>3
<1>5. q \in Seq({q[i] : i \in DOMAIN q})
  <2> DEFINE Q == {q[i] : i \in DOMAIN q}
  <2>1. Len(q) \in Nat /\ DOMAIN q = 1 .. Len(q) /\ \A i \in 1 .. Len(q) : q[i] \in Q
    BY <1>2, <1>3
  <2> HIDE DEF Q, q
  <2>2. q \in [1 .. Len(q) -> Q]
    BY <1>2, <2>1
  <2>3. q \in Seq(Q)
    BY <2>1, <2>2
  <2> QED BY <2>3 DEF Q
<1>6. DOMAIN s \subseteq Nat /\ Len(s) \in Nat
  BY <1>3
<1> QED BY <1>4, <1>5, <1>6

\* An analysis more, decided on the one before it or by a run.
LEMMA AnalysisAppended ==
  ASSUME RecordsAreSound, NEW by, NEW on, on = 0 \/ on = Len(analyses),
         analyses' = Append(analyses, Analysis(by, on))
  PROVE  /\ analyses' \in Seq({analyses'[i] : i \in DOMAIN analyses'})
         /\ DecisionsAreOnTheAnalysisShown'
<1> DEFINE e == Analysis(by, on)
<1>1. e.on = on
  BY DEF Analysis
<1> HIDE DEF e
<1>2. /\ analyses' \in Seq({analyses'[i] : i \in DOMAIN analyses'})
      /\ \A i \in DOMAIN analyses' : \/ i = Len(analyses) + 1 /\ analyses'[i] = e
                                     \/ i \in DOMAIN analyses /\ analyses'[i] = analyses[i]
      /\ Len(analyses) \in Nat
  BY AppendedItems DEF RecordsAreSound, e
<1>3. \A i \in DOMAIN analyses' : analyses'[i].on # 0 => analyses'[i].on = i - 1
  BY <1>1, <1>2 DEF RecordsAreSound, DecisionsAreOnTheAnalysisShown
<1> QED BY <1>2, <1>3 DEF DecisionsAreOnTheAnalysisShown

\* What an analysis does to the document leaves its content.
LEMMA PinnedKeepsContent ==
  ASSUME RecordsAreSound, NEW analysis
  PROVE  /\ DOMAIN Pinned(analysis) = {"analysis", "content", "writes", "review"}
         /\ Pinned(analysis).content = doc.content
  BY DEF RecordsAreSound, Pinned

LEMMA DecidingKeeps ==
  ASSUME RecordsAreSound, NEW on, on = Len(analyses), Decides(on)
  PROVE  RecordsAreSound' /\ doc'.content = doc.content
<1>1. analyses' = Append(analyses, Analysis(0, on)) /\ doc' = Pinned(Len(analyses) + 1)
  BY DEF Decides
<1> QED BY <1>1, AnalysisAppended, PinnedKeepsContent DEF RecordsAreSound

\* A draft is a new content.
LEMMA RedraftedIsADocument ==
  ASSUME RecordsAreSound, NEW review
  PROVE  DOMAIN Redrafted(review) = {"analysis", "content", "writes", "review"}
  BY DEF RecordsAreSound, Redrafted

LEMMA RebuildKeeps ==
  ASSUME RequestsKnow, RecordsAreSound, request["rebuild"].stage = "sent", ServeRebuild
  PROVE  /\ RecordsAreSound' /\ AllGoOn
         /\ doc' = doc \/ (doc.content # 0 => request["rebuild"].confirmed)
<1>0. "rebuild" \in Commands
  BY DEF Commands
<1>1. AllGoOn
  BY <1>0, AnswersGoOn DEF ServeRebuild, Refused
<1>2. CASE doc' = doc /\ analyses' = analyses
  BY <1>1, <1>2, RecordsStay
<1>3. CASE /\ Current("rebuild") /\ analyses' = analyses
           /\ doc' = [doc EXCEPT !.analysis = request["rebuild"].analysis, !.content = 0,
                                 !.review = FALSE]
  <2>1. DOMAIN doc' = {"analysis", "content", "writes", "review"}
    BY <1>3 DEF RecordsAreSound
  <2>2. RecordsAreSound'
    BY <1>3, <2>1 DEF RecordsAreSound, DecisionsAreOnTheAnalysisShown
  <2>3. request["rebuild"].hash[2] = doc.content
    BY <1>3 DEF Current, Hash
  <2> QED BY <1>1, <2>2, <2>3 DEF RequestsKnow
<1> QED BY <1>2, <1>3 DEF ServeRebuild, Refused

LEMMA EnqueueKeeps ==
  ASSUME RequestsKnow, RecordsAreSound, NEW kind \in Commands, NEW run, Enqueue(kind, run)
  PROVE  RecordsAreSound' /\ AllGoOn /\ doc' = doc
<1>1. UNCHANGED <<analyses, doc>>
  BY DEF Enqueue
<1>2. AllGoOn
  BY AnswersGoOn DEF Enqueue
<1> QED BY <1>1, <1>2, RecordsStay

LEMMA RefusedKeeps ==
  ASSUME RequestsKnow, RecordsAreSound, NEW kind \in Commands, Refused(kind)
  PROVE  RecordsAreSound' /\ AllGoOn /\ doc' = doc
  BY AnswersGoOn, RecordsStay DEF Refused

\* A command is answered; only a rebuild, and one that was asked about, takes content away.
LEMMA ServeKeeps ==
  ASSUME RequestsKnow, RecordsAreSound, NEW kind \in Commands, Serve(kind)
  PROVE  /\ RecordsAreSound' /\ AllGoOn
         /\ \/ doc'.content = doc.content
            \/ kind = "rebuild" /\ (doc.content # 0 => request["rebuild"].confirmed)
<1>1. request[kind].stage = "sent"
  BY DEF Serve
<1>2. CASE kind = "analyze"
  <2>1. ServeAnalyze
    BY <1>2 DEF Serve
  <2> QED BY <1>2, <2>1, EnqueueKeeps, RefusedKeeps DEF ServeAnalyze
<1>3. CASE kind = "draft"
  <2>1. ServeDraft
    BY <1>3 DEF Serve
  <2> QED BY <1>3, <2>1, EnqueueKeeps, RefusedKeeps DEF ServeDraft
<1>4. CASE kind = "rebuild"
  <2>1. ServeRebuild
    BY <1>4 DEF Serve
  <2> QED BY <1>1, <1>4, <2>1, RebuildKeeps
<1>5. CASE kind = "save"
  <2>1. ServeSave
    BY <1>5 DEF Serve
  <2>2. CASE Refused("save")
    BY <1>5, <2>2, RefusedKeeps
  <2>3. CASE /\ request["save"].analysis = Len(analyses)
             /\ Decides(request["save"].on) /\ Answered("save", "accepted")
    <3>1. request["save"].on = Len(analyses)
      BY <2>3 DEF RequestsKnow
    <3>2. RecordsAreSound' /\ doc'.content = doc.content
      BY <2>3, <3>1, DecidingKeeps
    <3>3. AllGoOn
      BY <1>5, <2>3, AnswersGoOn
    <3> QED BY <3>2, <3>3
  <2> QED BY <2>1, <2>2, <2>3 DEF ServeSave
<1>6. CASE kind = "retry"
  <2>1. ServeRetry
    BY <1>6 DEF Serve
  <2> QED BY <1>6, <2>1, EnqueueKeeps, RefusedKeeps DEF ServeRetry
<1>7. CASE kind = "cancel"
  <2>1. ServeCancel
    BY <1>7 DEF Serve
  <2>2. UNCHANGED <<analyses, doc>>
    BY <2>1 DEF ServeCancel
  <2>3. AllGoOn
    BY <1>7, <2>1, AnswersGoOn DEF ServeCancel
  <2> QED BY <2>2, <2>3, RecordsStay
<1> QED BY <1>2, <1>3, <1>4, <1>5, <1>6, <1>7 DEF Commands

\* A run that ends: an analysis more, or a new content.
LEMMA RunKeeps ==
  ASSUME RecordsAreSound, RunEnds \/ RunFails
  PROVE  RecordsAreSound'
<1>1. CASE UNCHANGED <<analyses, doc>>
  BY <1>1, RecordsStay
<1>2. CASE AnalysisSucceeds(Active)
  <2>1. /\ analyses' = Append(analyses, Analysis(Active, 0))
        /\ doc' = Pinned(Len(analyses) + 1)
    BY <1>2 DEF AnalysisSucceeds
  <2> QED BY <2>1, AnalysisAppended, PinnedKeepsContent DEF RecordsAreSound
<1>3. CASE DraftSucceeds(Active)
  <2>1. CASE doc' = doc
    BY <1>1, <1>3, <2>1 DEF DraftSucceeds
  <2>2. ASSUME NEW review, doc' = Redrafted(review) PROVE RecordsAreSound'
    BY <1>3, <2>2, RedraftedIsADocument
       DEF DraftSucceeds, RecordsAreSound, DecisionsAreOnTheAnalysisShown
  <2> QED BY <1>3, <2>1, <2>2 DEF DraftSucceeds
<1> QED BY <1>1, <1>2, <1>3 DEF RunEnds, RunFails

-----------------------------------------------------------------------------
(* Answers, other tabs, the network *)

LEMMA ArrivalsKeep ==
  ASSUME PreparationInvariant, Arrivals
  PROVE  PreparationInvariant' /\ UNCHANGED doc
<1>1. RequestsKnow /\ FormKnows /\ RecordsAreSound
  BY InParts
<1>2. UNCHANGED <<analyses, doc, form>>
  BY DEF Arrivals, DetailArrives, Poll, AnalyzeAnswered, DraftAnswered, RunAnswered, ReadsAfter,
     server, screen
<1>3. RecordsAreSound' /\ FormKnows'
  BY <1>1, <1>2, RecordsStay, FormStays
<1>4. CASE DetailArrives \/ Poll
  BY <1>1, <1>2, <1>3, <1>4, RequestsStay, InPartsAfter DEF DetailArrives, Poll
<1>5. ASSUME NEW kind \in Commands, Closes(kind) PROVE RequestsKnow'
  BY <1>1, <1>5, AnswersGoOn, GoingOnKnows
<1>6. "analyze" \in Commands /\ "draft" \in Commands
  BY DEF Commands
<1>7. CASE AnalyzeAnswered
  BY <1>2, <1>3, <1>5, <1>6, <1>7, InPartsAfter DEF AnalyzeAnswered
<1>8. CASE DraftAnswered
  BY <1>2, <1>3, <1>5, <1>6, <1>8, InPartsAfter DEF DraftAnswered
<1>9. ASSUME NEW kind \in Commands, RunAnswered(kind) PROVE PreparationInvariant'
  BY <1>2, <1>3, <1>5, <1>9, InPartsAfter DEF RunAnswered
<1>10. ASSUME NEW kind \in Commands, ReadsAfter(kind) PROVE PreparationInvariant'
  <2>1. Closes(kind) \/ request' = [request EXCEPT ![kind].stage = "views"]
    BY <1>10 DEF ReadsAfter
  <2>2. RequestsKnow'
    BY <1>1, <2>1, AnswersGoOn, GoingOnKnows
  <2> QED BY <1>2, <1>3, <2>2, InPartsAfter
<1> QED BY <1>2, <1>4, <1>7, <1>8, <1>9, <1>10 DEF Arrivals

LEMMA SurroundingsKeep ==
  ASSUME PreparationInvariant, Surroundings
  PROVE  /\ PreparationInvariant'
         /\ UNCHANGED request \/ UNCHANGED doc
<1>1. RequestsKnow /\ FormKnows /\ RecordsAreSound
  BY InParts
<1>2. UNCHANGED form
  BY DEF Surroundings, PostingEdited, KnowledgeChanges, DecidedElsewhere, EditedElsewhere,
     RebuiltElsewhere, Focus, RunFails, RequestFails, Elsewhere, screen
<1>3. ASSUME NEW kind \in Commands, RequestFails(kind)
      PROVE  PreparationInvariant' /\ UNCHANGED doc
  <2>1. Answered(kind, "lost") /\ UNCHANGED <<analyses, doc>>
    BY <1>3 DEF RequestFails, server
  <2>2. RequestsKnow'
    BY <1>1, <2>1, AnswersGoOn, GoingOnKnows
  <2> QED BY <1>1, <1>2, <2>1, <2>2, FormStays, RecordsStay, InPartsAfter
<1>4. ASSUME UNCHANGED request, RecordsAreSound'
      PROVE  PreparationInvariant'
  BY <1>1, <1>2, <1>4, RequestsStay, FormStays, InPartsAfter
<1>5. CASE PostingEdited \/ KnowledgeChanges \/ Focus
  <2>1. UNCHANGED <<analyses, doc, request>>
    BY <1>5 DEF PostingEdited, KnowledgeChanges, Focus, Elsewhere, server
  <2> QED BY <1>1, <1>4, <2>1, RecordsStay
<1>6. CASE DecidedElsewhere
  BY <1>1, <1>4, <1>6, DecidingKeeps DEF DecidedElsewhere, Elsewhere
<1>7. CASE EditedElsewhere
  <2>1. doc' = Redrafted(doc.review) /\ UNCHANGED <<analyses, request>>
    BY <1>7 DEF EditedElsewhere, Elsewhere
  <2>2. RecordsAreSound'
    BY <1>1, <2>1, RedraftedIsADocument DEF RecordsAreSound, DecisionsAreOnTheAnalysisShown
  <2> QED BY <1>4, <2>1, <2>2
<1>8. CASE RebuiltElsewhere
  <2>1. /\ doc' = [doc EXCEPT !.analysis = Len(analyses), !.content = 0, !.review = FALSE]
        /\ UNCHANGED <<analyses, request>>
    BY <1>8 DEF RebuiltElsewhere, Elsewhere
  <2>2. DOMAIN doc' = {"analysis", "content", "writes", "review"}
    BY <1>1, <2>1 DEF RecordsAreSound
  <2>3. RecordsAreSound'
    BY <1>1, <2>1, <2>2 DEF RecordsAreSound, DecisionsAreOnTheAnalysisShown
  <2> QED BY <1>4, <2>1, <2>3
<1>9. CASE RunFails
  <2>1. UNCHANGED request
    BY <1>9 DEF RunFails
  <2> QED BY <1>1, <1>4, <1>9, <2>1, RunKeeps
<1> QED BY <1>3, <1>5, <1>6, <1>7, <1>8, <1>9 DEF Surroundings, PostingEdited, KnowledgeChanges,
        Focus, DecidedElsewhere, EditedElsewhere, RebuiltElsewhere, RunFails, Elsewhere

-----------------------------------------------------------------------------
(* Every behaviour *)

LEMMA PreparationStarts == ASSUME Init PROVE PreparationInvariant
<1>1. RequestsKnow
  <2>1. request = [kind \in Commands |-> NoRequest]
    BY DEF Init
  <2>2. "save" \in Commands /\ "rebuild" \in Commands
    BY DEF Commands
  <2> QED BY <2>1, <2>2, NoRequestKnows DEF RequestsKnow
<1>2. FormKnows
  <2> DEFINE keyed == [NoForm EXCEPT !.key = FormKey]
  <2>1. /\ DOMAIN NoForm = {"key", "changed", "on"} /\ ~NoForm.changed
        /\ DOMAIN keyed = {"key", "changed", "on"} /\ ~keyed.changed
    BY DEF NoForm
  <2>2. form = keyed \/ form = NoForm
    BY DEF Init
  <2> HIDE DEF keyed
  <2> QED BY <2>1, <2>2 DEF FormKnows
<1>3. DOMAIN doc = {"analysis", "content", "writes", "review"}
  <2> DEFINE fields == {"analysis", "content", "writes", "review"}
             written(n) == [NoDocument EXCEPT !.analysis = 1, !.content = n, !.writes = n]
             rebuilt == [NoDocument EXCEPT !.analysis = Len(analyses)]
  <2>1. DOMAIN NoDocument = fields /\ DOMAIN rebuilt = fields /\ \A n : DOMAIN written(n) = fields
    BY DEF NoDocument
  <2>2. doc = NoDocument \/ doc = rebuilt \/ \E n \in 0 .. 1 : doc = written(n)
    BY DEF Init
  <2> HIDE DEF written, rebuilt
  <2> QED BY <2>1, <2>2
<1>4. analyses \in Seq({analyses[i] : i \in DOMAIN analyses}) /\ DecisionsAreOnTheAnalysisShown
  <2> DEFINE two == <<Analysis(0, 0), Analysis(0, 1)>>
  <2>1. two[1].on = 0 /\ two[2].on = 1
    BY DEF Analysis
  <2>2. analyses = <<>> \/ \E n \in 0 .. 2 : analyses = SubSeq(two, 1, n)
    BY PreparationConstants DEF Init
  <2>3. CASE analyses = <<>>
    BY <2>3 DEF DecisionsAreOnTheAnalysisShown
  <2>4. ASSUME NEW n \in 0 .. 2, analyses = SubSeq(two, 1, n)
        PROVE  /\ analyses \in Seq({analyses[i] : i \in DOMAIN analyses})
               /\ DecisionsAreOnTheAnalysisShown
    <3>1. /\ DOMAIN analyses = 1 .. n /\ Len(analyses) = n
          /\ \A i \in 1 .. n : analyses[i] = two[i]
          /\ analyses = [i \in 1 .. n |-> two[i]]
      BY <2>4
    <3> HIDE DEF two
    <3>2. DecisionsAreOnTheAnalysisShown
      BY <2>1, <3>1 DEF DecisionsAreOnTheAnalysisShown
    <3>3. analyses \in Seq({analyses[i] : i \in DOMAIN analyses})
      <4> DEFINE Q == {analyses[i] : i \in DOMAIN analyses}
      <4>1. \A i \in 1 .. n : analyses[i] \in Q
        BY <3>1
      <4> HIDE DEF Q
      <4>2. analyses \in [1 .. n -> Q]
        BY <3>1, <4>1
      <4>3. analyses \in Seq(Q)
        BY <4>2
      <4> QED BY <4>3 DEF Q
    <3> QED BY <3>2, <3>3
  <2> QED BY <2>2, <2>3, <2>4
<1> QED BY <1>1, <1>2, <1>3, <1>4, InParts DEF RecordsAreSound

LEMMA PreparationGoesOn ==
  ASSUME PreparationInvariant, [Next]_vars
  PROVE  PreparationInvariant'
<1>1. RequestsKnow /\ FormKnows /\ RecordsAreSound
  BY InParts
<1>2. CASE UNCHANGED vars
  <2>1. UNCHANGED <<request, form, analyses, doc>>
    BY <1>2 DEF vars, server, screen
  <2> QED BY <1>1, <2>1, RequestsStay, FormStays, RecordsStay, InPartsAfter
<1>3. ASSUME NEW kind \in Commands, Serve(kind) PROVE PreparationInvariant'
  <2>1. UNCHANGED form
    BY <1>3 DEF Serve, screen
  <2> QED BY <1>1, <1>3, <2>1, ServeKeeps, GoingOnKnows, FormStays, InPartsAfter
<1>4. CASE DetailServed \/ RunEnds
  <2>1. UNCHANGED <<request, form>>
    BY <1>4 DEF DetailServed, RunEnds, screen
  <2>2. RecordsAreSound'
    <3>1. CASE DetailServed
      BY <1>1, <3>1, RecordsStay DEF DetailServed, server
    <3>2. CASE RunEnds
      BY <1>1, <3>2, RunKeeps
    <3> QED BY <1>4, <3>1, <3>2
  <2> QED BY <1>1, <2>1, <2>2, RequestsStay, FormStays, InPartsAfter
<1> QED BY <1>2, <1>3, <1>4, EffectsKeep, ReaderKeeps, ArrivalsKeep, SurroundingsKeep
        DEF Next, Machine, ServerAnswers

\* The inductive invariant: what a form and a command know of the analysis and the document they
\* were made over.
THEOREM CommandsAreMadeOverWhatWasShown == Spec => []PreparationInvariant
  BY PreparationStarts, PreparationGoesOn, PTL DEF Spec

\* A decision is saved on the analysis its reader made it on, whatever other analysis, of a run
\* or another tab, came meanwhile (MatchingPage.tsx, the key of the form; expected_analysis_id).
THEOREM DecisionsFollowTheirAnalysis == Spec => []DecisionsAreOnTheAnalysisShown
<1>1. PreparationInvariant => DecisionsAreOnTheAnalysisShown
  BY DEF PreparationInvariant
<1> QED BY <1>1, CommandsAreMadeOverWhatWasShown, PTL

\* Content this screen throws away was named in a question first (VerificationPage.tsx, the
\* rebuild's confirmation; expected_document_hash).
THEOREM RebuildsAreConfirmed == Spec => RebuildDiscardsWhatWasConfirmed
<1> DEFINE Discarded == doc.content # 0 /\ doc'.content = 0 /\ request["rebuild"].stage = "sent"
                        /\ request'["rebuild"].stage = "answered"
<1>1. PreparationInvariant /\ [Next]_vars => [Discarded => request["rebuild"].confirmed]_vars
  <2> SUFFICES ASSUME PreparationInvariant, [Next]_vars, Discarded
               PROVE  request["rebuild"].confirmed
    OBVIOUS
  <2>1. doc' # doc /\ request' # request
    OBVIOUS
  <2>2. ~UNCHANGED vars
    BY <2>1 DEF vars, server
  <2>3. ~Effect /\ ~(Calm /\ Reader) /\ ~Arrivals /\ ~Surroundings
    BY <2>1, EffectsKeep, ReaderKeeps, ArrivalsKeep, SurroundingsKeep
  <2>4. ~DetailServed /\ ~RunEnds
    BY <2>1 DEF DetailServed, RunEnds, server
  <2>5. PICK kind \in Commands : Serve(kind)
    BY <2>2, <2>3, <2>4 DEF Next, Machine, ServerAnswers
  <2>6. RequestsKnow /\ RecordsAreSound
    BY InParts
  <2> QED BY <2>5, <2>6, ServeKeeps
<1> QED BY <1>1, CommandsAreMadeOverWhatWasShown, PTL DEF Spec, RebuildDiscardsWhatWasConfirmed
=============================================================================
