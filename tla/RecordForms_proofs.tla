---------------------------- MODULE RecordForms_proofs ----------------------------
(***************************************************************************)
(* What the forms over a record, and the page of the facts, promise for    *)
(* any values, facts and budgets: a save never goes over what its reader   *)
(* was not shown, one save of the settings changes only what was typed in, *)
(* a correction is of the fact it replaces, and no fact goes back.         *)
(***************************************************************************)
EXTENDS MCRecordForms, SequenceTheorems, FiniteSetTheorems, TLAPS

-----------------------------------------------------------------------------
(* The record and what was read of it *)

\* What a step of the server may do to the record.
RecordGoesOn ==
  /\ IsRecord(record') /\ record.version <= record'.version
  /\ record'.version = record.version => \A f \in Settings : record'.value[f] = record.value[f]

LEMMA ReadingsStay ==
  ASSUME ReadingsAreSound, RecordGoesOn
  PROVE  /\ \A row : IsReadingOf(row, record) => IsReadingOf(row, record')
         /\ IsReadingOf(record', record')
  BY DEF ReadingsAreSound, RecordGoesOn, IsReadingOf, IsRecord

LEMMA RecordStays ==
  ASSUME ReadingsAreSound, record' = record
  PROVE  RecordGoesOn
  BY DEF ReadingsAreSound, RecordGoesOn, IsRecord

LEMMA EntersIsNoSetting ==
  ASSUME NEW row, IsRecord(row), NEW status
  PROVE  /\ IsRecord(Enters(row, status))
         /\ Enters(row, status).version = row.version
         /\ Enters(row, status).value = row.value
<1> DEFINE q == Enters(row, status)
           log == Append(row.log, [to |-> status, corrects |-> 0])
<1>1. q = [row EXCEPT !.status = status, !.log = log]
  BY DEF Enters
<1> HIDE DEF q, log
<1>2. IsRecord(q) /\ q.version = row.version /\ q.value = row.value
  BY <1>1 DEF IsRecord
<1> QED BY <1>2 DEF q

\* What leaves the record and the screen of the forms as they are.
onForms == <<record, cached, fetch, page, dialog, form, etag, conflict, latest, request, told, typed>>

LEMMA SameFormsKeep ==
  ASSUME FormsInvariant, UNCHANGED onForms
  PROVE  FormsInvariant'
<1>1. ReadingsAreSound' /\ FormsAreSound'
  BY DEF onForms, FormsInvariant, ReadingsAreSound, FormsAreSound, IsReading, IsRecord
<1>2. CommandsAreSound'
  BY DEF onForms, FormsInvariant, CommandsAreSound, IsCommand, IsReading
<1>3. NotesAreTold' /\ SettingsAreTold'
  BY DEF onForms, FormsInvariant, NotesAreTold, SettingsAreTold, IsOfVersion
<1> QED BY <1>1, <1>2, <1>3 DEF FormsInvariant

-----------------------------------------------------------------------------
(* The server *)

\* What every command of this tab does to the record: it goes on, and the settings change only
\* with a settings command of the present version, to what the form held.
Served ==
  /\ RecordGoesOn
  /\ \E verdict : Answered(verdict)
  /\ request.kind \notin {"update"} => record'.value["notes"] = record.value["notes"]
  /\ record'.value["notes"] # record.value["notes"] =>
        record.value["notes"] = request.seen.value["notes"]
  /\ \/ \A f \in Settings : record'.value[f] = record.value[f]
     \/ /\ request.kind = "settings" /\ record.version = request.etag
        /\ \A f \in Settings : record'.value[f] = request.form[f]

\* Which command a step belongs to.
LEMMA StepIsOfItsKind ==
  ASSUME FormsInvariant, request.stage = "sent"
  PROVE  /\ IsCommand(request)
         /\ Head(request.steps) \in StepsOf(request.kind)
         /\ request.kind # "load" => request.form \in [Fields -> Values]
<1>1. IsCommand(request)
  BY DEF FormsInvariant, CommandsAreSound, NoRequest
<1> DEFINE S == StepsOf(request.kind)
<1>2. request.steps \in Seq(S) /\ request.steps # <<>>
  BY <1>1 DEF IsCommand
<1> HIDE DEF S
<1>3. Head(request.steps) \in S
  BY <1>2
<1>4. request.kind # "load" => request.form \in [Fields -> Values]
  BY <1>1 DEF IsCommand
<1> QED BY <1>1, <1>3, <1>4 DEF S

LEMMA WritesKeepsTheOthers ==
  ASSUME ReadingsAreSound, NEW fields, fields \subseteq Fields \ Settings,
         request.form \in [Fields -> Values], Writes(fields)
  PROVE  /\ RecordGoesOn
         /\ \A f \in Settings : record'.value[f] = record.value[f]
         /\ "notes" \notin fields => record'.value["notes"] = record.value["notes"]
<1> DEFINE value == [f \in Fields |-> IF f \in fields THEN request.form[f] ELSE record.value[f]]
<1>1. value \in [Fields -> Values]
  BY DEF ReadingsAreSound, IsRecord
<1>2. /\ \A f \in Settings : value[f] = record.value[f]
      /\ "notes" \notin fields => value["notes"] = record.value["notes"]
  BY DEF Settings, Fields
<1>3. record' = [record EXCEPT !.value = value]
  BY DEF Writes
<1> HIDE DEF value
<1>4. IsRecord(record') /\ record'.version = record.version /\ record'.value = value
  BY <1>1, <1>3 DEF ReadingsAreSound, IsRecord
<1> QED BY <1>2, <1>4 DEF RecordGoesOn, ReadingsAreSound, IsRecord

LEMMA ServeIsSound == ASSUME FormsInvariant, Serve PROVE Served
<1> DEFINE step == Head(request.steps)
<1>1. request.stage = "sent"
  BY DEF Serve
<1>2. IsCommand(request) /\ step \in StepsOf(request.kind)
  BY <1>1, StepIsOfItsKind
<1>3. request.kind # "load" => request.form \in [Fields -> Values]
  BY <1>1, StepIsOfItsKind
<1>4. ReadingsAreSound
  BY DEF FormsInvariant
<1>5. ASSUME record' = record, \E verdict : Answered(verdict)
      PROVE  Served
  BY <1>4, <1>5, RecordStays DEF Served
<1>6. request.kind \in Dialogs \union {"settings", "load"} /\ step \in StepsOf(request.kind)
  BY <1>2 DEF IsCommand
<1> HIDE DEF step
<1>7. CASE step = "posting"
  <2>1. request.kind = "posting"
    BY <1>6, <1>7 DEF StepsOf
  <2>2. ServePosting
    BY <1>7 DEF Serve, step
  <2>3. CASE Writes({"posting"}) /\ Answered("accepted")
    <3>1. {"posting"} \subseteq Fields \ Settings
      BY DEF Fields, Settings
    <3>2. /\ RecordGoesOn /\ \A f \in Settings : record'.value[f] = record.value[f]
          /\ record'.value["notes"] = record.value["notes"]
      BY <1>3, <1>4, <2>1, <2>3, <3>1, WritesKeepsTheOthers
    <3> QED BY <2>3, <3>2 DEF Served
  <2> QED BY <1>5, <2>2, <2>3 DEF ServePosting, Serves
<1>8. CASE step = "action"
  <2>1. request.kind = "update"
    BY <1>6, <1>8 DEF StepsOf, Dialogs
  <2>2. ServeAction
    BY <1>8 DEF Serve, step
  <2>3. CASE Writes({"action", "date"}) /\ Answered("accepted")
    <3>1. {"action", "date"} \subseteq Fields \ Settings
      BY DEF Fields, Settings
    <3>2. /\ RecordGoesOn /\ \A f \in Settings : record'.value[f] = record.value[f]
          /\ record'.value["notes"] = record.value["notes"]
      BY <1>3, <1>4, <2>1, <2>3, <3>1, WritesKeepsTheOthers
    <3> QED BY <2>3, <3>2 DEF Served
  <2> QED BY <1>5, <2>2, <2>3 DEF ServeAction, Serves
<1>9. CASE step = "notes"
  <2>1. request.kind = "update"
    BY <1>6, <1>9 DEF StepsOf, Dialogs
  <2>2. ServeNotes
    BY <1>9 DEF Serve, step
  <2>3. CASE /\ record.value["notes"] = request.seen.value["notes"]
             /\ Writes({"notes"}) /\ Answered("accepted")
    <3>1. {"notes"} \subseteq Fields \ Settings
      BY DEF Fields, Settings
    <3>2. RecordGoesOn /\ \A f \in Settings : record'.value[f] = record.value[f]
      BY <1>3, <1>4, <2>1, <2>3, <3>1, WritesKeepsTheOthers
    <3> QED BY <2>1, <2>3, <3>2 DEF Served
  <2> QED BY <1>5, <2>2, <2>3 DEF ServeNotes, Serves
<1>10. CASE step = "settings"
  <2>1. request.kind = "settings"
    BY <1>6, <1>10 DEF StepsOf
  <2>2. ServeSettings
    BY <1>10 DEF Serve, step
  <2> DEFINE value == [f \in Fields |-> IF f \in Settings THEN request.form[f] ELSE record.value[f]]
             version == record.version + 1
  <2>3. CASE /\ record.version = request.etag /\ Answered("accepted")
             /\ record' = [record EXCEPT !.version = version, !.value = value]
    <3>1. value \in [Fields -> Values]
      BY <1>3, <1>4, <2>1 DEF ReadingsAreSound, IsRecord
    <3>2. /\ \A f \in Settings : value[f] = request.form[f]
          /\ value["notes"] = record.value["notes"]
      BY DEF Settings, Fields
    <3>4. version \in Nat /\ version > record.version
      BY <1>4 DEF ReadingsAreSound, IsRecord
    <3> HIDE DEF value, version
    <3>3. IsRecord(record') /\ record'.version = version /\ record'.value = value
      BY <1>4, <2>3, <3>1, <3>4 DEF ReadingsAreSound, IsRecord
    <3>5. RecordGoesOn
      BY <1>4, <3>3, <3>4 DEF RecordGoesOn, ReadingsAreSound, IsRecord
    <3> QED BY <2>1, <2>3, <3>2, <3>3, <3>5 DEF Served
  <2> QED BY <1>5, <2>2, <2>3 DEF ServeSettings, Serves
\* the others write no field
<1>11. ASSUME IsRecord(record'), record'.version = record.version, record'.value = record.value,
              \E verdict : Answered(verdict)
       PROVE  Served
  BY <1>4, <1>11 DEF Served, RecordGoesOn, ReadingsAreSound, IsRecord
<1>12. CASE step \in {"transition", "closing"}
  <2>1. \E status : Transitions(status)
    BY <1>12 DEF Serve, step, ServeTransition, ServeClosing
  <2>2. PICK status : Transitions(status)
    BY <2>1
  <2>3. CASE record' = Enters(record, status) /\ Answered("accepted")
    BY <1>4, <1>11, <2>3, EntersIsNoSetting DEF ReadingsAreSound
  <2> QED BY <1>5, <2>2, <2>3 DEF Transitions, Serves
<1>13. CASE step = "correction"
  <2>1. ServeCorrection
    BY <1>13 DEF Serve, step
  <2> DEFINE log == Append(record.log, [to |-> request.correction.to,
                                        corrects |-> request.correction.event])
             to == request.correction.to
  <2>2. CASE Answered("accepted") /\ record' = [record EXCEPT !.status = to, !.log = log]
    <3> HIDE DEF log, to
    <3>1. IsRecord(record') /\ record'.version = record.version /\ record'.value = record.value
      BY <1>4, <2>2 DEF ReadingsAreSound, IsRecord
    <3> QED BY <1>11, <2>2, <3>1
  <2> QED BY <1>5, <2>1, <2>2 DEF ServeCorrection, Serves
<1>14. CASE step = "deletion"
  <2>1. ServeDeletion
    BY <1>14 DEF Serve, step
  <2>2. CASE Answered("accepted") /\ record' = [record EXCEPT !.deleted = TRUE]
    <3>1. IsRecord(record') /\ record'.version = record.version /\ record'.value = record.value
      BY <1>4, <2>2 DEF ReadingsAreSound, IsRecord
    <3> QED BY <1>11, <2>2, <3>1
  <2> QED BY <1>5, <2>1, <2>2 DEF ServeDeletion, Serves
<1>15. CASE step \in {"submission", "external"}
  <2>1. ServeSubmission \/ ServeExternal
    BY <1>15 DEF Serve, step
  <2>2. ASSUME NEW hash, NEW asked, NEW acked, Recorded(hash, asked, acked), Answered("accepted")
        PROVE  Served
    <3> DEFINE entered == IF record.status = "saved" THEN Enters(record, "applied") ELSE record
               submitted == entered.submitted \union {hash}
    <3>1. IsRecord(entered) /\ entered.version = record.version /\ entered.value = record.value
      BY <1>4, EntersIsNoSetting DEF ReadingsAreSound
    <3>2. record' = [entered EXCEPT !.submitted = submitted]
      BY <2>2 DEF Recorded
    <3> HIDE DEF entered, submitted
    <3>3. IsRecord(record') /\ record'.version = record.version /\ record'.value = record.value
      BY <3>1, <3>2 DEF IsRecord
    <3> QED BY <1>11, <2>2, <3>3
  <2> QED BY <1>5, <2>1, <2>2 DEF ServeSubmission, ServeExternal, Serves
<1>16. CASE step = "load"
  BY <1>5, <1>16 DEF Serve, step, ServeLoad, Serves
<1>17. step \in (Dialogs \union {"settings", "load", "transition", "action", "notes"}) \ {"update", "history"}
      \/ step \in {"update", "history"}
  BY <1>6 DEF StepsOf
<1>18. CASE step \in {"update", "history"}
  BY <1>5, <1>18 DEF Serve, step, ServeLoad, Serves
<1> QED BY <1>7, <1>8, <1>9, <1>10, <1>12, <1>13, <1>14, <1>15, <1>16, <1>17, <1>18 DEF Dialogs

\* The screen, but not the command under way.
beside == <<cached, fetch, page, dialog, form, etag, conflict, latest, told, typed>>

LEMMA RecordMoveKeeps ==
  ASSUME FormsInvariant, RecordGoesOn, UNCHANGED beside
  PROVE  /\ ReadingsAreSound' /\ FormsAreSound'
         /\ page = "settings" =>
              /\ IsOfVersion(etag, form)'
              /\ latest # NotLoaded => \A f \in Settings : latest.value[f] \in told'[f]
<1>1. ReadingsAreSound'
  <2>1. ReadingsAreSound
    BY DEF FormsInvariant
  <2> QED BY <2>1, ReadingsStay DEF ReadingsAreSound, IsReading, RecordGoesOn, beside
<1>2. record.version \in Nat /\ record'.version \in Nat
  BY DEF FormsInvariant, ReadingsAreSound, RecordGoesOn, IsRecord
<1>3. FormsAreSound'
  BY <1>2 DEF FormsInvariant, FormsAreSound, RecordGoesOn, beside
<1>4. page = "settings" => IsOfVersion(etag, form)'
  BY <1>2 DEF FormsInvariant, FormsAreSound, SettingsAreTold, IsOfVersion, RecordGoesOn, beside
<1> QED BY <1>1, <1>3, <1>4 DEF FormsInvariant, SettingsAreTold, beside

LEMMA OthersKeepForms ==
  ASSUME FormsInvariant, RecordGoesOn, UNCHANGED beside, request' = request
  PROVE  FormsInvariant'
<1>1. IsCommand(request) => IsCommand(request)'
  BY ReadingsStay DEF FormsInvariant, IsCommand, IsReading
<1>2. CommandsAreSound'
  BY <1>1 DEF FormsInvariant, CommandsAreSound, beside
<1>3. NotesAreTold'
  BY DEF FormsInvariant, NotesAreTold, beside
<1>4. record.version \in Nat /\ record'.version \in Nat
  BY DEF FormsInvariant, ReadingsAreSound, RecordGoesOn, IsRecord
<1>5. page = "settings" /\ request.kind = "settings" /\ request.stage = "sent" =>
         request.etag \in Nat /\ request.etag <= record.version
  BY DEF FormsInvariant, SettingsAreTold, CommandsAreSound, IsCommand, NoRequest
<1>6. SettingsAreTold'
  <2>1. page = "settings" /\ request.kind = "settings" /\ request.stage = "sent" =>
           request.etag <= record'.version /\ IsOfVersion(request.etag, request.form)'
    BY <1>4, <1>5 DEF FormsInvariant, SettingsAreTold, IsOfVersion, RecordGoesOn, beside
  <2> QED BY <2>1, RecordMoveKeeps DEF SettingsAreTold, beside
<1> QED BY <1>2, <1>3, <1>6, RecordMoveKeeps DEF FormsInvariant

LEMMA AnsweredIsACommand ==
  ASSUME IsCommand(request), request.stage = "sent", NEW verdict, Answered(verdict),
         IsReadingOf(record', record')
  PROVE  /\ IsCommand(request)' /\ request'.kind = request.kind /\ request'.stage = "answered"
         /\ request.kind = "update" => request'.seen = request.seen
<1> DEFINE result == IF request.kind \in {"settings", "load"} THEN record' ELSE NotLoaded
<1>1. request' = [request EXCEPT !.stage = "answered", !.verdict = verdict, !.result = result]
  BY DEF Answered
<1>2. request.kind \in {"settings", "load"} => IsReadingOf(result, record')
  OBVIOUS
<1> HIDE DEF result
<1>3. CASE request.kind = "load"
  <2>1. request' \in [kind : {"load"}, stage : {"answered"}, steps : {request.steps},
                      verdict : {verdict}, result : {result}]
    BY <1>1, <1>3 DEF IsCommand
  <2> QED BY <1>2, <1>3, <2>1 DEF IsCommand, IsReading
<1>4. CASE request.kind # "load"
  <2>1. request' \in [kind : {request.kind}, stage : {"answered"}, steps : {request.steps},
                      form : [Fields -> Values], base : {request.base}, seen : {request.seen},
                      etag : Nat, target : {request.target}, correction : {request.correction},
                      acknowledged : {request.acknowledged}, verdict : {verdict}, result : {result}]
    BY <1>1, <1>4 DEF IsCommand
  <2> QED BY <1>2, <1>4, <2>1 DEF IsCommand, IsReading
<1> QED BY <1>3, <1>4

LEMMA ServeKeeps == ASSUME FormsInvariant, Serve PROVE FormsInvariant'
<1>1. Served /\ UNCHANGED beside
  BY ServeIsSound DEF Serve, onScreen, beside
<1>2. RecordGoesOn
  BY <1>1 DEF Served
<1>3. PICK verdict : Answered(verdict)
  BY <1>1 DEF Served
<1>4. request.stage = "sent" /\ IsCommand(request) /\ request # NoRequest
  BY StepIsOfItsKind DEF Serve, NoRequest
<1>5. IsReadingOf(record', record')
  BY <1>2, ReadingsStay DEF FormsInvariant
<1>6. /\ IsCommand(request)' /\ request'.kind = request.kind /\ request'.stage = "answered"
      /\ request.kind = "update" => request'.seen = request.seen
  BY <1>3, <1>4, <1>5, AnsweredIsACommand
<1>7. CommandsAreSound' /\ NotesAreTold'
  BY <1>1, <1>4, <1>6 DEF FormsInvariant, CommandsAreSound, NotesAreTold, beside
<1>8. SettingsAreTold'
  BY <1>1, <1>2, <1>6, RecordMoveKeeps DEF SettingsAreTold, beside
<1> QED BY <1>1, <1>2, <1>7, <1>8, RecordMoveKeeps DEF FormsInvariant

\* Another tab.
LEMMA OtherTabsKeep == ASSUME FormsInvariant, Others PROVE FormsInvariant'
<1>1. UNCHANGED beside /\ request' = request
  BY DEF Others, OtherWrites, OtherTransitions, OtherDeletes, OtherEdits, OtherSubmits, onScreen,
         beside
<1>2. ReadingsAreSound /\ IsRecord(record) /\ record.version \in Nat
  BY DEF FormsInvariant, ReadingsAreSound, IsRecord
<1>3. ASSUME IsRecord(record'), record'.version = record.version, record'.value = record.value
      PROVE  RecordGoesOn
  BY <1>2, <1>3 DEF RecordGoesOn
<1>4. ASSUME NEW f \in Fields, NEW v \in Values, OtherWrites(f, v)
      PROVE  RecordGoesOn
  <2> DEFINE value == [record.value EXCEPT ![f] = v]
             version == IF f \in Settings THEN record.version + 1 ELSE record.version
  <2>1. record' = [record EXCEPT !.value = value, !.version = version]
    BY <1>4 DEF OtherWrites
  <2>2. /\ value \in [Fields -> Values] /\ version \in Nat /\ record.version <= version
        /\ version = record.version => \A g \in Settings : value[g] = record.value[g]
    BY <1>2 DEF IsRecord, Fields, Settings
  <2> HIDE DEF value, version
  <2>3. IsRecord(record') /\ record'.version = version /\ record'.value = value
    BY <1>2, <2>1, <2>2 DEF IsRecord
  <2> QED BY <2>2, <2>3 DEF RecordGoesOn
<1>5. ASSUME NEW status, OtherTransitions(status)
      PROVE  RecordGoesOn
  BY <1>2, <1>3, <1>5, EntersIsNoSetting DEF OtherTransitions
<1>6. ASSUME OtherDeletes
      PROVE  RecordGoesOn
  <2>1. IsRecord(record') /\ record'.version = record.version /\ record'.value = record.value
    BY <1>2, <1>6 DEF OtherDeletes, IsRecord
  <2> QED BY <1>3, <2>1
<1>7. ASSUME OtherEdits
      PROVE  RecordGoesOn
  <2>1. PICK ready, hash : record' = [record EXCEPT !.hash = hash, !.ready = ready]
    BY <1>7 DEF OtherEdits
  <2>2. IsRecord(record') /\ record'.version = record.version /\ record'.value = record.value
    BY <1>2, <2>1 DEF IsRecord
  <2> QED BY <1>3, <2>2
<1>8. ASSUME OtherSubmits
      PROVE  RecordGoesOn
  <2> DEFINE entered == IF record.status = "saved" THEN Enters(record, "applied") ELSE record
             submitted == entered.submitted \union {record.hash}
  <2>1. IsRecord(entered) /\ entered.version = record.version /\ entered.value = record.value
    BY <1>2, EntersIsNoSetting
  <2>2. record' = [entered EXCEPT !.submitted = submitted]
    BY <1>8 DEF OtherSubmits, Recorded
  <2> HIDE DEF entered, submitted
  <2>3. IsRecord(record') /\ record'.version = record.version /\ record'.value = record.value
    BY <2>1, <2>2 DEF IsRecord
  <2> QED BY <1>3, <2>3
<1> QED BY <1>1, <1>4, <1>5, <1>6, <1>7, <1>8, OthersKeepForms DEF Others

-----------------------------------------------------------------------------
(* The reader *)

\* The screen changes and the record stays: what is asked of the form and of what was told.
LEMMA ScreenKeeps ==
  ASSUME FormsInvariant, record' = record, UNCHANGED <<cached, fetch, request>>,
         form' \in [Fields -> Values], told' \in [Fields -> SUBSET Values],
         etag' \in Nat, etag' <= record.version,
         latest' \in {latest, NotLoaded}, conflict'.open => conflict'.local \in [Fields -> Values] /\ page' = "settings",
         (page' = "settings") = (dialog' = "settings"), (page' = "settings") = (page = "settings"),
         dialog' = "update" => cached.value["notes"] \in told'["notes"],
         request # NoRequest \/ page = "settings" => \A f \in Fields : told[f] \subseteq told'[f],
         request.kind = "settings" => typed' = typed,
         page = "settings" => IsOfVersion(etag, form)'
  PROVE  FormsInvariant'
<1>1. ReadingsAreSound'
  BY DEF FormsInvariant, ReadingsAreSound, IsReading
<1>2. CommandsAreSound'
  BY DEF FormsInvariant, CommandsAreSound, IsCommand, IsReading
<1>3. FormsAreSound'
  BY DEF FormsInvariant, FormsAreSound
<1>4. NotesAreTold'
  BY DEF FormsInvariant, NotesAreTold, NoRequest, Fields
<1>5. SettingsAreTold'
  <2>1. \A f \in Settings : f \in Fields
    BY DEF Settings, Fields
  <2>2. page = "settings" /\ request.kind = "settings" /\ request.stage = "sent" =>
           IsOfVersion(request.etag, request.form)'
    BY <2>1 DEF FormsInvariant, SettingsAreTold, IsOfVersion
  <2> QED BY <2>1, <2>2 DEF FormsInvariant, SettingsAreTold
<1> QED BY <1>1, <1>2, <1>3, <1>4, <1>5 DEF FormsInvariant

LEMMA OpenKeeps == ASSUME FormsInvariant, NEW which \in Dialogs, Open(which) PROVE FormsInvariant'
<1>1. /\ record' = record /\ UNCHANGED <<cached, fetch, page, etag, conflict, latest, request>>
      /\ request.stage = "none" /\ dialog # "settings"
  BY DEF Open, Opens, OpensWithin, Pending, Within
<1>2. dialog' # "settings" /\ page # "settings"
  BY <1>1 DEF Open, Opens, OpensWithin, Dialogs, FormsInvariant, CommandsAreSound
<1>3. /\ form' \in [Fields -> Values] /\ told' \in [Fields -> SUBSET Values]
      /\ dialog' = "update" => cached.value["notes"] \in told'["notes"]
  <2>1. cached.value \in [Fields -> Values] /\ "notes" \in Fields
    BY DEF FormsInvariant, ReadingsAreSound, IsReading, IsReadingOf, IsRecord, Fields
  <2>2. CASE Opens(which)
    BY <2>1, <2>2 DEF Opens
  <2>3. CASE OpensWithin(which) /\ dialog # "none"
    <3>1. UNCHANGED <<form, told>> /\ dialog' # "update"
      BY <2>3 DEF OpensWithin, Within
    <3> QED BY <3>1 DEF FormsInvariant, FormsAreSound
  <2> QED BY <2>2, <2>3 DEF Open
<1>4. request = NoRequest /\ request.kind = "none"
  BY <1>1 DEF FormsInvariant, CommandsAreSound, IsCommand, NoRequest
<1>5. etag \in Nat /\ etag <= record.version /\ (conflict.open => conflict.local \in [Fields -> Values] /\ page = "settings")
  BY DEF FormsInvariant, FormsAreSound
<1> QED BY <1>1, <1>2, <1>3, <1>4, <1>5, ScreenKeeps

LEMMA CloseKeeps == ASSUME FormsInvariant, Close PROVE FormsInvariant'
<1>1. /\ record' = record
      /\ UNCHANGED <<cached, fetch, page, form, etag, conflict, latest, request, told, typed>>
  BY DEF Close
<1>2. dialog # "settings" /\ dialog' \in {"none", "history"}
  BY DEF Close, Dismissible, Dialogs, Leaves, Within
<1>3. page # "settings"
  BY <1>2 DEF FormsInvariant, CommandsAreSound
<1>4. /\ form \in [Fields -> Values] /\ told \in [Fields -> SUBSET Values]
      /\ etag \in Nat /\ etag <= record.version /\ (conflict.open => conflict.local \in [Fields -> Values] /\ page = "settings")
  BY DEF FormsInvariant, FormsAreSound
<1> QED BY <1>1, <1>2, <1>3, <1>4, ScreenKeeps

\* The open form once it holds `values` and `now` was read: it follows as a whole and is then of
\* that version, or its version stays; and what a field of the update shows or warns of is told.
LEMMA ShowsIsSound ==
  ASSUME FormsInvariant, NEW values \in [Fields -> Values], NEW now, IsReading(now),
         Shows(values, now), record' = record, typed \subseteq typed'
  PROVE  /\ form' \in [Fields -> Values] /\ told' \in [Fields -> SUBSET Values]
         /\ etag' \in Nat /\ etag' <= record.version
         /\ \A f \in Fields : told[f] \subseteq told'[f]
         /\ dialog = "update" => now.value["notes"] \in told'["notes"]
         /\ dialog = "settings" /\ IsOfVersion(etag, form)
            /\ (\A f \in Settings \ typed' : values[f] = form[f]) => IsOfVersion(etag, form)'
         /\ request.kind = "settings" /\ dialog = "settings" =>
              etag' = etag /\ told' = told
<1> DEFINE follows == {f \in FieldsOf(dialog) :
                        \/ dialog = "update" /\ FieldFollows(values, f, now.value)
                        \/ dialog = "settings" /\ SettingsFollow(values)}
           warned == {f \in FieldsOf(dialog) \ follows :
                      dialog = "update" /\ now.value[f] # cached.value[f]}
<1>1. /\ form' = [f \in Fields |-> IF f \in follows THEN now.value[f] ELSE values[f]]
      /\ told' = [f \in Fields |-> IF f \in follows \union warned THEN told[f] \union {now.value[f]}
                                   ELSE told[f]]
      /\ etag' = IF dialog = "settings" /\ SettingsFollow(values) THEN now.version ELSE etag
  BY DEF Shows, EtagFollows
<1>2. /\ now.value \in [Fields -> Values] /\ now.version \in Nat /\ now.version <= record.version
      /\ told \in [Fields -> SUBSET Values] /\ etag \in Nat /\ etag <= record.version
      /\ now.version = record.version => \A f \in Settings : now.value[f] = record.value[f]
  BY DEF FormsInvariant, FormsAreSound, IsReading, IsReadingOf, IsRecord
<1>3. /\ \A f \in Settings : f \in Fields
      /\ "notes" \in Fields
  BY DEF Settings, Fields
<1>4. dialog = "update" => "notes" \in follows \union warned
                           \/ now.value["notes"] = cached.value["notes"]
  BY DEF FieldsOf
<1>5. dialog = "update" => cached.value["notes"] \in told["notes"]
  BY DEF FormsInvariant, NotesAreTold
<1>6. dialog = "settings" => follows = (IF SettingsFollow(values) THEN Settings ELSE {}) /\ warned = {}
  BY DEF FieldsOf
<1>7. request.kind = "settings" => ~SettingsFollow(values)
  BY DEF SettingsFollow
<1> HIDE DEF follows, warned
<1>8. /\ form' \in [Fields -> Values] /\ told' \in [Fields -> SUBSET Values]
      /\ \A f \in Fields : told[f] \subseteq told'[f]
  BY <1>1, <1>2
<1>9. dialog = "update" => now.value["notes"] \in told'["notes"]
  BY <1>1, <1>2, <1>3, <1>4, <1>5
<1>10. etag' \in Nat /\ etag' <= record.version
  BY <1>1, <1>2
<1>11. ASSUME dialog = "settings", IsOfVersion(etag, form),
              \A f \in Settings \ typed' : values[f] = form[f]
       PROVE  IsOfVersion(etag, form)'
  <2>1. CASE SettingsFollow(values)
    BY <1>1, <1>2, <1>3, <1>6, <1>11, <2>1 DEF IsOfVersion
  <2>2. CASE ~SettingsFollow(values)
    BY <1>1, <1>2, <1>3, <1>6, <1>11, <2>2 DEF IsOfVersion
  <2> QED BY <2>1, <2>2
<1>12. request.kind = "settings" /\ dialog = "settings" => etag' = etag /\ told' = told
  BY <1>1, <1>2, <1>6, <1>7
<1> QED BY <1>8, <1>9, <1>10, <1>11, <1>12

LEMMA TypeKeeps ==
  ASSUME FormsInvariant, NEW f \in Fields, NEW v \in Values, Type(f, v)
  PROVE  FormsInvariant'
<1> DEFINE values == [form EXCEPT ![f] = v]
<1>1. /\ record' = record /\ UNCHANGED <<cached, fetch, page, dialog, conflict, latest, request>>
      /\ Shows(values, cached) /\ typed' = typed \union {f}
      /\ dialog = "settings" => request.stage = "none"
  BY DEF Type, SettingsOpen, Pending
<1>2. values \in [Fields -> Values] /\ \A g \in Settings \ typed' : values[g] = form[g]
  BY <1>1 DEF FormsInvariant, FormsAreSound, Settings, Fields
<1>3. IsReading(cached)
  BY DEF FormsInvariant, ReadingsAreSound
<1> HIDE DEF values
<1>4. /\ form' \in [Fields -> Values] /\ told' \in [Fields -> SUBSET Values]
      /\ etag' \in Nat /\ etag' <= record.version
      /\ \A g \in Fields : told[g] \subseteq told'[g]
      /\ dialog = "update" => cached.value["notes"] \in told'["notes"]
      /\ dialog = "settings" /\ IsOfVersion(etag, form) => IsOfVersion(etag, form)'
  <2>1. typed \subseteq typed'
    BY <1>1
  <2> QED BY <1>1, <1>2, <1>3, <2>1, ShowsIsSound
<1>5. /\ (page = "settings") = (dialog = "settings")
      /\ page = "settings" => IsOfVersion(etag, form)
      /\ conflict.open => conflict.local \in [Fields -> Values] /\ page = "settings"
  BY DEF FormsInvariant, CommandsAreSound, SettingsAreTold, FormsAreSound
<1>6. request.kind # "settings"
  BY <1>1, <1>5 DEF FormsInvariant, CommandsAreSound, IsCommand, NoRequest
<1> QED BY <1>1, <1>4, <1>5, <1>6, ScreenKeeps

\* A command is sent with what the screen holds.
LEMMA SendsKeeps ==
  ASSUME FormsInvariant, NEW kind \in Dialogs \union {"settings"}, kind # "history", NEW steps,
         steps \in Seq(StepsOf(kind)), steps # <<>>, dialog = kind, Sends(kind, steps)
  PROVE  FormsInvariant'
<1> DEFINE held == IF kind = "correction" THEN correction ELSE NoCorrection
<1>1. /\ record' = record
      /\ UNCHANGED <<cached, fetch, page, dialog, form, etag, conflict, latest, told, typed>>
  BY DEF Sends, onScreen
<1>2. request' = [kind |-> kind, stage |-> "sent", steps |-> steps, form |-> form, base |-> base,
                  seen |-> cached, etag |-> etag, target |-> target, correction |-> held,
                  acknowledged |-> acknowledged, verdict |-> "none", result |-> NotLoaded]
  BY DEF Sends
<1> HIDE DEF held
<1>3. form \in [Fields -> Values] /\ etag \in Nat /\ etag <= record.version
  BY DEF FormsInvariant, FormsAreSound
<1>4. /\ request'.kind = kind /\ request'.stage = "sent" /\ request'.steps = steps
      /\ request'.form = form /\ request'.etag = etag /\ request'.seen = cached
  BY <1>2
<1>5. IsCommand(request)'
  <2>1. request' \in [kind : {kind}, stage : {"sent"}, steps : {steps}, form : [Fields -> Values],
                      base : {base}, seen : {cached}, etag : Nat, target : {target},
                      correction : {held}, acknowledged : {acknowledged}, verdict : {"none"},
                      result : {NotLoaded}]
    BY <1>2, <1>3
  <2>2. request' \in [kind : {request'.kind}, stage : {request'.stage}, steps : {request'.steps},
                      form : [Fields -> Values], base : {request'.base}, seen : {request'.seen},
                      etag : Nat, target : {request'.target}, correction : {request'.correction},
                      acknowledged : {request'.acknowledged}, verdict : {request'.verdict},
                      result : {request'.result}]
    BY <2>1
  <2>3. kind # "load"
    BY DEF Dialogs
  <2> QED BY <1>4, <2>2, <2>3 DEF IsCommand
<1>6. ReadingsAreSound' /\ FormsAreSound'
  BY <1>1 DEF FormsInvariant, ReadingsAreSound, IsReading, FormsAreSound
<1>7. CommandsAreSound'
  BY <1>1, <1>4, <1>5 DEF FormsInvariant, CommandsAreSound, Dialogs
<1>8. NotesAreTold'
  BY <1>1, <1>4 DEF FormsInvariant, NotesAreTold
<1>9. SettingsAreTold'
  BY <1>1, <1>3, <1>4 DEF FormsInvariant, SettingsAreTold, IsOfVersion
<1> QED BY <1>6, <1>7, <1>8, <1>9 DEF FormsInvariant

LEMMA SavesKeep ==
  ASSUME FormsInvariant,
         \/ SavePosting \/ SaveUpdate \/ SaveSettings \/ RecordSubmission \/ RecordExternal
         \/ SendCorrection \/ ConfirmClosing \/ ConfirmDeletion
  PROVE  FormsInvariant'
<1>1. ASSUME NEW kind \in {"posting", "settings", "submission", "external", "correction", "closing",
                           "deletion"},
             dialog = kind, Sends(kind, <<kind>>)
      PROVE  FormsInvariant'
  <2>1. kind \in Dialogs \union {"settings"} /\ kind # "history" /\ StepsOf(kind) = {kind}
    BY DEF Dialogs, StepsOf
  <2>2. <<kind>> \in Seq(StepsOf(kind)) /\ <<kind>> # <<>>
    BY <2>1
  <2> QED BY <1>1, <2>1, <2>2, SendsKeeps
<1>2. CASE SaveUpdate
  <2> DEFINE S == StepsOf("update")
  <2>1. PICK a, b, c : /\ a \in {<<"transition">>, <<>>} /\ b \in {<<"action">>, <<>>}
                       /\ c \in {<<"notes">>, <<>>} /\ dialog = "update"
                       /\ a \o b \o c # <<>> /\ Sends("update", a \o b \o c)
    BY <1>2 DEF SaveUpdate
  <2>6. {"transition", "action", "notes"} \subseteq S
    BY DEF StepsOf
  <2> HIDE DEF S
  <2>2. a \in Seq(S) /\ b \in Seq(S) /\ c \in Seq(S)
    <3>1. <<>> \in Seq(S) /\ \A x \in S : <<x>> \in Seq(S)
      OBVIOUS
    <3>2. <<"transition">> \in Seq(S) /\ <<"action">> \in Seq(S) /\ <<"notes">> \in Seq(S)
      BY <2>6, <3>1
    <3> QED BY <2>1, <3>1, <3>2
  <2>3. a \o b \in Seq(S)
    BY <2>2, ConcatProperties
  <2>4. a \o b \o c \in Seq(S)
    BY <2>2, <2>3, ConcatProperties
  <2>5. "update" \in Dialogs
    BY DEF Dialogs
  <2> QED BY <2>1, <2>4, <2>5, SendsKeeps DEF S
<1> QED BY <1>1, <1>2 DEF SavePosting, SaveSettings, RecordSubmission, RecordExternal,
        SendCorrection, ConfirmClosing, ConfirmDeletion, Confirms

LEMMA ResolveKeeps ==
  ASSUME FormsInvariant, NEW chosen \in SUBSET Settings, Resolve(chosen)
  PROVE  FormsInvariant'
<1>1. /\ record' = record /\ UNCHANGED <<cached, fetch, page, dialog, request, told>>
      /\ form' = [f \in Fields |-> IF f \in chosen THEN conflict.local[f]
                                   ELSE IF f \in Settings THEN latest.value[f] ELSE form[f]]
      /\ etag' = latest.version /\ conflict'.open = FALSE /\ latest' = NotLoaded
      /\ typed' = chosen /\ conflict.open /\ latest # NotLoaded /\ request.stage = "none"
  BY DEF Resolve, NoConflict, Pending
<1>2. /\ IsReading(latest) /\ form \in [Fields -> Values] /\ conflict.local \in [Fields -> Values]
      /\ told \in [Fields -> SUBSET Values]
  BY <1>1 DEF FormsInvariant, ReadingsAreSound, FormsAreSound
<1>3. /\ latest.value \in [Fields -> Values] /\ latest.version \in Nat
      /\ latest.version <= record.version
      /\ latest.version = record.version => \A f \in Settings : latest.value[f] = record.value[f]
  BY <1>2 DEF IsReading, IsReadingOf, IsRecord
<1>4. form' \in [Fields -> Values] /\ \A f \in Settings : f \in Fields
  BY <1>1, <1>2, <1>3 DEF Settings, Fields
<1>5. page = "settings" => IsOfVersion(etag, form)'
  <2>1. page = "settings" => \A f \in Settings : latest.value[f] \in told[f]
    BY <1>1 DEF FormsInvariant, SettingsAreTold
  <2>2. \A f \in Settings \ chosen : form'[f] = latest.value[f]
    BY <1>1, <1>4
  <2> QED BY <1>1, <1>3, <2>1, <2>2 DEF IsOfVersion
<1>6. request = NoRequest /\ request.kind = "none"
  BY <1>1 DEF FormsInvariant, CommandsAreSound, IsCommand, NoRequest
<1>7. /\ (page = "settings") = (dialog = "settings")
      /\ dialog = "update" => cached.value["notes"] \in told["notes"]
  BY DEF FormsInvariant, CommandsAreSound, NotesAreTold
<1> QED BY <1>1, <1>2, <1>3, <1>4, <1>5, <1>6, <1>7, ScreenKeeps

LEMMA LoadLatestKeeps == ASSUME FormsInvariant, LoadLatest PROVE FormsInvariant'
<1>1. /\ record' = record /\ latest' = NotLoaded /\ conflict.open
      /\ UNCHANGED <<cached, fetch, page, dialog, form, etag, conflict, told, typed>>
      /\ request' = [kind |-> "load", stage |-> "sent", steps |-> <<"load">>, verdict |-> "none",
                     result |-> NotLoaded]
  BY DEF LoadLatest
<1>2. IsCommand(request)' /\ request'.kind = "load"
  <2>1. <<"load">> \in Seq(StepsOf("load")) /\ <<"load">> # <<>>
    BY DEF StepsOf
  <2>2. request' \in [kind : {"load"}, stage : {request'.stage}, steps : {request'.steps},
                      verdict : {request'.verdict}, result : {request'.result}]
    BY <1>1
  <2> QED BY <1>1, <2>1, <2>2 DEF IsCommand
<1>3. page = "settings"
  BY <1>1 DEF FormsInvariant, FormsAreSound, CommandsAreSound
<1> QED BY <1>1, <1>2, <1>3 DEF FormsInvariant, ReadingsAreSound, FormsAreSound, CommandsAreSound,
        NotesAreTold, SettingsAreTold, IsReading, IsOfVersion, NoRequest

-----------------------------------------------------------------------------
(* What reaches the browser *)

\* A command goes on, is held until the record was read, or is over, and its dialog may close.
LEMMA AnswerKeeps ==
  ASSUME FormsInvariant,
         UNCHANGED <<record, cached, page, form, etag, conflict, latest, told, typed>>,
         fetch' = fetch \/ fetch'.stage # "answered" \/ fetch'.value = record,
         (page = "settings") = (dialog' = "settings"), dialog' = "update" => dialog = "update",
         request' = request \/ request' = NoRequest
            \/ /\ IsCommand(request') /\ request # NoRequest /\ request'.kind = request.kind
               /\ request.kind \notin {"settings", "load"}
               /\ request.kind = "update" => request'.seen = request.seen,
         request' = request => IsCommand(request) \/ request = NoRequest
  PROVE  FormsInvariant'
<1>1. ReadingsAreSound'
  BY DEF FormsInvariant, ReadingsAreSound, IsReading, IsReadingOf, IsRecord
<1>2. IsCommand(request') => IsCommand(request)'
  BY DEF IsCommand, IsReading
<1>3. CommandsAreSound'
  BY <1>2 DEF FormsInvariant, CommandsAreSound, NoRequest
<1>4. NotesAreTold' /\ FormsAreSound'
  BY DEF FormsInvariant, NotesAreTold, FormsAreSound, NoRequest
<1>5. SettingsAreTold'
  BY DEF FormsInvariant, SettingsAreTold, IsOfVersion, NoRequest
<1> QED BY <1>1, <1>3, <1>4, <1>5 DEF FormsInvariant

LEMMA ReadServedKeeps == ASSUME FormsInvariant, ReadServed \/ Focus PROVE FormsInvariant'
<1>1. /\ UNCHANGED <<record, cached, page, dialog, form, etag, conflict, latest, told, typed, request>>
      /\ fetch'.stage # "answered" \/ fetch'.value = record
  BY DEF ReadServed, Focus, onScreen, Asked
<1>2. /\ (page = "settings") = (dialog = "settings")
      /\ IsCommand(request) \/ request = NoRequest
  BY DEF FormsInvariant, CommandsAreSound
<1> QED BY <1>1, <1>2, AnswerKeeps

LEMMA UpdateContinuesKeeps ==
  ASSUME FormsInvariant, UpdateContinues, UNCHANGED <<record, page>>
  PROVE  FormsInvariant'
<1> DEFINE steps == Tail(request.steps)
           S == StepsOf("update")
<1>1. /\ request.kind = "update" /\ request # NoRequest /\ Len(request.steps) > 1
      /\ request' = [request EXCEPT !.stage = "sent", !.steps = steps]
      /\ UNCHANGED <<cached, fetch, dialog, form, etag, conflict, latest, told, typed>>
  BY DEF UpdateContinues, Reaches, NoRequest, onScreen
<1>2. IsCommand(request) /\ request.steps \in Seq(S)
  BY <1>1 DEF FormsInvariant, CommandsAreSound, IsCommand
<1> HIDE DEF S
<1>3. steps \in Seq(S) /\ steps # <<>>
  <2>1. request.steps # <<>>
    BY <1>1, <1>2, EmptySeq
  <2>2. Tail(request.steps) \in Seq(S) /\ Len(Tail(request.steps)) = Len(request.steps) - 1
    BY <1>2, <2>1, HeadTailProperties
  <2>3. Len(request.steps) \in Nat
    BY <1>2, LenProperties
  <2>4. Len(Tail(request.steps)) > 0
    BY <1>1, <2>2, <2>3
  <2> HIDE DEF steps
  <2>5. ASSUME NEW t, t = <<>>, Len(t) > 0 PROVE FALSE
    BY <2>5
  <2> QED BY <2>2, <2>4, <2>5 DEF steps
<1> HIDE DEF steps
<1>4. request' \in [kind : {"update"}, stage : {"sent"}, steps : {steps}, form : [Fields -> Values],
                    base : {request.base}, seen : {request.seen}, etag : Nat,
                    target : {request.target}, correction : {request.correction},
                    acknowledged : {request.acknowledged}, verdict : {request.verdict},
                    result : {request.result}]
  BY <1>1, <1>2 DEF IsCommand
<1>5. IsCommand(request') /\ request'.kind = "update" /\ request'.seen = request.seen
  <2>1. request'.kind = "update" /\ request'.stage = "sent" /\ request'.steps = steps
        /\ request'.seen = request.seen
    BY <1>4
  <2>2. request' \in [kind : {request'.kind}, stage : {request'.stage}, steps : {request'.steps},
                      form : [Fields -> Values], base : {request'.base}, seen : {request'.seen},
                      etag : Nat, target : {request'.target}, correction : {request'.correction},
                      acknowledged : {request'.acknowledged}, verdict : {request'.verdict},
                      result : {request'.result}]
    BY <1>4
  <2>3. "update" \in Dialogs
    BY DEF Dialogs
  <2> QED BY <1>3, <2>1, <2>2, <2>3 DEF IsCommand, S
<1>6. (page = "settings") = (dialog = "settings")
  BY DEF FormsInvariant, CommandsAreSound
<1>7. request' # request
  BY <1>1, <1>5, <1>4 DEF UpdateContinues, Reaches
<1> QED BY <1>1, <1>5, <1>6, <1>7, AnswerKeeps

LEMMA FormSavedKeeps ==
  ASSUME FormsInvariant, FormSaved, UNCHANGED <<record, page>>
  PROVE  FormsInvariant'
<1>1. /\ request.kind \in {"posting", "update", "closing", "deletion"} /\ request # NoRequest
      /\ request.stage = "answered" /\ request' = [request EXCEPT !.stage = "views"]
      /\ UNCHANGED <<cached, dialog, form, etag, conflict, latest, told, typed>>
      /\ fetch'.stage # "answered"
  BY DEF FormSaved, Reaches, NoRequest, onScreen, Refetched, Asked
<1>2. IsCommand(request)
  BY <1>1 DEF FormsInvariant, CommandsAreSound
<1>3. request' \in [kind : {request.kind}, stage : {"views"}, steps : {request.steps},
                    form : [Fields -> Values], base : {request.base}, seen : {request.seen}, etag : Nat,
                    target : {request.target}, correction : {request.correction},
                    acknowledged : {request.acknowledged}, verdict : {request.verdict},
                    result : {request.result}]
  BY <1>1, <1>2 DEF IsCommand
<1>4. /\ request'.kind = request.kind /\ request'.stage = "views" /\ request'.steps = request.steps
      /\ request'.seen = request.seen
  BY <1>3
<1>5. IsCommand(request')
  <2>1. request' \in [kind : {request'.kind}, stage : {request'.stage}, steps : {request'.steps},
                      form : [Fields -> Values], base : {request'.base}, seen : {request'.seen},
                      etag : Nat, target : {request'.target}, correction : {request'.correction},
                      acknowledged : {request'.acknowledged}, verdict : {request'.verdict},
                      result : {request'.result}]
    BY <1>3
  <2> QED BY <1>1, <1>2, <1>4, <2>1 DEF IsCommand
<1>6. (page = "settings") = (dialog = "settings")
  BY DEF FormsInvariant, CommandsAreSound
<1> QED BY <1>1, <1>4, <1>5, <1>6, AnswerKeeps

\* The command is over, and the dialog it was sent from may close.
LEMMA OverKeeps ==
  ASSUME FormsInvariant,
         UpdateRefused \/ EventRecorded \/ ClosingRefused \/ FormRefused,
         UNCHANGED <<record, page>>
  PROVE  FormsInvariant'
<1>1. /\ UNCHANGED <<cached, form, etag, conflict, latest, told, typed>>
      /\ request' = NoRequest
      /\ fetch' = fetch \/ fetch'.stage # "answered"
      /\ request.kind \notin {"settings", "load"} /\ request # NoRequest
  BY DEF UpdateRefused, EventRecorded, ClosingRefused, FormRefused, onScreen, Refetched, Asked,
         Over, Reaches, NoRequest
<1>2. page # "settings" /\ dialog # "settings"
  BY <1>1 DEF FormsInvariant, CommandsAreSound
<1>3. dialog' \in {dialog, "none", "history"}
  BY DEF UpdateRefused, EventRecorded, ClosingRefused, FormRefused, onScreen, Leaves, Within
<1> QED BY <1>1, <1>2, <1>3, AnswerKeeps

LEMMA RequestFailsKeeps == ASSUME FormsInvariant, RequestFails PROVE FormsInvariant'
<1>1. /\ UNCHANGED <<record, page, cached, form, etag, conflict, latest, told, typed>>
      /\ request' = NoRequest
      /\ fetch' = fetch \/ fetch'.stage # "answered"
  BY DEF RequestFails, Refetched, Asked, Over
<1>2. (page = "settings") = (dialog = "settings")
  BY DEF FormsInvariant, CommandsAreSound
<1>3. CASE dialog' = dialog
  BY <1>1, <1>2, <1>3, AnswerKeeps
<1>4. CASE request.kind \in {"closing", "deletion"} /\ Leaves
  <2>1. page # "settings" /\ dialog' \in {"none", "history"}
    BY <1>4 DEF FormsInvariant, CommandsAreSound, NoRequest, Leaves, Within
  <2> QED BY <1>1, <2>1, AnswerKeeps
<1> QED BY <1>3, <1>4 DEF RequestFails

\* The version that was loaded, or saved, is what the page has read.
LEMMA SettingsAnswerKeeps ==
  ASSUME FormsInvariant, SettingsSaved \/ SettingsRefused \/ LatestLoaded, UNCHANGED <<record, page>>
  PROVE  FormsInvariant'
<1> DEFINE result == request.result
<1>1. /\ request.stage = "answered" /\ request.kind \in {"settings", "load"} /\ request' = NoRequest
      /\ request # NoRequest /\ dialog' = dialog /\ fetch' = fetch
  BY DEF SettingsSaved, SettingsRefused, LatestLoaded, Reaches, Over, NoRequest
<1>2. IsCommand(request) /\ page = "settings" /\ dialog = "settings"
  BY <1>1 DEF FormsInvariant, CommandsAreSound
<1>3. IsReading(result)
  BY <1>1, <1>2 DEF IsCommand
<1>4. /\ result.value \in [Fields -> Values] /\ result.version \in Nat
      /\ result.version <= record.version
      /\ result.version = record.version => \A f \in Settings : result.value[f] = record.value[f]
  BY <1>3 DEF IsReading, IsReadingOf, IsRecord
<1>5. /\ told \in [Fields -> SUBSET Values] /\ \A f \in Settings : f \in Fields
      /\ form \in [Fields -> Values] /\ etag \in Nat /\ etag <= record.version
      /\ conflict.open => conflict.local \in [Fields -> Values]
      /\ IsOfVersion(etag, form)
      /\ latest # NotLoaded => \A f \in Settings : latest.value[f] \in told[f]
  BY <1>2 DEF FormsInvariant, FormsAreSound, SettingsAreTold, Settings, Fields
<1>6. CommandsAreSound' /\ NotesAreTold'
  BY <1>1, <1>2 DEF CommandsAreSound, NotesAreTold, NoRequest
<1>7. CASE SettingsSaved
  <2>1. /\ form' = result.value /\ etag' = result.version /\ cached' = result /\ typed' = {}
        /\ told' = [f \in Fields |-> told[f] \union {result.value[f]}]
        /\ UNCHANGED <<conflict, latest>>
    BY <1>7 DEF SettingsSaved
  <2> HIDE DEF result
  <2>2. told' \in [Fields -> SUBSET Values]
        /\ \A f \in Settings : result.value[f] \in told'[f] /\ told[f] \subseteq told'[f]
    BY <1>4, <1>5, <2>1
  <2>3. ReadingsAreSound'
    BY <1>1, <1>3, <2>1 DEF FormsInvariant, ReadingsAreSound, IsReading
  <2>4. FormsAreSound'
    BY <1>2, <1>4, <1>5, <2>1, <2>2 DEF FormsAreSound
  <2>5. IsOfVersion(etag, form)'
    BY <1>4, <2>1, <2>2 DEF IsOfVersion
  <2>6. SettingsAreTold'
    BY <1>1, <1>5, <2>1, <2>2, <2>5 DEF SettingsAreTold, NoRequest
  <2> QED BY <1>6, <2>3, <2>4, <2>6 DEF FormsInvariant
<1>8. CASE SettingsRefused
  <2>0. request.form \in [Fields -> Values]
    BY <1>2, <1>8 DEF SettingsRefused, Reaches, IsCommand
  <2>1. /\ conflict' = [open |-> TRUE, local |-> request.form] /\ latest' = NotLoaded
        /\ UNCHANGED <<cached, form, etag, told, typed>>
    BY <1>8 DEF SettingsRefused
  <2>2. ReadingsAreSound'
    BY <1>1, <2>1 DEF FormsInvariant, ReadingsAreSound, IsReading
  <2>3. FormsAreSound'
    BY <1>2, <1>5, <2>0, <2>1 DEF FormsAreSound
  <2>4. SettingsAreTold'
    BY <1>1, <1>5, <2>1 DEF SettingsAreTold, NoRequest, IsOfVersion
  <2> QED BY <1>6, <2>2, <2>3, <2>4 DEF FormsInvariant
<1>9. CASE LatestLoaded
  <2>1. /\ latest' = result /\ cached' = result /\ UNCHANGED <<form, etag, conflict, typed>>
        /\ told' = [f \in Fields |-> told[f] \union {result.value[f]}]
    BY <1>9 DEF LatestLoaded
  <2> HIDE DEF result
  <2>2. told' \in [Fields -> SUBSET Values]
        /\ \A f \in Settings : result.value[f] \in told'[f] /\ told[f] \subseteq told'[f]
    BY <1>4, <1>5, <2>1
  <2>3. ReadingsAreSound'
    BY <1>1, <1>3, <2>1 DEF FormsInvariant, ReadingsAreSound, IsReading
  <2>4. FormsAreSound'
    BY <1>2, <1>4, <1>5, <2>1, <2>2 DEF FormsAreSound
  <2>5. SettingsAreTold'
    BY <1>1, <1>5, <2>1, <2>2 DEF SettingsAreTold, NoRequest, IsOfVersion
  <2> QED BY <1>6, <2>3, <2>4, <2>5 DEF FormsInvariant
<1> QED BY <1>7, <1>8, <1>9

LEMMA ReadArrivesKeepsForms == ASSUME FormsInvariant, ReadArrives PROVE FormsInvariant'
<1> DEFINE now == fetch.value
<1>1. /\ record' = record /\ fetch' = NoFetch /\ cached' = now /\ IsReading(now)
      /\ UNCHANGED <<conflict, latest>>
  BY DEF ReadArrives, FormsInvariant, ReadingsAreSound
<1>2. ReadingsAreSound'
  BY <1>1 DEF FormsInvariant, ReadingsAreSound, IsReading, NoFetch
<1>3. (page = "settings") = (dialog = "settings")
  BY DEF FormsInvariant, CommandsAreSound
<1>4. CASE request.stage = "views"
  <2>1. /\ UNCHANGED <<form, etag, told, typed>> /\ request' = NoRequest
        /\ dialog' \in {"none", "history"} /\ page' \in {page, "board"}
    BY <1>4 DEF ReadArrives, Leaves, Over, Within
  <2>2. page # "settings" /\ ~conflict.open
    BY <1>3, <1>4 DEF FormsInvariant, CommandsAreSound, FormsAreSound, IsCommand, NoRequest
  <2>3. CommandsAreSound' /\ NotesAreTold' /\ SettingsAreTold'
    BY <2>1, <2>2 DEF CommandsAreSound, NotesAreTold, SettingsAreTold, NoRequest
  <2>4. FormsAreSound'
    BY <1>1, <2>1, <2>2 DEF FormsInvariant, FormsAreSound
  <2> QED BY <1>2, <2>3, <2>4 DEF FormsInvariant
<1>5. CASE request.stage # "views"
  <2>1. Shows(form, now) /\ UNCHANGED <<page, dialog, request, typed>>
    BY <1>5 DEF ReadArrives
  <2>2. /\ form \in [Fields -> Values]
        /\ page = "settings" => IsOfVersion(etag, form)
        /\ conflict.open => conflict.local \in [Fields -> Values] /\ page = "settings"
    BY DEF FormsInvariant, FormsAreSound, SettingsAreTold
  <2> HIDE DEF now
  <2>3. /\ form' \in [Fields -> Values] /\ told' \in [Fields -> SUBSET Values]
        /\ etag' \in Nat /\ etag' <= record.version
        /\ \A f \in Fields : told[f] \subseteq told'[f]
        /\ dialog = "update" => now.value["notes"] \in told'["notes"]
        /\ dialog = "settings" /\ IsOfVersion(etag, form) => IsOfVersion(etag, form)'
    BY <1>1, <2>1, <2>2, ShowsIsSound
  <2>4. FormsAreSound'
    BY <1>1, <2>1, <2>2, <2>3 DEF FormsAreSound
  <2>5. CommandsAreSound'
    BY <1>1, <2>1 DEF FormsInvariant, CommandsAreSound, IsCommand, IsReading
  <2>6. "notes" \in Fields /\ \A f \in Settings : f \in Fields
    BY DEF Fields, Settings
  <2>7. NotesAreTold'
    BY <1>1, <2>1, <2>3, <2>6 DEF FormsInvariant, NotesAreTold
  <2>8. SettingsAreTold'
    <3>1. page = "settings" /\ request.kind = "settings" /\ request.stage = "sent" =>
             IsOfVersion(request.etag, request.form)'
      BY <1>1, <2>1, <2>3, <2>6 DEF FormsInvariant, SettingsAreTold, IsOfVersion
    <3> QED BY <1>1, <1>3, <2>1, <2>2, <2>3, <2>6, <3>1 DEF FormsInvariant, SettingsAreTold
  <2> QED BY <1>2, <2>4, <2>5, <2>7, <2>8 DEF FormsInvariant
<1> QED BY <1>4, <1>5

-----------------------------------------------------------------------------
(* The theorems about the forms *)

LEMMA InitForms == Init => FormsInvariant
<1> SUFFICES ASSUME Init PROVE FormsInvariant
  OBVIOUS
<1> DEFINE one == CHOOSE v \in Values : TRUE
<1>1. one \in Values
  <2>1. Values # {}
    BY RecordFormsConstants, FS_EmptySet
  <2> QED BY <2>1
<1> HIDE DEF one
<1> DEFINE value == [f \in Fields |-> one]
           log == <<[to |-> "saved", corrects |-> 0]>>
<1>2. /\ record = [value |-> value, version |-> 1, status |-> "saved", hash |-> 1, ready |-> TRUE,
                   submitted |-> {}, log |-> log, deleted |-> FALSE]
      /\ cached = record /\ fetch = NoFetch /\ page \in {"hub", "ready", "settings"}
      /\ dialog = (IF page = "settings" THEN "settings" ELSE "none")
      /\ form = record.value /\ etag = 1 /\ conflict = NoConflict /\ latest = NotLoaded
      /\ request = NoRequest /\ told = [f \in Fields |-> {record.value[f]}] /\ typed = {}
  BY DEF Init, one
<1>3. value \in [Fields -> Values]
  BY <1>1
<1>6. \A f \in Settings : f \in Fields
  BY DEF Settings, Fields
<1> HIDE DEF value, log
<1>4. IsRecord(record) /\ record.version = 1 /\ record.value \in [Fields -> Values]
  BY <1>2, <1>3 DEF IsRecord
<1>5. ReadingsAreSound
  BY <1>2, <1>4 DEF ReadingsAreSound, IsReading, IsReadingOf, NoFetch
<1>7. FormsAreSound /\ CommandsAreSound
  BY <1>2, <1>4 DEF FormsAreSound, CommandsAreSound, NoConflict
<1>8. NotesAreTold /\ SettingsAreTold
  BY <1>2, <1>4, <1>6 DEF NotesAreTold, SettingsAreTold, IsOfVersion, NoRequest
<1> QED BY <1>5, <1>7, <1>8 DEF FormsInvariant

LEMMA NextKeepsForms == ASSUME FormsInvariant, [Next]_vars PROVE FormsInvariant'
<1>1. CASE Reader
  <2>1. ASSUME \/ \E status \in Statuses : ChooseTarget(status) \/ ChooseRightStatus(status)
               \/ Acknowledge \/ WriteReason
               \/ \E event \in 1..Len(cached.log) : ChooseEvent(event)
        PROVE  FormsInvariant'
    <3>1. UNCHANGED onForms
      BY <2>1 DEF ChooseTarget, ChooseRightStatus, Acknowledge, WriteReason, ChooseEvent,
                  FillCorrection, onForms
    <3> QED BY <3>1, SameFormsKeep
  <2> QED BY <1>1, <2>1, OpenKeeps, CloseKeeps, TypeKeeps, SavesKeep, LoadLatestKeeps, ResolveKeeps
      DEF Reader
<1>2. CASE Network
  <2>1. CASE AnswerArrives
    <3>1. UNCHANGED <<record, page>>
      BY <2>1 DEF AnswerArrives
    <3> QED BY <2>1, <3>1, UpdateContinuesKeeps, FormSavedKeeps, OverKeeps, SettingsAnswerKeeps
        DEF AnswerArrives
  <2> QED BY <1>2, <2>1, ServeKeeps, ReadServedKeeps, RequestFailsKeeps, ReadArrivesKeepsForms
      DEF Network
<1>3. CASE Others
  BY <1>3, OtherTabsKeep
<1>4. CASE UNCHANGED vars
  <2>1. UNCHANGED onForms
    BY <1>4 DEF vars, onScreen, onForms
  <2> QED BY <2>1, SameFormsKeep
<1> QED BY <1>1, <1>2, <1>3, <1>4 DEF Next

\* Only the server, answering a command of this tab, both changes the record and answers.
LEMMA SavesAreServed ==
  ASSUME Next, NEW f, SavesOver(f)
  PROVE  Serve
<1>1. record' # record /\ request' # request
  BY DEF SavesOver
<1>2. CASE Reader
  BY <1>1, <1>2 DEF Reader, Open, Close, Type, ChooseTarget, Acknowledge, ChooseEvent,
     ChooseRightStatus, WriteReason, FillCorrection, Sends, SavePosting, SaveUpdate, SaveSettings,
     RecordSubmission, RecordExternal, SendCorrection, ConfirmClosing, ConfirmDeletion, Confirms,
     LoadLatest, Resolve
<1>3. CASE Others
  BY <1>1, <1>3 DEF Others, OtherWrites, OtherTransitions, OtherDeletes, OtherEdits, OtherSubmits
<1>4. CASE Network /\ ~Serve
  BY <1>1, <1>4 DEF Network, ReadServed, AnswerArrives, RequestFails, ReadArrives, Focus
<1> QED BY <1>2, <1>3, <1>4 DEF Next

\* What was read, sent, shown and typed fits the record it is of (useServerSyncedField,
\* SettingsForm, SettingsConflict).
THEOREM FormsAreOfTheirRecord == Spec => []FormsInvariant
<1>1. FormsInvariant /\ [Next]_vars => FormsInvariant'
  BY NextKeepsForms
<1> QED BY <1>1, InitForms, PTL DEF Spec

\* The notes and the settings are never written over a value the form did not show or announce.
THEOREM SavesGoOverWhatWasRead == Spec => NoUnreadOverwrite
<1>1. ASSUME FormsInvariant, Next, NEW f \in {"notes"} \union Settings, SavesOver(f)
      PROVE  record.value[f] \in told[f]
  <2>1. Serve /\ Served /\ request.stage = "sent" /\ record'.value[f] # record.value[f]
    BY <1>1, SavesAreServed, ServeIsSound DEF SavesOver
  <2>2. CASE f = "notes"
    BY <1>1, <2>1, <2>2 DEF Served, FormsInvariant, NotesAreTold
  <2>3. CASE f \in Settings
    <3>1. request.kind = "settings" /\ record.version = request.etag
      BY <2>1, <2>3 DEF Served
    <3>2. page = "settings"
      BY <1>1, <3>1 DEF FormsInvariant, CommandsAreSound, NoRequest
    <3> QED BY <1>1, <2>1, <2>3, <3>1, <3>2 DEF FormsInvariant, SettingsAreTold, IsOfVersion
  <2> QED BY <1>1, <2>2, <2>3
<1>2. FormsInvariant /\ [Next]_vars =>
         [\A f \in {"notes"} \union Settings : SavesOver(f) => record.value[f] \in told[f]]_vars
  BY <1>1
<1> QED BY <1>2, FormsAreOfTheirRecord, PTL DEF Spec, NoUnreadOverwrite

\* One save sends every setting and changes only those its reader changed, through a conflict
\* and its resolution too.
THEOREM SavesChangeWhatWasTyped == Spec => UntouchedSettingsStay
<1>1. ASSUME FormsInvariant, Next, NEW f \in Settings, SavesOver(f)
      PROVE  f \in typed
  <2>1. Serve /\ Served /\ request.stage = "sent" /\ record'.value[f] # record.value[f]
    BY <1>1, SavesAreServed, ServeIsSound DEF SavesOver
  <2>2. request.kind = "settings" /\ record.version = request.etag /\ record'.value[f] = request.form[f]
    BY <1>1, <2>1 DEF Served
  <2>3. page = "settings"
    BY <1>1, <2>2 DEF FormsInvariant, CommandsAreSound, NoRequest
  <2> QED BY <1>1, <2>1, <2>2, <2>3 DEF FormsInvariant, SettingsAreTold, IsOfVersion
<1>2. FormsInvariant /\ [Next]_vars => [\A f \in Settings : SavesOver(f) => f \in typed]_vars
  BY <1>1
<1> QED BY <1>2, FormsAreOfTheirRecord, PTL DEF Spec, UntouchedSettingsStay

-----------------------------------------------------------------------------
(* The facts: what is seen of a version of the store *)

ListedIn(st, pool) ==
  IF pool = Pool!NotRead THEN {}
  ELSE {f \in Facts : st[pool[1]].fact[f].status \in {"pending", "canonical"}}
BlockedIn(st, seen) ==
  \E f \in ListedIn(st, seen["pool"]) :
     st[seen["pool"][1]].fact[f].status # st[seen["pool"][2]].fact[f].status
SeenIn(st, seen, p) == p \in Facts /\ seen[p] # Pool!NotRead /\ ~BlockedIn(st, seen)
StatusIn(st, seen, p) == st[seen[p][1]].fact[p].status
FormIn(st, seen, p, new, corrected) ==
  CASE p = "pool" /\ new /\ ~BlockedIn(st, seen) -> "new"
    [] p = "elsewhere" /\ new -> "requirement"
    [] corrected /\ SeenIn(st, seen, p) /\ StatusIn(st, seen, p) = "canonical" -> p
    [] OTHER -> "none"

StoreIn(st) ==
  /\ st \in Seq(Pool!Versions) /\ st # <<>>
  /\ \A m, n \in 1 .. Len(st) : m <= n =>
        \A f \in Facts : Pool!Rank(st[m].fact[f].status) <= Pool!Rank(st[n].fact[f].status)
ReadIn(st, seen) == seen = Pool!NotRead \/ seen \in (1 .. Len(st)) \X (1 .. Len(st))
ReadsIn(st, seen) == DOMAIN seen = Pool!Views /\ \A v \in Pool!Views : ReadIn(st, seen[v])
ScreenIn(st, seen, p, new, corrected, held, question, chosen) ==
  /\ held \in Pool!Forms /\ held.of = FormIn(st, seen, p, new, corrected)
  /\ question \in {"none", "promotion", "menu", "deletion"}
  /\ question = "promotion" => SeenIn(st, seen, p) /\ StatusIn(st, seen, p) = "pending"
  /\ question \in {"menu", "deletion"} => SeenIn(st, seen, p) /\ StatusIn(st, seen, p) # "deleted"
  /\ Pool!IsChoice(chosen)
RequestIn(st, r) ==
  /\ Pool!IsRequest(r)
  /\ r.kind = "create" /\ r.fact # "none" =>
        r.form.of = r.fact /\ st[Len(st)].fact[r.fact].status \in {"canonical", "deleted"}

LEMMA SeenOfTheStore ==
  /\ \A seen : Pool!MutationsBlocked(seen) <=> BlockedIn(store, seen)
  /\ \A seen, p : Pool!Correctable(seen, p) <=>
        SeenIn(store, seen, p) /\ StatusIn(store, seen, p) = "canonical"
  /\ \A seen, p : Pool!Promotable(seen, p) <=>
        SeenIn(store, seen, p) /\ StatusIn(store, seen, p) = "pending"
  /\ \A seen, p : Pool!Deletable(seen, p) <=>
        SeenIn(store, seen, p) /\ StatusIn(store, seen, p) # "deleted"
  /\ \A seen, p, new, corrected :
        Pool!FormShown(p, seen, new, corrected) = FormIn(store, seen, p, new, corrected)
<1>1. \A seen : Pool!MutationsBlocked(seen) <=> BlockedIn(store, seen)
  BY DEF Pool!MutationsBlocked, Pool!OutOfSync, Pool!Listed, BlockedIn, ListedIn
<1>2. /\ \A seen, p : Pool!Correctable(seen, p) <=>
            SeenIn(store, seen, p) /\ StatusIn(store, seen, p) = "canonical"
      /\ \A seen, p : Pool!Promotable(seen, p) <=>
            SeenIn(store, seen, p) /\ StatusIn(store, seen, p) = "pending"
      /\ \A seen, p : Pool!Deletable(seen, p) <=>
            SeenIn(store, seen, p) /\ StatusIn(store, seen, p) # "deleted"
  BY <1>1 DEF Pool!Correctable, Pool!Promotable, Pool!Deletable, Pool!Loaded, Pool!Shown,
              SeenIn, StatusIn
<1>3. \A seen, p, new, corrected :
        Pool!FormShown(p, seen, new, corrected) = FormIn(store, seen, p, new, corrected)
  BY <1>1, <1>2 DEF Pool!FormShown, FormIn
<1> QED BY <1>1, <1>2, <1>3

PoolIn(st, seen, p, new, corrected, held, question, chosen, sent) ==
  /\ StoreIn(st) /\ ReadsIn(st, seen) /\ p \in Pool!Pages
  /\ ScreenIn(st, seen, p, new, corrected, held, question, chosen)
  /\ \A r \in sent : RequestIn(st, r)

LEMMA InvariantOfTheStore ==
  Pool!PoolInvariant <=>
    /\ PoolIn(store, reads, address, creating, correcting, factForm, asking, choice, requests)
    /\ visited \subseteq Pool!Pages /\ DOMAIN fetching = Pool!Views
    /\ fetching["pool"] \in {Pool!NoRead, Pool!Asked} \/ fetching["pool"][1] \in 1 .. Len(store)
<1>1. Pool!StoreGoesOn <=> StoreIn(store)
  BY DEF Pool!StoreGoesOn, StoreIn
<1>2. Pool!ReadsAreSound <=>
        /\ ReadsIn(store, reads) /\ address \in Pool!Pages
        /\ visited \subseteq Pool!Pages /\ DOMAIN fetching = Pool!Views
        /\ fetching["pool"] \in {Pool!NoRead, Pool!Asked} \/ fetching["pool"][1] \in 1 .. Len(store)
  BY DEF Pool!ReadsAreSound, Pool!IsRead, ReadsIn, ReadIn
<1>3. Pool!ScreenIsSound <=>
        ScreenIn(store, reads, address, creating, correcting, factForm, asking, choice)
  BY SeenOfTheStore DEF Pool!ScreenIsSound, ScreenIn
<1>4. ((\A r \in requests : Pool!IsRequest(r)) /\ Pool!CorrectionIsOfItsFact) <=>
        \A r \in requests : RequestIn(store, r)
  BY DEF Pool!CorrectionIsOfItsFact, Pool!Now, RequestIn
<1> QED BY <1>1, <1>2, <1>3, <1>4 DEF Pool!PoolInvariant, PoolIn

LEMMA InvariantOfTheNextStore ==
  Pool!PoolInvariant' <=>
    /\ PoolIn(store', reads', address', creating', correcting', factForm', asking', choice', requests')
    /\ visited' \subseteq Pool!Pages /\ DOMAIN fetching' = Pool!Views
    /\ fetching'["pool"] \in {Pool!NoRead, Pool!Asked} \/ fetching'["pool"][1] \in 1 .. Len(store')
<1>1. Pool!StoreGoesOn' <=> StoreIn(store')
  BY DEF Pool!StoreGoesOn, StoreIn
<1>2. Pool!ReadsAreSound' <=>
        /\ ReadsIn(store', reads') /\ address' \in Pool!Pages
        /\ visited' \subseteq Pool!Pages /\ DOMAIN fetching' = Pool!Views
        /\ fetching'["pool"] \in {Pool!NoRead, Pool!Asked} \/ fetching'["pool"][1] \in 1 .. Len(store')
  BY DEF Pool!ReadsAreSound, Pool!IsRead, ReadsIn, ReadIn
<1>3. Pool!ScreenIsSound' <=>
        ScreenIn(store', reads', address', creating', correcting', factForm', asking', choice')
  <2>1. Pool!MutationsBlocked(reads)' <=> BlockedIn(store', reads')
    BY DEF Pool!MutationsBlocked, Pool!OutOfSync, Pool!Listed, BlockedIn, ListedIn
  <2>2. /\ Pool!Correctable(reads, address)' <=>
             SeenIn(store', reads', address') /\ StatusIn(store', reads', address') = "canonical"
        /\ Pool!Promotable(reads, address)' <=>
             SeenIn(store', reads', address') /\ StatusIn(store', reads', address') = "pending"
        /\ Pool!Deletable(reads, address)' <=>
             SeenIn(store', reads', address') /\ StatusIn(store', reads', address') # "deleted"
    BY <2>1 DEF Pool!Correctable, Pool!Promotable, Pool!Deletable, Pool!Loaded, Pool!Shown,
                SeenIn, StatusIn
  <2>3. Pool!FormShown(address, reads, creating, correcting)' =
             FormIn(store', reads', address', creating', correcting')
    BY <2>1, <2>2 DEF Pool!FormShown, FormIn
  <2> QED BY <2>2, <2>3 DEF Pool!ScreenIsSound, ScreenIn
<1>4. ((\A r \in requests : Pool!IsRequest(r)) /\ Pool!CorrectionIsOfItsFact)' <=>
        \A r \in requests' : RequestIn(store', r)
  BY DEF Pool!CorrectionIsOfItsFact, Pool!Now, RequestIn
<1> QED BY <1>1, <1>2, <1>3, <1>4 DEF Pool!PoolInvariant, PoolIn

-----------------------------------------------------------------------------
(* The store goes on *)

LEMMA StoreParts ==
  ASSUME NEW st, StoreIn(st)
  PROVE  /\ Len(st) \in Nat /\ Len(st) >= 1
         /\ \A n \in 1 .. Len(st) : \A f \in Facts :
               /\ st[n] \in Pool!Versions
               /\ st[n].fact[f].status \in Pool!Statuses
<1>1. st \in Seq(Pool!Versions) /\ st # <<>>
  BY DEF StoreIn
<1>2. Len(st) \in Nat \ {0} /\ \A n \in 1 .. Len(st) : st[n] \in Pool!Versions
  BY <1>1, EmptySeq, ElementOfSeq
<1> QED BY <1>2 DEF Pool!Versions

\* What was read stays what it was, and what is on the screen with it.
GoesOn(st, on) ==
  /\ StoreIn(st) /\ StoreIn(on) /\ Len(st) <= Len(on)
  /\ \A n \in 1 .. Len(st) : on[n] = st[n]

LEMMA ScreenStaysIn ==
  ASSUME NEW st, NEW on, GoesOn(st, on), NEW seen, ReadsIn(st, seen), NEW p
  PROVE  /\ ReadsIn(on, seen)
         /\ BlockedIn(on, seen) = BlockedIn(st, seen)
         /\ SeenIn(on, seen, p) = SeenIn(st, seen, p)
         /\ SeenIn(st, seen, p) => StatusIn(on, seen, p) = StatusIn(st, seen, p)
         /\ \A new, corrected : FormIn(on, seen, p, new, corrected) = FormIn(st, seen, p, new, corrected)
<1>1. Len(st) \in Nat /\ Len(on) \in Nat
  BY StoreParts DEF GoesOn
<1>2. ReadsIn(on, seen)
  BY <1>1 DEF ReadsIn, ReadIn, GoesOn
<1>3. \A v \in Pool!Views : seen[v] # Pool!NotRead =>
        /\ seen[v][1] \in 1 .. Len(st) /\ seen[v][2] \in 1 .. Len(st)
        /\ on[seen[v][1]] = st[seen[v][1]] /\ on[seen[v][2]] = st[seen[v][2]]
  BY DEF ReadsIn, ReadIn, GoesOn
<1>4. "pool" \in Pool!Views /\ \A f \in Facts : f \in Pool!Views
  BY DEF Pool!Views
<1>5. /\ \A f : f \in ListedIn(on, seen["pool"]) <=> f \in ListedIn(st, seen["pool"])
      /\ ListedIn(st, seen["pool"]) # {} => seen["pool"] # Pool!NotRead
  BY <1>3, <1>4 DEF ListedIn
<1>6. BlockedIn(on, seen) = BlockedIn(st, seen)
  BY <1>3, <1>4, <1>5 DEF BlockedIn
<1>7. SeenIn(on, seen, p) = SeenIn(st, seen, p)
  BY <1>6 DEF SeenIn
<1>8. SeenIn(st, seen, p) => StatusIn(on, seen, p) = StatusIn(st, seen, p)
  BY <1>3, <1>4 DEF SeenIn, StatusIn
<1> QED BY <1>2, <1>6, <1>7, <1>8 DEF FormIn

LEMMA RequestStaysIn ==
  ASSUME NEW st, NEW on, GoesOn(st, on), NEW r, RequestIn(st, r)
  PROVE  RequestIn(on, r)
<1>1. CASE r.kind = "create" /\ r.fact # "none"
  <2>1. r.fact \in Facts
    BY <1>1 DEF RequestIn, Pool!IsRequest
  <2>2. /\ Len(st) \in 1 .. Len(st) /\ Len(st) \in 1 .. Len(on) /\ Len(on) \in 1 .. Len(on)
        /\ Len(st) <= Len(on) /\ on[Len(st)] = st[Len(st)]
    BY StoreParts DEF GoesOn
  <2>3. /\ Pool!Rank(on[Len(st)].fact[r.fact].status) <= Pool!Rank(on[Len(on)].fact[r.fact].status)
        /\ on[Len(st)].fact[r.fact].status \in {"canonical", "deleted"}
        /\ on[Len(on)].fact[r.fact].status \in Pool!Statuses
    BY <1>1, <2>1, <2>2, StoreParts DEF GoesOn, StoreIn, RequestIn
  <2>4. on[Len(on)].fact[r.fact].status \in {"canonical", "deleted"}
    BY <2>3 DEF Pool!Rank, Pool!Statuses
  <2> QED BY <1>1, <2>4 DEF RequestIn
<1> QED BY <1>1 DEF RequestIn

LEMMA PoolStaysIn ==
  ASSUME NEW st, NEW on, GoesOn(st, on), NEW seen, NEW p, NEW new, NEW corrected, NEW held,
         NEW question, NEW chosen, NEW sent,
         PoolIn(st, seen, p, new, corrected, held, question, chosen, sent)
  PROVE  PoolIn(on, seen, p, new, corrected, held, question, chosen, sent)
<1>1. ReadsIn(st, seen)
  BY DEF PoolIn
<1>2. ScreenIn(on, seen, p, new, corrected, held, question, chosen)
  BY <1>1, ScreenStaysIn DEF PoolIn, ScreenIn
<1> QED BY <1>1, <1>2, ScreenStaysIn, RequestStaysIn DEF PoolIn, GoesOn

\* One version more, in which no fact went back.
LEMMA AppendGoesOn ==
  ASSUME NEW st, StoreIn(st), NEW at \in Pool!Versions,
         \A f \in Facts : Pool!Rank(st[Len(st)].fact[f].status) <= Pool!Rank(at.fact[f].status)
  PROVE  GoesOn(st, Append(st, at)) /\ Append(st, at)[Len(Append(st, at))] = at
<1> DEFINE on == Append(st, at)
           n == Len(st)
<1>1. /\ on \in Seq(Pool!Versions) /\ Len(on) = n + 1 /\ on[n + 1] = at /\ n \in Nat /\ n >= 1
      /\ \A m \in 1 .. n : on[m] = st[m]
  BY StoreParts, AppendProperties DEF StoreIn
<1>2. on # <<>>
  BY <1>1, EmptySeq
<1>3. \A m \in 1 .. n + 1 : m \in 1 .. n \/ m = n + 1
  BY <1>1
<1>4. \A m \in 1 .. n : \A f \in Facts :
         /\ Pool!Rank(st[m].fact[f].status) <= Pool!Rank(st[n].fact[f].status)
         /\ Pool!Rank(st[m].fact[f].status) \in Nat /\ Pool!Rank(st[n].fact[f].status) \in Nat
         /\ Pool!Rank(at.fact[f].status) \in Nat
  BY <1>1, StoreParts DEF StoreIn, Pool!Rank
<1>5. \A m, k \in 1 .. n + 1 : m <= k =>
         \A f \in Facts : Pool!Rank(on[m].fact[f].status) <= Pool!Rank(on[k].fact[f].status)
  <2> SUFFICES ASSUME NEW m \in 1 .. n + 1, NEW k \in 1 .. n + 1, m <= k, NEW f \in Facts
               PROVE  Pool!Rank(on[m].fact[f].status) <= Pool!Rank(on[k].fact[f].status)
    OBVIOUS
  <2> HIDE DEF on, n
  <2>1. CASE k \in 1 .. n
    <3>1. m \in 1 .. n
      BY <1>1, <2>1
    <3> QED BY <1>1, <2>1, <3>1 DEF StoreIn, n
  <2>2. CASE k = n + 1 /\ m \in 1 .. n
    <3>1. on[m] = st[m] /\ on[k] = at
      BY <1>1, <2>2
    <3>2. Pool!Rank(st[n].fact[f].status) <= Pool!Rank(at.fact[f].status)
      BY DEF n
    <3>3. Pool!Rank(st[m].fact[f].status) <= Pool!Rank(at.fact[f].status)
      BY <1>4, <2>2, <3>2
    <3> QED BY <3>1, <3>3
  <2>3. CASE k = n + 1 /\ m = n + 1
    BY <1>1, <2>3 DEF Pool!Rank
  <2> QED BY <1>3, <2>1, <2>2, <2>3
<1> HIDE DEF on
<1>6. StoreIn(on)
  BY <1>1, <1>2, <1>5 DEF StoreIn
<1> QED BY <1>1, <1>6 DEF GoesOn, on

-----------------------------------------------------------------------------
(* What is drawn, and the commands it watches *)

\* A form starts from the fact it is of, as it was read, or from nothing.
LEMMA SeedIsOfItsForm ==
  ASSUME StoreIn(store), NEW seen, ReadsIn(store, seen), NEW p \in Pool!Pages, NEW new, NEW corrected,
         NEW of, of = FormIn(store, seen, p, new, corrected)
  PROVE  Pool!Seed(of, seen) \in Pool!Forms /\ Pool!Seed(of, seen).of = of
<1>1. CASE of \in Facts
  <2>1. of \notin {"new", "requirement", "none"}
    BY <1>1, FactsConstants
  <2>2. of = p /\ SeenIn(store, seen, p)
    BY <2>1 DEF FormIn
  <2>3. of \in Pool!Views /\ seen[of] # Pool!NotRead
    BY <1>1, <2>2 DEF SeenIn, Pool!Views
  <2>4. seen[of][1] \in 1 .. Len(store)
    BY <2>3 DEF ReadsIn, ReadIn
  <2>5. store[seen[of][1]] \in Pool!Versions
    BY <1>1, <2>4, StoreParts
  <2> DEFINE fact == store[seen[of][1]].fact[of]
  <2>6. fact.text \in Texts \union {Blank} /\ fact.source \in Pool!Sources \union {"none"}
    BY <1>1, <2>5 DEF Pool!Versions
  <2>7. Pool!Seed(of, seen) = [of |-> of, text |-> fact.text, source |-> fact.source]
    BY <1>1, <2>1 DEF Pool!Seed, Pool!ReplacementForm, Pool!Shown
  <2> HIDE DEF fact
  <2> QED BY <1>1, <2>6, <2>7 DEF Pool!Forms
<1>2. CASE of \in {"new", "requirement"}
  <2>1. of \notin Facts /\ of # "none"
    BY <1>2, FactsConstants
  <2>2. Pool!Seed(of, seen) = [of |-> of, text |-> Blank, source |-> "sales"]
    BY <2>1 DEF Pool!Seed, Pool!EmptyForm, Pool!DefaultSource
  <2>3. "sales" \in Pool!Sources
    BY DEF Pool!Sources
  <2> QED BY <1>2, <2>2, <2>3 DEF Pool!Forms
<1>3. CASE of = "none"
  <2>1. of \notin Facts
    BY <1>3, FactsConstants
  <2>2. Pool!Seed(of, seen) = [of |-> of, text |-> Blank, source |-> "none"]
    BY <1>3, <2>1 DEF Pool!Seed, Pool!NoForm
  <2> QED BY <1>3, <2>2 DEF Pool!Forms
<1>4. of \in Facts \union {"new", "requirement", "none"}
  BY DEF FormIn, SeenIn
<1> QED BY <1>1, <1>2, <1>3, <1>4

LEMMA NoChoiceIsAChoice == Pool!IsChoice(Pool!NoChoice)
<1> DEFINE section == CHOOSE s \in Sections : TRUE
<1>1. section \in Sections
  BY FactsConstants
<1> HIDE DEF section
<1>2. Pool!NoChoice = [profile |-> "development", section |-> section, accepted |-> FALSE,
                       acceptedOf |-> <<>>]
  BY DEF Pool!NoChoice, section
<1> DEFINE c == Pool!NoChoice
<1>3. c \in [profile : Profiles, section : Sections, accepted : {FALSE}, acceptedOf : {<<>>}]
  BY <1>1, <1>2, FactsConstants
<1> HIDE DEF c
<1>4. c \in [profile : Profiles, section : Sections, accepted : {c.accepted},
             acceptedOf : {c.acceptedOf}]
  BY <1>3
<1> QED BY <1>4 DEF Pool!IsChoice, c

LEMMA DrawsIsSound ==
  ASSUME Pool!PoolInvariant, NEW seen, ReadsIn(store, seen), NEW p \in Pool!Pages, NEW new,
         NEW corrected, NEW question \in {"none", "promotion", "menu", "deletion"},
         Pool!Draws(p, seen, new, corrected, question)
  PROVE  ScreenIn(store, seen, p, creating', correcting', factForm', asking', choice')
<1> DEFINE of == FormIn(store, seen, p, creating', correcting')
<1>1. /\ factForm' = IF Pool!Kept(of) # Pool!NoForm THEN Pool!Kept(of) ELSE Pool!Seed(of, seen)
      /\ asking' = IF p # address THEN "none"
                   ELSE IF question = "promotion" /\ Pool!Promotable(seen, p) THEN question
                   ELSE IF question \in {"menu", "deletion"} /\ Pool!Deletable(seen, p) THEN question
                   ELSE "none"
      /\ choice' \in {choice, Pool!NoChoice}
  BY SeenOfTheStore DEF Pool!Draws
<1>2. StoreIn(store) /\ factForm \in Pool!Forms /\ Pool!IsChoice(choice)
  BY InvariantOfTheStore DEF PoolIn, ScreenIn
<1>3. Pool!Seed(of, seen) \in Pool!Forms /\ Pool!Seed(of, seen).of = of
  BY <1>2, SeedIsOfItsForm
<1>4. factForm' \in Pool!Forms /\ factForm'.of = of
  BY <1>1, <1>2, <1>3 DEF Pool!Kept
<1>5. Pool!IsChoice(choice')
  BY <1>1, <1>2, NoChoiceIsAChoice
<1> HIDE DEF of
<1>6. /\ asking' \in {"none", "promotion", "menu", "deletion"}
      /\ asking' = "promotion" => SeenIn(store, seen, p) /\ StatusIn(store, seen, p) = "pending"
      /\ asking' \in {"menu", "deletion"} =>
            SeenIn(store, seen, p) /\ StatusIn(store, seen, p) # "deleted"
  BY <1>1, SeenOfTheStore
<1> QED BY <1>4, <1>5, <1>6 DEF ScreenIn, of

\* A command that is watched no more is the same command.
LEMMA SameRequest ==
  ASSUME NEW st, NEW r, RequestIn(st, r), NEW watched, NEW gone, NEW q,
         q = [r EXCEPT !.watched = watched, !.gone = gone]
  PROVE  RequestIn(st, q)
<1>1. r \in [kind : {r.kind}, stage : {r.stage}, fact : {r.fact}, form : {r.form},
             choice : {r.choice}, asked : {r.asked}, base : {r.base}, made : {r.made},
             version : {r.version}, watched : {r.watched}, gone : {r.gone}, nr : {r.nr}]
  BY DEF RequestIn, Pool!IsRequest
<1>2. q \in [kind : {r.kind}, stage : {r.stage}, fact : {r.fact}, form : {r.form},
             choice : {r.choice}, asked : {r.asked}, base : {r.base}, made : {r.made},
             version : {r.version}, watched : {watched}, gone : {gone}, nr : {r.nr}]
  BY <1>1
<1>3. /\ q.kind = r.kind /\ q.stage = r.stage /\ q.fact = r.fact /\ q.form = r.form
      /\ q.choice = r.choice /\ q.made = r.made
  BY <1>2
<1>4. q \in [kind : {r.kind}, stage : {r.stage}, fact : {r.fact}, form : {r.form},
             choice : {q.choice}, asked : {q.asked}, base : {q.base}, made : {r.made},
             version : {q.version}, watched : {q.watched}, gone : {q.gone}, nr : {q.nr}]
  BY <1>2
<1>5. Pool!IsRequest(q)
  BY <1>3, <1>4 DEF RequestIn, Pool!IsRequest
<1> QED BY <1>3, <1>5 DEF RequestIn

LEMMA LetGoIsSound ==
  ASSUME NEW rs, \A r \in rs : RequestIn(store, r), NEW p, NEW seen
  PROVE  \A q \in Pool!LetGo(rs, p, seen) : RequestIn(store, q)
<1> SUFFICES ASSUME NEW q \in Pool!LetGo(rs, p, seen)
             PROVE  RequestIn(store, q)
  OBVIOUS
<1>1. PICK r \in rs : q = [r EXCEPT !.watched = @ /\ Pool!Drawn(r, p, seen),
                                  !.gone = @ \/ ~Pool!HostDrawn(r, p, seen)]
  BY DEF Pool!LetGo
<1> DEFINE watched == r.watched /\ Pool!Drawn(r, p, seen)
           gone == r.gone \/ ~Pool!HostDrawn(r, p, seen)
<1>2. q = [r EXCEPT !.watched = watched, !.gone = gone]
  BY <1>1
<1> HIDE DEF watched, gone
<1> QED BY <1>2, SameRequest

LEMMA UnwatchedIsSound ==
  ASSUME Pool!PoolInvariant, NEW kinds
  PROVE  \A q \in Pool!Unwatched(kinds) : RequestIn(store, q)
<1> SUFFICES ASSUME NEW q \in Pool!Unwatched(kinds)
             PROVE  RequestIn(store, q)
  OBVIOUS
<1>1. PICK r \in requests : \E watched : q = [r EXCEPT !.watched = watched]
  BY DEF Pool!Unwatched
<1>2. PICK watched : q = [r EXCEPT !.watched = watched]
  BY <1>1
<1>3. RequestIn(store, r)
  BY InvariantOfTheStore DEF PoolIn
<1>4. q = [r EXCEPT !.watched = watched, !.gone = r.gone]
  BY <1>2, <1>3 DEF RequestIn, Pool!IsRequest
<1> QED BY <1>3, <1>4, SameRequest

-----------------------------------------------------------------------------
(* The reader's steps *)

LEMMA StoreStands ==
  ASSUME Pool!PoolInvariant, UNCHANGED store, ReadsIn(store, reads'), address' \in Pool!Pages,
         visited' \subseteq Pool!Pages, DOMAIN fetching' = Pool!Views,
         fetching'["pool"] \in {Pool!NoRead, Pool!Asked} \/ fetching'["pool"][1] \in 1 .. Len(store),
         ScreenIn(store, reads', address', creating', correcting', factForm', asking', choice'),
         \A r \in requests' : RequestIn(store, r)
  PROVE  Pool!PoolInvariant'
BY InvariantOfTheStore, InvariantOfTheNextStore DEF PoolIn

LEMMA PageStands ==
  ASSUME Pool!PoolInvariant, Pool!Stays, Pool!Still,
         ScreenIn(store, reads, address, creating', correcting', factForm', asking', choice'),
         \A r \in requests' : RequestIn(store, r)
  PROVE  Pool!PoolInvariant'
BY InvariantOfTheStore, StoreStands DEF PoolIn, Pool!Stays, Pool!Still

LEMMA VisitKeeps ==
  ASSUME Pool!PoolInvariant, NEW p \in Pool!Pages, Pool!Visit(p, requests), UNCHANGED <<store, reads>>
  PROVE  Pool!PoolInvariant'
<1>1. /\ address' = p /\ visited' = visited \union {p}
      /\ fetching' = [v \in Pool!Views |-> IF v \in Pool!Observed(p)
                                         THEN IF fetching[v] = Pool!NoRead THEN Pool!Asked ELSE fetching[v]
                                         ELSE Pool!NoRead]
      /\ requests' = Pool!LetGo(requests, p, reads)
      /\ Pool!Draws(p, reads, creating, correcting, asking)
  BY DEF Pool!Visit
<1>2. /\ PoolIn(store, reads, address, creating, correcting, factForm, asking, choice, requests)
      /\ visited \subseteq Pool!Pages
      /\ fetching["pool"] \in {Pool!NoRead, Pool!Asked} \/ fetching["pool"][1] \in 1 .. Len(store)
  BY InvariantOfTheStore
<1>3. ReadsIn(store, reads) /\ asking \in {"none", "promotion", "menu", "deletion"}
  BY <1>2 DEF PoolIn, ScreenIn
<1>4. ScreenIn(store, reads, p, creating', correcting', factForm', asking', choice')
  BY <1>1, <1>3, DrawsIsSound
<1>5. \A r \in requests' : RequestIn(store, r)
  BY <1>1, <1>2, LetGoIsSound DEF PoolIn
<1>6. /\ DOMAIN fetching' = Pool!Views
      /\ fetching'["pool"] \in {Pool!NoRead, Pool!Asked, fetching["pool"]}
  BY <1>1 DEF Pool!Views
<1> QED BY <1>1, <1>2, <1>3, <1>4, <1>5, <1>6, StoreStands

LEMMA VisitsKeep ==
  ASSUME Pool!PoolInvariant,
         \/ \E f \in Facts : Pool!OpenFact(f)
         \/ Pool!BackToPool \/ Pool!Leave \/ Pool!EnterPool
         \/ \E p \in visited : Pool!History(p)
  PROVE  Pool!PoolInvariant'
<1>1. PICK p \in Pool!Pages : Pool!Visit(p, requests) /\ UNCHANGED <<store, reads>>
  BY InvariantOfTheStore DEF Pool!OpenFact, Pool!BackToPool, Pool!Leave, Pool!EnterPool,
     Pool!History, Pool!Pages, Pool!Still
<1> QED BY <1>1, VisitKeeps

LEMMA RedrawsKeeps ==
  ASSUME Pool!PoolInvariant, NEW new, NEW corrected, Pool!Redraws(new, corrected),
         Pool!Stays, Pool!Still
  PROVE  Pool!PoolInvariant'
<1> DEFINE of == FormIn(store, reads, address, new, corrected)
           kinds == IF of = factForm.of THEN {} ELSE {"create"}
<1>1. /\ creating' = new /\ correcting' = corrected
      /\ factForm' = IF of = factForm.of THEN factForm ELSE Pool!Seed(of, reads)
      /\ requests' = Pool!Unwatched(kinds)
      /\ UNCHANGED <<asking, choice>>
  BY SeenOfTheStore DEF Pool!Redraws
<1>2. /\ StoreIn(store) /\ ReadsIn(store, reads) /\ address \in Pool!Pages
      /\ ScreenIn(store, reads, address, creating, correcting, factForm, asking, choice)
  BY InvariantOfTheStore DEF PoolIn
<1>3. Pool!Seed(of, reads) \in Pool!Forms /\ Pool!Seed(of, reads).of = of
  BY <1>2, SeedIsOfItsForm
<1> HIDE DEF kinds
<1>4. \A r \in requests' : RequestIn(store, r)
  BY <1>1, UnwatchedIsSound
<1> HIDE DEF of
<1>5. factForm' \in Pool!Forms /\ factForm'.of = of
  BY <1>1, <1>2, <1>3 DEF ScreenIn
<1>6. ScreenIn(store, reads, address, creating', correcting', factForm', asking', choice')
  BY <1>1, <1>2, <1>5 DEF ScreenIn, of
<1> QED BY <1>4, <1>6, PageStands

LEMMA FormsKeep ==
  ASSUME Pool!PoolInvariant,
         Pool!AskNew \/ Pool!AskForRequirement \/ Pool!AskCorrection \/ Pool!CloseForm
  PROVE  Pool!PoolInvariant'
BY RedrawsKeeps DEF Pool!AskNew, Pool!AskForRequirement, Pool!AskCorrection, Pool!CloseForm

LEMMA TypesKeep ==
  ASSUME Pool!PoolInvariant,
         \/ \E text \in Texts : Pool!TypeText(text)
         \/ \E source \in Pool!Sources : Pool!TypeSource(source)
  PROVE  Pool!PoolInvariant'
<1>1. /\ ScreenIn(store, reads, address, creating, correcting, factForm, asking, choice)
      /\ \A r \in requests : RequestIn(store, r)
  BY InvariantOfTheStore DEF PoolIn
<1>2. factForm \in Pool!Forms
  BY <1>1 DEF ScreenIn
<1>3. /\ \A text \in Texts : LET new == [factForm EXCEPT !.text = text]
                             IN  new \in Pool!Forms /\ new.of = factForm.of
      /\ \A source \in Pool!Sources : LET new == [factForm EXCEPT !.source = source]
                                     IN  new \in Pool!Forms /\ new.of = factForm.of
  BY <1>2 DEF Pool!Forms
<1>4. PICK new \in Pool!Forms : new.of = factForm.of /\ Pool!Types(new)
  BY <1>3 DEF Pool!TypeText, Pool!TypeSource
<1>5. /\ factForm' = new /\ UNCHANGED <<requests, creating, correcting, asking, choice>>
      /\ Pool!Stays /\ Pool!Still
  BY <1>4 DEF Pool!Types
<1>6. ScreenIn(store, reads, address, creating', correcting', factForm', asking', choice')
  BY <1>1, <1>4, <1>5 DEF ScreenIn
<1> QED BY <1>1, <1>5, <1>6, PageStands

LEMMA QuestionsKeep ==
  ASSUME Pool!PoolInvariant,
         Pool!AskPromotion \/ Pool!OpenMenu \/ Pool!ChooseDeletion \/ Pool!Cancel
  PROVE  Pool!PoolInvariant'
<1>1. /\ ScreenIn(store, reads, address, creating, correcting, factForm, asking, choice)
      /\ \A r \in requests : RequestIn(store, r)
  BY InvariantOfTheStore DEF PoolIn
<1>2. /\ UNCHANGED <<creating, correcting, factForm, choice>> /\ Pool!Stays /\ Pool!Still
      /\ \/ UNCHANGED requests
         \/ \E kinds : requests' = Pool!Unwatched(kinds)
  BY DEF Pool!AskPromotion, Pool!OpenMenu, Pool!Asks, Pool!ChooseDeletion, Pool!Cancel
<1>3. /\ asking' \in {"none", "promotion", "menu", "deletion"}
      /\ asking' = "promotion" => SeenIn(store, reads, address) /\ StatusIn(store, reads, address) = "pending"
      /\ asking' \in {"menu", "deletion"} =>
            SeenIn(store, reads, address) /\ StatusIn(store, reads, address) # "deleted"
  BY <1>1, SeenOfTheStore DEF Pool!AskPromotion, Pool!OpenMenu, Pool!Asks, Pool!ChooseDeletion,
     Pool!Cancel, ScreenIn
<1>4. \A r \in requests' : RequestIn(store, r)
  BY <1>1, <1>2, UnwatchedIsSound
<1>5. ScreenIn(store, reads, address, creating', correcting', factForm', asking', choice')
  BY <1>1, <1>2, <1>3 DEF ScreenIn
<1> QED BY <1>2, <1>4, <1>5, PageStands

LEMMA ChoicesKeep ==
  ASSUME Pool!PoolInvariant,
         \/ \E profile \in Profiles : Pool!ChooseProfile(profile)
         \/ \E section \in Sections : Pool!ChooseSection(section)
         \/ Pool!Accept
         \/ \E source \in Pool!Sources \union {"all"} : Pool!ChooseSource(source)
         \/ Pool!TogglePending \/ Pool!ClearFilters
  PROVE  Pool!PoolInvariant'
<1>1. /\ ScreenIn(store, reads, address, creating, correcting, factForm, asking, choice)
      /\ \A r \in requests : RequestIn(store, r)
  BY InvariantOfTheStore DEF PoolIn
<1>2. /\ UNCHANGED <<requests, creating, correcting, factForm, asking>> /\ Pool!Stays /\ Pool!Still
      /\ \/ \E profile \in Profiles :
               choice' = [choice EXCEPT !.profile = profile, !.section = Pool!NoChoice.section,
                                        !.accepted = FALSE]
         \/ \E section \in Sections : choice' = [choice EXCEPT !.section = section]
         \/ choice' = [choice EXCEPT !.accepted = ~@, !.acceptedOf = <<address, choice.profile>>]
         \/ choice' = choice
  BY DEF Pool!ChooseProfile, Pool!ChooseSection, Pool!Accept, Pool!ChooseSource, Pool!TogglePending,
     Pool!ClearFilters, Pool!Filters
<1>3. Pool!IsChoice(choice) /\ Pool!IsChoice(Pool!NoChoice)
  BY <1>1, NoChoiceIsAChoice DEF ScreenIn
<1>4. Pool!NoChoice.section \in Sections
  BY <1>3 DEF Pool!IsChoice
<1>5. ASSUME NEW profile \in Profiles, NEW section \in Sections, NEW accepted, NEW acceptedOf,
             choice' \in [profile : {profile}, section : {section}, accepted : {accepted},
                          acceptedOf : {acceptedOf}]
      PROVE  Pool!IsChoice(choice')
  <2>1. choice'.accepted = accepted /\ choice'.acceptedOf = acceptedOf
    BY <1>5
  <2> QED BY <1>5, <2>1 DEF Pool!IsChoice
<1>6. choice \in [profile : Profiles, section : Sections, accepted : {choice.accepted},
                  acceptedOf : {choice.acceptedOf}]
  BY <1>3 DEF Pool!IsChoice
<1>7. ASSUME NEW profile \in Profiles,
             choice' = [choice EXCEPT !.profile = profile, !.section = Pool!NoChoice.section,
                                      !.accepted = FALSE]
      PROVE  Pool!IsChoice(choice')
  <2> DEFINE section == Pool!NoChoice.section
  <2>1. section \in Sections /\ choice' = [choice EXCEPT !.profile = profile, !.section = section,
                                                        !.accepted = FALSE]
    BY <1>4, <1>7
  <2> HIDE DEF section
  <2>2. choice' \in [profile : {profile}, section : {section}, accepted : {FALSE},
                     acceptedOf : {choice.acceptedOf}]
    BY <1>6, <2>1
  <2> QED BY <1>5, <2>1, <2>2
<1>8. ASSUME NEW section \in Sections, choice' = [choice EXCEPT !.section = section]
      PROVE  Pool!IsChoice(choice')
  <2>1. choice' \in [profile : {choice.profile}, section : {section}, accepted : {choice.accepted},
                     acceptedOf : {choice.acceptedOf}]
    BY <1>6, <1>8
  <2> QED BY <1>5, <1>6, <2>1
<1>9. ASSUME choice' = [choice EXCEPT !.accepted = ~@, !.acceptedOf = <<address, choice.profile>>]
      PROVE  Pool!IsChoice(choice')
  <2> DEFINE accepted == ~choice.accepted
             acceptedOf == <<address, choice.profile>>
  <2>1. choice' = [choice EXCEPT !.accepted = accepted, !.acceptedOf = acceptedOf]
    BY <1>9
  <2> HIDE DEF accepted, acceptedOf
  <2>2. choice' \in [profile : {choice.profile}, section : {choice.section}, accepted : {accepted},
                     acceptedOf : {acceptedOf}]
    BY <1>6, <2>1
  <2> QED BY <1>5, <1>6, <2>2
<1>10. Pool!IsChoice(choice')
  BY <1>2, <1>3, <1>7, <1>8, <1>9
<1>11. ScreenIn(store, reads, address, creating', correcting', factForm', asking', choice')
  BY <1>1, <1>2, <1>10 DEF ScreenIn
<1> QED BY <1>1, <1>2, <1>11, PageStands

-----------------------------------------------------------------------------
(* The commands *)

LEMMA SendsKeep ==
  ASSUME Pool!PoolInvariant, NEW kind \in {"create", "confirm", "delete", "attach"},
         NEW fact \in Facts \union {"none"}, kind # "create" => fact \in Facts,
         kind = "create" /\ fact # "none" =>
            factForm.of = fact /\ store[Len(store)].fact[fact].status \in {"canonical", "deleted"},
         Pool!Sends(kind, fact)
  PROVE  Pool!PoolInvariant'
<1> DEFINE r == [kind |-> kind, stage |-> "sent", fact |-> fact, form |-> factForm, choice |-> choice,
                 asked |-> asking, base |-> 0, made |-> "none", version |-> 0, watched |-> TRUE,
                 gone |-> FALSE, nr |-> factBudget["send"]]
<1>1. /\ ScreenIn(store, reads, address, creating, correcting, factForm, asking, choice)
      /\ \A q \in requests : RequestIn(store, q)
  BY InvariantOfTheStore DEF PoolIn
<1>2. requests' = requests \union {r} /\ Pool!Stays /\ Pool!Still
  BY DEF Pool!Sends
<1>3. UNCHANGED <<creating, correcting, factForm, asking, choice>>
  BY DEF Pool!Sends, Pool!screen
<1>4. r.kind = kind /\ r.stage = "sent" /\ r.fact = fact /\ r.form = factForm /\ r.choice = choice
  OBVIOUS
<1>5. r \in [kind : {kind}, stage : {"sent"}, fact : {fact}, form : {factForm},
             choice : {r.choice}, asked : {r.asked}, base : {r.base}, made : {"none"},
             version : {r.version}, watched : {r.watched}, gone : {r.gone}, nr : {r.nr}]
  OBVIOUS
<1> HIDE DEF r
<1>6. factForm \in Pool!Forms /\ Pool!IsChoice(choice)
  BY <1>1 DEF ScreenIn
<1>7. r \in [kind : {"create", "confirm", "delete", "attach"},
             stage : {"sent", "read", "accepted", "refused"},
             fact : Facts \union {"none"}, form : Pool!Forms, choice : {r.choice}, asked : {r.asked},
             base : {r.base}, made : Facts \union {"none"}, version : {r.version},
             watched : {r.watched}, gone : {r.gone}, nr : {r.nr}]
  BY <1>5, <1>6
<1>8. Pool!IsRequest(r)
  BY <1>4, <1>6, <1>7 DEF Pool!IsRequest
<1>9. RequestIn(store, r)
  BY <1>4, <1>8 DEF RequestIn
<1>10. ScreenIn(store, reads, address, creating', correcting', factForm', asking', choice')
  BY <1>1, <1>3
<1>11. \A q \in requests' : RequestIn(store, q)
  BY <1>1, <1>2, <1>9
<1> QED BY <1>2, <1>10, <1>11, PageStands

\* A correction is open over a canonical fact: it may have been deleted since it was read.
LEMMA CorrectedIsCanonical ==
  ASSUME Pool!PoolInvariant, factForm.of \in Facts
  PROVE  /\ factForm.of = address
         /\ store[Len(store)].fact[address].status \in {"canonical", "deleted"}
<1>1. /\ StoreIn(store) /\ ReadsIn(store, reads)
      /\ factForm.of = FormIn(store, reads, address, creating, correcting)
  BY InvariantOfTheStore DEF PoolIn, ScreenIn
<1>2. factForm.of \notin {"new", "requirement", "none"}
  BY FactsConstants
<1>3. factForm.of = address /\ SeenIn(store, reads, address) /\ StatusIn(store, reads, address) = "canonical"
  BY <1>1, <1>2 DEF FormIn
<1> DEFINE n == reads[address][1]
<1>4. address \in Facts /\ address \in Pool!Views /\ reads[address] # Pool!NotRead
  BY <1>3 DEF SeenIn, Pool!Views
<1>5. n \in 1 .. Len(store)
  BY <1>1, <1>4 DEF ReadsIn, ReadIn
<1>6. store[n].fact[address].status = "canonical"
  BY <1>3 DEF StatusIn
<1> HIDE DEF n
<1>7. Len(store) \in 1 .. Len(store) /\ n <= Len(store)
  BY <1>1, <1>5, StoreParts
<1>8. /\ Pool!Rank(store[n].fact[address].status) <= Pool!Rank(store[Len(store)].fact[address].status)
      /\ store[Len(store)].fact[address].status \in Pool!Statuses
  BY <1>1, <1>4, <1>5, <1>7, StoreParts DEF StoreIn
<1>9. store[Len(store)].fact[address].status \in {"canonical", "deleted"}
  BY <1>6, <1>8 DEF Pool!Rank, Pool!Statuses
<1> QED BY <1>3, <1>9

LEMMA CommandsKeep ==
  ASSUME Pool!PoolInvariant, Pool!Create \/ Pool!Promote \/ Pool!Delete \/ Pool!Attach
  PROVE  Pool!PoolInvariant'
<1>1. ScreenIn(store, reads, address, creating, correcting, factForm, asking, choice)
  BY InvariantOfTheStore DEF PoolIn
<1>2. CASE Pool!Create
  <2>1. CASE factForm.of \in Facts
    <3>1. Pool!Sends("create", address)
      BY <1>2, <2>1 DEF Pool!Create
    <3> QED BY <2>1, <3>1, CorrectedIsCanonical, SendsKeep
  <2>2. CASE factForm.of \notin Facts
    <3>1. Pool!Sends("create", "none")
      BY <1>2, <2>2 DEF Pool!Create
    <3> QED BY <3>1, SendsKeep
  <2> QED BY <2>1, <2>2
<1>3. CASE Pool!Promote
  <2>1. address \in Facts /\ Pool!Sends("confirm", address)
    BY <1>1, <1>3 DEF Pool!Promote, ScreenIn, SeenIn
  <2> QED BY <2>1, SendsKeep
<1>4. CASE Pool!Delete
  <2>1. address \in Facts /\ Pool!Sends("delete", address)
    BY <1>1, <1>4 DEF Pool!Delete, ScreenIn, SeenIn
  <2> QED BY <2>1, SendsKeep
<1>5. CASE Pool!Attach
  <2>1. address \in Facts /\ Pool!Sends("attach", address)
    BY <1>5, SeenOfTheStore DEF Pool!Attach, SeenIn
  <2> QED BY <2>1, SendsKeep
<1> QED BY <1>2, <1>3, <1>4, <1>5

-----------------------------------------------------------------------------
(* The server *)

\* What a mutation may do of a version: no fact goes back, and what is settled keeps its words.
Follows(at, on) ==
  /\ on \in Pool!Versions
  /\ \A f \in Facts :
        /\ Pool!Rank(at.fact[f].status) <= Pool!Rank(on.fact[f].status)
        /\ at.fact[f].status \in {"canonical", "deleted"} => on.fact[f].text = at.fact[f].text

LEMMA FactFollows ==
  ASSUME NEW at \in Pool!Versions, NEW f \in Facts,
         NEW fact \in [status : Pool!Statuses, text : Texts \union {Blank},
                       source : Pool!Sources \union {"none"}, replaces : Facts \union {"none"}],
         Pool!Rank(at.fact[f].status) <= Pool!Rank(fact.status),
         at.fact[f].status \in {"canonical", "deleted"} => fact.text = at.fact[f].text
  PROVE  Follows(at, [at EXCEPT !.fact[f] = fact])
<1> DEFINE row == [status : Pool!Statuses, text : Texts \union {Blank},
                   source : Pool!Sources \union {"none"}, replaces : Facts \union {"none"}]
           rows == [at.fact EXCEPT ![f] = fact]
           on == [at EXCEPT !.fact[f] = fact]
<1>1. at.fact \in [Facts -> row] /\ at.attached \in SUBSET (Facts \X Profiles \X Sections)
  BY DEF Pool!Versions
<1>2. rows \in [Facts -> row] /\ rows[f] = fact /\ \A g \in Facts \ {f} : rows[g] = at.fact[g]
  BY <1>1
<1> HIDE DEF row
<1>3. on = [at EXCEPT !.fact = rows]
  OBVIOUS
<1>4. at \in [fact : [Facts -> row], attached : SUBSET (Facts \X Profiles \X Sections)]
  BY DEF Pool!Versions, row
<1> HIDE DEF rows, on
<1>5. on \in [fact : {rows}, attached : {at.attached}]
  BY <1>3, <1>4
<1>6. on.fact = rows /\ on \in [fact : [Facts -> row], attached : SUBSET (Facts \X Profiles \X Sections)]
  BY <1>1, <1>2, <1>5
<1>7. on \in Pool!Versions
  BY <1>6 DEF Pool!Versions, row
<1>8. \A g \in Facts : Pool!Rank(at.fact[g].status) <= Pool!Rank(at.fact[g].status)
  BY DEF Pool!Rank
<1>9. \A g \in Facts :
        /\ Pool!Rank(at.fact[g].status) <= Pool!Rank(on.fact[g].status)
        /\ at.fact[g].status \in {"canonical", "deleted"} => on.fact[g].text = at.fact[g].text
  BY <1>2, <1>6, <1>8
<1> QED BY <1>7, <1>9 DEF Follows, on

LEMMA StatusFollows ==
  ASSUME NEW at \in Pool!Versions, NEW f \in Facts, NEW status \in Pool!Statuses,
         Pool!Rank(at.fact[f].status) <= Pool!Rank(status)
  PROVE  /\ Follows(at, [at EXCEPT !.fact[f].status = status])
         /\ Follows(at, [at EXCEPT !.fact[f] = [at.fact[f] EXCEPT !.status = status]])
<1> DEFINE fact == [at.fact[f] EXCEPT !.status = status]
<1>1. at.fact[f] \in [status : Pool!Statuses, text : Texts \union {Blank},
                      source : Pool!Sources \union {"none"}, replaces : Facts \union {"none"}]
  BY DEF Pool!Versions
<1>2. /\ fact \in [status : Pool!Statuses, text : Texts \union {Blank},
                    source : Pool!Sources \union {"none"}, replaces : Facts \union {"none"}]
      /\ fact.status = status /\ fact.text = at.fact[f].text
  BY <1>1
<1>3. [at EXCEPT !.fact[f].status = status] = [at EXCEPT !.fact[f] = fact]
  OBVIOUS
<1> HIDE DEF fact
<1>4. Follows(at, [at EXCEPT !.fact[f] = fact])
  BY <1>2, FactFollows
<1> QED BY <1>3, <1>4 DEF fact

LEMMA AttachedFollows ==
  ASSUME NEW at \in Pool!Versions, NEW to \in Facts \X Profiles \X Sections
  PROVE  Follows(at, [at EXCEPT !.attached = @ \union {to}])
<1> DEFINE on == [at EXCEPT !.attached = @ \union {to}]
<1>1. on \in Pool!Versions /\ on.fact = at.fact
  BY DEF Pool!Versions
<1> HIDE DEF on
<1>2. \A f \in Facts : Pool!Rank(at.fact[f].status) <= Pool!Rank(at.fact[f].status)
  BY DEF Pool!Rank
<1> QED BY <1>1, <1>2 DEF Follows, on

LEMMA MutationKeeps ==
  ASSUME Pool!PoolInvariant, NEW at, Follows(Pool!Now, at), store' = Append(store, at),
         UNCHANGED <<reads, fetching, address, visited, creating, correcting, factForm, asking, choice>>,
         \A q \in requests' : RequestIn(store, q)
  PROVE  Pool!PoolInvariant'
<1>1. /\ PoolIn(store, reads, address, creating, correcting, factForm, asking, choice, requests)
      /\ visited \subseteq Pool!Pages /\ DOMAIN fetching = Pool!Views
      /\ fetching["pool"] \in {Pool!NoRead, Pool!Asked} \/ fetching["pool"][1] \in 1 .. Len(store)
  BY InvariantOfTheStore
<1>2. StoreIn(store)
  BY <1>1 DEF PoolIn
<1>3. GoesOn(store, store')
  BY <1>2, AppendGoesOn DEF Follows, Pool!Now
<1>4. PoolIn(store, reads, address, creating, correcting, factForm, asking, choice, requests')
  BY <1>1 DEF PoolIn
<1>5. PoolIn(store', reads', address', creating', correcting', factForm', asking', choice', requests')
  <2>1. PoolIn(store', reads, address, creating, correcting, factForm, asking, choice, requests')
    BY <1>3, <1>4, PoolStaysIn
  <2> QED BY <2>1
<1>6. Len(store) \in Nat /\ Len(store') \in Nat /\ Len(store) <= Len(store')
  BY <1>3, StoreParts DEF GoesOn
<1>7. fetching'["pool"] \in {Pool!NoRead, Pool!Asked} \/ fetching'["pool"][1] \in 1 .. Len(store')
  BY <1>1, <1>6
<1> QED BY <1>1, <1>5, <1>7, InvariantOfTheNextStore

\* The same command at another stage.
LEMMA AnotherStage ==
  ASSUME NEW st, NEW r, RequestIn(st, r), NEW stage \in {"sent", "read", "accepted", "refused"},
         NEW read, NEW version, NEW made \in Facts \union {"none"},
         r.kind = "create" /\ stage = "accepted" => made \in Facts,
         NEW q,
         q \in [kind : {r.kind}, stage : {stage}, fact : {r.fact}, form : {r.form},
                choice : {r.choice}, asked : {r.asked}, base : {read}, made : {made},
                version : {version}, watched : {r.watched}, gone : {r.gone}, nr : {r.nr}]
  PROVE  RequestIn(st, q)
<1>1. /\ q.kind = r.kind /\ q.stage = stage /\ q.fact = r.fact /\ q.form = r.form
      /\ q.choice = r.choice /\ q.made = made
  OBVIOUS
<1>2. q \in [kind : {r.kind}, stage : {stage}, fact : {r.fact}, form : {r.form},
             choice : {q.choice}, asked : {q.asked}, base : {q.base}, made : {made},
             version : {q.version}, watched : {q.watched}, gone : {q.gone}, nr : {q.nr}]
  OBVIOUS
<1>3. r.kind \in {"create", "confirm", "delete", "attach"} /\ r.fact \in Facts \union {"none"} /\ r.form \in Pool!Forms
  BY DEF RequestIn, Pool!IsRequest
<1>4. q \in [kind : {"create", "confirm", "delete", "attach"},
             stage : {"sent", "read", "accepted", "refused"},
             fact : Facts \union {"none"}, form : Pool!Forms, choice : {q.choice}, asked : {q.asked},
             base : {q.base}, made : Facts \union {"none"}, version : {q.version},
             watched : {q.watched}, gone : {q.gone}, nr : {q.nr}]
  BY <1>2, <1>3
<1>5. Pool!IsRequest(q)
  BY <1>1, <1>4 DEF RequestIn, Pool!IsRequest
<1> QED BY <1>1, <1>5 DEF RequestIn

LEMMA RequestFields ==
  ASSUME NEW st, NEW r, RequestIn(st, r)
  PROVE  /\ r \in [kind : {r.kind}, stage : {r.stage}, fact : {r.fact}, form : {r.form},
                   choice : {r.choice}, asked : {r.asked}, base : {r.base}, made : {r.made},
                   version : {r.version}, watched : {r.watched}, gone : {r.gone}, nr : {r.nr}]
         /\ r.kind \in {"create", "confirm", "delete", "attach"}
         /\ r.fact \in Facts \union {"none"} /\ r.made \in Facts \union {"none"}
         /\ r.kind # "create" => r.fact \in Facts
         /\ r.kind = "create" /\ r.stage = "accepted" => r.made \in Facts
         /\ r.form.text \in Texts \union {Blank} /\ r.form.source \in Pool!Sources \union {"none"}
         /\ r.choice.profile \in Profiles /\ r.choice.section \in Sections
<1>1. r.form \in Pool!Forms
  BY DEF RequestIn, Pool!IsRequest
<1>2. r.form.text \in Texts \union {Blank} /\ r.form.source \in Pool!Sources \union {"none"}
  BY <1>1 DEF Pool!Forms
<1>3. r.choice.profile \in Profiles /\ r.choice.section \in Sections
  BY DEF RequestIn, Pool!IsRequest, Pool!IsChoice
<1> QED BY <1>2, <1>3 DEF RequestIn, Pool!IsRequest

LEMMA AppliedFollows ==
  ASSUME Pool!PoolInvariant, NEW r, RequestIn(store, r), Pool!Applies(r, Pool!Now)
  PROVE  /\ Follows(Pool!Now, Pool!Applied(r, Pool!Now))
         /\ r.kind = "create" => Pool!Made \in Facts
<1> DEFINE at == Pool!Now
<1>1. at \in Pool!Versions /\ \A f \in Facts : at.fact[f].status \in Pool!Statuses
  <2>1. StoreIn(store)
    BY InvariantOfTheStore DEF PoolIn
  <2>2. store \in Seq(Pool!Versions) /\ Len(store) \in 1 .. Len(store)
    BY <2>1, StoreParts DEF StoreIn
  <2>3. at \in Pool!Versions
    BY <2>2, ElementOfSeq DEF Pool!Now
  <2> QED BY <2>3 DEF Pool!Versions
<1> HIDE DEF at
<1>2. CASE r.kind = "create"
  <2>1. Pool!Made \in Pool!Unborn
    BY <1>2 DEF Pool!Applies, Pool!Made
  <2>2. Pool!Made \in Facts /\ at.fact[Pool!Made].status = "none"
    BY <2>1 DEF Pool!Unborn, at
  <2> DEFINE fact == [status |-> "pending", text |-> r.form.text, source |-> r.form.source,
                      replaces |-> r.fact]
  <2>3. /\ fact \in [status : Pool!Statuses, text : Texts \union {Blank},
                      source : Pool!Sources \union {"none"}, replaces : Facts \union {"none"}]
        /\ fact.status = "pending"
    BY RequestFields DEF Pool!Statuses
  <2>4. Pool!Applied(r, at) = [at EXCEPT !.fact[Pool!Made] = fact]
    BY <1>2 DEF Pool!Applied
  <2> HIDE DEF fact
  <2>5. Pool!Rank(at.fact[Pool!Made].status) <= Pool!Rank(fact.status)
    BY <2>2, <2>3 DEF Pool!Rank
  <2>6. Follows(at, [at EXCEPT !.fact[Pool!Made] = fact])
    BY <1>1, <2>2, <2>3, <2>5, FactFollows
  <2> QED BY <2>2, <2>4, <2>6 DEF at
<1>3. CASE r.kind = "confirm"
  <2>1. r.fact \in Facts /\ at.fact[r.fact].status = "pending"
    BY <1>3, RequestFields DEF Pool!Applies, at
  <2>2. "canonical" \in Pool!Statuses /\ Pool!Rank(at.fact[r.fact].status) <= Pool!Rank("canonical")
    BY <2>1 DEF Pool!Rank, Pool!Statuses
  <2>3. Pool!Applied(r, at) = [at EXCEPT !.fact[r.fact].status = "canonical"]
    BY <1>3 DEF Pool!Applied
  <2> QED BY <1>1, <1>3, <2>1, <2>2, <2>3, StatusFollows DEF at
<1>4. CASE r.kind = "delete"
  <2>1. r.fact \in Facts
    BY <1>4, RequestFields
  <2>2. "deleted" \in Pool!Statuses /\ Pool!Rank(at.fact[r.fact].status) <= Pool!Rank("deleted")
    BY <1>1, <2>1 DEF Pool!Rank, Pool!Statuses
  <2>3. Pool!Applied(r, at) = [at EXCEPT !.fact[r.fact].status = "deleted"]
    BY <1>4 DEF Pool!Applied
  <2> QED BY <1>1, <1>4, <2>1, <2>2, <2>3, StatusFollows DEF at
<1>5. CASE r.kind = "attach"
  <2>1. <<r.fact, r.choice.profile, r.choice.section>> \in Facts \X Profiles \X Sections
    BY <1>5, RequestFields
  <2>2. Pool!Applied(r, at) =
          [at EXCEPT !.attached = @ \union {<<r.fact, r.choice.profile, r.choice.section>>}]
    BY <1>5 DEF Pool!Applied
  <2> QED BY <1>1, <1>5, <2>1, <2>2, AttachedFollows DEF at
<1> QED BY <1>2, <1>3, <1>4, <1>5, RequestFields

LEMMA EndsIsSound ==
  ASSUME Pool!PoolInvariant, NEW r \in requests, Pool!Ends(r)
  PROVE  /\ \A q \in requests' : RequestIn(store, q)
         /\ \/ UNCHANGED store
            \/ \E at : Follows(Pool!Now, at) /\ store' = Append(store, at)
<1>1. \A q \in requests : RequestIn(store, q)
  BY InvariantOfTheStore DEF PoolIn
<1>2. RequestIn(store, r)
  BY <1>1
<1> DEFINE fields == [kind : {r.kind}, stage : {r.stage}, fact : {r.fact}, form : {r.form},
                      choice : {r.choice}, asked : {r.asked}, base : {r.base}, made : {r.made},
                      version : {r.version}, watched : {r.watched}, gone : {r.gone}, nr : {r.nr}]
<1>3. r \in fields
  BY <1>2, RequestFields
<1>4. CASE Pool!Commits(r)
  <2> DEFINE made == IF r.kind = "create" THEN Pool!Made ELSE "none"
             version == Len(store) + 1
             q == [r EXCEPT !.stage = "accepted", !.version = version, !.made = made]
  <2>1. /\ store' = Append(store, Pool!Applied(r, Pool!Now))
        /\ requests' = (requests \ {r}) \union {q}
    BY <1>4 DEF Pool!Ends, Pool!Answers
  <2>2. Pool!Applies(r, Pool!Now)
    BY <1>4 DEF Pool!Commits, Pool!Now
  <2>3. /\ Follows(Pool!Now, Pool!Applied(r, Pool!Now))
        /\ made \in Facts \union {"none"} /\ (r.kind = "create" => made \in Facts)
    BY <1>2, <2>2, AppliedFollows
  <2> HIDE DEF made, version
  <2>4. q \in [kind : {r.kind}, stage : {"accepted"}, fact : {r.fact}, form : {r.form},
               choice : {r.choice}, asked : {r.asked}, base : {r.base}, made : {made},
               version : {version}, watched : {r.watched}, gone : {r.gone}, nr : {r.nr}]
    BY <1>3
  <2> HIDE DEF q
  <2>5. RequestIn(store, q)
    BY <1>2, <2>3, <2>4, AnotherStage
  <2> QED BY <1>1, <2>1, <2>3, <2>5
<1>5. CASE ~Pool!Commits(r)
  <2> DEFINE q == [r EXCEPT !.stage = "refused"]
  <2>1. requests' = (requests \ {r}) \union {q} /\ UNCHANGED store
    BY <1>5 DEF Pool!Ends, Pool!Answers
  <2>2. q \in [kind : {r.kind}, stage : {"refused"}, fact : {r.fact}, form : {r.form},
               choice : {r.choice}, asked : {r.asked}, base : {r.base}, made : {r.made},
               version : {r.version}, watched : {r.watched}, gone : {r.gone}, nr : {r.nr}]
    BY <1>3
  <2> HIDE DEF q
  <2>3. RequestIn(store, q)
    BY <1>2, <2>2, AnotherStage, RequestFields
  <2> QED BY <1>1, <2>1, <2>3
<1> QED BY <1>4, <1>5

LEMMA ServerKeeps ==
  ASSUME Pool!PoolInvariant, NEW r \in requests,
         Pool!Begins(r) \/ Pool!Ends(r) \/ Pool!Refused(r) \/ Pool!Lost(r)
  PROVE  Pool!PoolInvariant'
<1>1. /\ ScreenIn(store, reads, address, creating, correcting, factForm, asking, choice)
      /\ \A q \in requests : RequestIn(store, q)
  BY InvariantOfTheStore DEF PoolIn
<1>2. UNCHANGED <<reads, fetching, address, visited, creating, correcting, factForm, asking, choice>>
  BY DEF Pool!Begins, Pool!Ends, Pool!Refused, Pool!Lost, Pool!screen
<1>3. CASE Pool!Begins(r)
  <2> DEFINE q == [r EXCEPT !.stage = "read", !.base = Len(store)]
             now == Len(store)
  <2>1. requests' = (requests \ {r}) \union {q} /\ UNCHANGED <<store, promised>>
    BY <1>3 DEF Pool!Begins, Pool!Answers
  <2>2. r \in [kind : {r.kind}, stage : {r.stage}, fact : {r.fact}, form : {r.form},
               choice : {r.choice}, asked : {r.asked}, base : {r.base}, made : {r.made},
               version : {r.version}, watched : {r.watched}, gone : {r.gone}, nr : {r.nr}]
    BY <1>1, RequestFields
  <2>3. q = [r EXCEPT !.stage = "read", !.base = now]
    OBVIOUS
  <2> HIDE DEF q, now
  <2>4. q \in [kind : {r.kind}, stage : {"read"}, fact : {r.fact}, form : {r.form},
               choice : {r.choice}, asked : {r.asked}, base : {now}, made : {r.made},
               version : {r.version}, watched : {r.watched}, gone : {r.gone}, nr : {r.nr}]
    BY <2>2, <2>3
  <2>5. RequestIn(store, q)
    BY <1>1, <2>4, AnotherStage, RequestFields
  <2>6. \A a \in requests' : RequestIn(store, a)
    BY <1>1, <2>1, <2>5
  <2> QED BY <1>1, <1>2, <2>1, <2>6, PageStands DEF Pool!Stays, Pool!Still
<1>4. CASE Pool!Ends(r)
  <2>1. CASE UNCHANGED store
    <3>1. \A a \in requests' : RequestIn(store, a)
      BY <1>4, EndsIsSound
    <3>2. UNCHANGED promised
      BY <1>4 DEF Pool!Ends
    <3> QED BY <1>1, <1>2, <2>1, <3>1, <3>2, PageStands DEF Pool!Stays, Pool!Still
  <2>2. CASE \E at : Follows(Pool!Now, at) /\ store' = Append(store, at)
    BY <1>2, <1>4, <2>2, EndsIsSound, MutationKeeps
  <2> QED BY <1>4, <2>1, <2>2, EndsIsSound
<1>5. CASE Pool!Refused(r) \/ Pool!Lost(r)
  <2>1. requests' = requests \ {r} /\ UNCHANGED <<store, promised>>
    BY <1>5 DEF Pool!Refused, Pool!Lost
  <2>2. \A a \in requests' : RequestIn(store, a)
    BY <1>1, <2>1
  <2> QED BY <1>1, <1>2, <2>1, <2>2, PageStands DEF Pool!Stays, Pool!Still
<1> QED BY <1>3, <1>4, <1>5

-----------------------------------------------------------------------------
(* What reaches the browser, and another tab *)

LEMMA AcceptedKeeps ==
  ASSUME Pool!PoolInvariant, NEW r \in requests, Pool!Accepted(r)
  PROVE  Pool!PoolInvariant'
<1> DEFINE to == Pool!Destination(r)
           changed == IF r.kind = "create" THEN r.made ELSE r.fact
           closes == r.kind = "create" /\ ~r.gone
           answers == r.kind \in {"confirm", "delete"} /\ ~r.gone
           new == creating /\ ~closes
           corrected == correcting /\ ~closes
           question == IF answers THEN "none" ELSE asking
<1>1. /\ r.stage = "accepted"
      /\ address' = to /\ visited' = visited \union {to}
      /\ fetching' = [v \in Pool!Views |->
                        CASE v \notin Pool!Observed(to) -> Pool!NoRead
                          [] v \in Pool!Invalidates(to, changed) -> Pool!Asked
                          [] to # address /\ fetching[v] = Pool!NoRead -> Pool!Asked
                          [] OTHER -> fetching[v]]
      /\ requests' = Pool!LetGo(requests \ {r}, to, reads)
      /\ Pool!Draws(to, reads, new, corrected, question)
      /\ UNCHANGED <<store, reads>>
  BY DEF Pool!Accepted
<1>2. /\ PoolIn(store, reads, address, creating, correcting, factForm, asking, choice, requests)
      /\ visited \subseteq Pool!Pages
      /\ fetching["pool"] \in {Pool!NoRead, Pool!Asked} \/ fetching["pool"][1] \in 1 .. Len(store)
  BY InvariantOfTheStore
<1>3. /\ ReadsIn(store, reads) /\ address \in Pool!Pages
      /\ asking \in {"none", "promotion", "menu", "deletion"}
      /\ \A q \in requests : RequestIn(store, q)
  BY <1>2 DEF PoolIn, ScreenIn
<1>4. to \in Pool!Pages
  BY <1>1, <1>3, RequestFields DEF Pool!Destination, Pool!Pages
<1>5. question \in {"none", "promotion", "menu", "deletion"}
  BY <1>3
<1>6. /\ DOMAIN fetching' = Pool!Views
      /\ fetching'["pool"] \in {Pool!NoRead, Pool!Asked, fetching["pool"]}
  <2> HIDE DEF to, changed
  <2>1. "pool" \in Pool!Views
    BY DEF Pool!Views
  <2> QED BY <1>1, <2>1
<1> HIDE DEF to, new, corrected, question
<1>7. ScreenIn(store, reads, to, creating', correcting', factForm', asking', choice')
  BY <1>1, <1>3, <1>4, <1>5, DrawsIsSound
<1>8. \A q \in requests' : RequestIn(store, q)
  BY <1>1, <1>3, LetGoIsSound
<1>9. visited' \subseteq Pool!Pages
  BY <1>1, <1>2, <1>4
<1> QED BY <1>1, <1>2, <1>3, <1>4, <1>6, <1>7, <1>8, <1>9, StoreStands

LEMMA ArrivesKeeps ==
  ASSUME Pool!PoolInvariant, NEW v \in Pool!Views, NEW read \in (1 .. Len(store)) \X (1 .. Len(store)),
         Pool!Arrives(v, read)
  PROVE  Pool!PoolInvariant'
<1> DEFINE seen == [reads EXCEPT ![v] = read]
<1>1. /\ fetching' = [fetching EXCEPT ![v] = Pool!NoRead] /\ reads' = seen
      /\ requests' = Pool!LetGo(requests, address, seen)
      /\ Pool!Draws(address, seen, creating, correcting, asking)
      /\ UNCHANGED <<store, address, visited>>
  BY DEF Pool!Arrives
<1>2. /\ PoolIn(store, reads, address, creating, correcting, factForm, asking, choice, requests)
      /\ visited \subseteq Pool!Pages /\ DOMAIN fetching = Pool!Views
      /\ fetching["pool"] \in {Pool!NoRead, Pool!Asked} \/ fetching["pool"][1] \in 1 .. Len(store)
  BY InvariantOfTheStore
<1>3. /\ ReadsIn(store, reads) /\ address \in Pool!Pages
      /\ asking \in {"none", "promotion", "menu", "deletion"}
      /\ \A q \in requests : RequestIn(store, q)
  BY <1>2 DEF PoolIn, ScreenIn
<1>4. ReadsIn(store, seen)
  BY <1>3 DEF ReadsIn, ReadIn
<1> HIDE DEF seen
<1>5. ScreenIn(store, seen, address, creating', correcting', factForm', asking', choice')
  BY <1>1, <1>3, <1>4, DrawsIsSound
<1>6. \A q \in requests' : RequestIn(store, q)
  BY <1>1, <1>3, LetGoIsSound
<1>7. /\ DOMAIN fetching' = Pool!Views
      /\ fetching'["pool"] \in {Pool!NoRead, fetching["pool"]}
  BY <1>1, <1>2 DEF Pool!Views
<1> QED BY <1>1, <1>2, <1>3, <1>4, <1>5, <1>6, <1>7, StoreStands

LEMMA ReadsKeep ==
  ASSUME Pool!PoolInvariant,
         \/ Pool!FactsRead \/ Pool!PoolArrives
         \/ \E f \in Facts : Pool!FactArrives(f)
         \/ Pool!Focus
  PROVE  Pool!PoolInvariant'
<1>1. /\ PoolIn(store, reads, address, creating, correcting, factForm, asking, choice, requests)
      /\ visited \subseteq Pool!Pages /\ DOMAIN fetching = Pool!Views
      /\ fetching["pool"] \in {Pool!NoRead, Pool!Asked} \/ fetching["pool"][1] \in 1 .. Len(store)
  BY InvariantOfTheStore
<1>2. /\ StoreIn(store) /\ ReadsIn(store, reads) /\ address \in Pool!Pages
      /\ ScreenIn(store, reads, address, creating, correcting, factForm, asking, choice)
      /\ \A q \in requests : RequestIn(store, q)
  BY <1>1 DEF PoolIn
<1>3. Len(store) \in 1 .. Len(store) /\ "pool" \in Pool!Views /\ \A f \in Facts : f \in Pool!Views
  BY <1>2, StoreParts DEF Pool!Views
<1>4. CASE Pool!PoolArrives
  BY <1>1, <1>3, <1>4, ArrivesKeeps DEF Pool!PoolArrives
<1>5. CASE \E f \in Facts : Pool!FactArrives(f)
  BY <1>3, <1>5, ArrivesKeeps DEF Pool!FactArrives
<1>6. CASE Pool!FactsRead \/ Pool!Focus
  <2>1. UNCHANGED <<store, requests, reads, address, visited, creating, correcting, factForm, asking, choice>>
    BY <1>6 DEF Pool!FactsRead, Pool!Focus, Pool!screen
  <2>2. DOMAIN fetching' = Pool!Views
    BY <1>1, <1>6 DEF Pool!FactsRead, Pool!Focus
  <2>3. fetching'["pool"] \in {Pool!NoRead, Pool!Asked} \/ fetching'["pool"][1] \in 1 .. Len(store)
    <3>1. CASE Pool!FactsRead
      <4> DEFINE to == <<Len(store), 0>>
      <4>1. fetching' = [fetching EXCEPT !["pool"] = to] /\ to[1] = Len(store)
        BY <3>1 DEF Pool!FactsRead
      <4> HIDE DEF to
      <4>2. fetching'["pool"] = to
        BY <1>1, <1>3, <4>1
      <4> QED BY <1>3, <4>1, <4>2
    <3>2. CASE Pool!Focus
      <4>1. fetching'["pool"] \in {Pool!Asked, fetching["pool"]}
        BY <1>3, <3>2 DEF Pool!Focus
      <4> QED BY <1>1, <4>1
    <3> QED BY <1>6, <3>1, <3>2
  <2> QED BY <1>1, <1>2, <2>1, <2>2, <2>3, StoreStands
<1> QED BY <1>4, <1>5, <1>6

LEMMA OtherFollows ==
  ASSUME Pool!PoolInvariant, NEW f \in Facts,
         (\E text \in Texts : Pool!OtherEdits(f, text)) \/ Pool!OtherConfirms(f) \/ Pool!OtherDeletes(f)
  PROVE  \E at : Follows(Pool!Now, at) /\ store' = Append(store, at)
<1> DEFINE at == Pool!Now
<1>1. at \in Pool!Versions
  <2>1. StoreIn(store)
    BY InvariantOfTheStore DEF PoolIn
  <2>2. store \in Seq(Pool!Versions) /\ Len(store) \in 1 .. Len(store)
    BY <2>1, StoreParts DEF StoreIn
  <2> QED BY <2>2, ElementOfSeq DEF Pool!Now
<1> HIDE DEF at
<1>2. at.fact[f] \in [status : Pool!Statuses, text : Texts \union {Blank},
                      source : Pool!Sources \union {"none"}, replaces : Facts \union {"none"}]
  BY <1>1 DEF Pool!Versions
<1>3. ASSUME NEW text \in Texts, Pool!OtherEdits(f, text)
      PROVE  \E on : Follows(at, on) /\ store' = Append(store, on)
  <2> DEFINE fact == [at.fact[f] EXCEPT !.text = text]
  <2>1. /\ fact \in [status : Pool!Statuses, text : Texts \union {Blank},
                      source : Pool!Sources \union {"none"}, replaces : Facts \union {"none"}]
        /\ fact.status = at.fact[f].status
    BY <1>2
  <2>2. at.fact[f].status = "pending" /\ store' = Append(store, [at EXCEPT !.fact[f] = fact])
    BY <1>3 DEF Pool!OtherEdits, Pool!OtherMutates, at
  <2> HIDE DEF fact
  <2>3. Pool!Rank(at.fact[f].status) <= Pool!Rank(fact.status)
    BY <2>1 DEF Pool!Rank
  <2> QED BY <1>1, <2>1, <2>2, <2>3, FactFollows
<1>4. ASSUME Pool!OtherConfirms(f)
      PROVE  \E on : Follows(at, on) /\ store' = Append(store, on)
  <2>1. /\ at.fact[f].status = "pending"
        /\ store' = Append(store, [at EXCEPT !.fact[f] = [at.fact[f] EXCEPT !.status = "canonical"]])
    BY <1>4 DEF Pool!OtherConfirms, Pool!OtherMutates, at
  <2>2. "canonical" \in Pool!Statuses /\ Pool!Rank(at.fact[f].status) <= Pool!Rank("canonical")
    BY <2>1 DEF Pool!Rank, Pool!Statuses
  <2> QED BY <1>1, <2>1, <2>2, StatusFollows
<1>5. ASSUME Pool!OtherDeletes(f)
      PROVE  \E on : Follows(at, on) /\ store' = Append(store, on)
  <2>1. /\ at.fact[f].status \in {"pending", "canonical"}
        /\ store' = Append(store, [at EXCEPT !.fact[f] = [at.fact[f] EXCEPT !.status = "deleted"]])
    BY <1>5 DEF Pool!OtherDeletes, Pool!OtherMutates, at
  <2>2. "deleted" \in Pool!Statuses /\ Pool!Rank(at.fact[f].status) <= Pool!Rank("deleted")
    BY <2>1 DEF Pool!Rank, Pool!Statuses
  <2> QED BY <1>1, <2>1, <2>2, StatusFollows
<1> QED BY <1>3, <1>4, <1>5 DEF at

LEMMA OthersKeep ==
  ASSUME Pool!PoolInvariant, NEW f \in Facts,
         (\E text \in Texts : Pool!OtherEdits(f, text)) \/ Pool!OtherConfirms(f) \/ Pool!OtherDeletes(f)
  PROVE  Pool!PoolInvariant'
<1>1. \A q \in requests : RequestIn(store, q)
  BY InvariantOfTheStore DEF PoolIn
<1>2. UNCHANGED <<requests, reads, fetching, address, visited, creating, correcting, factForm, asking, choice>>
  BY DEF Pool!OtherEdits, Pool!OtherConfirms, Pool!OtherDeletes, Pool!OtherMutates, Pool!screen
<1> QED BY <1>1, <1>2, OtherFollows, MutationKeeps

-----------------------------------------------------------------------------
(* The facts, for good *)

LEMMA InitPool == Pool!Init => Pool!PoolInvariant
<1> SUFFICES ASSUME Pool!Init
             PROVE  Pool!PoolInvariant
  OBVIOUS
<1> DEFINE text == CHOOSE t \in Texts : TRUE
           rows == [f \in Facts |-> [status |-> CASE f \in Promoted -> "canonical"
                                                  [] f \in Waiting -> "pending"
                                                  [] OTHER -> "none",
                                     text |-> text, source |-> "development", replaces |-> "none"]]
           first == [fact |-> rows, attached |-> {}]
<1>1. text \in Texts
  BY FactsConstants
<1>2. store = <<first>>
  BY DEF Pool!Init
<1> HIDE DEF text
<1>3. rows \in [Facts -> [status : Pool!Statuses, text : Texts \union {Blank},
                          source : Pool!Sources \union {"none"}, replaces : Facts \union {"none"}]]
  BY <1>1 DEF Pool!Statuses, Pool!Sources
<1> HIDE DEF rows
<1>4. first \in Pool!Versions
  BY <1>3 DEF Pool!Versions
<1> HIDE DEF first
<1>5. StoreIn(store)
  <2>1. store \in Seq(Pool!Versions) /\ Len(store) = 1 /\ store # <<>>
    BY <1>2, <1>4
  <2>2. \A m, n \in 1 .. Len(store) : m = n
    BY <2>1
  <2>3. \A m \in 1 .. Len(store) : \A f \in Facts :
          Pool!Rank(store[m].fact[f].status) <= Pool!Rank(store[m].fact[f].status)
    BY DEF Pool!Rank
  <2> QED BY <2>1, <2>2, <2>3 DEF StoreIn
<1>6. ReadsIn(store, reads)
  BY DEF Pool!Init, ReadsIn, ReadIn
<1>7. ScreenIn(store, reads, address, creating, correcting, factForm, asking, choice)
  <2>1. /\ factForm = [of |-> "none", text |-> Blank, source |-> "none"] /\ asking = "none"
        /\ creating = FALSE /\ correcting = FALSE /\ choice = Pool!NoChoice
    BY DEF Pool!Init, Pool!NoForm
  <2>2. factForm \in Pool!Forms /\ factForm.of = "none"
    BY <2>1 DEF Pool!Forms
  <2> QED BY <2>1, <2>2, NoChoiceIsAChoice DEF ScreenIn, FormIn
<1>8. /\ address \in Pool!Pages /\ visited \subseteq Pool!Pages /\ requests = {}
      /\ DOMAIN fetching = Pool!Views /\ fetching["pool"] \in {Pool!NoRead, Pool!Asked}
  BY DEF Pool!Init, Pool!Pages, Pool!Views
<1> QED BY <1>5, <1>6, <1>7, <1>8, InvariantOfTheStore DEF PoolIn

LEMMA SamePoolKeeps ==
  ASSUME Pool!PoolInvariant, UNCHANGED facts
  PROVE  Pool!PoolInvariant'
BY InvariantOfTheStore, InvariantOfTheNextStore DEF facts

LEMMA NextKeepsPool ==
  ASSUME Pool!PoolInvariant, Pool!Next
  PROVE  Pool!PoolInvariant'
<1>1. CASE Pool!Reader
  BY <1>1, VisitsKeep, FormsKeep, TypesKeep, QuestionsKeep, ChoicesKeep, CommandsKeep DEF Pool!Reader
<1>2. CASE Pool!Machine
  BY <1>2, ServerKeeps, AcceptedKeeps, ReadsKeep DEF Pool!Machine
<1>3. CASE Pool!Surroundings
  BY <1>3, ServerKeeps, ReadsKeep, OthersKeep DEF Pool!Surroundings
<1> QED BY <1>1, <1>2, <1>3 DEF Pool!Next

\* Only the server and another tab write, one version more at a time.
LEMMA NextFollows ==
  ASSUME Pool!PoolInvariant, Pool!Next
  PROVE  \/ UNCHANGED store
         \/ \E at : Follows(Pool!Now, at) /\ store' = Append(store, at)
<1>1. CASE Pool!Reader
  BY <1>1 DEF Pool!Reader, Pool!OpenFact, Pool!BackToPool, Pool!Leave, Pool!EnterPool, Pool!History,
     Pool!AskNew, Pool!AskForRequirement, Pool!AskCorrection, Pool!CloseForm, Pool!TypeText,
     Pool!TypeSource, Pool!Types, Pool!AskPromotion, Pool!OpenMenu, Pool!Asks, Pool!ChooseDeletion,
     Pool!Cancel, Pool!ChooseProfile, Pool!ChooseSection, Pool!Accept, Pool!ChooseSource,
     Pool!TogglePending, Pool!ClearFilters, Pool!Filters, Pool!Create, Pool!Promote, Pool!Delete,
     Pool!Attach, Pool!Sends, Pool!Still
<1>2. CASE Pool!Machine
  BY <1>2, EndsIsSound DEF Pool!Machine, Pool!Begins, Pool!Accepted, Pool!Refused, Pool!FactsRead,
     Pool!PoolArrives, Pool!FactArrives, Pool!Arrives
<1>3. CASE Pool!Surroundings
  BY <1>3, OtherFollows DEF Pool!Surroundings, Pool!Lost, Pool!Focus
<1> QED BY <1>1, <1>2, <1>3 DEF Pool!Next

\* What was read, drawn, asked and sent on the facts' page fits the versions of the store
\* (FactsPage, FactManagementDetail, lifecycle.py).
THEOREM FactsAreSound == Pool!Spec => []PoolInvariant
<1>1. Pool!PoolInvariant /\ [Pool!Next]_(Pool!vars) => Pool!PoolInvariant'
  BY NextKeepsPool, SamePoolKeeps DEF Pool!vars, Pool!screen, facts
<1> QED BY <1>1, InitPool, PTL DEF Pool!Spec, PoolInvariant

\* A correction is sent from the form of the very fact it replaces, and that fact is canonical
\* or deleted since (FactManagementDetail is keyed by the fact).
THEOREM CorrectionsReplaceWhatTheyShowed == Pool!Spec => []CorrectionIsOfItsFact
<1>1. PoolInvariant => CorrectionIsOfItsFact
  BY DEF PoolInvariant, Pool!PoolInvariant, CorrectionIsOfItsFact
<1> QED BY <1>1, FactsAreSound, PTL

\* A settled fact keeps its words and never goes back, however the commands raced (`_commit`).
THEOREM SettledFactsStaySettled == Pool!Spec => FactsNeverGoBack
<1> DEFINE Goes == \A f \in Facts :
                     LET before == Pool!Now.fact[f]
                         after == store'[Len(store')].fact[f]
                     IN  /\ Pool!Rank(after.status) >= Pool!Rank(before.status)
                         /\ before.status \in {"canonical", "deleted"} => after.text = before.text
<1>1. ASSUME Pool!PoolInvariant, Pool!Next
      PROVE  UNCHANGED store \/ Goes
  <2>1. CASE UNCHANGED store
    BY <2>1
  <2>2. ASSUME NEW at, Follows(Pool!Now, at), store' = Append(store, at)
        PROVE  Goes
    <3>1. StoreIn(store)
      BY <1>1, InvariantOfTheStore DEF PoolIn
    <3>2. store'[Len(store')] = at
      BY <2>2, <3>1, AppendGoesOn DEF Follows, Pool!Now
    <3>3. \A f \in Facts : Pool!Rank(Pool!Now.fact[f].status) \in Nat /\ Pool!Rank(at.fact[f].status) \in Nat
      BY DEF Pool!Rank
    <3> QED BY <2>2, <3>2, <3>3 DEF Follows
  <2> QED BY <1>1, <2>1, <2>2, NextFollows
<1>2. Pool!PoolInvariant /\ [Pool!Next]_(Pool!vars) => [Goes]_store
  <2>1. UNCHANGED Pool!vars => UNCHANGED store
    BY DEF Pool!vars
  <2> HIDE DEF Goes
  <2> QED BY <1>1, <2>1
<1>3. FactsNeverGoBack <=> [][Goes]_store
  BY DEF FactsNeverGoBack, Pool!FactsNeverGoBack
<1> HIDE DEF Goes
<1>4. Pool!Spec => []Pool!PoolInvariant
  BY FactsAreSound, PTL DEF PoolInvariant
<1> QED BY <1>2, <1>3, <1>4, PTL DEF Pool!Spec
=============================================================================
