--------------------------- MODULE DraftAutosave ---------------------------
(***************************************************************************)
(* The document editor of the browser: the buffer of unsaved changes, the  *)
(* one PATCH that carries them, the cached read of the document, the       *)
(* undo history over it, and the server document they all meet at.         *)
(*                                                                         *)
(* A document is the ordered lines of one section, and a text the set of   *)
(* keystrokes it holds, so that "is this text lost" can be asked of every  *)
(* keystroke.  The document hash is a function of the content, so the      *)
(* token of a save is the content it was computed over.                    *)
(***************************************************************************)
EXTENDS Naturals, Sequences, FiniteSets, SequencesExt

CONSTANTS
    Lines,          \* ids of the lines the document starts with
    NewLines,       \* ids the server may mint for added lines
    HistoryLimit,   \* HISTORY_LIMIT
    Budget          \* how often the user and the surroundings may do each thing

UserActs == {"type", "add", "remove", "move", "undo"}
Faults == {"foreign", "refresh", "fail", "lostAnswer", "reload"}
Acts == UserActs \union Faults \union {"redo", "user", "faults"}

ASSUME EditorConstants ==
    /\ IsFiniteSet(Lines) /\ IsFiniteSet(NewLines) /\ Lines \cap NewLines = {}
    /\ HistoryLimit \in Nat \ {0}
    /\ Budget \in [Acts -> Nat]

VARIABLES
    \* the server
    doc,        \* the lines of the stored document, in order
    minted,     \* ids the server has given out
    \* the page: query cache and history
    read,       \* the document as last read; its hash is the etag of the read
    fetch,      \* the read under way
    outline,    \* the lines the editor shows
    past, future,
    staged,     \* the line whose removal may still be taken back, at most one
    \* the autosave
    buffer, token, flight, timer, halted, status, reapplying,
    mirrored,   \* the copy in sessionStorage
    left,       \* what remains of the budget
    \* what the user was promised, read by no action
    typed, landed, withdrawn, overtyped, crashed, shown

server == <<doc, minted>>
page == <<read, fetch, outline, past, future, staged>>
queue == <<buffer, token, flight, timer, halted, status, reapplying, mirrored>>
promises == <<typed, landed, withdrawn, overtyped, crashed, shown>>
vars == <<server, page, queue, left, promises>>

(***************************************************************************)
(* Documents, patches and what the server makes of one.                    *)
(***************************************************************************)
Ids == Lines \union NewLines
\* keystrokes: the user's and the other tab's
Own == {"own"} \X (1 .. Budget["type"] + Budget["add"])
Foreign == {"foreign"} \X (1 .. Budget["foreign"])
Texts == SUBSET (Own \union Foreign)
IsDocument(d) == /\ d \in Seq([id : Ids, text : Texts])
                 /\ \A i, j \in DOMAIN d : d[i].id = d[j].id => i = j

IdsOf(d) == {d[i].id : i \in DOMAIN d}
OrderOf(d) == [i \in DOMAIN d |-> d[i].id]
KeysOf(d) == UNION {d[i].text : i \in DOMAIN d}
TextOf(d, c) == d[CHOOSE i \in DOMAIN d : d[i].id = c].text

NoPatch == [edits |-> <<>>, removals |-> {}, additions |-> <<>>, orders |-> {}]
\* one section, so `claim_orders` is empty or holds its one order
IsPatch(p) ==
    /\ DOMAIN p.edits \subseteq Ids /\ \A c \in DOMAIN p.edits : p.edits[c] \in Texts
    /\ p.removals \subseteq Ids
    /\ p.additions \in Seq(Texts)
    /\ Cardinality(p.orders) <= 1 /\ \A o \in p.orders : o \in Seq(Ids)

With(f, c, v) == [x \in DOMAIN f \union {c} |-> IF x = c THEN v ELSE f[x]]
Without(f, c) == [x \in DOMAIN f \ {c} |-> f[x]]
PatchKeys(p) == UNION ({p.edits[c] : c \in DOMAIN p.edits} \union ToSet(p.additions))
BufferedText(p, c) == IF c \in DOMAIN p.edits THEN p.edits[c] ELSE {}

Edited(d, p) ==
    [i \in DOMAIN d |-> IF d[i].id \in DOMAIN p.edits
                        THEN [d[i] EXCEPT !.text = p.edits[d[i].id]] ELSE d[i]]
\* the elements of s at some of its places, in their order
Kept(s, places) ==
    LET kept[i \in 0 .. Len(s)] ==
            IF i = 0 THEN <<>>
            ELSE IF i \in places THEN Append(kept[i - 1], s[i]) ELSE kept[i - 1]
    IN  kept[Len(s)]
Remaining(d, p) == Kept(d, {i \in DOMAIN d : d[i].id \notin p.removals})
\* ids for added lines are drawn in one fixed order: they are fresh, and nothing else
FreshIds(n) == SubSeq(SetToSeq(NewLines \ minted), 1, n)
Extended(d, p) ==
    d \o [i \in DOMAIN p.additions |->
              [id |-> FreshIds(Len(p.additions))[i], text |-> p.additions[i]]]
Reordered(d, p) ==
    IF p.orders = {} THEN d
    ELSE LET order == CHOOSE o \in p.orders : TRUE
         IN  [i \in DOMAIN order |-> [id |-> order[i], text |-> TextOf(d, order[i])]]
Patched(d, p) == Reordered(Extended(Remaining(Edited(d, p), p), p), p)

\* the request schema: 422 before anything is read
WellFormed(p) == DOMAIN p.edits \cap p.removals = {}
\* the service, on the lines the patch itself leaves: 404 and 412
Applicable(d, p) ==
    /\ DOMAIN p.edits \subseteq IdsOf(d)
    /\ p.removals \subseteq IdsOf(d)
    /\ \A o \in p.orders :
          LET ids == IdsOf(Extended(Remaining(d, p), p))
          IN  IsInjective(o) /\ ToSet(o) = ids
\* Mutant: the hash the client names is not compared.
AnswerUnchecked(d, base, p) == IF Applicable(d, p) THEN "saved" ELSE "refused"
Answer(d, base, p) ==
    CASE ~WellFormed(p) -> "refused"
      [] WellFormed(p) /\ base # d -> "conflict"
      [] WellFormed(p) /\ base = d /\ ~Applicable(d, p) -> "refused"
      [] OTHER -> "saved"

(***************************************************************************)
(* Reads of the document through the query cache.                          *)
(***************************************************************************)
NoFetch == [stage |-> "none"]
Asked == [stage |-> "asked"]      \* the request has not reached the server
\* invalidateQueries cancels a read under way and starts another
Invalidated == Asked
\* fetchQuery joins a read under way
Joined == IF fetch = NoFetch THEN Asked ELSE fetch

NoFlight == [stage |-> "none"]

Outstanding == flight.stage \in {"sent", "answered"}
InFlight == IF Outstanding THEN PatchKeys(flight.patch) ELSE {}

Kind(act) == IF act \in UserActs THEN "user" ELSE "faults"
Spend(act) ==
    /\ left[act] > 0 /\ left[Kind(act)] > 0
    /\ left' = [left EXCEPT ![act] = @ - 1, ![Kind(act)] = @ - 1]
Quiet == status' = IF halted THEN "conflict" ELSE "idle"

Init ==
    \E start \in SetToSeqs(Lines) :
        LET lines == [i \in DOMAIN start |-> [id |-> start[i], text |-> {}]]
        IN  /\ start = SetToSeq(Lines)
            /\ doc = lines /\ minted = {}
            /\ read = lines /\ fetch = NoFetch /\ outline = lines
            /\ past = <<>> /\ future = <<>> /\ staged = {}
            /\ buffer = NoPatch /\ token = lines /\ flight = NoFlight
            /\ timer = FALSE /\ halted = FALSE /\ status = "idle"
            /\ reapplying = 0 /\ mirrored = NoPatch
            /\ left = Budget
            /\ typed = {} /\ landed = {} /\ withdrawn = {} /\ overtyped = {}
            /\ crashed = {} /\ shown = {}

(***************************************************************************)
(* Queueing a change: the buffer, the mirror, the status and the debounce. *)
(***************************************************************************)
Queued(p) ==
    /\ buffer' = p
    /\ mirrored' = p
    /\ Quiet
    /\ timer' = TRUE
    /\ UNCHANGED <<token, flight, halted, reapplying>>

EditIn(p, c, text) == [p EXCEPT !.edits = With(@, c, text), !.removals = @ \ {c}]
OrdersWithout(orders, c) == {Kept(o, {i \in DOMAIN o : o[i] # c}) : o \in orders}
RemovalIn(p, c) ==
    [p EXCEPT !.edits = Without(@, c), !.removals = @ \union {c},
              !.orders = OrdersWithout(@, c)]
AdditionIn(p, text) == [p EXCEPT !.additions = Append(@, text)]
OrderIn(p, order) == [p EXCEPT !.orders = {order}]

Trimmed(entries) == IF Len(entries) > HistoryLimit THEN Tail(entries) ELSE entries

\* a new entry, or the last one extended while typing goes on within the group window
Recorded(next, claim, grouped) ==
    /\ outline' = next
    /\ past' = IF grouped
               THEN Front(past) \o <<[Last(past) EXCEPT !.after = next]>>
               ELSE Trimmed(Append(past, [before |-> outline, after |-> next, claim |-> claim]))
    /\ future' = <<>>
    /\ UNCHANGED <<read, fetch, staged>>

\* A 409 is answered in a dialog that takes every press but its own; the shortcuts of undo and
\* redo are listened for on the window.
DialogOpen == status = "conflict"

NextKey == <<"own", Cardinality(typed) + 1>>

\* DraftClaimList and its rows: a line whose removal is staged has no row, and while one is
\* staged none is moved
Visible == IdsOf(outline) \ staged
CanMoveDown(i) == staged = {} /\ i \in DOMAIN outline /\ i + 1 \in DOMAIN outline

\* One keystroke in a line: the text shown gains it, and the whole text is queued.
TypeIn(c) ==
    /\ Spend("type")
    /\ c \in Visible /\ ~DialogOpen
    /\ LET text == TextOf(outline, c) \union {NextKey}
           next == Edited(outline, [NoPatch EXCEPT !.edits = With(@, c, text)])
           superseded == BufferedText(buffer, c)
                         \union (IF Outstanding THEN BufferedText(flight.patch, c) ELSE {})
       IN  /\ \E grouped \in BOOLEAN :
                 /\ grouped => past # <<>> /\ Last(past).claim = {c}
                 /\ Recorded(next, {c}, grouped)
           /\ Queued(EditIn(buffer, c, text))
           /\ overtyped' = overtyped \union (superseded \ text)
           /\ typed' = typed \union {NextKey}
    /\ UNCHANGED <<server, landed, withdrawn, crashed, shown>>

\* A staged removal hides the line for a while before the command is sent; a second one
\* sends the first at once.
Staging(c) ==
    /\ staged' = {c}
    /\ IF staged = {} THEN UNCHANGED <<queue, withdrawn>>
       ELSE LET first == CHOOSE x \in staged : TRUE
            IN  /\ Queued(RemovalIn(buffer, first))
                /\ withdrawn' = withdrawn \union BufferedText(buffer, first)
\* the row asks before it removes
ConfirmRemoval(c) ==
    /\ Spend("remove") /\ c \in Visible /\ ~DialogOpen /\ Staging(c)
    /\ UNCHANGED <<server, read, fetch, outline, past, future,
                   typed, landed, overtyped, crashed, shown>>

CancelRemoval ==
    /\ ~DialogOpen /\ staged # {} /\ staged' = {}
    /\ UNCHANGED <<server, read, fetch, outline, past, future, queue, left, promises>>

RemovalLapses ==
    /\ staged # {} /\ staged' = {}
    /\ \E c \in staged : /\ Queued(RemovalIn(buffer, c))
                         /\ withdrawn' = withdrawn \union BufferedText(buffer, c)
    /\ UNCHANGED <<server, read, fetch, outline, past, future, left,
                   typed, landed, overtyped, crashed, shown>>

AddLine ==
    /\ Spend("add") /\ ~DialogOpen
    /\ Queued(AdditionIn(buffer, {NextKey}))
    /\ typed' = typed \union {NextKey}
    /\ UNCHANGED <<server, page, landed, withdrawn, overtyped, crashed, shown>>

MoveLine(i) ==
    /\ Spend("move") /\ ~DialogOpen /\ CanMoveDown(i)
    /\ LET next == [outline EXCEPT ![i] = outline[i + 1], ![i + 1] = outline[i]]
       IN  /\ Recorded(next, {}, FALSE)
           /\ Queued(OrderIn(buffer, OrderOf(next)))
    /\ UNCHANGED <<server, promises>>

\* Undo and redo queue what differs between the lines shown and the entry's lines.
Differing(target) ==
    {c \in IdsOf(target) \cap IdsOf(outline) : TextOf(target, c) # TextOf(outline, c)}
Restoring(p, target) ==
    LET texts == [p EXCEPT
                    !.edits = [c \in DOMAIN @ \union Differing(target) |->
                                  IF c \in Differing(target) THEN TextOf(target, c) ELSE @[c]],
                    !.removals = @ \ Differing(target)]
    IN  IF OrderOf(target) = OrderOf(outline) THEN texts ELSE OrderIn(texts, OrderOf(target))

Step(target, newPast, newFuture) ==
    /\ outline' = target /\ past' = newPast /\ future' = newFuture
    /\ UNCHANGED staged
    /\ IF Restoring(buffer, target) = buffer /\ OrderOf(target) = OrderOf(outline)
             /\ Differing(target) = {}
       THEN UNCHANGED queue
       ELSE Queued(Restoring(buffer, target))
    /\ withdrawn' = withdrawn \union
          UNION {BufferedText(buffer, c) \ TextOf(target, c) : c \in Differing(target)}
    /\ UNCHANGED <<server, read, fetch, typed, landed, overtyped, crashed, shown>>
CanUndo == past # <<>>
Undo == /\ CanUndo /\ Spend("undo")
        /\ Step(Last(past).before, Front(past), <<Last(past)>> \o future)
\* takes an undo back, so it counts by itself
Redo == /\ future # <<>> /\ left["redo"] > 0 /\ left' = [left EXCEPT !["redo"] = @ - 1]
        /\ Step(Head(future).after, Trimmed(Append(past, Head(future))), Tail(future))

(***************************************************************************)
(* send(): one request at a time, and nothing while a conflict is open.    *)
(***************************************************************************)
\* What a call of send leaves behind, given the status, buffer and token it finds.
SentAfter(before, p, base) ==
    IF p = NoPatch
    THEN buffer' = p /\ flight' = NoFlight /\ status' = before
    ELSE /\ buffer' = NoPatch
         /\ flight' = [stage |-> "sent", patch |-> p, base |-> base]
         /\ status' = "saving"

Sent(p, base) == SentAfter(status, p, base)

\* The debounce runs out, or focus leaves the line (flush).
Fire ==
    /\ timer
    /\ timer' = FALSE
    /\ IF flight.stage # "none" \/ halted THEN UNCHANGED <<buffer, flight, status>>
       ELSE Sent(buffer, token)
    /\ UNCHANGED <<server, page, token, halted, reapplying, mirrored, left, promises>>

\* flush and settle() send at once what no timer waits for: after a failure, say.
Flush ==
    /\ buffer # NoPatch /\ ~timer
    /\ flight.stage = "none" /\ ~halted
    /\ Sent(buffer, token)
    /\ UNCHANGED <<server, page, token, timer, halted, reapplying, mirrored, left, promises>>

\* Nothing that was queued is left to save, as the editor knows it: it takes what was last
\* published for the truth.
Unsent == buffer # NoPatch
Dirty == status \in {"saving", "conflict"} \/ Unsent

\* What settle() and the leaving of the screen rest on: no halt, no request, no buffer.
Clean == ~halted /\ flight.stage = "none" /\ buffer = NoPatch

\* The server answers the PATCH, in one transaction.
ServerAnswers ==
    /\ flight.stage = "sent"
    /\ Len(flight.patch.additions) <= Cardinality(NewLines \ minted)  \* the bound on new ids
    /\ LET answer == Answer(doc, flight.base, flight.patch)
           p == flight.patch
       IN  /\ flight' = [stage |-> "answered", patch |-> p, base |-> flight.base,
                         answer |-> answer,
                         etag |-> IF answer = "saved" THEN Patched(doc, p) ELSE doc]
           /\ IF answer = "saved"
              THEN /\ doc' = Patched(doc, p)
                   /\ minted' = minted \union ToSet(FreshIds(Len(p.additions)))
                   /\ landed' = landed \union (PatchKeys(p) \cap Own)
              ELSE UNCHANGED <<doc, minted, landed>>
    /\ UNCHANGED <<page, buffer, token, timer, halted, status, reapplying, mirrored,
                   left, typed, withdrawn, overtyped, crashed, shown>>

\* The request never arrives, or its answer does not: the page sees the same error.
RequestLost ==
    /\ flight.stage = "sent" /\ Spend("fail")
    /\ flight' = [stage |-> "answered", patch |-> flight.patch, base |-> flight.base,
                  answer |-> "network", etag |-> flight.base]
    /\ UNCHANGED <<server, page, buffer, token, timer, halted, status, reapplying, mirrored,
                   promises>>
AnswerLost ==
    /\ flight.stage = "answered" /\ flight.answer = "saved" /\ Spend("lostAnswer")
    /\ flight' = [flight EXCEPT !.answer = "network"]
    /\ UNCHANGED <<server, page, buffer, token, timer, halted, status, reapplying, mirrored,
                   promises>>

\* the ETag of the answer
ReturnedToken == flight.etag
\* Mutant: what was typed meanwhile waits for the next keystroke.
FollowUpLater == buffer' = buffer /\ flight' = NoFlight /\ status' = "saved"
\* what was queued during the request leaves with its answer
FollowUp == SentAfter("saved", buffer, ReturnedToken)

\* Success: the token moves, the read is invalidated, and what was queued during the
\* request leaves in the same promise.
SaveSucceeds ==
    /\ flight.stage = "answered" /\ flight.answer = "saved"
    /\ token' = ReturnedToken
    /\ fetch' = Invalidated
    /\ mirrored' = buffer
    /\ FollowUp
    /\ UNCHANGED <<server, read, outline, past, future, staged, timer, halted, reapplying,
                   left, promises>>

\* Mutant: the texts of the rejected patch are not put back.
RestoredUnder(p, old) ==
    [edits |-> p.edits, removals |-> p.removals \union old.removals,
     additions |-> old.additions \o p.additions, orders |-> p.orders]
\* Put a rejected patch back under what was queued since.
Restored(p, old) ==
    [edits |-> [c \in DOMAIN p.edits \union DOMAIN old.edits |->
                    IF c \in DOMAIN p.edits THEN p.edits[c] ELSE old.edits[c]],
     removals |-> p.removals \union old.removals,
     additions |-> old.additions \o p.additions,
     orders |-> IF p.orders = {} THEN old.orders ELSE p.orders]

Rejected ==
    /\ buffer' = Restored(buffer, flight.patch)
    /\ mirrored' = Restored(buffer, flight.patch)
    /\ withdrawn' = withdrawn \union UNION
          {flight.patch.edits[c] : c \in DOMAIN flight.patch.edits \cap DOMAIN buffer.edits}

SaveFails ==
    /\ flight.stage = "answered" /\ flight.answer \in {"refused", "network"}
    /\ Rejected
    /\ flight' = NoFlight /\ status' = "failed"
    /\ UNCHANGED <<server, page, token, timer, halted, reapplying, left,
                   typed, landed, overtyped, crashed, shown>>

\* 409: the queue halts, and the document is read for the comparison.
SaveConflicts ==
    /\ flight.stage = "answered" /\ flight.answer = "conflict"
    /\ Rejected
    /\ halted' = TRUE
    /\ fetch' = Joined
    /\ flight' = [stage |-> "comparing", patch |-> NoPatch]
    /\ UNCHANGED <<server, read, outline, past, future, staged, token, timer, status,
                   reapplying, left, typed, landed, overtyped, crashed, shown>>

(***************************************************************************)
(* Reading the document.                                                   *)
(***************************************************************************)
Refresh ==
    /\ Spend("refresh") /\ fetch = NoFetch
    /\ fetch' = Asked
    /\ UNCHANGED <<server, read, outline, past, future, staged, queue, promises>>

ServerReads ==
    /\ fetch = Asked
    /\ fetch' = [stage |-> "answered", lines |-> doc]
    /\ UNCHANGED <<server, read, outline, past, future, staged, queue, left, promises>>

\* Mutant: a page with a history keeps its lines.
AdoptedUnlessEdited(now) == IF now = read \/ past # <<>> THEN outline ELSE now
\* The history takes over the lines of a read that differs, and keeps its entries.
Adopted(now) == IF now = read THEN outline ELSE now

\* Each reapply publishes "idle" and calls send, which joins a request that is out.
Reapplied(now) ==
    CASE Outstanding -> status' = "idle" /\ UNCHANGED <<flight, buffer>>
      [] ~Outstanding /\ reapplying > 1 /\ buffer # NoPatch ->
            /\ buffer' = NoPatch /\ status' = "idle"
            /\ flight' = [stage |-> "sent", patch |-> buffer, base |-> now]
      [] OTHER -> SentAfter("idle", buffer, now)

\* A read that differs replaces the lines shown, and its etag the token; a conflict or a
\* reapply that waits for it goes on.
ReadArrives ==
    /\ fetch.stage = "answered"
    /\ LET now == fetch.lines
           waiting == flight.stage = "comparing"
       IN  /\ read' = now
           /\ fetch' = NoFetch
           /\ outline' = Adopted(now)
           /\ shown' = shown \union (KeysOf(now) \cap Foreign)
           /\ token' = IF now # read \/ waiting \/ reapplying # 0 THEN now ELSE token
           /\ halted' = (halted /\ reapplying = 0)
           /\ reapplying' = 0
           /\ IF reapplying # 0 THEN Reapplied(now)
              ELSE IF waiting THEN flight' = NoFlight /\ status' = "conflict" /\ UNCHANGED buffer
              ELSE UNCHANGED <<flight, status, buffer>>
    /\ UNCHANGED <<server, past, future, staged, timer, mirrored, left,
                   typed, landed, withdrawn, overtyped, crashed>>

ReadFails ==
    /\ fetch # NoFetch /\ Spend("fail")
    /\ fetch' = NoFetch
    /\ reapplying' = 0
    /\ status' = IF flight.stage = "comparing" \/ reapplying # 0 THEN "conflict" ELSE status
    /\ flight' = IF flight.stage = "comparing" THEN NoFlight ELSE flight
    /\ UNCHANGED <<server, read, outline, past, future, staged, buffer, token, timer,
                   halted, mirrored, promises>>

(***************************************************************************)
(* The conflict dialog: two answers, and no way round them.                *)
(***************************************************************************)
\* the answers of the dialog are offered again while the read of a reapply is awaited
MaxReapplying == 2

DiscardLocal ==
    /\ DialogOpen
    /\ buffer' = NoPatch /\ mirrored' = NoPatch
    /\ halted' = FALSE /\ status' = "idle"
    /\ outline' = read /\ past' = <<>> /\ future' = <<>> /\ UNCHANGED staged
    /\ withdrawn' = withdrawn \union PatchKeys(buffer)
    /\ UNCHANGED <<server, read, fetch, token, flight, timer, reapplying, left,
                   typed, landed, overtyped, crashed, shown>>

ReapplyLocal ==
    /\ DialogOpen /\ reapplying < MaxReapplying
    /\ reapplying' = reapplying + 1
    /\ fetch' = Joined
    /\ UNCHANGED <<server, read, outline, past, future, staged, buffer, token, flight, timer,
                   halted, status, mirrored, left, promises>>

(***************************************************************************)
(* The surroundings: another tab or an Operation writes the document, and  *)
(* the page is reloaded.                                                   *)
(***************************************************************************)
OtherWrites(c) ==
    /\ Spend("foreign")
    /\ c \in IdsOf(doc)
    /\ doc' = Edited(doc, [NoPatch EXCEPT !.edits =
                  With(@, c, TextOf(doc, c) \union {<<"foreign", left["foreign"]>>})])
    /\ UNCHANGED <<minted, page, queue, promises>>

\* The page is read again from nothing; the stored buffer is recovered and its save
\* scheduled.  A request under way is dropped with the page, whether or not it was applied.
Reload ==
    /\ Spend("reload")
    /\ read' = doc /\ outline' = doc /\ token' = doc
    /\ fetch' = NoFetch /\ past' = <<>> /\ future' = <<>> /\ staged' = {}
    /\ buffer' = mirrored
    /\ flight' = NoFlight /\ halted' = FALSE /\ status' = "idle" /\ reapplying' = 0
    /\ timer' = (mirrored # NoPatch)
    /\ crashed' = crashed \union (InFlight \ PatchKeys(mirrored))
    /\ shown' = shown \union (KeysOf(doc) \cap Foreign)
    /\ UNCHANGED <<server, mirrored, typed, landed, withdrawn, overtyped>>

(***************************************************************************)
(* The specification.  The user and the other tab are free; timers, the    *)
(* network and the server are fair.                                        *)
(***************************************************************************)
User == \/ \E c \in Ids : TypeIn(c) \/ ConfirmRemoval(c)
        \/ CancelRemoval
        \/ AddLine \/ (\E i \in DOMAIN outline : MoveLine(i)) \/ Undo \/ Redo
        \/ Flush \/ DiscardLocal \/ ReapplyLocal
Page == RemovalLapses \/ Fire \/ SaveSucceeds \/ SaveFails \/ SaveConflicts \/ ReadArrives
Server == ServerAnswers \/ ServerReads
Surroundings == \/ RequestLost \/ AnswerLost \/ ReadFails \/ Refresh \/ Reload
                \/ \E c \in Ids : OtherWrites(c)

Next == User \/ Page \/ Server \/ Surroundings
Spec == Init /\ [][Next]_vars
FairSpec == Spec /\ WF_vars(RemovalLapses) /\ WF_vars(Fire)
                 /\ WF_vars(SaveSucceeds \/ SaveFails \/ SaveConflicts)
                 /\ WF_vars(ReadArrives) /\ WF_vars(ServerAnswers) /\ WF_vars(ServerReads)

(***************************************************************************)
(* Properties.                                                             *)
(***************************************************************************)
IsFlight(f) ==
    \/ f = NoFlight
    \/ f = [stage |-> "comparing", patch |-> NoPatch]
    \/ f.stage = "sent" /\ IsPatch(f.patch) /\ IsDocument(f.base)
    \/ /\ f.stage = "answered" /\ IsPatch(f.patch) /\ IsDocument(f.base) /\ IsDocument(f.etag)
       /\ f.answer \in {"saved", "conflict", "refused", "network"}

\* Every variable holds a value of its kind.
TypeOK ==
    /\ IsDocument(doc) /\ minted \subseteq NewLines
    /\ IsDocument(read) /\ IsDocument(outline) /\ IsDocument(token)
    /\ fetch \in {NoFetch, Asked} \/ IsDocument(fetch.lines)
    /\ Len(past) <= HistoryLimit /\ staged \subseteq Ids /\ Cardinality(staged) <= 1
    /\ IsPatch(buffer) /\ IsPatch(mirrored) /\ IsFlight(flight)
    /\ timer \in BOOLEAN /\ halted \in BOOLEAN /\ reapplying \in 0 .. MaxReapplying
    /\ status \in {"idle", "saving", "saved", "failed", "conflict"}
    /\ left \in [Acts -> Nat]
    /\ typed \subseteq Own /\ landed \subseteq typed /\ withdrawn \subseteq Own \union Foreign
    /\ overtyped \subseteq Own \union Foreign /\ crashed \subseteq Own \union Foreign
    /\ shown \subseteq Foreign

\* What the user wrote is saved, waiting, on its way, or was taken back by the user: the
\* queue itself never drops a keystroke, whatever the order of edits, answers, failures
\* and conflicts.
NothingDropped ==
    typed \subseteq landed \union PatchKeys(buffer) \union InFlight
                    \union withdrawn \union overtyped \union crashed

\* Another tab's text is overwritten only by a page that has shown it: a save goes
\* through only over a document the reader has had in front of them.
NoBlindOverwrite ==
    [][(flight.stage = "sent" /\ flight'.stage = "answered") =>
          KeysOf(doc) \cap Foreign \subseteq shown]_doc

Spent(act) == left[act] < Budget[act]
\* The page never conflicts with itself: within one visit of the screen a 409 means that
\* someone else wrote, or that an answer was lost and the page does not know its own save.
ConflictHasCause == halted => Spent("foreign") \/ Spent("lostAnswer") \/ Spent("reload")

\* With nothing unsaved and no read under way, the lines shown are in the order last read, and
\* every line the document started with shows the text last read: undo, redo, moves and reads
\* that land between them leave nothing on the screen that the page neither read nor sent.
\* (A line added during the visit may show a text that was never queued: a redo over an undo
\* past its appearance restores its text without an edit, `apply` of useDraftHistory.)
ShowsWhatIsSaved ==
    Clean /\ fetch = NoFetch /\ ~Spent("fail") =>
        /\ OrderOf(outline) = OrderOf(read)
        /\ \A i \in DOMAIN read : read[i].id \in Lines => outline[i] = read[i]

\* What the editor calls dirty is everything the server has not accepted: a buffered edit, a
\* save in flight, a halted queue (useDraftEditing).  The save block says "saved" from it and
\* the regeneration is offered from it.
DirtyTellsUnsaved == Unsent \/ Outstanding \/ halted => Dirty

\* What is queued is answered: it leaves the buffer, or the editor says that it failed or
\* conflicts.  Nothing waits behind a request that has ended or a timer that has run out.
EveryChangeAnswered ==
    buffer # NoPatch ~> (buffer = NoPatch \/ status \in {"failed", "conflict"})

(***************************************************************************)
(* What the proofs add, to make NothingDropped hold step by step.          *)
(***************************************************************************)
HasPatchShape(p) ==
    /\ p = [edits |-> p.edits, removals |-> p.removals, additions |-> p.additions,
            orders |-> p.orders]
    /\ p.additions \in Seq(Texts)
\* The buffer is the stored copy, or what was in it has left in a request.
BufferIsMirrored ==
    /\ buffer \in {NoPatch, mirrored}
    /\ HasPatchShape(buffer) /\ HasPatchShape(mirrored)
\* A request carries a patch; once it was accepted, every keystroke in it is in the document.
FlightIsTracked ==
    /\ flight.stage \in {"none", "sent", "answered", "comparing"}
    /\ Outstanding => HasPatchShape(flight.patch)
    /\ flight.stage = "answered" =>
          /\ flight = [stage |-> "answered", patch |-> flight.patch, base |-> flight.base,
                       answer |-> flight.answer, etag |-> flight.etag]
          /\ flight.answer = "saved" => PatchKeys(flight.patch) \cap Own \subseteq landed
\* Every keystroke is one of those the budget has paid for.
KeystrokesCounted ==
    /\ left \in [Acts -> Nat]
    /\ typed \subseteq Own /\ IsFiniteSet(typed)
    /\ Cardinality(typed) + left["type"] + left["add"] <= Budget["type"] + Budget["add"]
QueueInvariant == NothingDropped /\ BufferIsMirrored /\ FlightIsTracked /\ KeystrokesCounted

(***************************************************************************)
(* And to make NoBlindOverwrite hold: of another tab's keystrokes, only    *)
(* those a read has shown are anywhere in the page, the version a save     *)
(* names and the copy that outlives the page included.                     *)
(***************************************************************************)
IsSequence(s) == s \in Seq({s[i] : i \in DOMAIN s})
HasLines(d) == /\ IsSequence(d)
               /\ \A i \in DOMAIN d : d[i] = [id |-> d[i].id, text |-> d[i].text]
WereSeen(keys, seen) == keys \cap Foreign \subseteq seen
IsOfTheSeen(d, seen) == HasLines(d) /\ WereSeen(KeysOf(d), seen)
EntryIsOfTheSeen(entry, seen) ==
    /\ entry = [before |-> entry.before, after |-> entry.after, claim |-> entry.claim]
    /\ IsOfTheSeen(entry.before, seen) /\ IsOfTheSeen(entry.after, seen)
HistoryIsOfTheSeen(entries, seen) ==
    IsSequence(entries) /\ \A i \in DOMAIN entries : EntryIsOfTheSeen(entries[i], seen)
PatchIsOfTheSeen(p, seen) ==
    WereSeen(PatchKeys(p), seen) /\ \A order \in p.orders : IsSequence(order)

DocumentsHaveLines ==
    HasLines(doc) /\ (fetch.stage = "answered" => HasLines(fetch.lines))
PageIsOfTheSeen ==
    /\ IsOfTheSeen(read, shown) /\ IsOfTheSeen(outline, shown)
    /\ HistoryIsOfTheSeen(past, shown) /\ HistoryIsOfTheSeen(future, shown)
SavesAreOfTheSeen ==
    /\ PatchIsOfTheSeen(buffer, shown) /\ PatchIsOfTheSeen(mirrored, shown)
    /\ WereSeen(KeysOf(token), shown)
    /\ Outstanding => PatchIsOfTheSeen(flight.patch, shown)
                      /\ WereSeen(KeysOf(flight.base), shown)
    /\ flight.stage = "answered" /\ flight.answer = "saved" =>
          WereSeen(KeysOf(flight.etag), shown)
SeenInvariant == DocumentsHaveLines /\ PageIsOfTheSeen /\ SavesAreOfTheSeen

(***************************************************************************)
(* And to make ShowsWhatIsSaved hold: which ids the page can name, and     *)
(* what waits for every difference between the screen and the last read.   *)
(***************************************************************************)
Distinct(d) == \A i, j \in DOMAIN d : d[i].id = d[j].id => i = j
Documents(entries) ==
    {entries[i].before : i \in DOMAIN entries} \union {entries[i].after : i \in DOMAIN entries}
\* the lines read, those shown, and those an undo or a redo can show again
Pages == {read, outline} \union Documents(past) \union Documents(future)
\* the ids the page can name in a request, or show
Known == staged \union mirrored.removals
         \union (IF Outstanding THEN flight.patch.removals ELSE {})
         \union UNION {IdsOf(d) : d \in Pages}
GivenOut == Lines \union minted
\* the next read, if it is on its way
Coming == IF fetch.stage = "answered" THEN {fetch.lines} ELSE {}

IdsAreGivenOut ==
    /\ \A d \in {doc} \union Coming \union Pages : Distinct(d) /\ IdsOf(d) \subseteq GivenOut
    /\ Known \subseteq GivenOut
\* A line the page knows of and the document has is in what was read, and a line the document
\* started with leaves what was read, the screen and the history only after the document.
LinesLeaveInOrder ==
    /\ \A d \in {read} \union Coming : (Known \union Lines) \cap IdsOf(doc) \subseteq IdsOf(d)
    /\ \A d \in Coming : Lines \cap IdsOf(d) \subseteq IdsOf(read)
    /\ \A d \in Pages : Lines \cap IdsOf(read) \subseteq IdsOf(d)
\* The budget only shrinks, and the keystrokes the other tab has left to make are nowhere yet.
Met == (shown \union UNION {KeysOf(d) : d \in {doc} \union Coming}) \cap Foreign
ForeignAreFresh ==
    /\ \A act \in Acts : left[act] <= Budget[act]
    /\ \A k \in Met : k[2] > left["foreign"]

Accepted == flight.stage = "answered" /\ flight.answer = "saved"
Changed(d, c) == c \notin IdsOf(d) \/ TextOf(d, c) # TextOf(read, c)
\* A line shown with another text than was read is about to go, or its text is in the buffer,
\* in the request, or the read to come differs in it.
TextIsOwed(c) ==
    \/ c \in buffer.removals
    \/ c \in DOMAIN buffer.edits /\ buffer.edits[c] = TextOf(outline, c)
    \/ /\ c \notin DOMAIN buffer.edits /\ Outstanding
       /\ \/ c \in flight.patch.removals
          \/ c \in DOMAIN flight.patch.edits /\ flight.patch.edits[c] = TextOf(outline, c)
    \/ /\ c \notin DOMAIN buffer.edits
       /\ Outstanding => c \notin DOMAIN flight.patch.edits
       /\ fetch # NoFetch /\ \A d \in {doc} \union Coming : Changed(d, c)
TextsAreOwed ==
    \A c \in Lines \cap IdsOf(read) : TextOf(outline, c) # TextOf(read, c) =>
        /\ TextIsOwed(c)
        /\ Accepted /\ c \notin DOMAIN buffer.edits \union buffer.removals => Changed(doc, c)
\* An order queued is that of the screen, or the patch names a line of the screen that it leaves
\* out.
OrderIsOf(order, p) ==
    \/ order = OrderOf(outline)
    \/ \E c \in IdsOf(outline) \ ToSet(order) : c \in DOMAIN p.edits \union p.removals
\* Another order than was read is in the buffer, in the request, or the read to come has another.
OrderIsOwed ==
    OrderOf(outline) # OrderOf(read) =>
        /\ \A order \in buffer.orders : OrderIsOf(order, buffer)
        /\ buffer.orders = {} =>
              /\ Outstanding => \A order \in flight.patch.orders : OrderIsOf(order, flight.patch)
              /\ (Outstanding => flight.patch.orders = {}) =>
                    /\ fetch # NoFetch
                    /\ \A d \in {doc} \union Coming : OrderOf(d) # OrderOf(read)
              /\ Accepted => OrderOf(doc) # OrderOf(read)
ScreenInvariant ==
    /\ IdsAreGivenOut /\ LinesLeaveInOrder /\ ForeignAreFresh
    /\ ~Spent("fail") => TextsAreOwed /\ OrderIsOwed

(***************************************************************************)
(* And to make ConflictHasCause hold: which version the next save names.   *)
(***************************************************************************)
Undisturbed == ~Spent("foreign") /\ ~Spent("lostAnswer") /\ ~Spent("reload")
NoConflictYet ==
    ~halted /\ status # "conflict" /\ reapplying = 0 /\ flight.stage # "comparing"
\* The version named is the document, and a read brings the document.  While a save was accepted
\* and the page does not know it, the answer carries the version, and a read may bring the last.
TokenIsCurrent ==
    IF Accepted THEN flight.etag = doc
    ELSE /\ token = doc /\ \A lines \in Coming : lines = doc
         /\ flight.stage = "sent" => flight.base = doc
         /\ flight.stage = "answered" => flight.answer # "conflict"
TokenInvariant == Undisturbed => NoConflictYet /\ TokenIsCurrent

\* What was last read is what is stored, once no read is under way and no save of the page is
\* accepted and not yet known to be.
ReadIsStored ==
    Undisturbed /\ ~Spent("fail") /\ fetch = NoFetch /\ ~Accepted => read = doc
\* What the reader sees when nothing waits, and nobody else wrote, is what is stored.
ShowsWhatIsStored ==
    Clean /\ fetch = NoFetch /\ Undisturbed /\ ~Spent("fail") =>
        /\ OrderOf(outline) = OrderOf(doc)
        /\ \A i \in DOMAIN doc : doc[i].id \in Lines => outline[i] = doc[i]
=============================================================================
