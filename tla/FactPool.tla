------------------------------ MODULE FactPool ------------------------------
(***************************************************************************)
(* The facts of one user, and the page that shows them: the pool with its  *)
(* filter, the page of one fact with its commands (promote, correct,       *)
(* delete, attach to a section of a Profile), and the form that adds a     *)
(* fact, which the requirements of an analysis open too.  Another tab      *)
(* edits, promotes and deletes the same facts.                             *)
(*                                                                         *)
(* A fact has a text, a source (one career track each) and a status.  The  *)
(* search text is one filter with the chip of a source; the attachment     *)
(* targets of a fact are read together with the fact.  Left out: dates,    *)
(* tags, styles, reads that fail, and the layout.                          *)
(***************************************************************************)
EXTENDS Naturals, Sequences, FiniteSets

CONSTANTS
    Texts,          \* what a fact may say
    Blank,          \* a field nothing was typed in
    Profiles,
    Sections,       \* the sections of every Profile
    Facts,          \* the facts there may be: the bound on creations
    Promoted,       \* those that are canonical at first
    Waiting,        \* those that are pending at first
    MaxVersions,    \* bound on the mutations of the store, plus one
    Budgets         \* how often each thing may be done: one of these

Sources == {"sales", "development", "common"}
Acts == {"reader", "back", "send", "trouble"}

VARIABLES
    store,          \* the facts and their attachments after each mutation, the last the present
    requests,       \* the commands under way
    cached, fetch,  \* the store's version each read last gave, and the reads under way
    page, visited,  \* the address, and those in the tab's history
    creating,       \* FactsPage and RequirementFactAction: the form of a new fact is open
    correcting,     \* FactManagementDetail: the form of a correction is open
    form,           \* what the open form holds, and what it belongs to
    asking,         \* the question or menu open on a fact
    choice,         \* where the fact would be attached
    filters,        \* of the pool
    budget,
    promised        \* history: what commands of this tab changed, and the version they made

screen == <<creating, correcting, form, asking, choice, filters>>
vars == <<store, requests, cached, fetch, page, visited, screen, budget, promised>>

Now == store[Len(store)]
Spend(act) == budget[act] > 0 /\ budget' = [budget EXCEPT ![act] = @ - 1]

(***************************************************************************)
(* What the page shows of what was read.  A read gives a version of the    *)
(* store; the pool is read in two transactions, the facts and then the     *)
(* status the log last recorded of each.                                   *)
(***************************************************************************)
NotRead == <<0, 0>>
Asked == <<0, 0>>
NoRead == <<>>
Views == {"pool"} \union Facts
Observed(p) == IF p = "elsewhere" THEN {} ELSE {"pool", p}

Listed(pool) == IF pool = NotRead THEN {}
                ELSE {f \in Facts : store[pool[1]].fact[f].status \in {"pending", "canonical"}}
OutOfSync(pool) ==
    {f \in Listed(pool) : store[pool[1]].fact[f].status # store[pool[2]].fact[f].status}
MutationsBlocked(seen) == OutOfSync(seen["pool"]) # {}

Loaded(seen, p) == p \in Facts /\ seen[p] # NotRead
Shown(seen, f) == store[seen[f][1]].fact[f]
Correctable(seen, p) ==
    Loaded(seen, p) /\ ~MutationsBlocked(seen) /\ Shown(seen, p).status = "canonical"
Promotable(seen, p) ==
    Loaded(seen, p) /\ ~MutationsBlocked(seen) /\ Shown(seen, p).status = "pending"
Deletable(seen, p) ==
    Loaded(seen, p) /\ ~MutationsBlocked(seen) /\ Shown(seen, p).status # "deleted"

DefaultSource(profile) == IF profile = "development" THEN "development" ELSE "sales"
CrossTrack(source, profile) == source \notin {"common", DefaultSource(profile)}

(***************************************************************************)
(* Which form is open, and what a form starts from.                        *)
(***************************************************************************)
NoForm == [of |-> "none", text |-> Blank, source |-> "none"]
FormShown(p, seen, new, correction) ==
    CASE p = "pool" /\ new /\ ~MutationsBlocked(seen) -> "new"
      [] p = "elsewhere" /\ new -> "requirement"
      [] correction /\ Correctable(seen, p) -> p
      [] OTHER -> "none"
EmptyForm(of) == [of |-> of, text |-> Blank, source |-> DefaultSource("none")]
ReplacementForm(seen, f) == [of |-> f, text |-> Shown(seen, f).text, source |-> Shown(seen, f).source]
Seed(of, seen) == CASE of = "none" -> NoForm
                    [] of \in Facts -> ReplacementForm(seen, of)
                    [] OTHER -> EmptyForm(of)

NoChoice == [profile |-> "development", section |-> CHOOSE s \in Sections : TRUE,
             accepted |-> FALSE, acceptedOf |-> <<>>]

\* Mutant: the page of a fact is not keyed by it, so an open correction keeps its form.
KeptForm(of) ==
    IF of = form.of \/ {of, form.of} \subseteq Facts THEN form ELSE NoForm
Kept(of) == IF of = form.of THEN form ELSE NoForm

\* the page once it is at `p` with `seen` read: a part that is no longer drawn
\* forgets its state, and one that is drawn anew starts afresh
Draws(p, seen, new, correction, question) ==
    LET correctionHeld == correction /\ Loaded(seen, p)
        newHeld == new /\ ((p = "elsewhere") = (page = "elsewhere"))
        of == FormShown(p, seen, newHeld, correctionHeld)
    IN  /\ creating' = newHeld
        /\ correcting' = correctionHeld
        /\ form' = IF Kept(of) # NoForm THEN Kept(of) ELSE Seed(of, seen)
        /\ asking' = IF p # page THEN "none"
                     ELSE IF question = "promotion" /\ Promotable(seen, p) THEN question
                     ELSE IF question \in {"menu", "deletion"} /\ Deletable(seen, p) THEN question
                     ELSE "none"
        /\ choice' = IF p = page /\ Correctable(seen, p) THEN choice ELSE NoChoice
        /\ filters' = IF (p = "elsewhere") = (page = "elsewhere") THEN filters
                      ELSE [pendingOnly |-> FALSE, source |-> "all"]

\* a control that is drawn no more does not watch the command it sent, and what
\* it would have closed is gone
Drawn(r, p, seen) ==
    CASE r.kind = "create" -> r.form.of = FormShown(p, seen, creating, correcting)
      [] r.kind = "confirm" -> p = page /\ r.fact = p /\ Promotable(seen, p)
      [] r.kind = "delete" -> p = page /\ r.fact = p /\ Deletable(seen, p)
      [] OTHER -> p = page /\ r.fact = p /\ Correctable(seen, p)
HostDrawn(r, p, seen) ==
    CASE r.form.of = "new" -> p # "elsewhere"
      [] r.form.of = "requirement" -> p = "elsewhere"
      [] r.kind = "create" -> Loaded(seen, p)
      [] OTHER -> Drawn(r, p, seen)
LetGo(rs, p, seen) == {[r EXCEPT !.watched = @ /\ Drawn(r, p, seen),
                                 !.gone = @ \/ ~HostDrawn(r, p, seen)] : r \in rs}
Unwatched(kinds) == {[r EXCEPT !.watched = @ /\ r.kind \notin kinds] : r \in requests}
Pending(kind) == \E r \in requests : r.kind = kind /\ r.watched

\* an address is shown: what it observes is read, and what nothing observes is not
Visit(p, rs) ==
    /\ page' = p /\ visited' = visited \union {p}
    /\ fetch' = [v \in Views |-> IF v \in Observed(p)
                                 THEN IF fetch[v] = NoRead THEN Asked ELSE fetch[v]
                                 ELSE NoRead]
    /\ requests' = LetGo(rs, p, cached)
    /\ Draws(p, cached, creating, correcting, asking)

Init ==
    /\ LET text == CHOOSE t \in Texts : TRUE IN
       store = <<[fact |-> [f \in Facts |->
                                   [status |-> CASE f \in Promoted -> "canonical"
                                                 [] f \in Waiting -> "pending"
                                                 [] OTHER -> "none",
                                    text |-> text, source |-> "development", replaces |-> "none"]],
                      attached |-> {}]>>
    /\ requests = {} /\ budget \in Budgets /\ promised = {}
    /\ page = "pool" /\ visited = {page, "elsewhere"}
    /\ cached = [v \in Views |-> NotRead]
    /\ fetch = [v \in Views |-> IF v \in Observed(page) THEN Asked ELSE NoRead]
    /\ creating = FALSE /\ correcting = FALSE /\ form = NoForm /\ asking = "none"
    /\ choice = NoChoice /\ filters = [pendingOnly |-> FALSE, source |-> "all"]

(***************************************************************************)
(* What the reader does.                                                   *)
(***************************************************************************)
Still == UNCHANGED <<store, promised>>
NoDialog == asking = "none" /\ form = NoForm

\* the rows of the pool, and the banner of what is pending
Visible == {f \in Listed(cached["pool"]) :
               LET fact == store[cached["pool"][1]].fact[f]
               IN  /\ filters.source \in {"all", fact.source}
                   /\ filters.pendingOnly => fact.status = "pending"}
PendingFacts == {f \in Listed(cached["pool"]) : store[cached["pool"][1]].fact[f].status = "pending"}
Linked == Visible \union IF Cardinality(PendingFacts) = 1 THEN PendingFacts ELSE {}

OpenFact(f) ==
    /\ page = "pool" /\ f \in Linked /\ NoDialog /\ Spend("reader")
    /\ Visit(f, requests) /\ Still /\ UNCHANGED cached
BackToPool == page \in Facts /\ NoDialog /\ Spend("reader") /\ Visit("pool", requests) /\ Still /\ UNCHANGED cached
Leave == page # "elsewhere" /\ NoDialog /\ Spend("reader") /\ Visit("elsewhere", requests) /\ Still /\ UNCHANGED cached
EnterPool == page = "elsewhere" /\ NoDialog /\ Spend("reader") /\ Visit("pool", requests) /\ Still /\ UNCHANGED cached
\* the browser's own buttons work over an open dialog
History(p) ==
    /\ p \in visited \ {page} /\ Spend("back")
    /\ Visit(p, requests) /\ Still /\ UNCHANGED cached

Stays == UNCHANGED <<cached, fetch, page, visited>>
Redraws(new, correction) ==
    /\ LET of == FormShown(page, cached, new, correction)
       IN  /\ creating' = new /\ correcting' = correction
           /\ form' = IF of = form.of THEN form ELSE Seed(of, cached)
           /\ requests' = Unwatched(IF of = form.of THEN {} ELSE {"create"})
    /\ UNCHANGED <<asking, choice, filters>>
AskNew ==
    /\ page = "pool" /\ ~MutationsBlocked(cached) /\ NoDialog /\ Spend("reader")
    /\ Redraws(TRUE, correcting) /\ Stays /\ Still
\* a requirement of an analysis offers the same form
AskForRequirement ==
    /\ page = "elsewhere" /\ NoDialog /\ Spend("reader")
    /\ Redraws(TRUE, correcting) /\ Stays /\ Still
AskCorrection ==
    /\ Correctable(cached, page) /\ NoDialog /\ Spend("reader")
    /\ Redraws(creating, TRUE) /\ Stays /\ Still
\* the form's cancel is there while its command is under way, too
CloseForm ==
    /\ form # NoForm /\ Spend("reader")
    /\ Redraws(form.of \in Facts /\ creating, FALSE) /\ Stays /\ Still
Types(new) ==
    /\ form # NoForm /\ new # form /\ Spend("reader") /\ form' = new
    /\ UNCHANGED <<requests, creating, correcting, asking, choice, filters>> /\ Stays /\ Still

TypeText(text) == Types([form EXCEPT !.text = text])
TypeSource(source) == Types([form EXCEPT !.source = source])

Asks(what, guard) ==
    /\ guard /\ NoDialog /\ Spend("reader") /\ asking' = what
    /\ UNCHANGED <<requests, creating, correcting, form, choice, filters>> /\ Stays /\ Still
AskPromotion == Asks("promotion", Promotable(cached, page))
OpenMenu == Asks("menu", Deletable(cached, page))
ChooseDeletion ==
    /\ asking = "menu" /\ asking' = "deletion" /\ requests' = Unwatched({"delete"})
    /\ UNCHANGED <<creating, correcting, form, choice, filters, budget>> /\ Stays /\ Still
Cancel ==
    /\ asking # "none" /\ asking' = "none"
    \* the promotion's cancel lets go of its command, the deletion's does not
    /\ requests' = Unwatched(IF asking = "promotion" THEN {"confirm"} ELSE {})
    /\ UNCHANGED <<creating, correcting, form, choice, filters, budget>> /\ Stays /\ Still

ChooseProfile(profile) ==
    /\ Correctable(cached, page) /\ NoDialog /\ profile # choice.profile /\ Spend("reader")
    /\ choice' = [choice EXCEPT !.profile = profile, !.section = NoChoice.section, !.accepted = FALSE]
    /\ UNCHANGED <<requests, creating, correcting, form, asking, filters>> /\ Stays /\ Still
ChooseSection(section) ==
    /\ Correctable(cached, page) /\ NoDialog /\ section # choice.section /\ Spend("reader")
    /\ choice' = [choice EXCEPT !.section = section]
    /\ UNCHANGED <<requests, creating, correcting, form, asking, filters>> /\ Stays /\ Still
Accept ==
    /\ Correctable(cached, page) /\ NoDialog /\ CrossTrack(Shown(cached, page).source, choice.profile)
    /\ Spend("reader")
    /\ choice' = [choice EXCEPT !.accepted = ~@, !.acceptedOf = <<page, choice.profile>>]
    /\ UNCHANGED <<requests, creating, correcting, form, asking, filters>> /\ Stays /\ Still

Filters(new) ==
    /\ page = "pool" /\ cached["pool"] # NotRead /\ NoDialog /\ new # filters /\ Spend("reader")
    /\ filters' = new
    /\ UNCHANGED <<requests, creating, correcting, form, asking, choice>> /\ Stays /\ Still
ChooseSource(source) == Filters([filters EXCEPT !.source = source])
\* one pending fact is linked to instead
TogglePending == Cardinality(PendingFacts) > 1 /\ Filters([filters EXCEPT !.pendingOnly = ~@])
ClearFilters == Visible = {} /\ Filters([pendingOnly |-> FALSE, source |-> "all"])

\* what a command takes from the page as it is pressed
Sends(kind, fact) ==
    /\ ~Pending(kind) /\ Spend("send")
    /\ requests' = requests \union
           {[kind |-> kind, stage |-> "sent", fact |-> fact, form |-> form, choice |-> choice,
             asked |-> asking, base |-> 0, made |-> "none", version |-> 0, watched |-> TRUE,
             gone |-> FALSE, nr |-> budget["send"]]}
    /\ UNCHANGED screen /\ Stays /\ Still
Create == form # NoForm /\ form.text # Blank /\ Sends("create", IF form.of \in Facts THEN page ELSE "none")
Promote == asking = "promotion" /\ Sends("confirm", page)
Delete == asking = "deletion" /\ Sends("delete", page)
AttachedThere == <<page, choice.profile, choice.section>> \in store[cached[page][1]].attached
Attach ==
    /\ Correctable(cached, page) /\ NoDialog /\ ~AttachedThere
    /\ CrossTrack(Shown(cached, page).source, choice.profile) => choice.accepted
    /\ Sends("attach", page)

(***************************************************************************)
(* The server: a mutation reads the whole Knowledge and then writes what   *)
(* it changed, if nothing else was written in between.                     *)
(***************************************************************************)
Unborn == {f \in Facts : Now.fact[f].status = "none"}
Applies(r, at) ==
    LET status == at.fact[r.fact].status
    IN  CASE r.kind = "create" -> Unborn # {}
          [] r.kind = "confirm" -> status = "pending"
          [] r.kind = "delete" -> status # "deleted"
          [] OTHER -> status = "canonical"
Made == CHOOSE f \in Unborn : TRUE
\* the rows as the command writes them over the present ones
Applied(r, at) ==
    CASE r.kind = "create" ->
             [at EXCEPT !.fact[Made] = [status |-> "pending", text |-> r.form.text,
                                        source |-> r.form.source, replaces |-> r.fact]]
      [] r.kind = "confirm" -> [at EXCEPT !.fact[r.fact].status = "canonical"]
      [] r.kind = "delete" -> [at EXCEPT !.fact[r.fact].status = "deleted"]
      [] OTHER -> [at EXCEPT !.attached = @ \union {<<r.fact, r.choice.profile, r.choice.section>>}]
Answers(r, a) == requests' = (requests \ {r}) \union {a}
Begins(r) ==
    /\ r.stage = "sent" /\ Answers(r, [r EXCEPT !.stage = "read", !.base = Len(store)])
    /\ UNCHANGED <<store, cached, fetch, page, visited, screen, budget, promised>>
\* Mutant: the version is advanced whatever it was.
CommitsUnchecked(r) == Applies(r, store[r.base])
Commits(r) == Len(store) = r.base /\ Applies(r, store[r.base])
Ends(r) ==
    /\ r.stage = "read" /\ Len(store) < MaxVersions
    /\ IF Commits(r)
       THEN /\ store' = Append(store, Applied(r, Now))
            /\ Answers(r, [r EXCEPT !.stage = "accepted", !.version = Len(store) + 1,
                                    !.made = IF r.kind = "create" THEN Made ELSE "none"])
       ELSE Answers(r, [r EXCEPT !.stage = "refused"]) /\ UNCHANGED store
    /\ UNCHANGED <<cached, fetch, page, visited, screen, budget, promised>>

(***************************************************************************)
(* What reaches the browser.                                               *)
(***************************************************************************)
\* invalidateFactViews: what is on the page is read anew, whatever read is under way
Invalidates(p, f) == Observed(p) \cap {"pool", f}

\* where an answer takes the reader: the fact that was made, or the pool; a
\* FactsPage that was left only changes the query of the address it is not at
Destination(r) == CASE r.kind = "create" /\ page # "elsewhere" /\ r.form.of # "requirement" -> r.made
                    [] r.kind = "delete" -> "pool"
                    [] OTHER -> page
Accepted(r) ==
    /\ r.stage = "accepted" /\ r \in requests
    /\ LET to == Destination(r)
           changed == IF r.kind = "create" THEN r.made ELSE r.fact
           closes == r.kind = "create" /\ ~r.gone
           answers == r.kind \in {"confirm", "delete"} /\ ~r.gone
       IN  /\ promised' = promised \union {[fact |-> changed, version |-> r.version]}
           /\ page' = to /\ visited' = visited \union {to}
           /\ fetch' = [v \in Views |-> CASE v \notin Observed(to) -> NoRead
                                          [] v \in Invalidates(to, changed) -> Asked
                                          [] to # page /\ fetch[v] = NoRead -> Asked
                                          [] OTHER -> fetch[v]]
           /\ requests' = LetGo(requests \ {r}, to, cached)
           /\ Draws(to, cached, creating /\ ~closes, correcting /\ ~closes,
                    IF answers THEN "none" ELSE asking)
    /\ UNCHANGED <<store, cached, budget>>
\* the question that was asked stays, with the error in it
Refused(r) ==
    /\ r.stage = "refused" /\ requests' = requests \ {r}
    /\ UNCHANGED <<store, cached, fetch, page, visited, screen, budget, promised>>
\* a command is lost on its way, or its answer on the way back
Lost(r) ==
    /\ r.stage \in {"sent", "accepted"} /\ Spend("trouble") /\ requests' = requests \ {r}
    /\ UNCHANGED <<store, cached, fetch, page, visited, screen, promised>>

Arrives(v, seen) ==
    /\ fetch' = [fetch EXCEPT ![v] = NoRead] /\ cached' = [cached EXCEPT ![v] = seen]
    /\ requests' = LetGo(requests, page, cached')
    /\ Draws(page, cached', creating, correcting, asking)
    /\ UNCHANGED <<store, page, visited, budget, promised>>
FactsRead ==
    /\ fetch["pool"] = Asked /\ fetch' = [fetch EXCEPT !["pool"] = <<Len(store), 0>>]
    /\ UNCHANGED <<store, requests, cached, page, visited, screen, budget, promised>>
PoolArrives ==
    /\ fetch["pool"] \notin {NoRead, Asked} /\ Arrives("pool", <<fetch["pool"][1], Len(store)>>)
FactArrives(f) == fetch[f] # NoRead /\ Arrives(f, <<Len(store), Len(store)>>)
Focus ==
    /\ page # "elsewhere" /\ Spend("trouble")
    /\ fetch' = [v \in Views |-> IF v \in Observed(page) /\ fetch[v] = NoRead THEN Asked ELSE fetch[v]]
    /\ UNCHANGED <<store, requests, cached, page, visited, screen, promised>>

(***************************************************************************)
(* Another tab, or the answer to a gap question.                           *)
(***************************************************************************)
OtherMutates(f, fact) ==
    /\ Len(store) < MaxVersions /\ fact # Now.fact[f] /\ Spend("trouble")
    /\ store' = Append(store, [Now EXCEPT !.fact[f] = fact])
    /\ UNCHANGED <<requests, cached, fetch, page, visited, screen, promised>>
OtherEdits(f, text) ==
    Now.fact[f].status = "pending" /\ OtherMutates(f, [Now.fact[f] EXCEPT !.text = text])
OtherConfirms(f) ==
    Now.fact[f].status = "pending" /\ OtherMutates(f, [Now.fact[f] EXCEPT !.status = "canonical"])
OtherDeletes(f) ==
    /\ Now.fact[f].status \in {"pending", "canonical"}
    /\ OtherMutates(f, [Now.fact[f] EXCEPT !.status = "deleted"])

(***************************************************************************)
Reader ==
    \/ \E f \in Facts : OpenFact(f)
    \/ BackToPool \/ Leave \/ EnterPool
    \/ \E p \in visited : History(p)
    \/ AskNew \/ AskForRequirement \/ AskCorrection \/ CloseForm
    \/ \E text \in Texts : TypeText(text)
    \/ \E source \in Sources : TypeSource(source)
    \/ AskPromotion \/ OpenMenu \/ ChooseDeletion \/ Cancel
    \/ \E profile \in Profiles : ChooseProfile(profile)
    \/ \E section \in Sections : ChooseSection(section)
    \/ Accept
    \/ \E source \in Sources \union {"all"} : ChooseSource(source)
    \/ TogglePending \/ ClearFilters
    \/ Create \/ Promote \/ Delete \/ Attach
Machine ==
    \/ \E r \in requests : Begins(r) \/ Ends(r) \/ Accepted(r) \/ Refused(r)
    \/ FactsRead \/ PoolArrives \/ \E f \in Facts : FactArrives(f)
Surroundings ==
    \/ \E r \in requests : Lost(r)
    \/ Focus
    \/ \E f \in Facts : (\E text \in Texts : OtherEdits(f, text)) \/ OtherConfirms(f) \/ OtherDeletes(f)
Next == Reader \/ Machine \/ Surroundings
Spec == Init /\ [][Next]_vars

(***************************************************************************)
(* Properties                                                              *)
(***************************************************************************)
\* A correction starts from the fact it will replace, as that fact stands for
\* good: it is sent from a form that was filled from the very fact its
\* `replaces` names, however the reader went from fact to fact with the form
\* open (FactManagementDetail is keyed by the fact, and corrects canonical ones).
CorrectionIsOfItsFact ==
    \A r \in requests : r.kind = "create" /\ r.fact # "none" =>
        r.form.of = r.fact /\ Now.fact[r.fact].status \in {"canonical", "deleted"}

\* A fact of another track is attached to a Profile only if its reader accepted
\* that for this fact and this Profile (FactAttachmentControl).
CrossTrackWasAccepted ==
    \A r \in requests :
        r.kind = "attach" /\ CrossTrack(Now.fact[r.fact].source, r.choice.profile)
            => r.choice.accepted /\ r.choice.acceptedOf = <<r.fact, r.choice.profile>>

\* A fact never goes back: what is canonical stays canonical, in the same words,
\* until it is deleted, and what is deleted stays deleted, whichever commands
\* raced (lifecycle.py `_commit` and the version it advances).
Rank(status) == CASE status = "none" -> 0 [] status = "pending" -> 1
                  [] status = "canonical" -> 2 [] OTHER -> 3
FactsNeverGoBack ==
    [][\A f \in Facts :
           LET before == Now.fact[f]
               after == store'[Len(store')].fact[f]
           IN  /\ Rank(after.status) >= Rank(before.status)
               /\ before.status \in {"canonical", "deleted"} => after.text = before.text]_store

\* What a command of this tab did is on the page once its reads are over, in
\* every read the page draws from: no status it just changed stays stale beside
\* its button, and no torn read of the pool keeps raising the alarm over it
\* (invalidateFactViews, and a read under way when a command is answered).
AsOf(v, n) == cached[v][1] >= n /\ cached[v][2] >= n
EffectsAreShown ==
    (\A v \in Views : fetch[v] = NoRead) =>
        \A told \in promised :
            /\ page # "elsewhere" => AsOf("pool", told.version)
            /\ page = told.fact => AsOf(page, told.version)

(***************************************************************************)
(* What the proofs add, to make CorrectionIsOfItsFact hold step by step.   *)
(***************************************************************************)
Statuses == {"none", "pending", "canonical", "deleted"}
Pages == Facts \union {"pool", "elsewhere"}
Forms == [of : Facts \union {"none", "new", "requirement"}, text : Texts \union {Blank},
          source : Sources \union {"none"}]
Versions == [fact : [Facts -> [status : Statuses, text : Texts \union {Blank},
                              source : Sources \union {"none"}, replaces : Facts \union {"none"}]],
             attached : SUBSET (Facts \X Profiles \X Sections)]
\* a fact only goes on, from version to version
StoreGoesOn ==
    /\ store \in Seq(Versions) /\ store # <<>>
    /\ \A m, n \in 1 .. Len(store) : m <= n =>
          \A f \in Facts : Rank(store[m].fact[f].status) <= Rank(store[n].fact[f].status)
IsRead(seen) == seen = NotRead \/ seen \in (1 .. Len(store)) \X (1 .. Len(store))
ReadsAreSound ==
    /\ page \in Pages /\ visited \subseteq Pages
    /\ DOMAIN cached = Views /\ \A v \in Views : IsRead(cached[v])
    /\ DOMAIN fetch = Views
    /\ fetch["pool"] \in {NoRead, Asked} \/ fetch["pool"][1] \in 1 .. Len(store)
IsChoice(c) ==
    c \in [profile : Profiles, section : Sections, accepted : {c.accepted},
           acceptedOf : {c.acceptedOf}]
IsRequest(r) ==
    /\ r \in [kind : {"create", "confirm", "delete", "attach"},
              stage : {"sent", "read", "accepted", "refused"},
              fact : Facts \union {"none"}, form : Forms, choice : {r.choice}, asked : {r.asked},
              base : {r.base}, made : Facts \union {"none"}, version : {r.version},
              watched : {r.watched}, gone : {r.gone}, nr : {r.nr}]
    /\ IsChoice(r.choice)
    /\ r.kind # "create" => r.fact \in Facts
    /\ r.kind = "create" /\ r.stage = "accepted" => r.made \in Facts
\* the open form is the one the page draws, and a question is about what is drawn
ScreenIsSound ==
    /\ form \in Forms /\ form.of = FormShown(page, cached, creating, correcting)
    /\ asking \in {"none", "promotion", "menu", "deletion"}
    /\ asking = "promotion" => Promotable(cached, page)
    /\ asking \in {"menu", "deletion"} => Deletable(cached, page)
    /\ IsChoice(choice)
PoolInvariant ==
    /\ StoreGoesOn /\ ReadsAreSound /\ ScreenIsSound
    /\ \A r \in requests : IsRequest(r)
    /\ CorrectionIsOfItsFact
=============================================================================
