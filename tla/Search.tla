------------------------------- MODULE Search -------------------------------
(***************************************************************************)
(* The search dialog of the browser: a field, the list the server answers  *)
(* for the text, and what the browser itself finds among the facts and     *)
(* their history.  The text is read late (a deferred value), its answer    *)
(* later still, and meanwhile the rows of the last answer stay on screen.  *)
(*                                                                         *)
(* Left out: the facts' own reads (taken as loaded), rows that a poll      *)
(* reorders under the highlight, and the composition of a character.       *)
(***************************************************************************)
EXTENDS Naturals, Sequences, FiniteSets, SequencesExt

CONSTANTS
    Typed,      \* what the field may hold
    Trimmed,    \* the same without the whitespace around it
    Listed,     \* the rows the server lists for a trimmed text
    Matched     \* the facts and events the browser finds for it

Nothing == "nothing"
Queries == {Trimmed[t] : t \in Typed}

ASSUME SearchConstants ==
    /\ Trimmed \in [Typed -> Typed] /\ "" \in Typed /\ Trimmed[""] = ""
    /\ \A t \in Typed : Trimmed[Trimmed[t]] = Trimmed[t]
    /\ DOMAIN Listed = Queries /\ DOMAIN Matched = Queries
    /\ \A q \in Queries : /\ Listed[q] \in Seq(ToSet(Listed[q]))
                         /\ Matched[q] \in Seq(ToSet(Matched[q]))

VARIABLES
    dialog,     \* the field and the rows under it
    opened      \* the row the last step opened, for whom and over which text

NotOpened == [by |-> "none", item |-> Nothing, text |-> ""]

(***************************************************************************)
(* The rows (useApplicationSearch).  `answer` is the query whose list is   *)
(* on screen, its own or the last one's; before the first there is none.   *)
(***************************************************************************)
Closed == [open |-> FALSE, text |-> "", deferred |-> "", answer |-> "pending", active |-> 1]
\* nothing typed lists what needs attention; facts and events join a text only
Found(query) == IF query = "" THEN <<>> ELSE Matched[query]
Items == (IF dialog.answer \in Queries THEN Listed[dialog.answer] ELSE <<>>) \o Found(dialog.deferred)
IsStale == dialog.answer # dialog.deferred \/ dialog.deferred # Trimmed[dialog.text]
ShowRows == dialog.answer \in Queries
\* a highlight past the end of a shorter list falls on its last row
ActiveRow == IF dialog.active > Len(Items) THEN Len(Items) ELSE dialog.active

(***************************************************************************)
(* The reader and the answers.                                             *)
(***************************************************************************)
\* GlobalSearch: the button, or its shortcut outside a field
OpenDialog ==
    /\ ~dialog.open
    /\ dialog' = [Closed EXCEPT !.open = TRUE]
    /\ opened' = NotOpened

\* updateSearch: a new text puts the highlight back on the first row
UpdateSearch(text) ==
    /\ dialog.open /\ text # dialog.text
    /\ dialog' = [dialog EXCEPT !.text = text, !.active = 1]
    /\ opened' = NotOpened

Defer ==
    /\ dialog.open /\ dialog.deferred # Trimmed[dialog.text]
    /\ dialog' = [dialog EXCEPT !.deferred = Trimmed[dialog.text],
                                !.answer = IF @ = "failed" THEN "pending" ELSE @]
    /\ opened' = NotOpened

Answer(answer) ==
    /\ dialog.open /\ dialog.answer \notin {dialog.deferred, "failed"}
    /\ answer \in {dialog.deferred, "failed"}
    /\ dialog' = [dialog EXCEPT !.answer = answer]
    /\ opened' = NotOpened

Retry ==
    /\ dialog.open /\ dialog.answer = "failed"
    /\ dialog' = [dialog EXCEPT !.answer = "pending"]
    /\ opened' = NotOpened

\* the arrows, from the last row to the first and back; nothing moves over old rows
MoveTo ==
    /\ dialog.open /\ Items # <<>> /\ ShowRows /\ ~IsStale
    /\ \E row \in {IF ActiveRow = Len(Items) THEN 1 ELSE ActiveRow + 1,
                   IF ActiveRow <= 1 THEN Len(Items) ELSE ActiveRow - 1} :
          dialog' = [dialog EXCEPT !.active = row]
    /\ opened' = NotOpened

\* the pointer moves the highlight, over old rows too
Hover(row) ==
    /\ dialog.open /\ ShowRows /\ row \in DOMAIN Items /\ row # ActiveRow
    /\ dialog' = [dialog EXCEPT !.active = row]
    /\ opened' = NotOpened

CloseDialog ==
    /\ dialog.open
    /\ dialog' = Closed
    /\ opened' = NotOpened

SelectItem(row, by) ==
    /\ dialog' = Closed
    /\ opened' = [by |-> by, item |-> Items[row], text |-> dialog.text]

\* Mutant: Enter takes the highlighted row whatever the list is of.
EnterAnyRow ==
    /\ dialog.open /\ Items # <<>> /\ ShowRows
    /\ SelectItem(ActiveRow, "enter")
\* handleKeyDown
Enter ==
    /\ dialog.open /\ Items # <<>> /\ ShowRows /\ ~IsStale
    /\ SelectItem(ActiveRow, "enter")

\* a row is pressed as it stands, stale or not
Click(row) ==
    /\ dialog.open /\ ShowRows /\ row \in DOMAIN Items
    /\ SelectItem(row, "click")

DialogType ==
    /\ dialog \in [open : BOOLEAN, text : Typed, deferred : Queries,
                   answer : Queries \union {"pending", "failed"}, active : Nat]
    /\ opened.by \in {"none", "enter", "click"} /\ opened.text \in Typed

(***************************************************************************)
(* What Enter opens is among the answers to the text in the field, the     *)
(* server's and the browser's: never a row of the text before, which is    *)
(* still on screen (GlobalSearchDialog's handleKeyDown, the deferred value *)
(* and the placeholder rows of useApplicationSearch).                      *)
(***************************************************************************)
EnterOpensAnAnswer ==
    opened.by = "enter" =>
        LET query == Trimmed[opened.text]
        IN  opened.item \in ToSet(Listed[query] \o Found(query))
=============================================================================
