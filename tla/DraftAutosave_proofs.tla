-------------------------- MODULE DraftAutosave_proofs --------------------------
(***************************************************************************)
(* What the autosave promises of every keystroke, for any lines, budgets   *)
(* and history limit.  A step either leaves the queue and the request as   *)
(* they are, moves a patch whole from one to the other, or replaces a text *)
(* of a patch and records what the replaced text held.                     *)
(*                                                                         *)
(* Then what the page holds of another tab's text: what a read has shown.  *)
(* The server's part in it is that a patch makes lines of what was there   *)
(* and of the patch; the recursive function under that is reasoned about   *)
(* by induction, from the least natural number of a set.                   *)
(*                                                                         *)
(* Last what the screen shows that was not read: a change queued, sent or  *)
(* put back carries it, and a read takes the screen over only if it        *)
(* differs.  Texts are followed line by line and the order as a whole.     *)
(***************************************************************************)
EXTENDS DraftAutosave, SequenceTheorems, FiniteSetTheorems, WellFoundedInduction, TLAPS

-----------------------------------------------------------------------------
(* Patches *)

LEMMA KeysOfAPatch ==
  ASSUME NEW p, NEW k
  PROVE  k \in PatchKeys(p) <=> \/ \E c \in DOMAIN p.edits : k \in p.edits[c]
                                \/ \E i \in DOMAIN p.additions : k \in p.additions[i]
  BY DEF PatchKeys, ToSet

LEMMA NoPatchHasNoKeys == PatchKeys(NoPatch) = {} /\ HasPatchShape(NoPatch)
<1>1. \A k : k \notin PatchKeys(NoPatch)
  BY KeysOfAPatch DEF NoPatch
<1>2. HasPatchShape(NoPatch)
  BY DEF HasPatchShape, NoPatch
<1> QED BY <1>1, <1>2

\* A patch part by part.
Parts(edits, removals, additions, orders) ==
  [edits : {edits}, removals : {removals}, additions : {additions}, orders : {orders}]

LEMMA PatchParts ==
  ASSUME NEW p, HasPatchShape(p)
  PROVE  p \in Parts(p.edits, p.removals, p.additions, p.orders) /\ p.additions \in Seq(Texts)
  BY DEF HasPatchShape, Parts

LEMMA PartsMakeAPatch ==
  ASSUME NEW q, NEW edits, NEW removals, NEW orders, NEW additions \in Seq(Texts),
         q \in Parts(edits, removals, additions, orders)
  PROVE  /\ HasPatchShape(q)
         /\ q.edits = edits /\ q.removals = removals
         /\ q.additions = additions /\ q.orders = orders
  BY DEF HasPatchShape, Parts

\* A text queued replaces the text of its line and nothing else.
LEMMA EditKeepsTheRest ==
  ASSUME NEW p, HasPatchShape(p), NEW c, NEW text
  PROVE  /\ HasPatchShape(EditIn(p, c, text))
         /\ text \subseteq PatchKeys(EditIn(p, c, text))
         /\ PatchKeys(p) \subseteq PatchKeys(EditIn(p, c, text)) \union BufferedText(p, c)
<1> DEFINE q == EditIn(p, c, text)
<1>1. q \in Parts(With(p.edits, c, text), p.removals \ {c}, p.additions, p.orders)
  BY PatchParts DEF EditIn, Parts
<1>2. HasPatchShape(q) /\ q.edits = With(p.edits, c, text) /\ q.additions = p.additions
  BY <1>1, PatchParts, PartsMakeAPatch
<1>3. \A x \in DOMAIN p.edits : x = c \/ (x \in DOMAIN q.edits /\ q.edits[x] = p.edits[x])
  BY <1>2 DEF With
<1>4. c \in DOMAIN q.edits /\ q.edits[c] = text /\ q.additions = p.additions
  BY <1>2 DEF With
<1> HIDE DEF q
<1> QED BY <1>2, <1>3, <1>4, KeysOfAPatch DEF BufferedText, q

LEMMA RemovalKeepsTheRest ==
  ASSUME NEW p, HasPatchShape(p), NEW c
  PROVE  /\ HasPatchShape(RemovalIn(p, c))
         /\ PatchKeys(p) \subseteq PatchKeys(RemovalIn(p, c)) \union BufferedText(p, c)
<1> DEFINE q == RemovalIn(p, c)
<1>1. q \in Parts(Without(p.edits, c), p.removals \union {c}, p.additions,
                  OrdersWithout(p.orders, c))
  <2> DEFINE edits == Without(p.edits, c)
             removals == p.removals \union {c}
             orders == OrdersWithout(p.orders, c)
  <2>1. p \in Parts(p.edits, p.removals, p.additions, p.orders)
    BY PatchParts
  <2>2. q = [p EXCEPT !.edits = edits, !.removals = removals, !.orders = orders]
    BY DEF RemovalIn
  <2> HIDE DEF edits, removals, orders, q
  <2>3. q \in Parts(edits, removals, p.additions, orders)
    BY <2>1, <2>2 DEF Parts
  <2> QED BY <2>3 DEF edits, removals, orders
<1>2. HasPatchShape(q)
  BY <1>1, PatchParts, PartsMakeAPatch
<1>3. q.edits = Without(p.edits, c) /\ q.additions = p.additions
  BY <1>1, PatchParts, PartsMakeAPatch
<1>4. \A x \in DOMAIN p.edits : x = c \/ (x \in DOMAIN q.edits /\ q.edits[x] = p.edits[x])
  BY <1>3 DEF Without
<1> HIDE DEF q
<1> QED BY <1>2, <1>3, <1>4, KeysOfAPatch DEF BufferedText, q

LEMMA AdditionKeepsAll ==
  ASSUME NEW p, HasPatchShape(p), NEW text \in Texts
  PROVE  /\ HasPatchShape(AdditionIn(p, text))
         /\ PatchKeys(p) \union text \subseteq PatchKeys(AdditionIn(p, text))
<1> DEFINE q == AdditionIn(p, text)
<1>1. q \in Parts(p.edits, p.removals, Append(p.additions, text), p.orders)
  BY PatchParts DEF AdditionIn, Parts
<1>2. p.additions \in Seq(Texts)
  BY PatchParts
<1>3. Append(p.additions, text) \in Seq(Texts)
  BY <1>2, AppendProperties
<1>4. /\ HasPatchShape(q) /\ q.edits = p.edits
      /\ q.additions = Append(p.additions, text) /\ q.additions \in Seq(Texts)
  <2> DEFINE more == Append(p.additions, text)
  <2>1. q \in Parts(p.edits, p.removals, more, p.orders) /\ more \in Seq(Texts)
    BY <1>1, <1>3
  <2> HIDE DEF more, q
  <2>2. HasPatchShape(q) /\ q.edits = p.edits /\ q.additions = more /\ q.additions \in Seq(Texts)
    BY <2>1, PartsMakeAPatch
  <2> QED BY <2>2 DEF more
<1>5. /\ \A i \in DOMAIN p.additions : i \in DOMAIN q.additions /\ q.additions[i] = p.additions[i]
      /\ \E i \in DOMAIN q.additions : q.additions[i] = text
  <2>1. DOMAIN p.additions = 1 .. Len(p.additions) /\ Len(p.additions) \in Nat
    BY <1>2, LenProperties
  <2>2. DOMAIN q.additions = 1 .. (Len(p.additions) + 1)
    BY <1>2, <1>4, LenProperties, AppendProperties
  <2> QED BY <1>2, <1>4, <2>1, <2>2, AppendProperties
<1> HIDE DEF q
<1> QED BY <1>4, <1>5, KeysOfAPatch DEF q

LEMMA OrderKeepsAll ==
  ASSUME NEW p, HasPatchShape(p), NEW order
  PROVE  HasPatchShape(OrderIn(p, order)) /\ PatchKeys(OrderIn(p, order)) = PatchKeys(p)
<1> DEFINE q == OrderIn(p, order)
<1>1. q \in Parts(p.edits, p.removals, p.additions, {order})
  BY PatchParts DEF OrderIn, Parts
<1>2. HasPatchShape(q) /\ q.edits = p.edits /\ q.additions = p.additions
  BY <1>1, PatchParts, PartsMakeAPatch
<1> QED BY <1>2 DEF PatchKeys

\* Undo and redo take out what they restore over.
LEMMA RestoringKeepsTheRest ==
  ASSUME NEW p, HasPatchShape(p), NEW target
  PROVE  /\ HasPatchShape(Restoring(p, target))
         /\ PatchKeys(p) \subseteq PatchKeys(Restoring(p, target)) \union
               UNION {BufferedText(p, c) \ TextOf(target, c) : c \in Differing(target)}
<1> DEFINE texts == [p EXCEPT
              !.edits = [c \in DOMAIN @ \union Differing(target) |->
                            IF c \in Differing(target) THEN TextOf(target, c) ELSE @[c]],
              !.removals = @ \ Differing(target)]
           out == UNION {BufferedText(p, c) \ TextOf(target, c) : c \in Differing(target)}
<1>1. texts \in Parts([c \in DOMAIN p.edits \union Differing(target) |->
                          IF c \in Differing(target) THEN TextOf(target, c) ELSE p.edits[c]],
                      p.removals \ Differing(target), p.additions, p.orders)
  BY PatchParts DEF Parts
<1>2. HasPatchShape(texts)
  BY <1>1, PatchParts, PartsMakeAPatch
<1>3. /\ texts.additions = p.additions
      /\ \A c \in DOMAIN p.edits :
           /\ c \in DOMAIN texts.edits
           /\ texts.edits[c] = IF c \in Differing(target) THEN TextOf(target, c) ELSE p.edits[c]
  <2>1. /\ texts.additions = p.additions
        /\ texts.edits = [c \in DOMAIN p.edits \union Differing(target) |->
                            IF c \in Differing(target) THEN TextOf(target, c) ELSE p.edits[c]]
    BY <1>1, PatchParts, PartsMakeAPatch
  <2> HIDE DEF texts
  <2> QED BY <2>1
<1>4. Restoring(p, target) = IF OrderOf(target) = OrderOf(outline) THEN texts
                             ELSE OrderIn(texts, OrderOf(target))
  BY DEF Restoring
<1> HIDE DEF texts
<1>5. PatchKeys(p) \subseteq PatchKeys(texts) \union out
  <2> SUFFICES ASSUME NEW k \in PatchKeys(p), k \notin out
               PROVE  k \in PatchKeys(texts)
    OBVIOUS
  <2>1. ASSUME NEW c \in DOMAIN p.edits, k \in p.edits[c]
        PROVE  k \in texts.edits[c]
    BY <1>3, <2>1 DEF BufferedText
  <2> QED BY <1>3, <2>1, KeysOfAPatch
<1> QED BY <1>2, <1>4, <1>5, OrderKeepsAll

\* A rejected patch is put back under what was queued since.
LEMMA RestoredKeepsTheRest ==
  ASSUME NEW p, HasPatchShape(p), NEW old, HasPatchShape(old)
  PROVE  /\ HasPatchShape(Restored(p, old))
         /\ PatchKeys(p) \union PatchKeys(old) \subseteq PatchKeys(Restored(p, old))
               \union UNION {old.edits[c] : c \in DOMAIN old.edits \cap DOMAIN p.edits}
<1> DEFINE q == Restored(p, old)
           over == UNION {old.edits[c] : c \in DOMAIN old.edits \cap DOMAIN p.edits}
<1>1. /\ q.edits = [c \in DOMAIN p.edits \union DOMAIN old.edits |->
                       IF c \in DOMAIN p.edits THEN p.edits[c] ELSE old.edits[c]]
      /\ q.additions = old.additions \o p.additions
  BY DEF Restored
<1>10. q = [edits |-> q.edits, removals |-> q.removals, additions |-> q.additions,
            orders |-> q.orders]
  BY DEF Restored
<1>2. old.additions \in Seq(Texts) /\ p.additions \in Seq(Texts)
  BY DEF HasPatchShape
<1> HIDE DEF q
<1>3. q.additions \in Seq(Texts)
  BY <1>1, <1>2, ConcatProperties
<1>4. /\ \A i \in DOMAIN old.additions : \E j \in DOMAIN q.additions :
            q.additions[j] = old.additions[i]
      /\ \A i \in DOMAIN p.additions : \E j \in DOMAIN q.additions :
            q.additions[j] = p.additions[i]
  <2> DEFINE m == Len(old.additions)
             n == Len(p.additions)
  <2>1. /\ m \in Nat /\ n \in Nat
        /\ DOMAIN old.additions = 1 .. m /\ DOMAIN p.additions = 1 .. n
    BY <1>2, LenProperties
  <2>0. /\ Len(old.additions \o p.additions) = m + n
        /\ \A i \in 1 .. m + n : (old.additions \o p.additions)[i] =
               IF i <= m THEN old.additions[i] ELSE p.additions[i - m]
    BY <1>2, ConcatProperties
  <2>2. DOMAIN q.additions = 1 .. (m + n)
    BY <1>1, <1>3, <2>0, LenProperties
  <2> HIDE DEF m, n
  <2>3. /\ \A i \in 1 .. m : q.additions[i] = old.additions[i]
        /\ \A i \in 1 .. n : q.additions[m + i] = p.additions[i]
    <3>1. \A i \in 1 .. m : i \in 1 .. m + n /\ i <= m
      BY <2>1
    <3>2. \A i \in 1 .. n : m + i \in 1 .. m + n /\ ~(m + i <= m) /\ (m + i) - m = i
      BY <2>1
    <3> DEFINE both == old.additions \o p.additions
    <3>3. q.additions = both /\ \A i \in 1 .. m + n : both[i] =
             IF i <= m THEN old.additions[i] ELSE p.additions[i - m]
      BY <1>1, <2>0
    <3> HIDE DEF both
    <3> QED BY <3>1, <3>2, <3>3
  <2>4. (\A i \in 1 .. m : i \in 1 .. (m + n)) /\ (\A i \in 1 .. n : m + i \in 1 .. (m + n))
    BY <2>1
  <2> QED BY <2>1, <2>2, <2>3, <2>4
<1>5. \A k : k \in PatchKeys(p) \union PatchKeys(old) => k \in PatchKeys(q) \union over
  <2> SUFFICES ASSUME NEW k, k \notin over, k \in PatchKeys(p) \union PatchKeys(old)
               PROVE  k \in PatchKeys(q)
    OBVIOUS
  <2>1. ASSUME NEW c \in DOMAIN p.edits, k \in p.edits[c]
        PROVE  c \in DOMAIN q.edits /\ k \in q.edits[c]
    BY <1>1, <2>1
  <2>2. ASSUME NEW c \in DOMAIN old.edits, k \in old.edits[c]
        PROVE  c \in DOMAIN q.edits /\ k \in q.edits[c]
    <3>1. c \notin DOMAIN p.edits
      BY <2>2
    <3> QED BY <1>1, <2>2, <3>1
  <2> QED BY <1>4, <2>1, <2>2, KeysOfAPatch
<1>6. HasPatchShape(q)
  BY <1>3, <1>10 DEF HasPatchShape
<1> QED BY <1>5, <1>6 DEF q

-----------------------------------------------------------------------------
(* The budget of keystrokes *)

\* What an act that types nothing leaves of the budget of keystrokes.
LEMMA SpendKeepsTheCount ==
  ASSUME KeystrokesCounted, NEW act \in Acts \ {"type", "add"}, Spend(act), typed' = typed
  PROVE  KeystrokesCounted'
<1>1. left' \in [Acts -> Nat] /\ left'["type"] = left["type"] /\ left'["add"] = left["add"]
  BY DEF KeystrokesCounted, Spend, Kind, Acts, UserActs, Faults
<1> QED BY <1>1 DEF KeystrokesCounted

\* A keystroke is one of the user's, and the budget has paid for it.
LEMMA KeystrokeIsPaidFor ==
  ASSUME KeystrokesCounted, NEW act \in {"type", "add"}, Spend(act),
         typed' = typed \union {NextKey}
  PROVE  KeystrokesCounted' /\ NextKey \in Own
<1> DEFINE n == Cardinality(typed)
<1>1. n \in Nat
  BY FS_CardinalityType DEF KeystrokesCounted
<1>2. /\ left' \in [Acts -> Nat]
      /\ left["type"] + left["add"] = left'["type"] + left'["add"] + 1
      /\ left["type"] \in Nat /\ left["add"] \in Nat
      /\ left'["type"] \in Nat /\ left'["add"] \in Nat
  BY DEF KeystrokesCounted, Spend, Kind, Acts, UserActs, Faults
<1>3. IsFiniteSet(typed') /\ Cardinality(typed') \in Nat /\ Cardinality(typed') <= n + 1
  <2>1. /\ IsFiniteSet(typed \union {NextKey})
        /\ Cardinality(typed \union {NextKey}) =
             IF NextKey \in typed THEN Cardinality(typed) ELSE Cardinality(typed) + 1
    BY FS_AddElement DEF KeystrokesCounted
  <2> QED BY <1>1, <2>1
<1>4. Budget["type"] \in Nat /\ Budget["add"] \in Nat
  BY EditorConstants DEF Acts, UserActs, Faults
<1>5. n + 1 \in 1 .. Budget["type"] + Budget["add"]
  BY <1>1, <1>2, <1>4 DEF KeystrokesCounted
<1>6. NextKey \in Own
  BY <1>5 DEF NextKey, Own
<1>7. Cardinality(typed') + left'["type"] + left'["add"] <= Budget["type"] + Budget["add"]
  <2>1. n + left["type"] + left["add"] <= Budget["type"] + Budget["add"]
    BY DEF KeystrokesCounted
  <2> HIDE DEF n
  <2> QED BY <1>1, <1>2, <1>3, <1>4, <2>1
<1> QED BY <1>2, <1>3, <1>6, <1>7 DEF KeystrokesCounted

-----------------------------------------------------------------------------
(* Steps of the queue *)

\* A patch queued in place of the buffer: all that is asked of it is that what it holds no
\* longer was recorded.
LEMMA QueuedKeeps ==
  ASSUME QueueInvariant, NEW p, HasPatchShape(p), Queued(p), landed' = landed,
         KeystrokesCounted', typed' \subseteq typed \union PatchKeys(p),
         withdrawn \subseteq withdrawn', overtyped \subseteq overtyped', crashed \subseteq crashed',
         PatchKeys(buffer) \subseteq PatchKeys(p) \union withdrawn' \union overtyped'
  PROVE  QueueInvariant'
<1>1. buffer' = p /\ mirrored' = p /\ flight' = flight
  BY DEF Queued
<1>2. InFlight' = InFlight
  BY <1>1 DEF InFlight, Outstanding
<1>3. NothingDropped'
  BY <1>1, <1>2 DEF NothingDropped, QueueInvariant
<1>4. BufferIsMirrored'
  BY <1>1 DEF BufferIsMirrored
<1>5. FlightIsTracked'
  BY <1>1 DEF FlightIsTracked, Outstanding, QueueInvariant
<1> QED BY <1>3, <1>4, <1>5 DEF QueueInvariant

\* Neither the buffer nor the request is touched, and what is recorded only grows.
LEMMA RestKeeps ==
  ASSUME QueueInvariant, UNCHANGED <<buffer, mirrored, flight, typed>>, KeystrokesCounted',
         landed \subseteq landed', withdrawn \subseteq withdrawn',
         overtyped \subseteq overtyped', crashed \subseteq crashed'
  PROVE  QueueInvariant'
<1>1. InFlight' = InFlight
  BY DEF InFlight, Outstanding
<1>2. NothingDropped'
  BY <1>1 DEF NothingDropped, QueueInvariant
<1>3. BufferIsMirrored'
  BY DEF BufferIsMirrored, QueueInvariant
<1>4. FlightIsTracked'
  BY DEF FlightIsTracked, Outstanding, QueueInvariant
<1> QED BY <1>2, <1>3, <1>4 DEF QueueInvariant

\* send moves the buffer whole into the request.
LEMMA SentKeeps ==
  ASSUME QueueInvariant, NEW before, NEW base, SentAfter(before, buffer, base),
         UNCHANGED <<typed, left>>, mirrored' \in {mirrored, buffer},
         landed \subseteq landed', withdrawn \subseteq withdrawn',
         overtyped \subseteq overtyped', crashed \subseteq crashed',
         typed \subseteq landed' \union PatchKeys(buffer) \union withdrawn'
                         \union overtyped' \union crashed'
  PROVE  QueueInvariant'
<1>1. KeystrokesCounted'
  BY DEF KeystrokesCounted, QueueInvariant
<1>2. BufferIsMirrored'
  BY NoPatchHasNoKeys DEF BufferIsMirrored, QueueInvariant, SentAfter
<1>3. FlightIsTracked'
  BY DEF FlightIsTracked, Outstanding, QueueInvariant, BufferIsMirrored, SentAfter, NoFlight
<1>4. PatchKeys(buffer) \subseteq PatchKeys(buffer') \union InFlight'
  BY NoPatchHasNoKeys DEF SentAfter, InFlight, Outstanding, NoFlight
<1>5. NothingDropped'
  BY <1>4 DEF NothingDropped, QueueInvariant
<1> QED BY <1>1, <1>2, <1>3, <1>5 DEF QueueInvariant

-----------------------------------------------------------------------------
(* The actions *)

LEMMA InitQueue == Init => QueueInvariant
<1> SUFFICES ASSUME Init PROVE QueueInvariant
  OBVIOUS
<1>1. /\ buffer = NoPatch /\ mirrored = NoPatch /\ flight = NoFlight
      /\ typed = {} /\ left = Budget
  BY DEF Init
<1>2. /\ left \in [Acts -> Nat] /\ left["type"] \in Nat /\ left["add"] \in Nat
      /\ Budget["type"] \in Nat /\ Budget["add"] \in Nat
  BY <1>1, EditorConstants DEF Acts, UserActs, Faults
<1>3. KeystrokesCounted
  BY <1>1, <1>2, FS_EmptySet DEF KeystrokesCounted
<1> QED BY <1>1, <1>3, NoPatchHasNoKeys
    DEF QueueInvariant, NothingDropped, BufferIsMirrored, FlightIsTracked, NoFlight, Outstanding

LEMMA TypeInKeeps ==
  ASSUME QueueInvariant, NEW c \in Ids, TypeIn(c)
  PROVE  QueueInvariant'
<1> DEFINE text == TextOf(outline, c) \union {NextKey}
           p == EditIn(buffer, c, text)
<1>1. /\ Spend("type") /\ Queued(p) /\ typed' = typed \union {NextKey}
      /\ landed' = landed /\ withdrawn' = withdrawn /\ crashed' = crashed
      /\ overtyped \subseteq overtyped' /\ BufferedText(buffer, c) \ text \subseteq overtyped'
  BY DEF TypeIn
<1>2. KeystrokesCounted'
  BY <1>1, KeystrokeIsPaidFor DEF QueueInvariant
<1>3. HasPatchShape(buffer)
  BY DEF QueueInvariant, BufferIsMirrored
<1>4. NextKey \in text
  OBVIOUS
<1> HIDE DEF text
<1>5. /\ HasPatchShape(p) /\ text \subseteq PatchKeys(p)
      /\ PatchKeys(buffer) \subseteq PatchKeys(p) \union BufferedText(buffer, c)
  BY <1>3, EditKeepsTheRest
<1>6. /\ PatchKeys(buffer) \subseteq PatchKeys(p) \union withdrawn' \union overtyped'
      /\ typed' \subseteq typed \union PatchKeys(p)
  BY <1>1, <1>4, <1>5
<1> HIDE DEF p
<1> QED BY <1>1, <1>2, <1>5, <1>6, QueuedKeeps

LEMMA AddLineKeeps == ASSUME QueueInvariant, AddLine PROVE QueueInvariant'
<1> DEFINE p == AdditionIn(buffer, {NextKey})
<1>1. /\ Spend("add") /\ Queued(p) /\ typed' = typed \union {NextKey}
      /\ landed' = landed /\ withdrawn' = withdrawn /\ crashed' = crashed
      /\ overtyped' = overtyped
  BY DEF AddLine
<1>2. KeystrokesCounted' /\ NextKey \in Own
  BY <1>1, KeystrokeIsPaidFor DEF QueueInvariant
<1>3. {NextKey} \in Texts /\ HasPatchShape(buffer)
  BY <1>2 DEF Texts, QueueInvariant, BufferIsMirrored
<1>4. HasPatchShape(p) /\ PatchKeys(buffer) \union {NextKey} \subseteq PatchKeys(p)
  BY <1>3, AdditionKeepsAll
<1> HIDE DEF p
<1> QED BY <1>1, <1>2, <1>4, QueuedKeeps

\* A removal is queued, and what was waiting for the line was taken back.
LEMMA RemovalIsQueued ==
  ASSUME QueueInvariant, KeystrokesCounted', NEW c, Queued(RemovalIn(buffer, c)),
         withdrawn' = withdrawn \union BufferedText(buffer, c),
         UNCHANGED <<typed, landed, overtyped, crashed>>
  PROVE  QueueInvariant'
<1> DEFINE p == RemovalIn(buffer, c)
<1>1. HasPatchShape(buffer)
  BY DEF QueueInvariant, BufferIsMirrored
<1>2. HasPatchShape(p) /\ PatchKeys(buffer) \subseteq PatchKeys(p) \union BufferedText(buffer, c)
  BY <1>1, RemovalKeepsTheRest
<1> HIDE DEF p
<1>3. PatchKeys(buffer) \subseteq PatchKeys(p) \union withdrawn' \union overtyped'
  BY <1>2
<1> QED BY <1>2, <1>3, QueuedKeeps DEF p

LEMMA RemovalKeeps ==
  ASSUME QueueInvariant, RemovalLapses \/ \E c \in Ids : ConfirmRemoval(c)
  PROVE  QueueInvariant'
<1>1. CASE RemovalLapses
  <2>1. PICK c \in staged : /\ Queued(RemovalIn(buffer, c))
                            /\ withdrawn' = withdrawn \union BufferedText(buffer, c)
    BY <1>1 DEF RemovalLapses
  <2>2. UNCHANGED <<typed, landed, overtyped, crashed, left>>
    BY <1>1 DEF RemovalLapses
  <2>3. KeystrokesCounted'
    BY <2>2 DEF KeystrokesCounted, QueueInvariant
  <2> QED BY <2>1, <2>2, <2>3, RemovalIsQueued
<1>2. ASSUME NEW c \in Ids, ConfirmRemoval(c)
      PROVE  QueueInvariant'
  <2>1. Spend("remove") /\ Staging(c) /\ UNCHANGED <<typed, landed, overtyped, crashed>>
    BY <1>2 DEF ConfirmRemoval
  <2>2. KeystrokesCounted'
    BY <2>1, SpendKeepsTheCount DEF QueueInvariant, Acts, UserActs
  <2>3. CASE staged = {}
    BY <2>1, <2>2, <2>3, RestKeeps DEF Staging, queue
  <2>4. CASE staged # {}
    <3>1. PICK first : /\ Queued(RemovalIn(buffer, first))
                       /\ withdrawn' = withdrawn \union BufferedText(buffer, first)
      BY <2>1, <2>4 DEF Staging
    <3> QED BY <2>1, <2>2, <3>1, RemovalIsQueued
  <2> QED BY <2>3, <2>4
<1> QED BY <1>1, <1>2

LEMMA MoveLineKeeps ==
  ASSUME QueueInvariant, NEW i, MoveLine(i)
  PROVE  QueueInvariant'
<1>1. PICK order : Queued(OrderIn(buffer, order))
  BY DEF MoveLine
<1>2. Spend("move") /\ UNCHANGED <<typed, landed, withdrawn, overtyped, crashed>>
  BY DEF MoveLine, promises
<1>3. KeystrokesCounted'
  BY <1>2, SpendKeepsTheCount DEF QueueInvariant, Acts, UserActs
<1>4. HasPatchShape(buffer)
  BY DEF QueueInvariant, BufferIsMirrored
<1>5. HasPatchShape(OrderIn(buffer, order)) /\ PatchKeys(OrderIn(buffer, order)) = PatchKeys(buffer)
  BY <1>4, OrderKeepsAll
<1> QED BY <1>1, <1>2, <1>3, <1>5, QueuedKeeps

\* Undo and redo.
LEMMA StepKeeps ==
  ASSUME QueueInvariant, NEW target, NEW newPast, NEW newFuture, KeystrokesCounted',
         Step(target, newPast, newFuture)
  PROVE  QueueInvariant'
<1> DEFINE p == Restoring(buffer, target)
           out == UNION {BufferedText(buffer, c) \ TextOf(target, c) : c \in Differing(target)}
<1>1. UNCHANGED <<typed, landed, overtyped, crashed>> /\ withdrawn' = withdrawn \union out
  BY DEF Step
<1>2. CASE UNCHANGED queue
  BY <1>1, <1>2, RestKeeps DEF queue
<1>3. CASE Queued(p)
  <2>1. HasPatchShape(buffer)
    BY DEF QueueInvariant, BufferIsMirrored
  <2>2. HasPatchShape(p) /\ PatchKeys(buffer) \subseteq PatchKeys(p) \union out
    BY <2>1, RestoringKeepsTheRest
  <2> HIDE DEF p, out
  <2>3. PatchKeys(buffer) \subseteq PatchKeys(p) \union withdrawn' \union overtyped'
    BY <1>1, <2>2
  <2> QED BY <1>1, <1>3, <2>2, <2>3, QueuedKeeps
<1> QED BY <1>2, <1>3 DEF Step

LEMMA UndoRedoKeeps == ASSUME QueueInvariant, Undo \/ Redo PROVE QueueInvariant'
<1>1. CASE Undo
  <2>1. KeystrokesCounted'
    <3>1. Spend("undo") /\ typed' = typed
      BY <1>1 DEF Undo, Step
    <3> QED BY <3>1, SpendKeepsTheCount DEF QueueInvariant, Acts, UserActs
  <2> QED BY <1>1, <2>1, StepKeeps DEF Undo
<1>2. CASE Redo
  <2>1. KeystrokesCounted'
    <3>1. left' = [left EXCEPT !["redo"] = @ - 1] /\ left["redo"] > 0 /\ typed' = typed
      BY <1>2 DEF Redo, Step
    <3> QED BY <3>1 DEF QueueInvariant, KeystrokesCounted, Acts, UserActs
  <2> QED BY <1>2, <2>1, StepKeeps DEF Redo
<1> QED BY <1>1, <1>2

LEMMA SendingKeeps ==
  ASSUME QueueInvariant, Fire \/ Flush
  PROVE  QueueInvariant'
<1>1. UNCHANGED <<typed, landed, withdrawn, overtyped, crashed, left, mirrored>>
  BY DEF Fire, Flush, promises
<1>2. KeystrokesCounted'
  BY <1>1 DEF KeystrokesCounted, QueueInvariant
<1>3. CASE UNCHANGED <<buffer, flight>>
  BY <1>1, <1>2, <1>3, RestKeeps
<1>4. CASE flight.stage = "none" /\ Sent(buffer, token)
  <2>1. typed \subseteq landed' \union PatchKeys(buffer) \union withdrawn'
                        \union overtyped' \union crashed'
    BY <1>1, <1>4 DEF QueueInvariant, NothingDropped, InFlight, Outstanding
  <2> QED BY <1>1, <1>4, <2>1, SentKeeps DEF Sent
<1> QED BY <1>3, <1>4 DEF Fire, Flush

\* The request is answered, and nothing of it is lost on the way.
LEMMA AnswerKeeps ==
  ASSUME QueueInvariant, ServerAnswers \/ RequestLost \/ AnswerLost
  PROVE  QueueInvariant'
<1> DEFINE p == flight.patch
<1>1. UNCHANGED <<buffer, mirrored, typed, withdrawn, overtyped, crashed>>
  BY DEF ServerAnswers, RequestLost, AnswerLost, promises
<1>2. KeystrokesCounted'
  <2>1. CASE ServerAnswers
    BY <2>1 DEF ServerAnswers, KeystrokesCounted, QueueInvariant
  <2>2. CASE RequestLost \/ AnswerLost
    <3>1. \E act \in {"fail", "lostAnswer"} : Spend(act)
      BY <2>2 DEF RequestLost, AnswerLost
    <3> QED BY <1>1, <3>1, SpendKeepsTheCount DEF QueueInvariant, Acts, Faults
  <2> QED BY <2>1, <2>2
<1>3. Outstanding /\ Outstanding' /\ flight'.patch = p /\ HasPatchShape(p) /\ landed \subseteq landed'
  <2>1. CASE ServerAnswers
    BY <2>1 DEF ServerAnswers, Outstanding, QueueInvariant, FlightIsTracked
  <2>2. CASE RequestLost
    BY <2>2 DEF RequestLost, Outstanding, QueueInvariant, FlightIsTracked, promises
  <2>3. CASE AnswerLost
    BY <2>3 DEF AnswerLost, Outstanding, QueueInvariant, FlightIsTracked, promises
  <2> QED BY <2>1, <2>2, <2>3
<1>4. FlightIsTracked'
  <2>1. flight'.stage = "answered"
    BY DEF ServerAnswers, RequestLost, AnswerLost, QueueInvariant, FlightIsTracked, Outstanding
  <2>2. flight' = [stage |-> "answered", patch |-> flight'.patch, base |-> flight'.base,
                   answer |-> flight'.answer, etag |-> flight'.etag]
    BY DEF ServerAnswers, RequestLost, AnswerLost, QueueInvariant, FlightIsTracked
  <2>3. flight'.answer = "saved" => PatchKeys(p) \cap Own \subseteq landed'
    BY DEF ServerAnswers, RequestLost, AnswerLost, QueueInvariant, FlightIsTracked
  <2> QED BY <1>3, <2>1, <2>2, <2>3 DEF FlightIsTracked
<1>5. InFlight' = InFlight
  BY <1>3 DEF InFlight
<1>6. NothingDropped' /\ BufferIsMirrored'
  BY <1>1, <1>3, <1>5 DEF NothingDropped, BufferIsMirrored, QueueInvariant
<1> QED BY <1>2, <1>4, <1>6 DEF QueueInvariant

LEMMA SaveSucceedsKeeps == ASSUME QueueInvariant, SaveSucceeds PROVE QueueInvariant'
<1>1. /\ UNCHANGED <<typed, landed, withdrawn, overtyped, crashed, left>>
      /\ mirrored' = buffer /\ SentAfter("saved", buffer, ReturnedToken)
  BY DEF SaveSucceeds, FollowUp, promises
<1>2. InFlight \cap Own \subseteq landed /\ typed \subseteq Own
  BY DEF SaveSucceeds, QueueInvariant, FlightIsTracked, InFlight, Outstanding, KeystrokesCounted
<1>3. typed \subseteq landed' \union PatchKeys(buffer) \union withdrawn'
                      \union overtyped' \union crashed'
  BY <1>1, <1>2 DEF QueueInvariant, NothingDropped
<1> QED BY <1>1, <1>3, SentKeeps

LEMMA RejectionKeeps ==
  ASSUME QueueInvariant, SaveFails \/ SaveConflicts
  PROVE  QueueInvariant'
<1> DEFINE over == UNION {flight.patch.edits[c] :
                             c \in DOMAIN flight.patch.edits \cap DOMAIN buffer.edits}
           p == Restored(buffer, flight.patch)
<1>1. /\ UNCHANGED <<typed, landed, overtyped, crashed, left>>
      /\ buffer' = p /\ mirrored' = p /\ withdrawn' = withdrawn \union over
      /\ flight'.stage \in {"none", "comparing"}
  BY DEF SaveFails, SaveConflicts, Rejected, NoFlight
<1>2. flight.stage = "answered"
  BY DEF SaveFails, SaveConflicts
<1>3. HasPatchShape(buffer) /\ HasPatchShape(flight.patch)
  BY <1>2 DEF QueueInvariant, BufferIsMirrored, FlightIsTracked, Outstanding
<1>4. /\ HasPatchShape(p)
      /\ PatchKeys(buffer) \union PatchKeys(flight.patch) \subseteq PatchKeys(p) \union over
  BY <1>3, RestoredKeepsTheRest
<1> HIDE DEF p, over
<1>5. InFlight = PatchKeys(flight.patch)
  BY <1>2 DEF InFlight, Outstanding
<1>6. NothingDropped'
  BY <1>1, <1>4, <1>5 DEF QueueInvariant, NothingDropped
<1>7. BufferIsMirrored' /\ FlightIsTracked'
  BY <1>1, <1>4 DEF BufferIsMirrored, FlightIsTracked, Outstanding
<1>8. KeystrokesCounted'
  BY <1>1 DEF KeystrokesCounted, QueueInvariant
<1> QED BY <1>6, <1>7, <1>8 DEF QueueInvariant

\* A step that leaves the buffer and takes no request off its way.
LEMMA IdleFlightKeeps ==
  ASSUME QueueInvariant, ~Outstanding, flight'.stage \in {"none", "comparing"},
         buffer' = buffer, UNCHANGED <<mirrored, typed, landed, withdrawn, overtyped, crashed>>,
         KeystrokesCounted'
  PROVE  QueueInvariant'
<1>1. InFlight = {}
  BY DEF InFlight
<1>2. NothingDropped' /\ BufferIsMirrored' /\ FlightIsTracked'
  BY <1>1 DEF NothingDropped, BufferIsMirrored, FlightIsTracked, QueueInvariant, Outstanding
<1> QED BY <1>2 DEF QueueInvariant

LEMMA ReadArrivesKeeps == ASSUME QueueInvariant, ReadArrives PROVE QueueInvariant'
<1> DEFINE now == fetch.lines
<1>1. UNCHANGED <<mirrored, typed, landed, withdrawn, overtyped, crashed, left>>
  BY DEF ReadArrives
<1>2. KeystrokesCounted'
  BY <1>1 DEF KeystrokesCounted, QueueInvariant
<1>3. \/ Reapplied(now)
      \/ flight.stage = "comparing" /\ flight' = NoFlight /\ buffer' = buffer
      \/ UNCHANGED <<flight, buffer>>
  BY DEF ReadArrives
<1>4. CASE UNCHANGED <<flight, buffer>>
  BY <1>1, <1>2, <1>4, RestKeeps
<1>5. CASE flight.stage = "comparing" /\ flight' = NoFlight /\ buffer' = buffer
  BY <1>1, <1>2, <1>5, IdleFlightKeeps DEF Outstanding, NoFlight
<1>6. CASE ~Outstanding /\ \E before : SentAfter(before, buffer, now)
  <2>1. typed \subseteq landed' \union PatchKeys(buffer) \union withdrawn'
                        \union overtyped' \union crashed'
    BY <1>1, <1>6 DEF QueueInvariant, NothingDropped, InFlight
  <2> QED BY <1>1, <1>6, <2>1, SentKeeps
<1>7. CASE /\ ~Outstanding /\ buffer # NoPatch /\ buffer' = NoPatch
           /\ flight' = [stage |-> "sent", patch |-> buffer, base |-> now]
  <2>1. HasPatchShape(buffer) /\ typed \subseteq Own
    BY DEF QueueInvariant, BufferIsMirrored, KeystrokesCounted
  <2>2. InFlight' = PatchKeys(buffer) /\ InFlight = {}
    BY <1>7 DEF InFlight, Outstanding
  <2>3. NothingDropped'
    BY <1>1, <2>2 DEF QueueInvariant, NothingDropped
  <2>4. BufferIsMirrored' /\ FlightIsTracked'
    BY <1>1, <1>7, <2>1, NoPatchHasNoKeys
    DEF QueueInvariant, BufferIsMirrored, FlightIsTracked, Outstanding
  <2> QED BY <1>2, <2>3, <2>4 DEF QueueInvariant
<1>8. Reapplied(now) => \/ UNCHANGED <<flight, buffer>>
                        \/ ~Outstanding /\ \E before : SentAfter(before, buffer, now)
                        \/ /\ ~Outstanding /\ buffer # NoPatch /\ buffer' = NoPatch
                           /\ flight' = [stage |-> "sent", patch |-> buffer, base |-> now]
  BY DEF Reapplied
<1> QED BY <1>3, <1>4, <1>5, <1>6, <1>7, <1>8

LEMMA ReadFailsKeeps == ASSUME QueueInvariant, ReadFails PROVE QueueInvariant'
<1>1. /\ Spend("fail")
      /\ UNCHANGED <<mirrored, buffer, typed, landed, withdrawn, overtyped, crashed>>
  BY DEF ReadFails, promises
<1>2. KeystrokesCounted'
  BY <1>1, SpendKeepsTheCount DEF QueueInvariant, Acts, Faults
<1>3. \/ flight' = flight
      \/ flight.stage = "comparing" /\ flight' = NoFlight
  BY DEF ReadFails
<1> QED BY <1>1, <1>2, <1>3, RestKeeps, IdleFlightKeeps DEF Outstanding, NoFlight

\* The user takes back all that waits.
LEMMA DiscardKeeps == ASSUME QueueInvariant, DiscardLocal PROVE QueueInvariant'
<1>1. /\ buffer' = NoPatch /\ mirrored' = NoPatch /\ flight' = flight
      /\ withdrawn' = withdrawn \union PatchKeys(buffer)
      /\ UNCHANGED <<typed, landed, overtyped, crashed, left>>
  BY DEF DiscardLocal
<1>2. InFlight' = InFlight
  BY <1>1 DEF InFlight, Outstanding
<1>3. NothingDropped' /\ KeystrokesCounted'
  BY <1>1, <1>2 DEF NothingDropped, KeystrokesCounted, QueueInvariant
<1>4. BufferIsMirrored' /\ FlightIsTracked'
  BY <1>1, NoPatchHasNoKeys DEF BufferIsMirrored, FlightIsTracked, QueueInvariant, Outstanding
<1> QED BY <1>3, <1>4 DEF QueueInvariant

\* The page comes back with the stored copy, which holds what the buffer held.
LEMMA ReloadKeeps == ASSUME QueueInvariant, Reload PROVE QueueInvariant'
<1>1. /\ buffer' = mirrored /\ mirrored' = mirrored /\ flight' = NoFlight
      /\ crashed' = crashed \union (InFlight \ PatchKeys(mirrored))
      /\ Spend("reload") /\ UNCHANGED <<typed, landed, withdrawn, overtyped>>
  BY DEF Reload
<1>2. KeystrokesCounted'
  BY <1>1, SpendKeepsTheCount DEF QueueInvariant, Acts, Faults
<1>3. PatchKeys(buffer) \subseteq PatchKeys(mirrored)
  BY NoPatchHasNoKeys DEF QueueInvariant, BufferIsMirrored
<1>4. NothingDropped'
  BY <1>1, <1>3 DEF QueueInvariant, NothingDropped
<1>5. BufferIsMirrored' /\ FlightIsTracked'
  BY <1>1 DEF BufferIsMirrored, FlightIsTracked, QueueInvariant, NoFlight, Outstanding
<1> QED BY <1>2, <1>4, <1>5 DEF QueueInvariant

\* What touches neither the queue nor what was promised.
LEMMA OthersKeep ==
  ASSUME QueueInvariant,
         CancelRemoval \/ ReapplyLocal \/ ServerReads \/ Refresh \/ (\E c \in Ids : OtherWrites(c))
  PROVE  QueueInvariant'
<1>1. UNCHANGED <<buffer, mirrored, flight, typed, landed, withdrawn, overtyped, crashed>>
  BY DEF CancelRemoval, ReapplyLocal, ServerReads, Refresh, OtherWrites, queue, promises
<1>2. KeystrokesCounted'
  <2>1. CASE CancelRemoval \/ ReapplyLocal \/ ServerReads
    BY <2>1 DEF CancelRemoval, ReapplyLocal, ServerReads, KeystrokesCounted, QueueInvariant, promises
  <2>2. CASE Refresh \/ \E c \in Ids : OtherWrites(c)
    <3>1. \E act \in {"refresh", "foreign"} : Spend(act)
      BY <2>2 DEF Refresh, OtherWrites
    <3> QED BY <1>1, <3>1, SpendKeepsTheCount DEF QueueInvariant, Acts, Faults
  <2> QED BY <2>1, <2>2
<1> QED BY <1>1, <1>2, RestKeeps

-----------------------------------------------------------------------------
(* The theorems *)

LEMMA NextKeeps == ASSUME QueueInvariant, [Next]_vars PROVE QueueInvariant'
<1>1. CASE User
  BY <1>1, TypeInKeeps, AddLineKeeps, RemovalKeeps, MoveLineKeeps, UndoRedoKeeps, SendingKeeps,
     DiscardKeeps, OthersKeep DEF User
<1>2. CASE Page
  BY <1>2, RemovalKeeps, SendingKeeps, SaveSucceedsKeeps, RejectionKeeps, ReadArrivesKeeps DEF Page
<1>3. CASE Server
  BY <1>3, AnswerKeeps, OthersKeep DEF Server
<1>4. CASE Surroundings
  BY <1>4, AnswerKeeps, ReadFailsKeeps, OthersKeep, ReloadKeeps DEF Surroundings
<1>5. CASE UNCHANGED vars
  <2>1. UNCHANGED <<buffer, mirrored, flight, typed, landed, withdrawn, overtyped, crashed, left>>
    BY <1>5 DEF vars, queue, promises
  <2>2. KeystrokesCounted'
    BY <2>1 DEF KeystrokesCounted, QueueInvariant
  <2> QED BY <2>1, <2>2, RestKeeps
<1> QED BY <1>1, <1>2, <1>3, <1>4, <1>5 DEF Next

\* The buffer, its stored copy, the request and the keystrokes stay accounted for (send and the
\* put-back of a rejected patch, useDraftAutosave.ts).
THEOREM QueueIsSound == Spec => []QueueInvariant
<1>1. QueueInvariant /\ [Next]_vars => QueueInvariant'
  BY NextKeeps
<1> QED BY <1>1, InitQueue, PTL DEF Spec

\* No keystroke is dropped by the queue: it is saved, waiting, on its way, or was taken back
\* by the user, in every order of edits, answers, failures, conflicts and reloads.
THEOREM NoKeystrokeDropped == Spec => []NothingDropped
<1>1. QueueInvariant => NothingDropped
  BY DEF QueueInvariant
<1> QED BY <1>1, QueueIsSound, PTL
-----------------------------------------------------------------------------
(* Sequences by recursion *)

\* A set of naturals has a least one.
LEMMA Least ==
  ASSUME NEW T \in SUBSET Nat, T # {}
  PROVE  \E n \in T : \A m \in T : n <= m
<1>1. \E x \in T : \A y \in T : ~ (<<y, x>> \in OpToRel(<, Nat))
  BY NatLessThanWellFounded, WFMin
<1>2. \A x, y \in T : ~ (<<y, x>> \in OpToRel(<, Nat)) => x <= y
  BY DEF OpToRel
<1> QED BY <1>1, <1>2

\* A set of naturals with 0 and each successor is all of them.
LEMMA Counting ==
  ASSUME NEW T \in SUBSET Nat, 0 \in T, \A n \in T : n + 1 \in T
  PROVE  T = Nat
<1> SUFFICES ASSUME Nat \ T # {} PROVE FALSE
  OBVIOUS
<1>1. PICK n \in Nat \ T : \A m \in Nat \ T : n <= m
  <2>1. Nat \ T \in SUBSET Nat
    OBVIOUS
  <2> QED BY <2>1, Least
<1>2. n - 1 \in Nat /\ n - 1 \in T
  BY <1>1
<1> QED BY <1>1, <1>2

\* The defining equation of Kept's function, up to a place n.
Keeps(f, s, places, n) ==
  f = [i \in 0 .. n |-> IF i = 0 THEN <<>>
                        ELSE IF i \in places THEN Append(f[i - 1], s[i]) ELSE f[i - 1]]

LEMMA KeepsExists ==
  ASSUME NEW s, NEW places, NEW n \in Nat
  PROVE  \E f : Keeps(f, s, places, n)
<1> DEFINE T == {m \in Nat : \E f : Keeps(f, s, places, m)}
<1>1. 0 \in T
  <2> DEFINE f == [i \in 0 .. 0 |-> <<>>]
  <2>1. Keeps(f, s, places, 0)
    BY DEF Keeps
  <2> QED BY <2>1
<1>2. ASSUME NEW m \in T PROVE m + 1 \in T
  <2>1. PICK f : Keeps(f, s, places, m)
    OBVIOUS
  <2> DEFINE more == IF m + 1 \in places THEN Append(f[m], s[m + 1]) ELSE f[m]
             g == [i \in 0 .. m + 1 |-> IF i <= m THEN f[i] ELSE more]
  <2>2. \A i \in 0 .. m : f[i] = IF i = 0 THEN <<>>
                        ELSE IF i \in places THEN Append(f[i - 1], s[i]) ELSE f[i - 1]
    BY <2>1 DEF Keeps
  <2>3. ASSUME NEW i \in 0 .. m + 1
        PROVE  g[i] = IF i = 0 THEN <<>>
                      ELSE IF i \in places THEN Append(g[i - 1], s[i]) ELSE g[i - 1]
    <3>1. CASE i = m + 1
      <4>1. i # 0 /\ g[i] = more /\ g[i - 1] = f[m] /\ i - 1 = m
        BY <3>1
      <4> QED BY <3>1, <4>1
    <3>2. CASE i \in 0 .. m
      <4>1. g[i] = f[i] /\ (i # 0 => g[i - 1] = f[i - 1])
        BY <3>2
      <4> HIDE DEF g
      <4> QED BY <2>2, <3>2, <4>1
    <3> QED BY <3>1, <3>2
  <2>4. g = [i \in 0 .. m + 1 |-> g[i]]
    OBVIOUS
  <2> HIDE DEF g
  <2>5. Keeps(g, s, places, m + 1)
    BY <2>3, <2>4 DEF Keeps
  <2> QED BY <2>5
<1>3. T = Nat
  <2> HIDE DEF T
  <2>1. T \in SUBSET Nat
    BY DEF T
  <2> QED BY <1>1, <1>2, <2>1, Counting
<1> QED BY <1>3

\* Kept gives a sequence of just the elements at the places.
LEMMA KeptElements ==
  ASSUME NEW S, NEW s \in Seq(S), NEW places
  PROVE  /\ Kept(s, places) \in Seq(S)
         /\ ToSet(Kept(s, places)) = {s[i] : i \in places \cap DOMAIN s}
<1> DEFINE f == CHOOSE g : g = [i \in 0 .. Len(s) |-> IF i = 0 THEN <<>>
                  ELSE IF i \in places THEN Append(g[i - 1], s[i]) ELSE g[i - 1]]
<1>1. Kept(s, places) = f[Len(s)]
  BY DEF Kept
<1>2. Keeps(f, s, places, Len(s))
  <2>1. \E g : Keeps(g, s, places, Len(s))
    BY KeepsExists, LenProperties
  <2> QED BY <2>1 DEF Keeps
<1> HIDE DEF f
<1>3. \A i \in 0 .. Len(s) : f[i] = IF i = 0 THEN <<>>
                        ELSE IF i \in places THEN Append(f[i - 1], s[i]) ELSE f[i - 1]
  BY <1>2 DEF Keeps
<1> DEFINE Good(i) == f[i] \in Seq(S) /\ ToSet(f[i]) = {s[j] : j \in places \cap (1 .. i)}
           T == {i \in Nat : i <= Len(s) => Good(i)}
<1>4. Len(s) \in Nat /\ DOMAIN s = 1 .. Len(s)
  BY LenProperties
<1>5. 0 \in T
  <2>1. f[0] = <<>>
    BY <1>3, <1>4
  <2>2. <<>> \in Seq(S) /\ ToSet(<<>>) = {}
    BY DEF ToSet
  <2>3. {s[j] : j \in places \cap (1 .. 0)} = {}
    OBVIOUS
  <2> QED BY <2>1, <2>2, <2>3
<1>6. ASSUME NEW i \in T PROVE i + 1 \in T
  <2> SUFFICES ASSUME i + 1 <= Len(s) PROVE Good(i + 1)
    OBVIOUS
  <2>1. i \in Nat /\ i + 1 \in 0 .. Len(s) /\ i + 1 \in 1 .. Len(s) /\ i + 1 # 0 /\ (i + 1) - 1 = i
    BY <1>4
  <2>2. f[i] \in Seq(S) /\ ToSet(f[i]) = {s[j] : j \in places \cap (1 .. i)}
    BY <1>4, <2>1
  <2>3. f[i + 1] = IF i + 1 \in places THEN Append(f[i], s[i + 1]) ELSE f[i]
    BY <1>3, <2>1
  <2>4. s[i + 1] \in S
    BY <2>1, ElementOfSeq
  <2>5. 1 .. i + 1 = (1 .. i) \union {i + 1}
    BY <2>1
  <2>6. CASE i + 1 \in places
    <3>1. /\ Append(f[i], s[i + 1]) \in Seq(S)
          /\ ToSet(Append(f[i], s[i + 1])) = ToSet(f[i]) \union {s[i + 1]}
      <4> DEFINE t == f[i]
                 x == s[i + 1]
      <4>1. t \in Seq(S) /\ x \in S
        BY <2>2, <2>4
      <4> HIDE DEF t, x
      <4>2. /\ Append(t, x) \in Seq(S) /\ Len(Append(t, x)) = Len(t) + 1
            /\ \A j \in 1 .. Len(t) : Append(t, x)[j] = t[j]
            /\ Append(t, x)[Len(t) + 1] = x
        BY <4>1, AppendProperties
      <4>3. /\ DOMAIN t = 1 .. Len(t) /\ Len(t) \in Nat
            /\ DOMAIN Append(t, x) = 1 .. Len(t) + 1
        BY <4>1, <4>2, LenProperties
      <4>4. ToSet(Append(t, x)) = ToSet(t) \union {x}
        BY <4>2, <4>3 DEF ToSet
      <4> QED BY <4>2, <4>4 DEF t, x
    <3> QED BY <2>2, <2>3, <2>5, <2>6, <3>1
  <2>7. CASE i + 1 \notin places
    BY <2>2, <2>3, <2>5, <2>7
  <2> QED BY <2>6, <2>7
<1>7. T = Nat
  <2> HIDE DEF T
  <2>1. T \in SUBSET Nat
    BY DEF T
  <2> QED BY <1>5, <1>6, <2>1, Counting
<1>8. Good(Len(s))
  <2> HIDE DEF Good
  <2> QED BY <1>4, <1>7
<1>9. f[Len(s)] \in Seq(S) /\ ToSet(f[Len(s)]) = {s[j] : j \in places \cap (1 .. Len(s))}
  BY <1>8
<1> HIDE DEF Good, T
<1> QED BY <1>1, <1>4, <1>9
-----------------------------------------------------------------------------
(* Sequences and documents *)

LEMMA SequencesHaveLengths ==
  ASSUME NEW s, IsSequence(s)
  PROVE  /\ Len(s) \in Nat /\ DOMAIN s = 1 .. Len(s)
         /\ s \in Seq({s[i] : i \in DOMAIN s}) /\ s = [i \in 1 .. Len(s) |-> s[i]]
<1> DEFINE S == {s[i] : i \in DOMAIN s}
<1>1. s \in Seq(S)
  BY DEF IsSequence
<1> HIDE DEF S
<1>2. Len(s) \in Nat /\ s \in [1 .. Len(s) -> S] /\ DOMAIN s = 1 .. Len(s)
  BY <1>1, LenProperties
<1> QED BY <1>1, <1>2 DEF S

LEMMA SequencesAreFunctions ==
  ASSUME NEW n \in Nat, NEW s, s = [i \in 1 .. n |-> s[i]]
  PROVE  IsSequence(s) /\ Len(s) = n /\ DOMAIN s = 1 .. n
<1> DEFINE S == {s[i] : i \in 1 .. n}
<1>1. DOMAIN s = 1 .. n
  OBVIOUS
<1>2. s \in Seq(S)
  <2>1. s \in [1 .. n -> S]
    OBVIOUS
  <2> HIDE DEF S
  <2> QED BY <2>1
<1>3. IsSequence(s)
  BY <1>1, <1>2 DEF IsSequence
<1>4. Len(s) \in Nat /\ DOMAIN s = 1 .. Len(s)
  BY <1>3, SequencesHaveLengths
<1>5. Len(s) = n
  BY <1>1, <1>4
<1> QED BY <1>1, <1>3, <1>5

LEMMA SeqsAreSequences ==
  ASSUME NEW S, NEW s \in Seq(S)
  PROVE  IsSequence(s)
<1>1. Len(s) \in Nat /\ s \in [1 .. Len(s) -> S]
  BY LenProperties
<1> QED BY <1>1, SequencesAreFunctions

\* A keystroke of a document is in a line of it.
LEMMA KeysOfLines ==
  ASSUME NEW d, NEW k
  PROVE  k \in KeysOf(d) <=> \E i \in DOMAIN d : k \in d[i].text
  BY DEF KeysOf

LEMMA TextOfALine ==
  ASSUME NEW d, NEW c \in IdsOf(d)
  PROVE  TextOf(d, c) \subseteq KeysOf(d)
<1>1. \E i \in DOMAIN d : d[i].id = c
  BY DEF IdsOf
<1>2. (CHOOSE i \in DOMAIN d : d[i].id = c) \in DOMAIN d
  BY <1>1
<1> QED BY <1>2 DEF TextOf, KeysOf

\* A document built line by line.
LEMMA LinesMakeADocument ==
  ASSUME NEW n \in Nat, NEW d, d = [i \in 1 .. n |-> [id |-> d[i].id, text |-> d[i].text]]
  PROVE  HasLines(d) /\ DOMAIN d = 1 .. n
<1>1. \A i \in 1 .. n : d[i] = [id |-> d[i].id, text |-> d[i].text]
  OBVIOUS
<1>2. d = [i \in 1 .. n |-> d[i]]
  OBVIOUS
<1>3. IsSequence(d) /\ DOMAIN d = 1 .. n
  BY <1>2, SequencesAreFunctions
<1> QED BY <1>1, <1>3 DEF HasLines

LEMMA DocumentsAreLines ==
  ASSUME NEW d, HasLines(d)
  PROVE  /\ Len(d) \in Nat /\ DOMAIN d = 1 .. Len(d)
         /\ d = [i \in 1 .. Len(d) |-> d[i]]
         /\ \A i \in 1 .. Len(d) : d[i] = [id |-> d[i].id, text |-> d[i].text]
  BY SequencesHaveLengths DEF HasLines

LEMMA LineFields ==
  ASSUME NEW n, NEW e, NEW ids, NEW texts,
         \A i \in 1 .. n : e[i] = [id |-> ids[i], text |-> texts[i]]
  PROVE  \A i \in 1 .. n : /\ e[i].id = ids[i] /\ e[i].text = texts[i]
                           /\ e[i] = [id |-> e[i].id, text |-> e[i].text]
<1> TAKE i \in 1 .. n
<1> DEFINE line == e[i]
           id == ids[i]
           text == texts[i]
<1>1. line = [id |-> id, text |-> text]
  OBVIOUS
<1> HIDE DEF line, id, text
<1>2. line.id = id /\ line.text = text
  BY <1>1
<1>3. line = [id |-> line.id, text |-> line.text]
  BY <1>1, <1>2
<1> QED BY <1>2, <1>3 DEF line, id, text

LEMMA EditedLines ==
  ASSUME NEW d, HasLines(d), NEW p
  PROVE  /\ HasLines(Edited(d, p)) /\ IdsOf(Edited(d, p)) = IdsOf(d)
         /\ \A k \in KeysOf(Edited(d, p)) :
               k \in KeysOf(d) \/ \E c \in DOMAIN p.edits : k \in p.edits[c]
<1> DEFINE e == Edited(d, p)
           n == Len(d)
<1>1. /\ n \in Nat /\ DOMAIN d = 1 .. n
      /\ \A i \in 1 .. n : d[i] = [id |-> d[i].id, text |-> d[i].text]
  BY DocumentsAreLines
<1>2. e = [i \in 1 .. n |-> IF d[i].id \in DOMAIN p.edits
                             THEN [d[i] EXCEPT !.text = p.edits[d[i].id]] ELSE d[i]]
  BY <1>1 DEF Edited
<1> HIDE DEF e, n
<1>3. ASSUME NEW i \in 1 .. n
      PROVE  e[i] = [id |-> d[i].id,
                     text |-> IF d[i].id \in DOMAIN p.edits THEN p.edits[d[i].id] ELSE d[i].text]
  <2> DEFINE line == d[i]
  <2>1. line = [id |-> line.id, text |-> line.text]
    BY <1>1
  <2>2. e[i] = IF line.id \in DOMAIN p.edits
               THEN [line EXCEPT !.text = p.edits[line.id]] ELSE line
    BY <1>2
  <2> HIDE DEF line
  <2>3. [line EXCEPT !.text = p.edits[line.id]] = [id |-> line.id, text |-> p.edits[line.id]]
    BY <2>1
  <2> QED BY <2>1, <2>2, <2>3 DEF line
<1> DEFINE ids == [i \in 1 .. n |-> d[i].id]
           texts == [i \in 1 .. n |-> IF d[i].id \in DOMAIN p.edits THEN p.edits[d[i].id]
                                      ELSE d[i].text]
<1>4. \A i \in 1 .. n : /\ e[i].id = ids[i] /\ e[i].text = texts[i]
                         /\ e[i] = [id |-> e[i].id, text |-> e[i].text]
  <2>1. \A i \in 1 .. n : e[i] = [id |-> ids[i], text |-> texts[i]]
    BY <1>3
  <2> HIDE DEF ids, texts
  <2> QED BY <2>1, LineFields
<1>5. e = [i \in 1 .. n |-> [id |-> e[i].id, text |-> e[i].text]]
  BY <1>2, <1>4
<1>6. HasLines(e) /\ DOMAIN e = 1 .. n
  BY <1>1, <1>5, LinesMakeADocument
<1>7. IdsOf(e) = IdsOf(d)
  <2>1. \A i \in 1 .. n : e[i].id = d[i].id
    BY <1>4
  <2> QED BY <1>1, <1>6, <2>1 DEF IdsOf
<1>8. ASSUME NEW k \in KeysOf(e)
      PROVE  k \in KeysOf(d) \/ \E c \in DOMAIN p.edits : k \in p.edits[c]
  <2>1. PICK i \in 1 .. n : k \in e[i].text
    BY <1>6, <1>8, KeysOfLines
  <2>2. e[i].text = IF d[i].id \in DOMAIN p.edits THEN p.edits[d[i].id] ELSE d[i].text
    BY <1>4
  <2> QED BY <1>1, <2>1, <2>2, KeysOfLines
<1> QED BY <1>6, <1>7, <1>8 DEF e

LEMMA RemainingLines ==
  ASSUME NEW d, HasLines(d), NEW p
  PROVE  /\ HasLines(Remaining(d, p))
         /\ IdsOf(Remaining(d, p)) = IdsOf(d) \ p.removals
         /\ KeysOf(Remaining(d, p)) \subseteq KeysOf(d)
<1> DEFINE S == {d[i] : i \in DOMAIN d}
           places == {i \in DOMAIN d : d[i].id \notin p.removals}
           r == Remaining(d, p)
<1>1. d \in Seq(S)
  BY DEF HasLines, IsSequence
<1>2. r = Kept(d, places)
  BY DEF Remaining
<1>3. r \in Seq(S) /\ ToSet(r) = {d[i] : i \in places}
  <2>1. places \cap DOMAIN d = places
    OBVIOUS
  <2> HIDE DEF S, places, r
  <2> QED BY <1>1, <1>2, <2>1, KeptElements
<1>4. \A line \in S : line = [id |-> line.id, text |-> line.text]
  BY DEF HasLines
<1> HIDE DEF r
<1>5. ToSet(r) = {r[j] : j \in DOMAIN r}
  BY DEF ToSet
<1>6. IsSequence(r)
  <2> HIDE DEF S
  <2> QED BY <1>3, SeqsAreSequences
<1>7. \A j \in DOMAIN r : \E i \in places : r[j] = d[i]
  BY <1>3, <1>5
<1>8. \A i \in places : \E j \in DOMAIN r : r[j] = d[i]
  BY <1>3, <1>5
<1>9. HasLines(r)
  BY <1>4, <1>6, <1>7 DEF HasLines
<1>10. IdsOf(r) = IdsOf(d) \ p.removals
  BY <1>7, <1>8 DEF IdsOf
<1>11. KeysOf(r) \subseteq KeysOf(d)
  BY <1>7, KeysOfLines
<1> QED BY <1>9, <1>10, <1>11 DEF r

LEMMA ExtendedLines ==
  ASSUME NEW d, HasLines(d), NEW p, HasPatchShape(p)
  PROVE  /\ HasLines(Extended(d, p))
         /\ IdsOf(Extended(d, p)) =
               IdsOf(d) \union {FreshIds(Len(p.additions))[i] : i \in DOMAIN p.additions}
         /\ KeysOf(Extended(d, p)) \subseteq KeysOf(d) \union PatchKeys(p)
<1> DEFINE fresh == FreshIds(Len(p.additions))
           more == [i \in DOMAIN p.additions |-> [id |-> fresh[i], text |-> p.additions[i]]]
           n == Len(d)
           m == Len(p.additions)
           e == Extended(d, p)
<1>1. /\ n \in Nat /\ DOMAIN d = 1 .. n /\ d = [i \in 1 .. n |-> d[i]]
      /\ \A i \in 1 .. n : d[i] = [id |-> d[i].id, text |-> d[i].text]
  BY DocumentsAreLines
<1>2. m \in Nat /\ DOMAIN p.additions = 1 .. m
  BY LenProperties DEF HasPatchShape
<1>3. e = d \o more
  BY DEF Extended
<1>4. more = [i \in 1 .. m |-> [id |-> fresh[i], text |-> p.additions[i]]]
  BY <1>2
<1> HIDE DEF fresh, more, n, m, e
<1>5. IsSequence(more) /\ Len(more) = m /\ DOMAIN more = 1 .. m
  <2>1. more = [i \in 1 .. m |-> more[i]]
    BY <1>4
  <2> QED BY <1>2, <2>1, SequencesAreFunctions
<1> DEFINE S == {d[i] : i \in DOMAIN d} \union {more[i] : i \in DOMAIN more}
<1>6. d \in Seq(S) /\ more \in Seq(S)
  <2>1. d \in [1 .. n -> S] /\ more \in [1 .. m -> S]
    BY <1>1, <1>4, <1>5
  <2> HIDE DEF S
  <2> QED BY <1>1, <1>2, <2>1
<1>7. /\ e \in Seq(S) /\ Len(e) = n + m
      /\ \A i \in 1 .. n + m : e[i] = IF i <= n THEN d[i] ELSE more[i - n]
  <2> HIDE DEF S
  <2> QED BY <1>3, <1>5, <1>6, ConcatProperties DEF n
<1>8. DOMAIN e = 1 .. n + m /\ n + m \in Nat /\ e = [i \in 1 .. n + m |-> e[i]]
  <2> HIDE DEF S
  <2> QED BY <1>1, <1>2, <1>7, LenProperties
<1>9. /\ \A i \in 1 .. n : i \in 1 .. n + m /\ e[i] = d[i]
      /\ \A i \in 1 .. m : n + i \in 1 .. n + m /\ e[n + i] = more[i]
      /\ \A i \in 1 .. n + m : i \in 1 .. n \/ i - n \in 1 .. m
  <2> HIDE DEF S
  <2>1. \A i \in 1 .. m : n + i \in 1 .. n + m /\ ~(n + i <= n) /\ (n + i) - n = i
    BY <1>1, <1>2
  <2>2. \A i \in 1 .. n : i \in 1 .. n + m /\ i <= n
    BY <1>1, <1>2
  <2>3. \A i \in 1 .. n + m : i \in 1 .. n \/ i - n \in 1 .. m
    BY <1>1, <1>2
  <2> QED BY <1>7, <2>1, <2>2, <2>3
<1>10. \A i \in 1 .. m : more[i] = [id |-> fresh[i], text |-> p.additions[i]]
  BY <1>4
<1>11. \A i \in 1 .. m : /\ more[i].id = fresh[i] /\ more[i].text = p.additions[i]
                         /\ more[i] = [id |-> more[i].id, text |-> more[i].text]
  BY <1>10, LineFields
<1>12. \A i \in 1 .. n + m : \/ i \in 1 .. n /\ e[i] = d[i]
                             \/ i - n \in 1 .. m /\ e[i] = more[i - n]
  <2>1. \A i \in 1 .. n + m : i - n \in 1 .. m => ~(i <= n)
    BY <1>1, <1>2
  <2> HIDE DEF S
  <2> QED BY <1>7, <1>9, <2>1
<1> HIDE DEF S
<1>13. HasLines(e)
  <2>1. \A i \in 1 .. n + m : e[i] = [id |-> e[i].id, text |-> e[i].text]
    BY <1>1, <1>11, <1>12
  <2>2. IsSequence(e)
    BY <1>7, SeqsAreSequences
  <2> QED BY <1>8, <2>1, <2>2 DEF HasLines
<1>14. IdsOf(e) = IdsOf(d) \union {fresh[i] : i \in DOMAIN p.additions}
  <2>1. ASSUME NEW i \in DOMAIN e
        PROVE  e[i].id \in IdsOf(d) \union {fresh[j] : j \in DOMAIN p.additions}
    <3>1. CASE i \in 1 .. n /\ e[i] = d[i]
      BY <1>1, <3>1 DEF IdsOf
    <3>2. CASE i - n \in 1 .. m /\ e[i] = more[i - n]
      <4> DEFINE j == i - n
      <4>1. j \in DOMAIN p.additions /\ e[i].id = fresh[j]
        BY <1>2, <1>11, <3>2
      <4> QED BY <4>1
    <3> QED BY <1>8, <1>12, <3>1, <3>2
  <2>2. ASSUME NEW i \in DOMAIN d PROVE d[i].id \in IdsOf(e)
    BY <1>1, <1>8, <1>9 DEF IdsOf
  <2>3. ASSUME NEW i \in DOMAIN p.additions PROVE fresh[i] \in IdsOf(e)
    <3>1. n + i \in DOMAIN e /\ e[n + i].id = fresh[i]
      BY <1>2, <1>8, <1>9, <1>11
    <3> QED BY <3>1 DEF IdsOf
  <2>4. /\ IdsOf(e) = {e[i].id : i \in DOMAIN e}
        /\ IdsOf(d) = {d[i].id : i \in DOMAIN d}
    BY DEF IdsOf
  <2> QED BY <2>1, <2>2, <2>3, <2>4
<1>15. KeysOf(e) \subseteq KeysOf(d) \union PatchKeys(p)
  <2> SUFFICES ASSUME NEW k \in KeysOf(e) PROVE k \in KeysOf(d) \/ k \in PatchKeys(p)
    OBVIOUS
  <2>1. PICK i \in 1 .. n + m : k \in e[i].text
    BY <1>8, KeysOfLines
  <2>2. CASE i \in 1 .. n /\ e[i] = d[i]
    BY <1>1, <2>1, <2>2, KeysOfLines
  <2>3. CASE i - n \in 1 .. m /\ e[i] = more[i - n]
    <3>1. e[i].text = p.additions[i - n]
      BY <1>11, <2>3
    <3> QED BY <1>2, <2>1, <2>3, <3>1, KeysOfAPatch
  <2> QED BY <1>12, <2>2, <2>3
<1> QED BY <1>13, <1>14, <1>15 DEF e, fresh

LEMMA ReorderedLines ==
  ASSUME NEW d, HasLines(d), NEW p,
         \A order \in p.orders : IsSequence(order) /\ ToSet(order) \subseteq IdsOf(d)
  PROVE  HasLines(Reordered(d, p)) /\ KeysOf(Reordered(d, p)) \subseteq KeysOf(d)
<1>1. CASE p.orders = {}
  BY <1>1 DEF Reordered
<1>2. CASE p.orders # {}
  <2> DEFINE order == CHOOSE o \in p.orders : TRUE
             n == Len(order)
             r == Reordered(d, p)
  <2>1. order \in p.orders
    BY <1>2
  <2>2. r = [i \in DOMAIN order |-> [id |-> order[i], text |-> TextOf(d, order[i])]]
    BY <1>2 DEF Reordered
  <2> HIDE DEF order, r, n
  <2>3. IsSequence(order) /\ \A i \in DOMAIN order : order[i] \in IdsOf(d)
    BY <2>1 DEF ToSet
  <2>4. n \in Nat /\ DOMAIN order = 1 .. n
    BY <2>3, SequencesHaveLengths DEF n
  <2>5. r = [i \in 1 .. n |-> [id |-> order[i], text |-> TextOf(d, order[i])]]
    BY <2>2, <2>4
  <2>6. HasLines(r) /\ DOMAIN r = 1 .. n
    <3>1. \A i \in 1 .. n : r[i] = [id |-> r[i].id, text |-> r[i].text]
      BY <2>5
    <3>2. r = [i \in 1 .. n |-> [id |-> r[i].id, text |-> r[i].text]]
      BY <2>5, <3>1
    <3> QED BY <2>4, <3>2, LinesMakeADocument
  <2>7. ASSUME NEW k \in KeysOf(r) PROVE k \in KeysOf(d)
    <3>1. PICK i \in 1 .. n : k \in r[i].text
      BY <2>6, <2>7, KeysOfLines
    <3>2. k \in TextOf(d, order[i]) /\ order[i] \in IdsOf(d)
      BY <2>3, <2>4, <2>5, <3>1
    <3> QED BY <3>2, TextOfALine
  <2> QED BY <2>6, <2>7 DEF r
<1> QED BY <1>1, <1>2

\* What the server makes of a patch it accepts holds nothing but what was there and the patch.
LEMMA PatchedLines ==
  ASSUME NEW d, HasLines(d), NEW p, HasPatchShape(p), Applicable(d, p),
         \A order \in p.orders : IsSequence(order)
  PROVE  HasLines(Patched(d, p)) /\ KeysOf(Patched(d, p)) \subseteq KeysOf(d) \union PatchKeys(p)
<1> DEFINE e == Edited(d, p)
           r == Remaining(e, p)
           x == Extended(r, p)
           fresh == {FreshIds(Len(p.additions))[i] : i \in DOMAIN p.additions}
<1>1. /\ HasLines(e) /\ IdsOf(e) = IdsOf(d)
      /\ \A k \in KeysOf(e) : k \in KeysOf(d) \/ \E c \in DOMAIN p.edits : k \in p.edits[c]
  BY EditedLines
<1>2. KeysOf(e) \subseteq KeysOf(d) \union PatchKeys(p)
  BY <1>1, KeysOfAPatch
<1> HIDE DEF e
<1>3. HasLines(r) /\ IdsOf(r) = IdsOf(d) \ p.removals /\ KeysOf(r) \subseteq KeysOf(e)
  BY <1>1, RemainingLines
<1> HIDE DEF r
<1>4. HasLines(x) /\ IdsOf(x) = IdsOf(r) \union fresh /\ KeysOf(x) \subseteq KeysOf(r) \union PatchKeys(p)
  BY <1>3, ExtendedLines
<1>5. ASSUME NEW order \in p.orders PROVE ToSet(order) \subseteq IdsOf(x)
  <2>1. ToSet(order) = IdsOf(Extended(Remaining(d, p), p))
    BY <1>5 DEF Applicable
  <2> DEFINE kept == Remaining(d, p)
  <2>2. HasLines(kept) /\ IdsOf(kept) = IdsOf(d) \ p.removals
    BY RemainingLines
  <2> HIDE DEF kept
  <2>3. IdsOf(Extended(kept, p)) = IdsOf(kept) \union fresh
    BY <2>2, ExtendedLines
  <2> QED BY <1>3, <1>4, <2>1, <2>2, <2>3 DEF kept
<1> HIDE DEF x
<1>6. HasLines(Reordered(x, p)) /\ KeysOf(Reordered(x, p)) \subseteq KeysOf(x)
  BY <1>4, <1>5, ReorderedLines
<1>7. Patched(d, p) = Reordered(x, p)
  BY DEF Patched, x, r, e
<1> QED BY <1>2, <1>3, <1>4, <1>6, <1>7
-----------------------------------------------------------------------------
(* What the reader has seen *)

LEMMA SeenGoesOn ==
  ASSUME NEW seen, NEW more, seen \subseteq more
  PROVE  /\ \A d : IsOfTheSeen(d, seen) => IsOfTheSeen(d, more)
         /\ \A h : HistoryIsOfTheSeen(h, seen) => HistoryIsOfTheSeen(h, more)
         /\ \A p : PatchIsOfTheSeen(p, seen) => PatchIsOfTheSeen(p, more)
         /\ \A keys : WereSeen(keys, seen) => WereSeen(keys, more)
<1>1. \A keys : WereSeen(keys, seen) => WereSeen(keys, more)
  BY DEF WereSeen
<1>2. \A d : IsOfTheSeen(d, seen) => IsOfTheSeen(d, more)
  BY <1>1 DEF IsOfTheSeen
<1>3. \A h : HistoryIsOfTheSeen(h, seen) => HistoryIsOfTheSeen(h, more)
  BY <1>2 DEF HistoryIsOfTheSeen, EntryIsOfTheSeen
<1>4. \A p : PatchIsOfTheSeen(p, seen) => PatchIsOfTheSeen(p, more)
  BY <1>1 DEF PatchIsOfTheSeen
<1> QED BY <1>1, <1>2, <1>3, <1>4

LEMMA EditedIsOfTheSeen ==
  ASSUME NEW seen, NEW d, IsOfTheSeen(d, seen), NEW p,
         \A c \in DOMAIN p.edits : WereSeen(p.edits[c], seen)
  PROVE  IsOfTheSeen(Edited(d, p), seen)
<1>1. HasLines(d) /\ WereSeen(KeysOf(d), seen)
  BY DEF IsOfTheSeen
<1>2. /\ HasLines(Edited(d, p))
      /\ \A k \in KeysOf(Edited(d, p)) :
            k \in KeysOf(d) \/ \E c \in DOMAIN p.edits : k \in p.edits[c]
  BY <1>1, EditedLines
<1>3. WereSeen(KeysOf(Edited(d, p)), seen)
  BY <1>1, <1>2 DEF WereSeen
<1> QED BY <1>2, <1>3 DEF IsOfTheSeen

LEMMA TextIsOfTheSeen ==
  ASSUME NEW seen, NEW d, IsOfTheSeen(d, seen), NEW c \in IdsOf(d)
  PROVE  WereSeen(TextOf(d, c), seen)
  BY TextOfALine DEF IsOfTheSeen, WereSeen

\* A history is of the seen when its entries are.
LEMMA HistoryOf ==
  ASSUME NEW seen, NEW S, \A entry \in S : EntryIsOfTheSeen(entry, seen), NEW h \in Seq(S)
  PROVE  HistoryIsOfTheSeen(h, seen)
<1>1. IsSequence(h)
  BY SeqsAreSequences
<1>2. DOMAIN h = 1 .. Len(h) /\ h \in [1 .. Len(h) -> S]
  BY LenProperties
<1> QED BY <1>1, <1>2 DEF HistoryIsOfTheSeen

LEMMA EntriesOf ==
  ASSUME NEW seen, NEW h, HistoryIsOfTheSeen(h, seen)
  PROVE  \E S : h \in Seq(S) /\ \A entry \in S : EntryIsOfTheSeen(entry, seen)
<1> DEFINE S == {h[i] : i \in DOMAIN h}
<1>1. h \in Seq(S) /\ \A entry \in S : EntryIsOfTheSeen(entry, seen)
  BY DEF HistoryIsOfTheSeen, IsSequence
<1> QED BY <1>1

LEMMA AppendedHistory ==
  ASSUME NEW seen, NEW h, HistoryIsOfTheSeen(h, seen), NEW entry, EntryIsOfTheSeen(entry, seen)
  PROVE  /\ HistoryIsOfTheSeen(Append(h, entry), seen)
         /\ HistoryIsOfTheSeen(<<entry>> \o h, seen)
         /\ HistoryIsOfTheSeen(h \o <<entry>>, seen)
         /\ HistoryIsOfTheSeen(Trimmed(Append(h, entry)), seen)
<1>1. PICK old : h \in Seq(old) /\ \A x \in old : EntryIsOfTheSeen(x, seen)
  BY EntriesOf
<1> DEFINE S == old \union {entry}
<1>2. (\A x \in S : EntryIsOfTheSeen(x, seen)) /\ entry \in S
  BY <1>1
<1>3. h \in Seq(S) /\ <<entry>> \in Seq(S)
  <2>1. Len(h) \in Nat /\ h \in [1 .. Len(h) -> old]
    BY <1>1, LenProperties
  <2>2. h \in [1 .. Len(h) -> S]
    BY <2>1
  <2> HIDE DEF S
  <2> QED BY <1>2, <2>1, <2>2
<1> HIDE DEF S
<1>4. /\ Append(h, entry) \in Seq(S) /\ Append(h, entry) # <<>>
      /\ <<entry>> \o h \in Seq(S) /\ h \o <<entry>> \in Seq(S)
  BY <1>2, <1>3, AppendProperties, ConcatProperties
<1>5. Trimmed(Append(h, entry)) \in Seq(S)
  BY <1>4, HeadTailProperties DEF Trimmed
<1> QED BY <1>2, <1>4, <1>5, HistoryOf

LEMMA ShortenedHistory ==
  ASSUME NEW seen, NEW h, HistoryIsOfTheSeen(h, seen), h # <<>>
  PROVE  /\ HistoryIsOfTheSeen(Front(h), seen) /\ EntryIsOfTheSeen(Last(h), seen)
         /\ HistoryIsOfTheSeen(Tail(h), seen) /\ EntryIsOfTheSeen(Head(h), seen)
<1>1. PICK S : h \in Seq(S) /\ \A x \in S : EntryIsOfTheSeen(x, seen)
  BY EntriesOf
<1>2. Len(h) \in Nat /\ Len(h) # 0
  BY <1>1, EmptySeq, LenProperties
<1>3. Last(h) \in S
  BY <1>1, <1>2, ElementOfSeq DEF Last
<1>4. Front(h) \in Seq(S)
  <2>1. \A i \in 1 .. Len(h) - 1 : h[i] \in S
    BY <1>1, <1>2, ElementOfSeq
  <2> QED BY <1>2, <2>1, SubSeqProperties DEF Front
<1>5. Tail(h) \in Seq(S) /\ Head(h) \in S
  BY <1>1, HeadTailProperties
<1> QED BY <1>1, <1>3, <1>4, <1>5, HistoryOf

LEMMA EmptyIsOfTheSeen ==
  ASSUME NEW seen
  PROVE  HistoryIsOfTheSeen(<<>>, seen) /\ PatchIsOfTheSeen(NoPatch, seen)
<1>1. <<>> \in Seq({})
  BY EmptySeq
<1>2. HistoryIsOfTheSeen(<<>>, seen)
  BY <1>1, HistoryOf
<1>3. PatchIsOfTheSeen(NoPatch, seen)
  BY NoPatchHasNoKeys DEF PatchIsOfTheSeen, WereSeen, NoPatch
<1> QED BY <1>2, <1>3

-----------------------------------------------------------------------------
(* Patches of what was seen *)

\* A patch is of the seen when its texts are.
LEMMA PatchOf ==
  ASSUME NEW seen, NEW p
  PROVE  PatchIsOfTheSeen(p, seen) <=>
            /\ \A c \in DOMAIN p.edits : WereSeen(p.edits[c], seen)
            /\ \A i \in DOMAIN p.additions : WereSeen(p.additions[i], seen)
            /\ \A order \in p.orders : IsSequence(order)
  BY KeysOfAPatch DEF PatchIsOfTheSeen, WereSeen

LEMMA EditIsOfTheSeen ==
  ASSUME NEW seen, NEW p, HasPatchShape(p), PatchIsOfTheSeen(p, seen),
         NEW c, NEW text, WereSeen(text, seen)
  PROVE  PatchIsOfTheSeen(EditIn(p, c, text), seen)
<1> DEFINE q == EditIn(p, c, text)
<1>1. q \in Parts(With(p.edits, c, text), p.removals \ {c}, p.additions, p.orders)
  BY PatchParts DEF EditIn, Parts
<1>2. q.edits = With(p.edits, c, text) /\ q.additions = p.additions /\ q.orders = p.orders
  BY <1>1, PatchParts, PartsMakeAPatch
<1> HIDE DEF q
<1>3. \A x \in DOMAIN q.edits : q.edits[x] = text \/ (x \in DOMAIN p.edits /\ q.edits[x] = p.edits[x])
  BY <1>2 DEF With
<1> QED BY <1>2, <1>3, PatchOf DEF q

LEMMA RemovalIsOfTheSeen ==
  ASSUME NEW seen, NEW p, HasPatchShape(p), PatchIsOfTheSeen(p, seen), NEW c
  PROVE  PatchIsOfTheSeen(RemovalIn(p, c), seen)
<1> DEFINE q == RemovalIn(p, c)
           edits == Without(p.edits, c)
           removals == p.removals \union {c}
           orders == OrdersWithout(p.orders, c)
<1>1. q.edits = edits /\ q.additions = p.additions /\ q.orders = orders
  <2>1. p \in Parts(p.edits, p.removals, p.additions, p.orders) /\ p.additions \in Seq(Texts)
    BY PatchParts
  <2>2. q = [p EXCEPT !.edits = edits, !.removals = removals, !.orders = orders]
    BY DEF RemovalIn
  <2> HIDE DEF edits, removals, orders, q
  <2>3. q \in Parts(edits, removals, p.additions, orders)
    BY <2>1, <2>2 DEF Parts
  <2> QED BY <2>1, <2>3, PartsMakeAPatch
<1>2. \A x \in DOMAIN edits : x \in DOMAIN p.edits /\ edits[x] = p.edits[x]
  BY DEF Without
<1>3. ASSUME NEW order \in orders PROVE IsSequence(order)
  <2>1. PICK o \in p.orders : order = Kept(o, {i \in DOMAIN o : o[i] # c})
    BY <1>3 DEF OrdersWithout
  <2>2. o \in Seq({o[i] : i \in DOMAIN o})
    BY <2>1, PatchOf DEF IsSequence
  <2>3. order \in Seq({o[i] : i \in DOMAIN o})
    BY <2>1, <2>2, KeptElements
  <2> QED BY <2>3, SeqsAreSequences
<1> HIDE DEF q, edits, removals, orders
<1> QED BY <1>1, <1>2, <1>3, PatchOf DEF q

LEMMA AdditionIsOfTheSeen ==
  ASSUME NEW seen, NEW p, HasPatchShape(p), PatchIsOfTheSeen(p, seen),
         NEW text \in Texts, WereSeen(text, seen)
  PROVE  PatchIsOfTheSeen(AdditionIn(p, text), seen)
<1> DEFINE q == AdditionIn(p, text)
           more == Append(p.additions, text)
<1>1. p.additions \in Seq(Texts)
  BY PatchParts
<1>2. /\ more \in Seq(Texts) /\ Len(more) = Len(p.additions) + 1
      /\ \A i \in 1 .. Len(p.additions) : more[i] = p.additions[i]
      /\ more[Len(p.additions) + 1] = text
  BY <1>1, AppendProperties
<1>3. q \in Parts(p.edits, p.removals, more, p.orders)
  BY PatchParts DEF AdditionIn, Parts
<1> HIDE DEF more, q
<1>4. q.edits = p.edits /\ q.additions = more /\ q.orders = p.orders
  BY <1>2, <1>3, PartsMakeAPatch
<1>5. DOMAIN more = 1 .. Len(p.additions) + 1 /\ DOMAIN p.additions = 1 .. Len(p.additions)
      /\ Len(p.additions) \in Nat
  BY <1>1, <1>2, LenProperties
<1>6. \A i \in DOMAIN more : more[i] = text \/ (i \in DOMAIN p.additions /\ more[i] = p.additions[i])
  BY <1>2, <1>5
<1> QED BY <1>4, <1>6, PatchOf DEF q

LEMMA OrderIsOfTheSeen ==
  ASSUME NEW seen, NEW p, HasPatchShape(p), PatchIsOfTheSeen(p, seen), NEW d, HasLines(d)
  PROVE  PatchIsOfTheSeen(OrderIn(p, OrderOf(d)), seen)
<1> DEFINE order == OrderOf(d)
           q == OrderIn(p, order)
<1>1. IsSequence(order)
  <2>1. Len(d) \in Nat /\ DOMAIN d = 1 .. Len(d)
    BY DocumentsAreLines
  <2>2. order = [i \in 1 .. Len(d) |-> order[i]]
    BY <2>1 DEF OrderOf
  <2> HIDE DEF order
  <2> QED BY <2>1, <2>2, SequencesAreFunctions
<1> HIDE DEF order
<1>2. q \in Parts(p.edits, p.removals, p.additions, {order})
  BY PatchParts DEF OrderIn, Parts
<1>3. q.edits = p.edits /\ q.additions = p.additions /\ q.orders = {order}
  BY <1>2, PatchParts, PartsMakeAPatch
<1> HIDE DEF q
<1> QED BY <1>1, <1>3, PatchOf DEF q, order

LEMMA RestoringIsOfTheSeen ==
  ASSUME NEW seen, NEW p, HasPatchShape(p), PatchIsOfTheSeen(p, seen),
         NEW target, IsOfTheSeen(target, seen)
  PROVE  PatchIsOfTheSeen(Restoring(p, target), seen)
<1> DEFINE edits == [c \in DOMAIN p.edits \union Differing(target) |->
                        IF c \in Differing(target) THEN TextOf(target, c) ELSE p.edits[c]]
           texts == [p EXCEPT !.edits = [c \in DOMAIN @ \union Differing(target) |->
                                IF c \in Differing(target) THEN TextOf(target, c) ELSE @[c]],
                              !.removals = @ \ Differing(target)]
<1>1. texts \in Parts(edits, p.removals \ Differing(target), p.additions, p.orders)
  BY PatchParts DEF Parts
<1>2. \A c \in DOMAIN edits : \/ c \in IdsOf(target) /\ edits[c] = TextOf(target, c)
                              \/ c \in DOMAIN p.edits /\ edits[c] = p.edits[c]
  BY DEF Differing
<1>3. Restoring(p, target) = IF OrderOf(target) = OrderOf(outline) THEN texts
                             ELSE OrderIn(texts, OrderOf(target))
  BY DEF Restoring
<1> HIDE DEF texts, edits
<1>4. /\ HasPatchShape(texts)
      /\ texts.edits = edits /\ texts.additions = p.additions /\ texts.orders = p.orders
  BY <1>1, PatchParts, PartsMakeAPatch
<1>5. \A c \in DOMAIN edits : WereSeen(edits[c], seen)
  BY <1>2, TextIsOfTheSeen, PatchOf
<1>6. PatchIsOfTheSeen(texts, seen)
  BY <1>4, <1>5, PatchOf
<1>7. HasLines(target)
  BY DEF IsOfTheSeen
<1>8. PatchIsOfTheSeen(OrderIn(texts, OrderOf(target)), seen)
  BY <1>4, <1>6, <1>7, OrderIsOfTheSeen
<1> QED BY <1>3, <1>6, <1>8

LEMMA RestoredIsOfTheSeen ==
  ASSUME NEW seen, NEW p, HasPatchShape(p), PatchIsOfTheSeen(p, seen),
         NEW old, HasPatchShape(old), PatchIsOfTheSeen(old, seen)
  PROVE  PatchIsOfTheSeen(Restored(p, old), seen)
<1> DEFINE q == Restored(p, old)
           both == old.additions \o p.additions
           m == Len(old.additions)
           n == Len(p.additions)
<1>1. /\ q.edits = [c \in DOMAIN p.edits \union DOMAIN old.edits |->
                       IF c \in DOMAIN p.edits THEN p.edits[c] ELSE old.edits[c]]
      /\ q.additions = both
      /\ q.orders = IF p.orders = {} THEN old.orders ELSE p.orders
  BY DEF Restored
<1>2. old.additions \in Seq(Texts) /\ p.additions \in Seq(Texts)
  BY DEF HasPatchShape
<1>3. /\ both \in Seq(Texts) /\ Len(both) = m + n
      /\ \A i \in 1 .. m + n : both[i] = IF i <= m THEN old.additions[i] ELSE p.additions[i - m]
  BY <1>2, ConcatProperties
<1>4. /\ m \in Nat /\ n \in Nat /\ DOMAIN both = 1 .. m + n
      /\ DOMAIN old.additions = 1 .. m /\ DOMAIN p.additions = 1 .. n
  BY <1>2, <1>3, LenProperties
<1> HIDE DEF q, both, m, n
<1>5. ASSUME NEW i \in DOMAIN both PROVE WereSeen(both[i], seen)
  <2>1. CASE i <= m
    <3>1. i \in DOMAIN old.additions /\ both[i] = old.additions[i]
      BY <1>3, <1>4, <2>1
    <3> QED BY <3>1, PatchOf
  <2>2. CASE ~(i <= m)
    <3>1. i - m \in DOMAIN p.additions /\ both[i] = p.additions[i - m]
      BY <1>3, <1>4, <2>2
    <3> QED BY <3>1, PatchOf
  <2> QED BY <2>1, <2>2
<1>6. \A c \in DOMAIN q.edits : \/ c \in DOMAIN p.edits /\ q.edits[c] = p.edits[c]
                                \/ c \in DOMAIN old.edits /\ q.edits[c] = old.edits[c]
  BY <1>1
<1> QED BY <1>1, <1>5, <1>6, PatchOf DEF q
-----------------------------------------------------------------------------
(* The steps: nothing of another tab's reaches the page but through a read *)

LEMMA ShapesOfPatches ==
  ASSUME QueueInvariant
  PROVE  /\ HasPatchShape(buffer) /\ HasPatchShape(mirrored)
         /\ Outstanding => HasPatchShape(flight.patch)
  BY DEF QueueInvariant, BufferIsMirrored, FlightIsTracked

\* The page, the history and the documents are as they were.
LEMMA PageStays ==
  ASSUME PageIsOfTheSeen, UNCHANGED <<read, outline, past, future>>, shown \subseteq shown'
  PROVE  PageIsOfTheSeen'
  BY SeenGoesOn DEF PageIsOfTheSeen

LEMMA SavesStay ==
  ASSUME SavesAreOfTheSeen, UNCHANGED <<buffer, mirrored, token, flight>>, shown \subseteq shown'
  PROVE  SavesAreOfTheSeen'
<1>1. Outstanding' <=> Outstanding
  BY DEF Outstanding
<1> QED BY <1>1, SeenGoesOn DEF SavesAreOfTheSeen

LEMMA DocumentsStay ==
  ASSUME DocumentsHaveLines, doc' = doc, fetch' \in {fetch, NoFetch, Asked}
  PROVE  DocumentsHaveLines'
  BY DEF DocumentsHaveLines, NoFetch, Asked

LEMMA QueuedIsOfTheSeen ==
  ASSUME SavesAreOfTheSeen, NEW p, PatchIsOfTheSeen(p, shown), Queued(p), shown' = shown
  PROVE  SavesAreOfTheSeen'
<1>1. buffer' = p /\ mirrored' = p /\ token' = token /\ flight' = flight
  BY DEF Queued
<1>2. Outstanding' <=> Outstanding
  BY <1>1 DEF Outstanding
<1> QED BY <1>1, <1>2 DEF SavesAreOfTheSeen

LEMMA RecordedIsOfTheSeen ==
  ASSUME PageIsOfTheSeen, NEW next, IsOfTheSeen(next, shown), NEW claim, NEW grouped \in BOOLEAN,
         grouped => past # <<>>, Recorded(next, claim, grouped), shown' = shown
  PROVE  PageIsOfTheSeen'
<1>1. /\ outline' = next /\ future' = <<>> /\ read' = read
      /\ past' = IF grouped
                 THEN Front(past) \o <<[Last(past) EXCEPT !.after = next]>>
                 ELSE Trimmed(Append(past, [before |-> outline, after |-> next, claim |-> claim]))
  BY DEF Recorded
<1>2. CASE grouped
  <2> DEFINE last == Last(past)
             longer == [last EXCEPT !.after = next]
             front == Front(past)
  <2>1. HistoryIsOfTheSeen(front, shown) /\ EntryIsOfTheSeen(last, shown)
    BY <1>2, ShortenedHistory DEF PageIsOfTheSeen
  <2>2. past' = front \o <<longer>>
    BY <1>1, <1>2
  <2> HIDE DEF last
  <2>3. longer = [before |-> last.before, after |-> next, claim |-> last.claim]
    BY <2>1 DEF EntryIsOfTheSeen
  <2> HIDE DEF longer, front
  <2>4. EntryIsOfTheSeen(longer, shown)
    BY <2>1, <2>3 DEF EntryIsOfTheSeen
  <2>5. HistoryIsOfTheSeen(past', shown)
    BY <2>1, <2>2, <2>4, AppendedHistory
  <2> QED BY <1>1, <2>5, EmptyIsOfTheSeen DEF PageIsOfTheSeen
<1>3. CASE ~grouped
  <2> DEFINE entry == [before |-> outline, after |-> next, claim |-> claim]
  <2>1. EntryIsOfTheSeen(entry, shown)
    BY DEF EntryIsOfTheSeen, PageIsOfTheSeen
  <2>2. past' = Trimmed(Append(past, entry))
    BY <1>1, <1>3
  <2> HIDE DEF entry
  <2>3. HistoryIsOfTheSeen(past', shown)
    BY <2>1, <2>2, AppendedHistory DEF PageIsOfTheSeen
  <2> QED BY <1>1, <2>3, EmptyIsOfTheSeen DEF PageIsOfTheSeen
<1> QED BY <1>2, <1>3

LEMMA OwnKeysAreSeen ==
  ASSUME NEW seen PROVE WereSeen({NextKey}, seen)
  BY DEF WereSeen, NextKey, Foreign

LEMMA TypeInIsOfTheSeen ==
  ASSUME QueueInvariant, SeenInvariant, NEW c \in Ids, TypeIn(c)
  PROVE  SeenInvariant'
<1> DEFINE text == TextOf(outline, c) \union {NextKey}
           p == [NoPatch EXCEPT !.edits = With(@, c, text)]
           next == Edited(outline, p)
<1>1. PICK grouped \in BOOLEAN : (grouped => past # <<>>) /\ Recorded(next, {c}, grouped)
  BY DEF TypeIn
<1>2. Queued(EditIn(buffer, c, text)) /\ doc' = doc /\ shown' = shown /\ c \in IdsOf(outline)
  BY DEF TypeIn, server, Visible
<1>3. fetch' = fetch
  BY <1>1 DEF Recorded
<1>4. WereSeen(text, shown)
  BY <1>2, TextIsOfTheSeen, OwnKeysAreSeen DEF SeenInvariant, PageIsOfTheSeen, WereSeen
<1> HIDE DEF text
<1>5. IsOfTheSeen(next, shown)
  <2>1. \A x \in DOMAIN p.edits : p.edits[x] = text
    BY DEF With, NoPatch
  <2> HIDE DEF p
  <2>2. \A x \in DOMAIN p.edits : WereSeen(p.edits[x], shown)
    BY <1>4, <2>1
  <2> QED BY <2>2, EditedIsOfTheSeen DEF SeenInvariant, PageIsOfTheSeen
<1> HIDE DEF next
<1>6. PageIsOfTheSeen'
  BY <1>1, <1>2, <1>5, RecordedIsOfTheSeen DEF SeenInvariant
<1>7. PatchIsOfTheSeen(EditIn(buffer, c, text), shown)
  BY <1>4, ShapesOfPatches, EditIsOfTheSeen DEF SeenInvariant, SavesAreOfTheSeen
<1>8. SavesAreOfTheSeen'
  BY <1>2, <1>7, QueuedIsOfTheSeen DEF SeenInvariant
<1>9. DocumentsHaveLines'
  BY <1>2, <1>3, DocumentsStay DEF SeenInvariant
<1> QED BY <1>6, <1>8, <1>9 DEF SeenInvariant

LEMMA RemovalsAreOfTheSeen ==
  ASSUME QueueInvariant, SeenInvariant,
         (\E c \in Ids : ConfirmRemoval(c)) \/ RemovalLapses
  PROVE  SeenInvariant'
<1>1. UNCHANGED <<doc, read, outline, past, future, fetch, shown>>
  BY DEF ConfirmRemoval, RemovalLapses, server
<1>2. UNCHANGED queue \/ \E c : Queued(RemovalIn(buffer, c))
  BY DEF ConfirmRemoval, RemovalLapses, Staging
<1>3. SavesAreOfTheSeen'
  <2>1. CASE UNCHANGED queue
    BY <1>1, <2>1, SavesStay DEF queue, SeenInvariant
  <2>2. ASSUME NEW c, Queued(RemovalIn(buffer, c)) PROVE SavesAreOfTheSeen'
    <3>1. PatchIsOfTheSeen(RemovalIn(buffer, c), shown)
      BY ShapesOfPatches, RemovalIsOfTheSeen DEF SeenInvariant, SavesAreOfTheSeen
    <3> QED BY <1>1, <2>2, <3>1, QueuedIsOfTheSeen DEF SeenInvariant
  <2> QED BY <1>2, <2>1, <2>2
<1> QED BY <1>1, <1>3, PageStays, DocumentsStay DEF SeenInvariant

LEMMA AddLineIsOfTheSeen ==
  ASSUME QueueInvariant, SeenInvariant, AddLine
  PROVE  SeenInvariant'
<1>1. UNCHANGED <<doc, read, outline, past, future, fetch, shown>>
  BY DEF AddLine, server, page
<1>2. Queued(AdditionIn(buffer, {NextKey})) /\ Spend("add") /\ typed' = typed \union {NextKey}
  BY DEF AddLine
<1>3. {NextKey} \in Texts
  <2>1. NextKey \in Own
    BY <1>2, KeystrokeIsPaidFor DEF QueueInvariant
  <2> QED BY <2>1 DEF Texts
<1>4. PatchIsOfTheSeen(AdditionIn(buffer, {NextKey}), shown)
  BY <1>3, OwnKeysAreSeen, ShapesOfPatches, AdditionIsOfTheSeen DEF SeenInvariant, SavesAreOfTheSeen
<1>5. SavesAreOfTheSeen'
  BY <1>1, <1>2, <1>4, QueuedIsOfTheSeen DEF SeenInvariant
<1> QED BY <1>1, <1>5, PageStays, DocumentsStay DEF SeenInvariant

LEMMA MoveLineIsOfTheSeen ==
  ASSUME QueueInvariant, SeenInvariant, NEW i, MoveLine(i)
  PROVE  SeenInvariant'
<1> DEFINE next == [outline EXCEPT ![i] = outline[i + 1], ![i + 1] = outline[i]]
           n == Len(outline)
<1>1. Recorded(next, {}, FALSE) /\ Queued(OrderIn(buffer, OrderOf(next)))
      /\ doc' = doc /\ shown' = shown /\ i \in DOMAIN outline /\ i + 1 \in DOMAIN outline
  BY DEF MoveLine, CanMoveDown, server, promises
<1>2. fetch' = fetch
  BY <1>1 DEF Recorded
<1>3. HasLines(outline) /\ WereSeen(KeysOf(outline), shown)
  BY DEF SeenInvariant, PageIsOfTheSeen, IsOfTheSeen
<1>4. /\ n \in Nat /\ DOMAIN outline = 1 .. n
      /\ \A j \in 1 .. n : outline[j] = [id |-> outline[j].id, text |-> outline[j].text]
  BY <1>3, DocumentsAreLines
<1>5. next = [j \in 1 .. n |-> IF j = i + 1 THEN outline[i] ELSE IF j = i THEN outline[i + 1]
                               ELSE outline[j]]
  <2>1. i \in 1 .. n /\ i + 1 \in 1 .. n /\ outline = [j \in 1 .. n |-> outline[j]]
    BY <1>1, <1>3, <1>4, DocumentsAreLines
  <2> QED BY <1>4, <2>1
<1> HIDE DEF next, n
<1>6. \A j \in 1 .. n : \E k \in 1 .. n : next[j] = outline[k]
  BY <1>1, <1>4, <1>5
<1>7. HasLines(next) /\ DOMAIN next = 1 .. n
  <2>1. \A j \in 1 .. n : next[j] = [id |-> next[j].id, text |-> next[j].text]
    BY <1>4, <1>6
  <2>2. next = [j \in 1 .. n |-> next[j]]
    BY <1>5
  <2>3. IsSequence(next) /\ DOMAIN next = 1 .. n
    BY <1>4, <2>2, SequencesAreFunctions
  <2> QED BY <2>1, <2>3 DEF HasLines
<1>8. KeysOf(next) \subseteq KeysOf(outline)
  BY <1>4, <1>6, <1>7, KeysOfLines
<1>9. IsOfTheSeen(next, shown)
  BY <1>3, <1>7, <1>8 DEF IsOfTheSeen, WereSeen
<1>10. PageIsOfTheSeen'
  BY <1>1, <1>9, RecordedIsOfTheSeen DEF SeenInvariant
<1>11. PatchIsOfTheSeen(OrderIn(buffer, OrderOf(next)), shown)
  BY <1>7, ShapesOfPatches, OrderIsOfTheSeen DEF SeenInvariant, SavesAreOfTheSeen
<1>12. SavesAreOfTheSeen'
  BY <1>1, <1>11, QueuedIsOfTheSeen DEF SeenInvariant
<1>13. DocumentsHaveLines'
  BY <1>1, <1>2, DocumentsStay DEF SeenInvariant
<1> QED BY <1>10, <1>12, <1>13 DEF SeenInvariant

LEMMA StepIsOfTheSeen ==
  ASSUME QueueInvariant, SeenInvariant, NEW target, IsOfTheSeen(target, shown),
         NEW newPast, HistoryIsOfTheSeen(newPast, shown),
         NEW newFuture, HistoryIsOfTheSeen(newFuture, shown), Step(target, newPast, newFuture)
  PROVE  SeenInvariant'
<1>1. /\ outline' = target /\ past' = newPast /\ future' = newFuture
      /\ UNCHANGED <<doc, read, fetch, shown>>
  BY DEF Step, server
<1>2. UNCHANGED queue \/ Queued(Restoring(buffer, target))
  BY DEF Step
<1>3. PatchIsOfTheSeen(Restoring(buffer, target), shown)
  BY ShapesOfPatches, RestoringIsOfTheSeen DEF SeenInvariant, SavesAreOfTheSeen
<1>4. SavesAreOfTheSeen'
  <2>1. CASE UNCHANGED queue
    BY <1>1, <2>1, SavesStay DEF queue, SeenInvariant
  <2> QED BY <1>1, <1>2, <1>3, <2>1, QueuedIsOfTheSeen DEF SeenInvariant
<1>5. PageIsOfTheSeen'
  BY <1>1 DEF PageIsOfTheSeen, SeenInvariant
<1> QED BY <1>1, <1>4, <1>5, DocumentsStay DEF SeenInvariant

LEMMA UndoRedoAreOfTheSeen ==
  ASSUME QueueInvariant, SeenInvariant, Undo \/ Redo
  PROVE  SeenInvariant'
<1>1. HistoryIsOfTheSeen(past, shown) /\ HistoryIsOfTheSeen(future, shown)
  BY DEF SeenInvariant, PageIsOfTheSeen
<1>2. CASE Undo
  <2>1. past # <<>> /\ Step(Last(past).before, Front(past), <<Last(past)>> \o future)
    BY <1>2 DEF Undo, CanUndo
  <2> DEFINE last == Last(past)
             longer == <<last>> \o future
  <2>2. HistoryIsOfTheSeen(Front(past), shown) /\ EntryIsOfTheSeen(last, shown)
    BY <1>1, <2>1, ShortenedHistory
  <2> HIDE DEF last
  <2>3. HistoryIsOfTheSeen(longer, shown) /\ IsOfTheSeen(last.before, shown)
    BY <1>1, <2>2, AppendedHistory DEF EntryIsOfTheSeen
  <2>4. Step(last.before, Front(past), longer)
    BY <2>1 DEF last
  <2> HIDE DEF longer
  <2> QED BY <2>2, <2>3, <2>4, StepIsOfTheSeen
<1>3. CASE Redo
  <2>1. /\ future # <<>>
        /\ Step(Head(future).after, Trimmed(Append(past, Head(future))), Tail(future))
    BY <1>3 DEF Redo
  <2> DEFINE head == Head(future)
             longer == Trimmed(Append(past, head))
  <2>2. HistoryIsOfTheSeen(Tail(future), shown) /\ EntryIsOfTheSeen(head, shown)
    BY <1>1, <2>1, ShortenedHistory
  <2> HIDE DEF head
  <2>3. HistoryIsOfTheSeen(longer, shown) /\ IsOfTheSeen(head.after, shown)
    BY <1>1, <2>2, AppendedHistory DEF EntryIsOfTheSeen
  <2>4. Step(head.after, longer, Tail(future))
    BY <2>1 DEF head
  <2> HIDE DEF longer
  <2> QED BY <2>2, <2>3, <2>4, StepIsOfTheSeen
<1> QED BY <1>2, <1>3

\* send names a version that was seen, and carries what was.
LEMMA SentIsOfTheSeen ==
  ASSUME SavesAreOfTheSeen, NEW base, NEW before, SentAfter(before, buffer, base),
         shown \subseteq shown', WereSeen(KeysOf(base), shown'), WereSeen(KeysOf(token'), shown'),
         mirrored' \in {mirrored, buffer}
  PROVE  SavesAreOfTheSeen'
<1>1. PatchIsOfTheSeen(buffer, shown') /\ PatchIsOfTheSeen(mirrored, shown')
  BY SeenGoesOn DEF SavesAreOfTheSeen
<1>2. PatchIsOfTheSeen(buffer', shown') /\ PatchIsOfTheSeen(mirrored', shown')
  BY <1>1, EmptyIsOfTheSeen DEF SentAfter
<1>3. /\ Outstanding' => flight'.patch = buffer /\ flight'.base = base
      /\ flight'.stage # "answered"
  BY DEF SentAfter, Outstanding, NoFlight
<1> QED BY <1>1, <1>2, <1>3 DEF SavesAreOfTheSeen

LEMMA SendingIsOfTheSeen ==
  ASSUME SeenInvariant, Fire \/ Flush
  PROVE  SeenInvariant'
<1>1. UNCHANGED <<doc, read, outline, past, future, fetch, shown, token, mirrored>>
  BY DEF Fire, Flush, server, page, promises
<1>2. UNCHANGED <<buffer, flight>> \/ SentAfter(status, buffer, token)
  BY DEF Fire, Flush, Sent
<1>3. SavesAreOfTheSeen'
  <2>1. CASE UNCHANGED <<buffer, flight>>
    BY <1>1, <2>1, SavesStay DEF SeenInvariant
  <2>2. CASE SentAfter(status, buffer, token)
    <3>1. SavesAreOfTheSeen /\ WereSeen(KeysOf(token), shown)
      BY DEF SeenInvariant, SavesAreOfTheSeen
    <3> QED BY <1>1, <2>2, <3>1, SentIsOfTheSeen
  <2> QED BY <1>2, <2>1, <2>2
<1> QED BY <1>1, <1>3, PageStays, DocumentsStay DEF SeenInvariant

\* The server accepts only over the version that was named, so what it makes was seen.
LEMMA AnswerIsOfTheSeen ==
  ASSUME QueueInvariant, SeenInvariant, ServerAnswers
  PROVE  SeenInvariant'
<1> DEFINE p == flight.patch
           answer == Answer(doc, flight.base, p)
           made == Patched(doc, p)
<1>1. /\ flight.stage = "sent"
      /\ flight' = [stage |-> "answered", patch |-> p, base |-> flight.base, answer |-> answer,
                    etag |-> IF answer = "saved" THEN made ELSE doc]
      /\ doc' = IF answer = "saved" THEN made ELSE doc
      /\ UNCHANGED <<read, outline, past, future, fetch, shown, buffer, mirrored, token>>
  BY DEF ServerAnswers, page
<1>2. answer = "saved" => flight.base = doc /\ Applicable(doc, p)
  BY DEF Answer
<1>3. HasPatchShape(p) /\ PatchIsOfTheSeen(p, shown) /\ WereSeen(KeysOf(flight.base), shown)
  BY <1>1, ShapesOfPatches DEF SeenInvariant, SavesAreOfTheSeen, Outstanding
<1>4. HasLines(doc)
  BY DEF SeenInvariant, DocumentsHaveLines
<1>5. answer = "saved" => HasLines(made) /\ WereSeen(KeysOf(made), shown)
  <2> SUFFICES ASSUME answer = "saved" PROVE HasLines(made) /\ WereSeen(KeysOf(made), shown)
    OBVIOUS
  <2>1. \A order \in p.orders : IsSequence(order)
    BY <1>3 DEF PatchIsOfTheSeen
  <2> HIDE DEF p, answer, made
  <2>2. HasLines(Patched(doc, p)) /\ KeysOf(Patched(doc, p)) \subseteq KeysOf(doc) \union PatchKeys(p)
    BY <1>2, <1>3, <1>4, <2>1, PatchedLines
  <2> QED BY <1>2, <1>3, <2>2 DEF WereSeen, PatchIsOfTheSeen, made
<1> HIDE DEF answer, made, p
<1>6. DocumentsHaveLines'
  BY <1>1, <1>5 DEF SeenInvariant, DocumentsHaveLines
<1>7. /\ flight'.stage = "answered" /\ flight'.patch = p /\ flight'.base = flight.base
      /\ flight'.answer = answer /\ (answer = "saved" => flight'.etag = made)
  BY <1>1
<1>8. SavesAreOfTheSeen'
  BY <1>1, <1>3, <1>5, <1>7 DEF SeenInvariant, SavesAreOfTheSeen
<1> QED BY <1>1, <1>6, <1>8, PageStays DEF SeenInvariant

LEMMA LossIsOfTheSeen ==
  ASSUME QueueInvariant, SeenInvariant, RequestLost \/ AnswerLost
  PROVE  SeenInvariant'
<1>1. UNCHANGED <<doc, read, outline, past, future, fetch, shown, token, mirrored, buffer>>
  BY DEF RequestLost, AnswerLost, server, page, promises
<1>2. Outstanding /\ flight'.stage = "answered" /\ flight'.patch = flight.patch
      /\ flight'.base = flight.base /\ flight'.answer = "network"
  <2>1. CASE RequestLost
    BY <2>1 DEF RequestLost, Outstanding
  <2>2. CASE AnswerLost
    BY <2>2 DEF AnswerLost, Outstanding, QueueInvariant, FlightIsTracked
  <2> QED BY <2>1, <2>2
<1>3. SavesAreOfTheSeen'
  BY <1>1, <1>2 DEF SeenInvariant, SavesAreOfTheSeen
<1> QED BY <1>1, <1>3, PageStays, DocumentsStay DEF SeenInvariant

LEMMA SuccessIsOfTheSeen ==
  ASSUME SeenInvariant, SaveSucceeds
  PROVE  SeenInvariant'
<1>1. /\ UNCHANGED <<doc, read, outline, past, future, shown>> /\ mirrored' = buffer
      /\ fetch' = Asked /\ token' = flight.etag /\ SentAfter("saved", buffer, flight.etag)
  BY DEF SaveSucceeds, FollowUp, ReturnedToken, Invalidated, server, promises
<1>2. SavesAreOfTheSeen /\ WereSeen(KeysOf(flight.etag), shown)
  BY DEF SaveSucceeds, SeenInvariant, SavesAreOfTheSeen
<1>3. SavesAreOfTheSeen'
  BY <1>1, <1>2, SentIsOfTheSeen
<1> QED BY <1>1, <1>3, PageStays, DocumentsStay DEF SeenInvariant

LEMMA RejectionIsOfTheSeen ==
  ASSUME QueueInvariant, SeenInvariant, SaveFails \/ SaveConflicts
  PROVE  SeenInvariant'
<1> DEFINE p == Restored(buffer, flight.patch)
<1>1. /\ UNCHANGED <<doc, read, outline, past, future, shown, token>>
      /\ fetch' \in {fetch, Asked} /\ buffer' = p /\ mirrored' = p
      /\ flight'.stage \in {"none", "comparing"}
  BY DEF SaveFails, SaveConflicts, Rejected, Joined, NoFlight, server, page
<1>2. Outstanding
  BY DEF SaveFails, SaveConflicts, Outstanding
<1>3. PatchIsOfTheSeen(p, shown)
  BY <1>2, ShapesOfPatches, RestoredIsOfTheSeen DEF SeenInvariant, SavesAreOfTheSeen
<1> HIDE DEF p
<1>4. SavesAreOfTheSeen'
  BY <1>1, <1>3 DEF SeenInvariant, SavesAreOfTheSeen, Outstanding
<1> QED BY <1>1, <1>4, PageStays, DocumentsStay DEF SeenInvariant

LEMMA ReadIsSeen ==
  ASSUME SeenInvariant, ReadArrives
  PROVE  SeenInvariant'
<1> DEFINE now == fetch.lines
<1>1. /\ doc' = doc /\ past' = past /\ future' = future /\ mirrored' = mirrored
      /\ read' = now /\ fetch' = NoFetch /\ outline' \in {outline, now} /\ token' \in {token, now}
      /\ shown' = shown \union (KeysOf(now) \cap Foreign)
  BY DEF ReadArrives, Adopted, server
<1>2. /\ \/ UNCHANGED <<flight, buffer>>
         \/ \E before : SentAfter(before, buffer, now)
         \/ flight' = NoFlight /\ buffer' = buffer
         \/ /\ buffer' = NoPatch
            /\ flight' = [stage |-> "sent", patch |-> buffer, base |-> now]
  BY DEF ReadArrives, Reapplied
<1>3. IsOfTheSeen(now, shown')
  BY <1>1 DEF ReadArrives, SeenInvariant, DocumentsHaveLines, IsOfTheSeen, WereSeen
<1>4. shown \subseteq shown'
  BY <1>1
<1> HIDE DEF now
<1>5. PageIsOfTheSeen'
  BY <1>1, <1>3, <1>4, SeenGoesOn DEF SeenInvariant, PageIsOfTheSeen
<1>6. /\ WereSeen(KeysOf(now), shown') /\ WereSeen(KeysOf(token'), shown')
      /\ PatchIsOfTheSeen(buffer, shown') /\ PatchIsOfTheSeen(mirrored, shown')
      /\ Outstanding => PatchIsOfTheSeen(flight.patch, shown')
                        /\ WereSeen(KeysOf(flight.base), shown')
      /\ flight.stage = "answered" /\ flight.answer = "saved" =>
            WereSeen(KeysOf(flight.etag), shown')
  BY <1>1, <1>3, <1>4, SeenGoesOn DEF SeenInvariant, SavesAreOfTheSeen, IsOfTheSeen
<1>7. SavesAreOfTheSeen'
  <2>1. CASE UNCHANGED <<flight, buffer>>
    BY <1>1, <1>6, <2>1 DEF SavesAreOfTheSeen, Outstanding
  <2>2. CASE \E before : SentAfter(before, buffer, now)
    BY <1>1, <1>4, <1>6, <2>2, SentIsOfTheSeen DEF SeenInvariant
  <2>3. CASE flight' = NoFlight /\ buffer' = buffer
    BY <1>1, <1>6, <2>3 DEF SavesAreOfTheSeen, Outstanding, NoFlight
  <2>4. CASE buffer' = NoPatch /\ flight' = [stage |-> "sent", patch |-> buffer, base |-> now]
    BY <1>1, <1>6, <2>4, EmptyIsOfTheSeen DEF SavesAreOfTheSeen, Outstanding
  <2> QED BY <1>2, <2>1, <2>2, <2>3, <2>4
<1>8. DocumentsHaveLines'
  BY <1>1, DocumentsStay DEF SeenInvariant
<1> QED BY <1>5, <1>7, <1>8 DEF SeenInvariant

LEMMA ReadFailsIsOfTheSeen ==
  ASSUME SeenInvariant, ReadFails
  PROVE  SeenInvariant'
<1>1. /\ UNCHANGED <<doc, read, outline, past, future, shown, token, mirrored, buffer>>
      /\ fetch' = NoFetch /\ flight' \in {flight, NoFlight}
  BY DEF ReadFails, server, promises
<1>2. SavesAreOfTheSeen'
  BY <1>1 DEF SeenInvariant, SavesAreOfTheSeen, Outstanding, NoFlight
<1> QED BY <1>1, <1>2, PageStays, DocumentsStay DEF SeenInvariant

LEMMA DiscardIsOfTheSeen ==
  ASSUME SeenInvariant, DiscardLocal
  PROVE  SeenInvariant'
<1>1. /\ UNCHANGED <<doc, read, fetch, shown, token, flight>> /\ outline' = read
      /\ past' = <<>> /\ future' = <<>> /\ buffer' = NoPatch /\ mirrored' = NoPatch
  BY DEF DiscardLocal, server
<1>2. PageIsOfTheSeen'
  BY <1>1, EmptyIsOfTheSeen DEF SeenInvariant, PageIsOfTheSeen
<1>3. SavesAreOfTheSeen'
  BY <1>1, EmptyIsOfTheSeen DEF SeenInvariant, SavesAreOfTheSeen, Outstanding
<1> QED BY <1>1, <1>2, <1>3, DocumentsStay DEF SeenInvariant

LEMMA ReloadIsOfTheSeen ==
  ASSUME SeenInvariant, Reload
  PROVE  SeenInvariant'
<1>1. /\ doc' = doc /\ read' = doc /\ outline' = doc /\ token' = doc /\ fetch' = NoFetch
      /\ past' = <<>> /\ future' = <<>> /\ buffer' = mirrored /\ mirrored' = mirrored
      /\ flight' = NoFlight /\ shown' = shown \union (KeysOf(doc) \cap Foreign)
  BY DEF Reload, server
<1>2. IsOfTheSeen(doc, shown') /\ PatchIsOfTheSeen(mirrored, shown')
  BY <1>1, SeenGoesOn
  DEF SeenInvariant, DocumentsHaveLines, SavesAreOfTheSeen, IsOfTheSeen, WereSeen
<1>3. PageIsOfTheSeen'
  BY <1>1, <1>2, EmptyIsOfTheSeen DEF PageIsOfTheSeen
<1>4. SavesAreOfTheSeen'
  BY <1>1, <1>2 DEF SavesAreOfTheSeen, Outstanding, NoFlight, IsOfTheSeen
<1> QED BY <1>1, <1>3, <1>4, DocumentsStay DEF SeenInvariant

LEMMA OthersAreOfTheSeen ==
  ASSUME SeenInvariant,
         CancelRemoval \/ ReapplyLocal \/ ServerReads \/ Refresh \/ (\E c \in Ids : OtherWrites(c))
  PROVE  SeenInvariant'
<1>1. UNCHANGED <<read, outline, past, future, shown, token, mirrored, buffer, flight>>
  BY DEF CancelRemoval, ReapplyLocal, ServerReads, Refresh, OtherWrites, page, queue, promises
<1>2. DocumentsHaveLines'
  <2>1. CASE CancelRemoval \/ ReapplyLocal \/ Refresh
    <3>1. doc' = doc /\ fetch' \in {fetch, Asked}
      BY <2>1 DEF CancelRemoval, ReapplyLocal, Refresh, Joined, server
    <3> QED BY <3>1, DocumentsStay DEF SeenInvariant
  <2>2. CASE ServerReads
    BY <2>2 DEF ServerReads, server, SeenInvariant, DocumentsHaveLines
  <2>3. CASE \E c \in Ids : OtherWrites(c)
    <3>1. PICK p : doc' = Edited(doc, p)
      BY <2>3 DEF OtherWrites
    <3>2. fetch' = fetch
      BY <2>3 DEF OtherWrites, page
    <3> QED BY <3>1, <3>2, EditedLines DEF SeenInvariant, DocumentsHaveLines
  <2> QED BY <2>1, <2>2, <2>3
<1> QED BY <1>1, <1>2, PageStays, SavesStay DEF SeenInvariant

LEMMA SeenFirst == Init => SeenInvariant
<1> SUFFICES ASSUME Init PROVE SeenInvariant
  OBVIOUS
<1>1. PICK start \in SetToSeqs(Lines) :
        LET lines == [i \in DOMAIN start |-> [id |-> start[i], text |-> {}]]
        IN  doc = lines /\ read = lines /\ outline = lines /\ token = lines
  BY DEF Init
<1> DEFINE lines == [i \in DOMAIN start |-> [id |-> start[i], text |-> {}]]
<1>2. /\ doc = lines /\ read = lines /\ outline = lines /\ token = lines
      /\ fetch = NoFetch /\ past = <<>> /\ future = <<>>
      /\ buffer = NoPatch /\ mirrored = NoPatch /\ flight = NoFlight
  BY <1>1 DEF Init
<1>3. start \in [1 .. Cardinality(Lines) -> Lines] /\ Cardinality(Lines) \in Nat
  BY <1>1, EditorConstants, FS_CardinalityType DEF SetToSeqs
<1>4. HasLines(lines) /\ KeysOf(lines) = {}
  <2> DEFINE n == Cardinality(Lines)
  <2>1. DOMAIN start = 1 .. n /\ n \in Nat
    BY <1>3
  <2>2. lines = [i \in 1 .. n |-> [id |-> start[i], text |-> {}]]
    BY <2>1
  <2> HIDE DEF lines, n
  <2> DEFINE ids == [i \in 1 .. n |-> start[i]]
             texts == [i \in 1 .. n |-> {}]
  <2>3. \A i \in 1 .. n : /\ lines[i].id = ids[i] /\ lines[i].text = texts[i]
                          /\ lines[i] = [id |-> lines[i].id, text |-> lines[i].text]
    <3>1. \A i \in 1 .. n : lines[i] = [id |-> ids[i], text |-> texts[i]]
      BY <2>2
    <3> HIDE DEF ids, texts
    <3> QED BY <3>1, LineFields
  <2>4. HasLines(lines) /\ DOMAIN lines = 1 .. n
    <3>1. lines = [i \in 1 .. n |-> [id |-> lines[i].id, text |-> lines[i].text]]
      BY <2>2, <2>3
    <3> QED BY <2>1, <3>1, LinesMakeADocument
  <2>5. \A i \in DOMAIN lines : lines[i].text = {}
    BY <2>3, <2>4
  <2> QED BY <2>4, <2>5, KeysOfLines
<1> HIDE DEF lines
<1>5. IsOfTheSeen(lines, shown)
  BY <1>4 DEF IsOfTheSeen, WereSeen
<1>6. DocumentsHaveLines
  BY <1>2, <1>4 DEF DocumentsHaveLines, NoFetch
<1>7. PageIsOfTheSeen
  BY <1>2, <1>5, EmptyIsOfTheSeen DEF PageIsOfTheSeen
<1>8. SavesAreOfTheSeen
  BY <1>2, <1>5, EmptyIsOfTheSeen DEF SavesAreOfTheSeen, IsOfTheSeen, Outstanding, NoFlight
<1> QED BY <1>6, <1>7, <1>8 DEF SeenInvariant

LEMMA SeenKeeps == ASSUME QueueInvariant, SeenInvariant, [Next]_vars PROVE SeenInvariant'
<1>1. CASE User
  BY <1>1, TypeInIsOfTheSeen, RemovalsAreOfTheSeen, AddLineIsOfTheSeen, MoveLineIsOfTheSeen,
     UndoRedoAreOfTheSeen, SendingIsOfTheSeen, DiscardIsOfTheSeen, OthersAreOfTheSeen DEF User
<1>2. CASE Page
  BY <1>2, RemovalsAreOfTheSeen, SendingIsOfTheSeen, SuccessIsOfTheSeen, RejectionIsOfTheSeen,
     ReadIsSeen DEF Page
<1>3. CASE Server
  BY <1>3, AnswerIsOfTheSeen, OthersAreOfTheSeen DEF Server
<1>4. CASE Surroundings
  BY <1>4, LossIsOfTheSeen, ReadFailsIsOfTheSeen, OthersAreOfTheSeen, ReloadIsOfTheSeen
  DEF Surroundings
<1>5. CASE UNCHANGED vars
  <2>1. UNCHANGED <<doc, read, outline, past, future, fetch, shown, token, mirrored, buffer, flight>>
    BY <1>5 DEF vars, server, page, queue, promises
  <2> QED BY <2>1, PageStays, SavesStay, DocumentsStay DEF SeenInvariant
<1> QED BY <1>1, <1>2, <1>3, <1>4, <1>5 DEF Next

\* Of another tab's text nothing is on the page, in its history, in its queue or in the version
\* it names that a read has not put in front of the reader (useDraftAutosave.ts, useDraftEditing.ts).
THEOREM OnlyTheSeenIsHeld == Spec => []SeenInvariant
<1>1. QueueInvariant /\ SeenInvariant /\ [Next]_vars => SeenInvariant'
  BY SeenKeeps
<1> QED BY <1>1, SeenFirst, QueueIsSound, PTL DEF Spec

\* A save goes through only over a document whose every text of another tab the reader had in
\* front of them: the version it names was read, or made by the page's own last save.
THEOREM NoTextIsOverwrittenBlind == Spec => NoBlindOverwrite
<1>1. ASSUME QueueInvariant, SeenInvariant, [Next]_vars, doc' # doc,
             flight.stage = "sent", flight'.stage = "answered"
      PROVE  KeysOf(doc) \cap Foreign \subseteq shown
  <2>1. ServerAnswers
    <3>1. \/ User \/ Page \/ Server \/ Surroundings
      BY <1>1 DEF Next, vars, server
    <3>2. doc' = doc \/ ServerAnswers \/ \E c \in Ids : OtherWrites(c)
      BY <3>1 DEF User, Page, Server, Surroundings, TypeIn, ConfirmRemoval, CancelRemoval, AddLine,
         MoveLine, Undo, Redo, Step, Flush, DiscardLocal, ReapplyLocal, RemovalLapses, Fire,
         SaveSucceeds, SaveFails, SaveConflicts, ReadArrives, ServerReads, RequestLost, AnswerLost,
         ReadFails, Refresh, Reload, server
    <3>3. \A c \in Ids : OtherWrites(c) => flight' = flight
      BY DEF OtherWrites, queue
    <3> QED BY <1>1, <3>2, <3>3
  <2>2. Answer(doc, flight.base, flight.patch) = "saved"
    BY <1>1, <2>1 DEF ServerAnswers
  <2>3. flight.base = doc
    BY <2>2 DEF Answer
  <2>4. WereSeen(KeysOf(flight.base), shown)
    BY <1>1 DEF SeenInvariant, SavesAreOfTheSeen, Outstanding
  <2> QED BY <2>3, <2>4 DEF WereSeen
<1>2. QueueInvariant /\ SeenInvariant /\ [Next]_vars
        => [(flight.stage = "sent" /\ flight'.stage = "answered") =>
               KeysOf(doc) \cap Foreign \subseteq shown]_doc
  BY <1>1
<1> QED BY <1>2, OnlyTheSeenIsHeld, QueueIsSound, PTL DEF Spec, NoBlindOverwrite
-----------------------------------------------------------------------------
(* Documents line by line: which ids, in which order, with which texts *)

LEMMA TextAt ==
  ASSUME NEW d, Distinct(d), NEW i \in DOMAIN d
  PROVE  TextOf(d, d[i].id) = d[i].text
<1> DEFINE j == CHOOSE k \in DOMAIN d : d[k].id = d[i].id
<1>1. j \in DOMAIN d /\ d[j].id = d[i].id
  OBVIOUS
<1>2. j = i
  BY <1>1 DEF Distinct
<1> QED BY <1>2 DEF TextOf

LEMMA PlaceOf ==
  ASSUME NEW d, NEW c \in IdsOf(d)
  PROVE  \E i \in DOMAIN d : d[i].id = c /\ TextOf(d, c) = d[i].text
<1> DEFINE j == CHOOSE k \in DOMAIN d : d[k].id = c
<1>1. \E k \in DOMAIN d : d[k].id = c
  BY DEF IdsOf
<1>2. j \in DOMAIN d /\ d[j].id = c
  BY <1>1
<1> QED BY <1>2 DEF TextOf

LEMMA OrderTellsIds ==
  ASSUME NEW d
  PROVE  ToSet(OrderOf(d)) = IdsOf(d) /\ DOMAIN OrderOf(d) = DOMAIN d
  BY DEF OrderOf, ToSet, IdsOf

\* Two documents in the same order with the same text in a line have that line in common.
LEMMA SameLines ==
  ASSUME NEW d, HasLines(d), Distinct(d), NEW e, HasLines(e), Distinct(e),
         OrderOf(d) = OrderOf(e), NEW i \in DOMAIN e, TextOf(d, e[i].id) = TextOf(e, e[i].id)
  PROVE  d[i] = e[i]
<1>1. DOMAIN d = DOMAIN e
  BY OrderTellsIds
<1>2. OrderOf(d)[i] = d[i].id /\ OrderOf(e)[i] = e[i].id
  BY <1>1 DEF OrderOf
<1>3. d[i].id = e[i].id
  BY <1>2
<1>4. d[i].text = e[i].text
  BY <1>1, <1>3, TextAt
<1>5. d[i] = [id |-> d[i].id, text |-> d[i].text] /\ e[i] = [id |-> e[i].id, text |-> e[i].text]
  BY <1>1 DEF HasLines
<1> DEFINE x == d[i]
           y == e[i]
<1>6. /\ x = [id |-> x.id, text |-> x.text] /\ y = [id |-> y.id, text |-> y.text]
      /\ x.id = y.id /\ x.text = y.text
  BY <1>3, <1>4, <1>5
<1> HIDE DEF x, y
<1>7. x = y
  BY <1>6
<1> QED BY <1>7 DEF x, y

\* The lines of an edited document, one for one.
LEMMA EditedAt ==
  ASSUME NEW d, HasLines(d), NEW p
  PROVE  /\ DOMAIN Edited(d, p) = DOMAIN d
         /\ \A i \in DOMAIN d :
               /\ Edited(d, p)[i].id = d[i].id
               /\ Edited(d, p)[i].text = IF d[i].id \in DOMAIN p.edits THEN p.edits[d[i].id]
                                         ELSE d[i].text
<1> DEFINE e == Edited(d, p)
<1>1. /\ DOMAIN e = DOMAIN d
      /\ \A i \in DOMAIN d : e[i] = IF d[i].id \in DOMAIN p.edits
                             THEN [d[i] EXCEPT !.text = p.edits[d[i].id]] ELSE d[i]
  BY DEF Edited
<1> HIDE DEF e
<1>2. ASSUME NEW i \in DOMAIN d
      PROVE  /\ e[i].id = d[i].id
             /\ e[i].text = IF d[i].id \in DOMAIN p.edits THEN p.edits[d[i].id] ELSE d[i].text
  <2> DEFINE line == d[i]
             new == e[i]
             text == p.edits[line.id]
  <2>1. line = [id |-> line.id, text |-> line.text]
    BY DEF HasLines
  <2>2. new = IF line.id \in DOMAIN p.edits THEN [line EXCEPT !.text = text] ELSE line
    BY <1>1
  <2> HIDE DEF line, new, text
  <2>3. [line EXCEPT !.text = text] = [id |-> line.id, text |-> text]
    BY <2>1
  <2>4. new = [id |-> line.id, text |-> IF line.id \in DOMAIN p.edits THEN text ELSE line.text]
    BY <2>1, <2>2, <2>3
  <2>5. new.id = line.id /\ new.text = IF line.id \in DOMAIN p.edits THEN text ELSE line.text
    BY <2>4
  <2> QED BY <2>5 DEF line, new, text
<1> QED BY <1>1, <1>2 DEF e

LEMMA EditedTexts ==
  ASSUME NEW d, HasLines(d), Distinct(d), NEW p
  PROVE  /\ HasLines(Edited(d, p)) /\ Distinct(Edited(d, p))
         /\ IdsOf(Edited(d, p)) = IdsOf(d) /\ OrderOf(Edited(d, p)) = OrderOf(d)
         /\ \A c \in IdsOf(d) : TextOf(Edited(d, p), c) =
               IF c \in DOMAIN p.edits THEN p.edits[c] ELSE TextOf(d, c)
<1> DEFINE e == Edited(d, p)
<1>1. /\ DOMAIN e = DOMAIN d
      /\ \A i \in DOMAIN d :
            /\ e[i].id = d[i].id
            /\ e[i].text = IF d[i].id \in DOMAIN p.edits THEN p.edits[d[i].id] ELSE d[i].text
  BY EditedAt
<1>2. HasLines(e) /\ IdsOf(e) = IdsOf(d)
  BY EditedLines
<1> HIDE DEF e
<1>3. Distinct(e)
  BY <1>1 DEF Distinct
<1>4. OrderOf(e) = OrderOf(d)
  BY <1>1 DEF OrderOf
<1>5. ASSUME NEW c \in IdsOf(d)
      PROVE  TextOf(e, c) = IF c \in DOMAIN p.edits THEN p.edits[c] ELSE TextOf(d, c)
  <2>1. PICK i \in DOMAIN d : d[i].id = c /\ TextOf(d, c) = d[i].text
    BY PlaceOf
  <2>2. TextOf(e, c) = e[i].text
    BY <1>1, <1>3, <2>1, TextAt
  <2> QED BY <1>1, <2>1, <2>2
<1> QED BY <1>2, <1>3, <1>4, <1>5 DEF e

\* Some lines of a document, kept in their order, are distinct when its lines are.
LEMMA KeptDistinct ==
  ASSUME NEW S, NEW s \in Seq(S), NEW places, Distinct(s)
  PROVE  Distinct(Kept(s, places))
<1> DEFINE f == CHOOSE g : g = [i \in 0 .. Len(s) |-> IF i = 0 THEN <<>>
                  ELSE IF i \in places THEN Append(g[i - 1], s[i]) ELSE g[i - 1]]
<1>1. Kept(s, places) = f[Len(s)]
  BY DEF Kept
<1>2. Keeps(f, s, places, Len(s))
  <2>1. \E g : Keeps(g, s, places, Len(s))
    BY KeepsExists, LenProperties
  <2> QED BY <2>1 DEF Keeps
<1> HIDE DEF f
<1>3. \A i \in 0 .. Len(s) : f[i] = IF i = 0 THEN <<>>
                        ELSE IF i \in places THEN Append(f[i - 1], s[i]) ELSE f[i - 1]
  BY <1>2 DEF Keeps
<1> DEFINE Good(i) == /\ f[i] \in Seq(S) /\ Distinct(f[i])
                      /\ \A j \in DOMAIN f[i] : \E k \in 1 .. i : f[i][j] = s[k]
           T == {i \in Nat : i <= Len(s) => Good(i)}
<1>4. Len(s) \in Nat /\ DOMAIN s = 1 .. Len(s)
  BY LenProperties
<1>5. 0 \in T
  <2>1. f[0] = <<>>
    BY <1>3, <1>4
  <2>2. <<>> \in Seq(S) /\ DOMAIN <<>> = {}
    BY EmptySeq
  <2> QED BY <2>1, <2>2 DEF Distinct
<1>6. ASSUME NEW i \in T PROVE i + 1 \in T
  <2> SUFFICES ASSUME i + 1 <= Len(s) PROVE Good(i + 1)
    OBVIOUS
  <2>1. i \in Nat /\ i + 1 \in 0 .. Len(s) /\ i + 1 \in 1 .. Len(s) /\ i + 1 # 0 /\ (i + 1) - 1 = i
    BY <1>4
  <2>2. Good(i)
    BY <1>4, <2>1
  <2>3. f[i + 1] = IF i + 1 \in places THEN Append(f[i], s[i + 1]) ELSE f[i]
    BY <1>3, <2>1
  <2>4. s[i + 1] \in S
    BY <2>1, ElementOfSeq
  <2>5. \A k \in 1 .. i : k \in 1 .. i + 1 /\ k # i + 1
    BY <2>1
  <2>6. CASE i + 1 \in places
    <3> DEFINE t == f[i]
               x == s[i + 1]
               more == Append(t, x)
               n == Len(t)
    <3>1. t \in Seq(S) /\ x \in S
      BY <2>2, <2>4
    <3>2. /\ more \in Seq(S) /\ Len(more) = n + 1
          /\ \A j \in 1 .. n : more[j] = t[j]
          /\ more[n + 1] = x
      BY <3>1, AppendProperties
    <3>3. DOMAIN t = 1 .. n /\ n \in Nat /\ DOMAIN more = 1 .. n + 1
      BY <3>1, <3>2, LenProperties
    <3>4. f[i + 1] = more
      BY <2>3, <2>6
    <3>5. \A j \in DOMAIN t : \E k \in 1 .. i : t[j] = s[k]
      BY <2>2
    <3>6. Distinct(t)
      BY <2>2
    <3> HIDE DEF t, x, more, n
    <3>7. \A j \in 1 .. n + 1 : j \in 1 .. n \/ j = n + 1
      BY <3>3
    <3>8. \A j \in DOMAIN more : \E k \in 1 .. i + 1 : more[j] = s[k]
      <4>1. i + 1 \in 1 .. i + 1
        BY <2>1
      <4> QED BY <2>5, <3>2, <3>3, <3>5, <3>7, <4>1 DEF x
    <3>9. \A j \in 1 .. n : t[j].id # x.id
      <4> SUFFICES ASSUME NEW j \in 1 .. n PROVE t[j].id # x.id
        OBVIOUS
      <4>1. PICK k \in 1 .. i : t[j] = s[k]
        BY <3>3, <3>5
      <4>2. k \in DOMAIN s /\ i + 1 \in DOMAIN s /\ k # i + 1
        BY <1>4, <2>1
      <4>3. s[k].id # s[i + 1].id
        BY <4>2 DEF Distinct
      <4> QED BY <4>1, <4>3 DEF x
    <3>10. Distinct(more)
      BY <3>2, <3>3, <3>6, <3>7, <3>9 DEF Distinct
    <3> QED BY <3>2, <3>4, <3>8, <3>10
  <2>7. CASE i + 1 \notin places
    BY <2>2, <2>3, <2>5, <2>7
  <2> QED BY <2>6, <2>7
<1>7. T = Nat
  <2> HIDE DEF T
  <2>1. T \in SUBSET Nat
    BY DEF T
  <2> QED BY <1>5, <1>6, <2>1, Counting
<1>8. Good(Len(s))
  <2> HIDE DEF Good
  <2> QED BY <1>4, <1>7
<1> QED BY <1>1, <1>8

\* Keeping every place keeps the sequence.
LEMMA KeptWhole ==
  ASSUME NEW S, NEW s \in Seq(S), NEW places, DOMAIN s \subseteq places
  PROVE  Kept(s, places) = s
<1> DEFINE f == CHOOSE g : g = [i \in 0 .. Len(s) |-> IF i = 0 THEN <<>>
                  ELSE IF i \in places THEN Append(g[i - 1], s[i]) ELSE g[i - 1]]
<1>1. Kept(s, places) = f[Len(s)]
  BY DEF Kept
<1>2. Keeps(f, s, places, Len(s))
  <2>1. \E g : Keeps(g, s, places, Len(s))
    BY KeepsExists, LenProperties
  <2> QED BY <2>1 DEF Keeps
<1> HIDE DEF f
<1>3. \A i \in 0 .. Len(s) : f[i] = IF i = 0 THEN <<>>
                        ELSE IF i \in places THEN Append(f[i - 1], s[i]) ELSE f[i - 1]
  BY <1>2 DEF Keeps
<1> DEFINE Good(i) == f[i] \in Seq(S) /\ Len(f[i]) = i /\ \A j \in 1 .. i : f[i][j] = s[j]
           T == {i \in Nat : i <= Len(s) => Good(i)}
<1>4. Len(s) \in Nat /\ DOMAIN s = 1 .. Len(s)
  BY LenProperties
<1>5. 0 \in T
  <2>1. f[0] = <<>>
    BY <1>3, <1>4
  <2>2. <<>> \in Seq(S) /\ Len(<<>>) = 0
    BY EmptySeq
  <2>3. Good(0)
    <3>1. \A j \in 1 .. 0 : FALSE
      OBVIOUS
    <3> QED BY <2>1, <2>2, <3>1
  <2> HIDE DEF Good
  <2> QED BY <2>3
<1>6. ASSUME NEW i \in T PROVE i + 1 \in T
  <2> SUFFICES ASSUME i + 1 <= Len(s) PROVE Good(i + 1)
    OBVIOUS
  <2>1. i \in Nat /\ i + 1 \in 0 .. Len(s) /\ i + 1 \in 1 .. Len(s) /\ i + 1 # 0 /\ (i + 1) - 1 = i
    BY <1>4
  <2>2. Good(i)
    BY <1>4, <2>1
  <2>3. f[i + 1] = Append(f[i], s[i + 1])
    BY <1>3, <1>4, <2>1
  <2> DEFINE t == f[i]
             x == s[i + 1]
             more == Append(t, x)
  <2>4. t \in Seq(S) /\ x \in S /\ Len(t) = i
    BY <2>1, <2>2, ElementOfSeq
  <2>5. /\ more \in Seq(S) /\ Len(more) = i + 1
        /\ \A j \in 1 .. i : more[j] = t[j]
        /\ more[i + 1] = x
    BY <2>4, AppendProperties
  <2>6. \A j \in 1 .. i + 1 : j \in 1 .. i \/ j = i + 1
    BY <2>1
  <2>7. \A j \in 1 .. i : t[j] = s[j]
    BY <2>2
  <2>8. f[i + 1] = more
    BY <2>3
  <2>9. \A j \in 1 .. i + 1 : more[j] = s[j]
    <3> HIDE DEF more, t
    <3> QED BY <2>5, <2>6, <2>7
  <2> HIDE DEF more
  <2> QED BY <2>5, <2>8, <2>9
<1>7. T = Nat
  <2> HIDE DEF T
  <2>1. T \in SUBSET Nat
    BY DEF T
  <2> QED BY <1>5, <1>6, <2>1, Counting
<1>8. Good(Len(s))
  <2> HIDE DEF Good
  <2> QED BY <1>4, <1>7
<1>9. f[Len(s)] = s
  BY <1>4, <1>8, SeqEqual
<1> QED BY <1>1, <1>9

LEMMA RemainingTexts ==
  ASSUME NEW d, HasLines(d), Distinct(d), NEW p
  PROVE  /\ HasLines(Remaining(d, p)) /\ Distinct(Remaining(d, p))
         /\ IdsOf(Remaining(d, p)) = IdsOf(d) \ p.removals
         /\ \A c \in IdsOf(d) \ p.removals : TextOf(Remaining(d, p), c) = TextOf(d, c)
         /\ p.removals = {} => Remaining(d, p) = d
<1> DEFINE S == {d[i] : i \in DOMAIN d}
           places == {i \in DOMAIN d : d[i].id \notin p.removals}
           r == Remaining(d, p)
<1>1. d \in Seq(S)
  BY DEF HasLines, IsSequence
<1>2. r = Kept(d, places)
  BY DEF Remaining
<1>3. HasLines(r) /\ IdsOf(r) = IdsOf(d) \ p.removals
  BY RemainingLines
<1>4. r \in Seq(S) /\ ToSet(r) \subseteq S /\ Distinct(r)
  <2>1. ToSet(r) = {d[i] : i \in places \cap DOMAIN d} /\ r \in Seq(S)
    <3> HIDE DEF S, places, r
    <3> QED BY <1>1, <1>2, KeptElements
  <2>2. Distinct(r)
    <3> HIDE DEF S, places, r
    <3> QED BY <1>1, <1>2, KeptDistinct
  <2> QED BY <2>1, <2>2
<1>5. p.removals = {} => r = d
  <2> SUFFICES ASSUME p.removals = {} PROVE r = d
    OBVIOUS
  <2>1. DOMAIN d \subseteq places
    OBVIOUS
  <2> HIDE DEF S, places, r
  <2> QED BY <1>1, <1>2, <2>1, KeptWhole
<1> HIDE DEF r
<1>6. ASSUME NEW c \in IdsOf(d) \ p.removals PROVE TextOf(r, c) = TextOf(d, c)
  <2>1. PICK i \in DOMAIN r : r[i].id = c /\ TextOf(r, c) = r[i].text
    BY <1>3, PlaceOf
  <2>2. PICK j \in DOMAIN d : r[i] = d[j]
    BY <1>4 DEF ToSet
  <2>3. TextOf(d, c) = d[j].text
    BY <2>1, <2>2, TextAt
  <2> QED BY <2>1, <2>2, <2>3
<1> QED BY <1>3, <1>4, <1>5, <1>6 DEF r

\* Ids for added lines are new, and no two of them are the same.
LEMMA IdsAreFresh ==
  ASSUME NEW n \in Nat, n <= Cardinality(NewLines \ minted)
  PROVE  /\ DOMAIN FreshIds(n) = 1 .. n
         /\ \A i \in 1 .. n : FreshIds(n)[i] \in NewLines \ minted
         /\ \A i, j \in 1 .. n : FreshIds(n)[i] = FreshIds(n)[j] => i = j
<1> DEFINE S == NewLines \ minted
           m == Cardinality(S)
           s == SetToSeq(S)
<1>1. IsFiniteSet(S)
  BY EditorConstants, FS_Subset
<1>2. m \in Nat /\ ExistsBijection(1 .. m, S)
  BY <1>1, FS_CardinalityType
<1>3. \E f \in [1 .. m -> S] : IsInjective(f)
  <2>1. PICK f : f \in Bijection(1 .. m, S)
    BY <1>2 DEF ExistsBijection
  <2> HIDE DEF S, m
  <2>2. f \in [1 .. m -> S] /\ \A a, b \in 1 .. m : f[a] = f[b] => a = b
    BY <2>1 DEF Bijection, Injection, IsInjective
  <2> QED BY <2>2 DEF IsInjective
<1>4. s \in [1 .. m -> S] /\ IsInjective(s)
  <2>1. s = CHOOSE f \in [1 .. m -> S] : IsInjective(f)
    BY DEF SetToSeq
  <2> QED BY <1>3, <2>1
<1> HIDE DEF S, m, s
<1>5. \A i \in 1 .. n : i \in 1 .. m
  BY <1>2 DEF m, S
<1>6. FreshIds(n) = [i \in 1 .. n |-> s[i]]
  <2>1. FreshIds(n) = SubSeq(s, 1, n)
    BY DEF FreshIds, s, S
  <2> DEFINE t == SubSeq(s, 1, n)
  <2>2. \A i \in 1 .. n : s[i] \in S
    BY <1>4, <1>5
  <2>3. /\ t \in Seq(S) /\ Len(t) = n
        /\ \A i \in 1 .. n : t[i] = s[i]
    <3>1. CASE n = 0
      BY <3>1, <2>2, SubSeqProperties
    <3>2. CASE n # 0
      <4>1. 1 \in 1 .. n + 1 /\ n \in Nat /\ 1 \in Nat
        BY <3>2
      <4> QED BY <2>2, <4>1, SubSeqProperties
    <3> QED BY <3>1, <3>2
  <2> HIDE DEF t
  <2>4. t = [i \in 1 .. n |-> t[i]]
    BY <2>3, LenProperties
  <2> QED BY <2>1, <2>3, <2>4 DEF t
<1> QED BY <1>4, <1>5, <1>6 DEF IsInjective, S

LEMMA ExtendedTexts ==
  ASSUME NEW d, HasLines(d), Distinct(d), IdsOf(d) \subseteq GivenOut, NEW p, HasPatchShape(p),
         Len(p.additions) <= Cardinality(NewLines \ minted)
  PROVE  LET fresh == ToSet(FreshIds(Len(p.additions)))
         IN  /\ HasLines(Extended(d, p)) /\ Distinct(Extended(d, p))
             /\ fresh \subseteq NewLines \ minted
             /\ fresh \cap GivenOut = {}
             /\ IdsOf(Extended(d, p)) = IdsOf(d) \union fresh
             /\ \A c \in IdsOf(d) : TextOf(Extended(d, p), c) = TextOf(d, c)
             /\ \/ \E c : c \in fresh
                \/ fresh = {} /\ Extended(d, p) = d
<1> DEFINE ids == FreshIds(Len(p.additions))
           fresh == ToSet(ids)
           more == [i \in DOMAIN p.additions |-> [id |-> ids[i], text |-> p.additions[i]]]
           n == Len(d)
           m == Len(p.additions)
           e == Extended(d, p)
<1>1. /\ n \in Nat /\ DOMAIN d = 1 .. n /\ d = [i \in 1 .. n |-> d[i]]
      /\ \A i \in 1 .. n : d[i] = [id |-> d[i].id, text |-> d[i].text]
  BY DocumentsAreLines
<1>2. m \in Nat /\ DOMAIN p.additions = 1 .. m
  BY LenProperties DEF HasPatchShape
<1>3. /\ DOMAIN ids = 1 .. m
      /\ \A i \in 1 .. m : ids[i] \in NewLines \ minted
      /\ \A i, j \in 1 .. m : ids[i] = ids[j] => i = j
  <2> HIDE DEF m
  <2>1. m <= Cardinality(NewLines \ minted)
    BY DEF m
  <2> QED BY <1>2, <2>1, IdsAreFresh DEF m
<1>4. e = d \o more
  BY DEF Extended
<1>5. more = [i \in 1 .. m |-> [id |-> ids[i], text |-> p.additions[i]]]
  BY <1>2
<1>6. /\ HasLines(e)
      /\ IdsOf(e) = IdsOf(d) \union {ids[i] : i \in DOMAIN p.additions}
  BY ExtendedLines
<1> HIDE DEF ids, more, n, m, e
<1>7. IsSequence(more) /\ Len(more) = m /\ DOMAIN more = 1 .. m
  <2>1. more = [i \in 1 .. m |-> more[i]]
    BY <1>5
  <2> QED BY <1>2, <2>1, SequencesAreFunctions
<1> DEFINE S == {d[i] : i \in DOMAIN d} \union {more[i] : i \in DOMAIN more}
<1>8. d \in Seq(S) /\ more \in Seq(S)
  <2>1. d \in [1 .. n -> S] /\ more \in [1 .. m -> S]
    BY <1>1, <1>5, <1>7
  <2> HIDE DEF S
  <2> QED BY <1>1, <1>2, <2>1
<1> HIDE DEF S
<1>9. /\ e \in Seq(S) /\ Len(e) = n + m
      /\ \A i \in 1 .. n + m : e[i] = IF i <= n THEN d[i] ELSE more[i - n]
  BY <1>4, <1>7, <1>8, ConcatProperties DEF n
<1>10. DOMAIN e = 1 .. n + m
  BY <1>9, LenProperties
<1>11. \A i \in 1 .. m : more[i].id = ids[i]
  BY <1>5
<1>12. fresh = {ids[i] : i \in 1 .. m} /\ fresh \subseteq NewLines \ minted
  BY <1>3 DEF ToSet
<1>13. fresh \cap GivenOut = {}
  BY <1>12, EditorConstants DEF GivenOut
<1>14. IdsOf(e) = IdsOf(d) \union fresh
  BY <1>2, <1>6, <1>12
<1>15. \A i \in 1 .. n + m : \/ i \in 1 .. n /\ e[i] = d[i] /\ e[i].id \in IdsOf(d)
                             \/ i - n \in 1 .. m /\ e[i].id = ids[i - n] /\ e[i].id \in fresh
  <2> TAKE i \in 1 .. n + m
  <2>1. CASE i <= n
    <3>1. i \in 1 .. n /\ e[i] = d[i]
      BY <1>1, <1>2, <1>9, <2>1
    <3> QED BY <1>1, <3>1 DEF IdsOf
  <2>2. CASE ~(i <= n)
    <3>1. i - n \in 1 .. m /\ e[i] = more[i - n]
      BY <1>1, <1>2, <1>9, <2>2
    <3> QED BY <1>11, <1>12, <3>1
  <2> QED BY <2>1, <2>2
<1> HIDE DEF fresh
<1>16. IdsOf(d) \cap fresh = {}
  BY <1>13
<1>17. Distinct(e)
  <2> SUFFICES ASSUME NEW i \in 1 .. n + m, NEW j \in 1 .. n + m, e[i].id = e[j].id
               PROVE  i = j
    BY <1>10 DEF Distinct
  <2>1. CASE i \in 1 .. n /\ j \in 1 .. n /\ e[i] = d[i] /\ e[j] = d[j]
    BY <1>1, <2>1 DEF Distinct
  <2>2. CASE i - n \in 1 .. m /\ j - n \in 1 .. m /\ e[i].id = ids[i - n] /\ e[j].id = ids[j - n]
    <3>1. i - n = j - n
      BY <1>3, <2>2
    <3> QED BY <1>1, <1>2, <3>1
  <2> QED BY <1>15, <1>16, <2>1, <2>2
<1>18. ASSUME NEW c \in IdsOf(d) PROVE TextOf(e, c) = TextOf(d, c)
  <2>1. PICK i \in DOMAIN e : e[i].id = c /\ TextOf(e, c) = e[i].text
    BY <1>14, PlaceOf
  <2>2. i \in 1 .. n /\ e[i] = d[i]
    BY <1>10, <1>15, <1>16, <2>1
  <2> QED BY <1>1, <2>1, <2>2, TextAt
<1>19. (\E c : c \in fresh) \/ (fresh = {} /\ e = d)
  <2>1. CASE m = 0
    <3>1. \A i \in 1 .. n : e[i] = d[i]
      BY <1>1, <1>9, <2>1
    <3>2. Len(e) = n
      BY <1>1, <1>9, <2>1
    <3>3. e = d
      BY <1>8, <1>9, <3>1, <3>2, SeqEqual DEF n
    <3>4. fresh = {}
      <4>1. 1 .. m = {}
        BY <2>1
      <4> QED BY <1>12, <4>1
    <3> QED BY <3>3, <3>4
  <2>2. CASE m # 0
    <3>1. 1 \in 1 .. m
      BY <1>2, <2>2
    <3> QED BY <1>12, <3>1
  <2> QED BY <2>1, <2>2
<1> QED BY <1>6, <1>12, <1>13, <1>14, <1>17, <1>18, <1>19 DEF e, fresh, ids

LEMMA ReorderedTexts ==
  ASSUME NEW d, HasLines(d), Distinct(d), NEW p,
         \A order \in p.orders :
            IsSequence(order) /\ IsInjective(order) /\ ToSet(order) = IdsOf(d)
  PROVE  /\ HasLines(Reordered(d, p)) /\ Distinct(Reordered(d, p))
         /\ IdsOf(Reordered(d, p)) = IdsOf(d)
         /\ \A c \in IdsOf(d) : TextOf(Reordered(d, p), c) = TextOf(d, c)
         /\ \/ p.orders = {} /\ Reordered(d, p) = d
            \/ OrderOf(Reordered(d, p)) \in p.orders
<1>1. CASE p.orders = {}
  BY <1>1 DEF Reordered
<1>2. CASE p.orders # {}
  <2> DEFINE order == CHOOSE o \in p.orders : TRUE
             n == Len(order)
             r == Reordered(d, p)
  <2>1. order \in p.orders
    BY <1>2
  <2>2. r = [i \in DOMAIN order |-> [id |-> order[i], text |-> TextOf(d, order[i])]]
    BY <1>2 DEF Reordered
  <2>3. HasLines(r)
    BY ReorderedLines
  <2> HIDE DEF order, r, n
  <2>4. IsSequence(order) /\ IsInjective(order) /\ ToSet(order) = IdsOf(d)
    BY <2>1
  <2>5. n \in Nat /\ DOMAIN order = 1 .. n /\ order = [i \in 1 .. n |-> order[i]]
    BY <2>4, SequencesHaveLengths DEF n
  <2>6. DOMAIN r = 1 .. n /\ \A i \in 1 .. n : r[i].id = order[i] /\ r[i].text = TextOf(d, order[i])
    BY <2>2, <2>5
  <2>7. OrderOf(r) = order
    BY <2>5, <2>6 DEF OrderOf
  <2>8. Distinct(r)
    BY <2>4, <2>5, <2>6 DEF Distinct, IsInjective
  <2>9. IdsOf(r) = IdsOf(d)
    BY <2>4, <2>7, OrderTellsIds
  <2>10. ASSUME NEW c \in IdsOf(d) PROVE TextOf(r, c) = TextOf(d, c)
    <3>1. PICK i \in DOMAIN r : r[i].id = c /\ TextOf(r, c) = r[i].text
      BY <2>9, PlaceOf
    <3> QED BY <2>6, <3>1
  <2> QED BY <2>1, <2>3, <2>7, <2>8, <2>9, <2>10 DEF r
<1> QED BY <1>1, <1>2

\* What the server makes of a patch it accepts: the lines that stay keep their place and their
\* text, or get those of the patch, and the lines that come are new.
LEMMA PatchedTexts ==
  ASSUME NEW d, HasLines(d), Distinct(d), IdsOf(d) \subseteq GivenOut,
         NEW p, HasPatchShape(p), Applicable(d, p), \A order \in p.orders : IsSequence(order),
         Len(p.additions) <= Cardinality(NewLines \ minted)
  PROVE  LET fresh == ToSet(FreshIds(Len(p.additions)))
             made  == Patched(d, p)
         IN  /\ Distinct(made) /\ IdsOf(made) = (IdsOf(d) \ p.removals) \union fresh
             /\ fresh \subseteq NewLines \ minted /\ fresh \cap GivenOut = {}
             /\ \A c \in IdsOf(d) \ p.removals :
                   TextOf(made, c) = IF c \in DOMAIN p.edits THEN p.edits[c] ELSE TextOf(d, c)
             /\ p.orders # {} => OrderOf(made) \in p.orders
             /\ p.orders = {} => \/ OrderOf(made) = OrderOf(d)
                                 \/ \E c : c \in IdsOf(d) \cap p.removals
                                 \/ \E c : c \in fresh
<1> DEFINE fresh == ToSet(FreshIds(Len(p.additions)))
           e == Edited(d, p)
           r == Remaining(e, p)
           x == Extended(r, p)
           z == Reordered(x, p)
<1>1. /\ HasLines(e) /\ Distinct(e) /\ IdsOf(e) = IdsOf(d) /\ OrderOf(e) = OrderOf(d)
      /\ \A c \in IdsOf(d) : TextOf(e, c) =
            IF c \in DOMAIN p.edits THEN p.edits[c] ELSE TextOf(d, c)
  BY EditedTexts
<1> HIDE DEF e
<1>2. /\ HasLines(r) /\ Distinct(r) /\ IdsOf(r) = IdsOf(d) \ p.removals
      /\ \A c \in IdsOf(d) \ p.removals : TextOf(r, c) = TextOf(e, c)
      /\ p.removals = {} => r = e
  BY <1>1, RemainingTexts
<1> HIDE DEF r
<1>3. /\ HasLines(x) /\ Distinct(x)
      /\ fresh \subseteq NewLines \ minted /\ fresh \cap GivenOut = {}
      /\ IdsOf(x) = IdsOf(r) \union fresh
      /\ \A c \in IdsOf(r) : TextOf(x, c) = TextOf(r, c)
      /\ (\E c : c \in fresh) \/ (fresh = {} /\ x = r)
  <2>1. IdsOf(r) \subseteq GivenOut
    BY <1>2
  <2> QED BY <1>2, <2>1, ExtendedTexts
<1>4. ASSUME NEW order \in p.orders PROVE IsInjective(order) /\ ToSet(order) = IdsOf(x)
  <2>1. IsInjective(order) /\ ToSet(order) = IdsOf(Extended(Remaining(d, p), p))
    BY <1>4 DEF Applicable
  <2> DEFINE kept == Remaining(d, p)
  <2>2. HasLines(kept) /\ Distinct(kept) /\ IdsOf(kept) = IdsOf(d) \ p.removals
    BY RemainingTexts
  <2> HIDE DEF kept
  <2>3. IdsOf(kept) \subseteq GivenOut
    BY <2>2
  <2>4. IdsOf(Extended(kept, p)) = IdsOf(kept) \union fresh
    BY <2>2, <2>3, ExtendedTexts
  <2> QED BY <1>2, <1>3, <2>1, <2>2, <2>4 DEF kept
<1> HIDE DEF x, fresh
<1>5. /\ Distinct(z) /\ IdsOf(z) = IdsOf(x)
      /\ \A c \in IdsOf(x) : TextOf(z, c) = TextOf(x, c)
      /\ (p.orders = {} /\ z = x) \/ OrderOf(z) \in p.orders
  BY <1>3, <1>4, ReorderedTexts
<1>6. Patched(d, p) = z
  BY DEF e, r, x, z, Patched
<1> HIDE DEF z
<1>7. ASSUME p.orders = {}
      PROVE  \/ OrderOf(z) = OrderOf(d)
             \/ \E c : c \in IdsOf(d) \cap p.removals
             \/ \E c : c \in fresh
  <2>1. z = x
    BY <1>5, <1>7
  <2>2. CASE p.removals = {}
    BY <1>1, <1>2, <1>3, <2>1, <2>2
  <2>3. CASE p.removals # {}
    BY <2>3 DEF Applicable
  <2> QED BY <2>2, <2>3
<1>8. \A c \in IdsOf(d) \ p.removals :
         TextOf(z, c) = IF c \in DOMAIN p.edits THEN p.edits[c] ELSE TextOf(d, c)
  BY <1>1, <1>2, <1>3, <1>5
<1>9. p.orders # {} => OrderOf(z) \in p.orders
  BY <1>5
<1>10. IdsOf(z) = (IdsOf(d) \ p.removals) \union fresh
  BY <1>2, <1>3, <1>5
<1> QED BY <1>3, <1>5, <1>6, <1>7, <1>8, <1>9, <1>10 DEF fresh

-----------------------------------------------------------------------------
(* The history's documents *)

LEMMA DocumentsOf ==
  ASSUME NEW D, NEW S, \A entry \in S : entry.before \in D /\ entry.after \in D, NEW h \in Seq(S)
  PROVE  Documents(h) \subseteq D
<1>1. DOMAIN h = 1 .. Len(h) /\ h \in [1 .. Len(h) -> S]
  BY LenProperties
<1> QED BY <1>1 DEF Documents

LEMMA LongerHistory ==
  ASSUME NEW h, IsSequence(h), NEW D, Documents(h) \subseteq D,
         NEW entry, entry.before \in D, entry.after \in D
  PROVE  /\ Documents(Trimmed(Append(h, entry))) \subseteq D
         /\ Documents(<<entry>> \o h) \subseteq D
         /\ Documents(h \o <<entry>>) \subseteq D
<1> DEFINE old == {h[i] : i \in DOMAIN h}
           S == old \union {entry}
<1>1. h \in Seq(old)
  BY DEF IsSequence
<1>2. (\A x \in S : x.before \in D /\ x.after \in D) /\ entry \in S
  BY DEF Documents
<1>3. h \in Seq(S) /\ <<entry>> \in Seq(S)
  <2> HIDE DEF old
  <2>1. Len(h) \in Nat /\ h \in [1 .. Len(h) -> old]
    BY <1>1, LenProperties
  <2>2. h \in [1 .. Len(h) -> S]
    BY <2>1
  <2> HIDE DEF S
  <2> QED BY <1>2, <2>1, <2>2
<1> HIDE DEF S
<1>4. /\ Append(h, entry) \in Seq(S) /\ Append(h, entry) # <<>>
      /\ <<entry>> \o h \in Seq(S) /\ h \o <<entry>> \in Seq(S)
  BY <1>2, <1>3, AppendProperties, ConcatProperties
<1>5. Trimmed(Append(h, entry)) \in Seq(S)
  BY <1>4, HeadTailProperties DEF Trimmed
<1> QED BY <1>2, <1>4, <1>5, DocumentsOf

LEMMA ShorterHistory ==
  ASSUME NEW h, IsSequence(h), h # <<>>
  PROVE  /\ IsSequence(Front(h)) /\ Documents(Front(h)) \subseteq Documents(h)
         /\ IsSequence(Tail(h)) /\ Documents(Tail(h)) \subseteq Documents(h)
         /\ Last(h).before \in Documents(h) /\ Last(h).after \in Documents(h)
         /\ Head(h).before \in Documents(h) /\ Head(h).after \in Documents(h)
<1> DEFINE S == {h[i] : i \in DOMAIN h}
<1>1. h \in Seq(S) /\ \A x \in S : x.before \in Documents(h) /\ x.after \in Documents(h)
  BY DEF IsSequence, Documents
<1> HIDE DEF S
<1>2. Len(h) \in Nat /\ Len(h) # 0
  BY <1>1, EmptySeq, LenProperties
<1>3. Last(h) \in S
  BY <1>1, <1>2, ElementOfSeq DEF Last
<1>4. Front(h) \in Seq(S)
  <2>1. \A i \in 1 .. Len(h) - 1 : h[i] \in S
    BY <1>1, <1>2, ElementOfSeq
  <2> QED BY <1>2, <2>1, SubSeqProperties DEF Front
<1>5. Tail(h) \in Seq(S) /\ Head(h) \in S
  BY <1>1, HeadTailProperties
<1> QED BY <1>1, <1>3, <1>4, <1>5, DocumentsOf, SeqsAreSequences
-----------------------------------------------------------------------------
(* The steps: what differs on the screen is owed *)

LEMMA PageShapes ==
  ASSUME SeenInvariant
  PROVE  /\ HasLines(doc) /\ \A d \in Pages : HasLines(d)
         /\ IsSequence(past) /\ IsSequence(future)
         /\ \A order \in buffer.orders : IsSequence(order)
         /\ Outstanding => \A order \in flight.patch.orders : IsSequence(order)
         /\ KeysOf(read) \cap Foreign \subseteq shown
<1>1. /\ HasLines(read) /\ HasLines(outline) /\ HasLines(doc)
      /\ KeysOf(read) \cap Foreign \subseteq shown
  BY DEF SeenInvariant, PageIsOfTheSeen, IsOfTheSeen, DocumentsHaveLines, WereSeen
<1>2. ASSUME NEW h, HistoryIsOfTheSeen(h, shown)
      PROVE  IsSequence(h) /\ \A d \in Documents(h) : HasLines(d)
  BY <1>2 DEF HistoryIsOfTheSeen, EntryIsOfTheSeen, IsOfTheSeen, Documents
<1>3. /\ IsSequence(past) /\ \A d \in Documents(past) : HasLines(d)
      /\ IsSequence(future) /\ \A d \in Documents(future) : HasLines(d)
  BY <1>2 DEF SeenInvariant, PageIsOfTheSeen
<1>4. /\ \A order \in buffer.orders : IsSequence(order)
      /\ Outstanding => \A order \in flight.patch.orders : IsSequence(order)
  BY DEF SeenInvariant, SavesAreOfTheSeen, PatchIsOfTheSeen
<1> QED BY <1>1, <1>3, <1>4 DEF Pages

\* The budget only shrinks.
LEMMA LeftShrinks ==
  ASSUME QueueInvariant, [Next]_vars
  PROVE  \A act \in Acts : left'[act] <= left[act]
<1>1. left \in [Acts -> Nat]
  BY DEF QueueInvariant, KeystrokesCounted
<1>2. ASSUME NEW a \in Acts, Spend(a) PROVE \A act \in Acts : left'[act] <= left[act]
  <2>1. Kind(a) \in Acts
    BY DEF Kind, Acts
  <2> QED BY <1>1, <1>2, <2>1 DEF Spend
<1>3. CASE left' = left
  BY <1>1, <1>3
<1>4. CASE Redo
  BY <1>1, <1>4 DEF Redo
<1>5. left' = left \/ Redo \/ \E a \in Acts : Spend(a)
  <2>1. /\ "type" \in Acts /\ "add" \in Acts /\ "remove" \in Acts /\ "move" \in Acts
        /\ "undo" \in Acts /\ "foreign" \in Acts /\ "refresh" \in Acts /\ "fail" \in Acts
        /\ "lostAnswer" \in Acts /\ "reload" \in Acts
    BY DEF Acts, UserActs, Faults
  <2>2. CASE User
    BY <2>1, <2>2 DEF User, TypeIn, ConfirmRemoval, CancelRemoval, AddLine, MoveLine, Undo, Flush,
       DiscardLocal, ReapplyLocal
  <2>3. CASE Page \/ Server
    BY <2>3 DEF Page, Server, RemovalLapses, Fire, SaveSucceeds, SaveFails, SaveConflicts,
       ReadArrives, ServerAnswers, ServerReads
  <2>4. CASE Surroundings
    BY <2>1, <2>4 DEF Surroundings, RequestLost, AnswerLost, ReadFails, Refresh, Reload, OtherWrites
  <2>5. CASE UNCHANGED vars
    BY <2>5 DEF vars
  <2> QED BY <2>2, <2>3, <2>4, <2>5 DEF Next
<1> QED BY <1>2, <1>3, <1>4, <1>5

\* What is left to show of a step: a keystroke it brings is of one the budget had left.
LEMMA ScreenStays ==
  ASSUME QueueInvariant, QueueInvariant', ScreenInvariant, [Next]_vars,
         \A k \in Met' : k \in Met \/ k[2] > left'["foreign"],
         IdsAreGivenOut', LinesLeaveInOrder',
         ~Spent("fail") /\ ~Spent("fail")' => TextsAreOwed' /\ OrderIsOwed'
  PROVE  ScreenInvariant'
<1>1. \A act \in Acts : left'[act] <= left[act]
  BY LeftShrinks
<1>2. left \in [Acts -> Nat] /\ left' \in [Acts -> Nat] /\ Budget \in [Acts -> Nat]
  BY EditorConstants DEF QueueInvariant, KeystrokesCounted
<1>3. "fail" \in Acts /\ "foreign" \in Acts
  BY DEF Acts, Faults
<1>4. \A act \in Acts : left'[act] <= Budget[act]
  BY <1>1, <1>2 DEF ScreenInvariant, ForeignAreFresh
<1>5. \A k \in Met' : k[2] > left'["foreign"]
  <2> SUFFICES ASSUME NEW k \in Met PROVE k[2] > left'["foreign"]
    OBVIOUS
  <2>1. k[2] \in Nat
    BY DEF Met, Foreign
  <2>2. k[2] > left["foreign"]
    BY DEF ScreenInvariant, ForeignAreFresh
  <2> QED BY <1>1, <1>2, <1>3, <2>1, <2>2
<1>6. ForeignAreFresh'
  BY <1>4, <1>5 DEF ForeignAreFresh
<1>7. Spent("fail") => Spent("fail")'
  BY <1>1, <1>2, <1>3 DEF Spent
<1> QED BY <1>6, <1>7 DEF ScreenInvariant

LEMMA WasOwed ==
  ASSUME ScreenInvariant, ~Spent("fail")
  PROVE  TextsAreOwed /\ OrderIsOwed
  BY DEF ScreenInvariant

\* A step that brings no document and no new id to the page.
LEMMA IdentitiesStay ==
  ASSUME ScreenInvariant, UNCHANGED <<doc, read, minted>>, Coming' \subseteq Coming,
         staged' \subseteq Known, mirrored'.removals \subseteq Known,
         Outstanding' => flight'.patch.removals \subseteq Known,
         \A d \in Pages' : d \in Pages \/ (Distinct(d) /\ \E e \in Pages : IdsOf(d) = IdsOf(e))
  PROVE  IdsAreGivenOut' /\ LinesLeaveInOrder'
<1>1. IdsAreGivenOut /\ LinesLeaveInOrder
  BY DEF ScreenInvariant
<1>2. \A d \in Pages' : Distinct(d) /\ \E e \in Pages : IdsOf(d) = IdsOf(e)
  BY <1>1 DEF IdsAreGivenOut
<1>3. \A d \in Pages : IdsOf(d) \subseteq Known
  BY DEF Known
<1>4. Known' \subseteq Known
  <2>1. Known' = staged' \union mirrored'.removals
                 \union (IF Outstanding' THEN flight'.patch.removals ELSE {})
                 \union UNION {IdsOf(d) : d \in Pages'}
    BY DEF Known
  <2>2. UNION {IdsOf(d) : d \in Pages'} \subseteq Known
    BY <1>2, <1>3
  <2> QED BY <2>1, <2>2
<1>5. GivenOut' = GivenOut
  BY DEF GivenOut
<1>6. IdsAreGivenOut'
  BY <1>1, <1>2, <1>4, <1>5 DEF IdsAreGivenOut
<1>7. LinesLeaveInOrder'
  BY <1>1, <1>2, <1>4 DEF LinesLeaveInOrder
<1> QED BY <1>6, <1>7

LEMMA NothingNewIsMet ==
  ASSUME UNCHANGED <<doc, shown>>, Coming' \subseteq Coming
  PROVE  Met' \subseteq Met
  BY DEF Met

LEMMA BufferWasMirrored ==
  ASSUME QueueInvariant
  PROVE  /\ buffer.removals \subseteq mirrored.removals /\ buffer.removals \subseteq Known
         /\ mirrored.removals \subseteq Known
         /\ Outstanding => flight.patch.removals \subseteq Known
<1>1. buffer.removals \subseteq mirrored.removals
  BY DEF QueueInvariant, BufferIsMirrored, NoPatch
<1> QED BY <1>1 DEF Known

\* A change queued in place of the buffer: it carries the text of every line it changes on the
\* screen.
LEMMA TextsQueued ==
  ASSUME TextsAreOwed, UNCHANGED <<doc, read, fetch, flight>>,
         \A c \in Lines \cap IdsOf(read) :
            \/ c \in buffer'.removals
            \/ c \in DOMAIN buffer'.edits /\ buffer'.edits[c] = TextOf(outline', c)
            \/ /\ TextOf(outline', c) = TextOf(outline, c)
               /\ c \in buffer.removals => c \in buffer'.removals
               /\ c \in DOMAIN buffer'.edits <=> c \in DOMAIN buffer.edits
               /\ c \in DOMAIN buffer.edits => buffer'.edits[c] = buffer.edits[c]
  PROVE  TextsAreOwed'
<1>1. (Outstanding' <=> Outstanding) /\ Coming' = Coming /\ (Accepted' <=> Accepted)
  BY DEF Outstanding, Coming, Accepted
<1> SUFFICES ASSUME NEW c \in Lines \cap IdsOf(read), TextOf(outline', c) # TextOf(read, c)
             PROVE  /\ TextIsOwed(c)'
                    /\ Accepted' /\ c \notin DOMAIN buffer'.edits \union buffer'.removals
                         => Changed(doc, c)'
  BY DEF TextsAreOwed
<1>2. \A d : Changed(d, c)' <=> Changed(d, c)
  BY DEF Changed
<1>3. CASE c \in buffer'.removals
  BY <1>3 DEF TextIsOwed
<1>4. CASE c \in DOMAIN buffer'.edits /\ buffer'.edits[c] = TextOf(outline', c)
  BY <1>4 DEF TextIsOwed
<1>5. CASE /\ TextOf(outline', c) = TextOf(outline, c)
           /\ c \in buffer.removals => c \in buffer'.removals
           /\ c \in DOMAIN buffer'.edits <=> c \in DOMAIN buffer.edits
           /\ c \in DOMAIN buffer.edits => buffer'.edits[c] = buffer.edits[c]
  <2>1. /\ TextIsOwed(c)
        /\ Accepted /\ c \notin DOMAIN buffer.edits \union buffer.removals => Changed(doc, c)
    BY <1>5 DEF TextsAreOwed
  <2> QED BY <1>1, <1>5, <2>1 DEF TextIsOwed, Changed
<1> QED BY <1>3, <1>4, <1>5

LEMMA OrderQueued ==
  ASSUME OrderIsOwed, UNCHANGED <<doc, read, fetch, flight>>,
         \/ buffer'.orders # {} /\ \A order \in buffer'.orders : order = OrderOf(outline')
         \/ /\ OrderOf(outline') = OrderOf(outline)
            /\ buffer'.orders = {} => buffer.orders = {}
            /\ (\A order \in buffer.orders : OrderIsOf(order, buffer)) =>
                  \A order \in buffer'.orders : OrderIsOf(order, buffer')
  PROVE  OrderIsOwed'
<1>1. (Outstanding' <=> Outstanding) /\ Coming' = Coming /\ (Accepted' <=> Accepted)
  BY DEF Outstanding, Coming, Accepted
<1>2. CASE buffer'.orders # {} /\ \A order \in buffer'.orders : order = OrderOf(outline')
  BY <1>2 DEF OrderIsOwed, OrderIsOf
<1>3. CASE /\ OrderOf(outline') = OrderOf(outline)
           /\ buffer'.orders = {} => buffer.orders = {}
           /\ (\A order \in buffer.orders : OrderIsOf(order, buffer)) =>
                 \A order \in buffer'.orders : OrderIsOf(order, buffer')
  <2>1. IdsOf(outline') = IdsOf(outline)
    BY <1>3, OrderTellsIds
  <2>2. \A order, p : OrderIsOf(order, p)' <=> OrderIsOf(order, p)
    BY <1>3, <2>1 DEF OrderIsOf
  <2> QED BY <1>1, <1>3, <2>1 DEF OrderIsOwed, OrderIsOf
<1> QED BY <1>2, <1>3

LEMMA EditFields ==
  ASSUME NEW p, HasPatchShape(p), NEW c, NEW text
  PROVE  /\ EditIn(p, c, text).edits = With(p.edits, c, text)
         /\ EditIn(p, c, text).removals = p.removals \ {c}
         /\ EditIn(p, c, text).orders = p.orders
<1> DEFINE q == EditIn(p, c, text)
<1>1. q \in Parts(With(p.edits, c, text), p.removals \ {c}, p.additions, p.orders)
  BY PatchParts DEF EditIn, Parts
<1> QED BY <1>1, PatchParts, PartsMakeAPatch

LEMMA RemovalFields ==
  ASSUME NEW p, HasPatchShape(p), NEW c
  PROVE  /\ RemovalIn(p, c).edits = Without(p.edits, c)
         /\ RemovalIn(p, c).removals = p.removals \union {c}
         /\ RemovalIn(p, c).orders = OrdersWithout(p.orders, c)
<1> DEFINE q == RemovalIn(p, c)
           edits == Without(p.edits, c)
           removals == p.removals \union {c}
           orders == OrdersWithout(p.orders, c)
<1>1. p \in Parts(p.edits, p.removals, p.additions, p.orders) /\ p.additions \in Seq(Texts)
  BY PatchParts
<1>2. q = [p EXCEPT !.edits = edits, !.removals = removals, !.orders = orders]
  BY DEF RemovalIn
<1> HIDE DEF edits, removals, orders, q
<1>3. q \in Parts(edits, removals, p.additions, orders)
  BY <1>1, <1>2 DEF Parts
<1> QED BY <1>1, <1>3, PartsMakeAPatch DEF q, edits, removals, orders

LEMMA AdditionFields ==
  ASSUME NEW p, HasPatchShape(p), NEW text \in Texts
  PROVE  /\ AdditionIn(p, text).edits = p.edits
         /\ AdditionIn(p, text).removals = p.removals
         /\ AdditionIn(p, text).orders = p.orders
<1> DEFINE q == AdditionIn(p, text)
           more == Append(p.additions, text)
<1>1. more \in Seq(Texts)
  BY AppendProperties DEF HasPatchShape
<1>2. q \in Parts(p.edits, p.removals, more, p.orders)
  BY PatchParts DEF AdditionIn, Parts
<1> HIDE DEF more, q
<1> QED BY <1>1, <1>2, PartsMakeAPatch DEF q

LEMMA OrderFields ==
  ASSUME NEW p, HasPatchShape(p), NEW order
  PROVE  /\ OrderIn(p, order).edits = p.edits /\ OrderIn(p, order).removals = p.removals
         /\ OrderIn(p, order).orders = {order}
<1> DEFINE q == OrderIn(p, order)
<1>1. q \in Parts(p.edits, p.removals, p.additions, {order})
  BY PatchParts DEF OrderIn, Parts
<1> QED BY <1>1, PatchParts, PartsMakeAPatch

LEMMA RestoringFields ==
  ASSUME NEW p, HasPatchShape(p), NEW target
  PROVE  /\ Restoring(p, target).edits =
               [c \in DOMAIN p.edits \union Differing(target) |->
                   IF c \in Differing(target) THEN TextOf(target, c) ELSE p.edits[c]]
         /\ Restoring(p, target).removals = p.removals \ Differing(target)
         /\ Restoring(p, target).orders =
               IF OrderOf(target) = OrderOf(outline) THEN p.orders ELSE {OrderOf(target)}
<1> DEFINE edits == [c \in DOMAIN p.edits \union Differing(target) |->
                        IF c \in Differing(target) THEN TextOf(target, c) ELSE p.edits[c]]
           texts == [p EXCEPT !.edits = [c \in DOMAIN @ \union Differing(target) |->
                                IF c \in Differing(target) THEN TextOf(target, c) ELSE @[c]],
                              !.removals = @ \ Differing(target)]
<1>1. texts \in Parts(edits, p.removals \ Differing(target), p.additions, p.orders)
  BY PatchParts DEF Parts
<1>2. Restoring(p, target) = IF OrderOf(target) = OrderOf(outline) THEN texts
                             ELSE OrderIn(texts, OrderOf(target))
  BY DEF Restoring
<1> HIDE DEF texts, edits
<1>3. /\ HasPatchShape(texts) /\ texts.edits = edits
      /\ texts.removals = p.removals \ Differing(target) /\ texts.orders = p.orders
  BY <1>1, PatchParts, PartsMakeAPatch
<1>4. /\ OrderIn(texts, OrderOf(target)).edits = texts.edits
      /\ OrderIn(texts, OrderOf(target)).removals = texts.removals
      /\ OrderIn(texts, OrderOf(target)).orders = {OrderOf(target)}
  BY <1>3, OrderFields
<1> QED BY <1>2, <1>3, <1>4 DEF edits

\* A change recorded in the history adds the lines it makes to what can be shown.
LEMMA RecordedPages ==
  ASSUME SeenInvariant, NEW next, NEW claim, NEW grouped \in BOOLEAN,
         grouped => past # <<>>, Recorded(next, claim, grouped)
  PROVE  Pages' \subseteq Pages \union {next}
<1>1. /\ outline' = next /\ future' = <<>> /\ read' = read
      /\ past' = IF grouped
                 THEN Front(past) \o <<[Last(past) EXCEPT !.after = next]>>
                 ELSE Trimmed(Append(past, [before |-> outline, after |-> next, claim |-> claim]))
  BY DEF Recorded
<1>2. IsSequence(past)
  BY PageShapes
<1> DEFINE D == Pages \union {next}
<1>3. Documents(past) \subseteq D /\ outline \in D /\ read \in D /\ next \in D
  BY DEF Pages
<1>4. Documents(future') \subseteq D
  BY <1>1 DEF Documents
<1> HIDE DEF D
<1>5. Documents(past') \subseteq D
  <2>1. CASE grouped
    <3> DEFINE last == Last(past)
               longer == [last EXCEPT !.after = next]
               front == Front(past)
    <3>1. EntryIsOfTheSeen(last, shown)
      BY <2>1, ShortenedHistory DEF SeenInvariant, PageIsOfTheSeen
    <3>2. IsSequence(front) /\ Documents(front) \subseteq D /\ last.before \in D
      BY <1>2, <1>3, <2>1, ShorterHistory
    <3>3. past' = front \o <<longer>>
      BY <1>1, <2>1
    <3> HIDE DEF last, front
    <3>4. longer = [before |-> last.before, after |-> next, claim |-> last.claim]
      BY <3>1 DEF EntryIsOfTheSeen
    <3> HIDE DEF longer
    <3>5. longer.before \in D /\ longer.after \in D
      BY <1>3, <3>2, <3>4
    <3> QED BY <3>2, <3>3, <3>5, LongerHistory
  <2>2. CASE ~grouped
    <3> DEFINE entry == [before |-> outline, after |-> next, claim |-> claim]
    <3>1. past' = Trimmed(Append(past, entry)) /\ entry.before \in D /\ entry.after \in D
      BY <1>1, <1>3, <2>2
    <3> HIDE DEF entry
    <3> QED BY <1>2, <1>3, <3>1, LongerHistory
  <2> QED BY <2>1, <2>2
<1>6. Pages' = {read', outline'} \union Documents(past') \union Documents(future')
  BY DEF Pages
<1> QED BY <1>1, <1>3, <1>4, <1>5, <1>6 DEF D

LEMMA TypeInOwes ==
  ASSUME QueueInvariant, QueueInvariant', SeenInvariant, ScreenInvariant, [Next]_vars,
         NEW c \in Ids, TypeIn(c)
  PROVE  ScreenInvariant'
<1> DEFINE text == TextOf(outline, c) \union {NextKey}
           p == [NoPatch EXCEPT !.edits = With(@, c, text)]
           next == Edited(outline, p)
<1>1. PICK grouped \in BOOLEAN : (grouped => past # <<>>) /\ Recorded(next, {c}, grouped)
  BY DEF TypeIn
<1>2. /\ Queued(EditIn(buffer, c, text)) /\ c \in IdsOf(outline)
      /\ UNCHANGED <<doc, minted, shown>>
  BY DEF TypeIn, server, Visible
<1>3. /\ UNCHANGED <<read, fetch, staged, flight>> /\ outline' = next
      /\ buffer' = EditIn(buffer, c, text) /\ mirrored' = buffer'
  BY <1>1, <1>2 DEF Recorded, Queued
<1>4. DOMAIN p.edits = {c} /\ p.edits[c] = text
  BY DEF With, NoPatch
<1>5. HasPatchShape(buffer)
  BY ShapesOfPatches
<1> HIDE DEF text, p
<1>6. /\ buffer'.edits = With(buffer.edits, c, text)
      /\ buffer'.removals = buffer.removals \ {c} /\ buffer'.orders = buffer.orders
  BY <1>3, <1>5, EditFields
<1>7. outline \in Pages /\ HasLines(outline) /\ Distinct(outline)
  BY PageShapes DEF Pages, ScreenInvariant, IdsAreGivenOut
<1>8. /\ Distinct(next) /\ IdsOf(next) = IdsOf(outline) /\ OrderOf(next) = OrderOf(outline)
      /\ \A x \in IdsOf(outline) : TextOf(next, x) = IF x = c THEN text ELSE TextOf(outline, x)
  BY <1>4, <1>7, EditedTexts
<1> HIDE DEF next
<1>9. Pages' \subseteq Pages \union {next}
  BY <1>1, RecordedPages
<1>10. Coming' = Coming /\ (Outstanding' <=> Outstanding)
  BY <1>3 DEF Coming, Outstanding
<1>11. IdsAreGivenOut' /\ LinesLeaveInOrder'
  <2>1. staged' \subseteq Known
    BY <1>3 DEF Known
  <2>2. mirrored'.removals \subseteq Known
    BY <1>3, <1>6, BufferWasMirrored
  <2>3. Outstanding' => flight'.patch.removals \subseteq Known
    BY <1>3, <1>10, BufferWasMirrored
  <2> QED BY <1>2, <1>3, <1>7, <1>8, <1>9, <1>10, <2>1, <2>2, <2>3, IdentitiesStay
<1>12. Met' \subseteq Met
  BY <1>2, <1>10, NothingNewIsMet
<1>13. \A x : /\ x \in DOMAIN buffer'.edits <=> x = c \/ x \in DOMAIN buffer.edits
              /\ x \in DOMAIN buffer'.edits =>
                    buffer'.edits[x] = IF x = c THEN text ELSE buffer.edits[x]
  BY <1>6 DEF With
<1>14. ASSUME ~Spent("fail") PROVE TextsAreOwed' /\ OrderIsOwed'
  <2>1. TextsAreOwed /\ OrderIsOwed
    BY <1>14, WasOwed
  <2>2. TextsAreOwed'
    <3>1. \A x \in Lines \cap IdsOf(read) : x \in IdsOf(outline)
      BY <1>7 DEF ScreenInvariant, LinesLeaveInOrder
    <3>2. \A x \in Lines \cap IdsOf(read) :
            \/ x \in DOMAIN buffer'.edits /\ buffer'.edits[x] = TextOf(outline', x)
            \/ /\ TextOf(outline', x) = TextOf(outline, x)
               /\ x \in buffer.removals => x \in buffer'.removals
               /\ x \in DOMAIN buffer'.edits <=> x \in DOMAIN buffer.edits
               /\ x \in DOMAIN buffer.edits => buffer'.edits[x] = buffer.edits[x]
      BY <1>3, <1>6, <1>8, <1>13, <3>1
    <3> QED BY <1>2, <1>3, <2>1, <3>2, TextsQueued
  <2>3. OrderIsOwed'
    <3>1. \A order : OrderIsOf(order, buffer) => OrderIsOf(order, buffer')
      BY <1>6, <1>13 DEF OrderIsOf
    <3>2. /\ OrderOf(outline') = OrderOf(outline)
          /\ buffer'.orders = {} => buffer.orders = {}
          /\ (\A order \in buffer.orders : OrderIsOf(order, buffer)) =>
                \A order \in buffer'.orders : OrderIsOf(order, buffer')
      BY <1>3, <1>6, <1>8, <3>1
    <3> QED BY <1>2, <1>3, <2>1, <3>2, OrderQueued
  <2> QED BY <2>2, <2>3
<1> QED BY <1>11, <1>12, <1>14, ScreenStays

\* A line taken out of an order: either the order is as it was, or the line is left out.
LEMMA OrderWithoutALine ==
  ASSUME NEW order, IsSequence(order), NEW c
  PROVE  /\ ToSet(Kept(order, {i \in DOMAIN order : order[i] # c})) = ToSet(order) \ {c}
         /\ c \notin ToSet(order) => Kept(order, {i \in DOMAIN order : order[i] # c}) = order
<1> DEFINE S == {order[i] : i \in DOMAIN order}
           places == {i \in DOMAIN order : order[i] # c}
<1>1. order \in Seq(S)
  BY DEF IsSequence
<1>2. places \cap DOMAIN order = places
  OBVIOUS
<1>3. c \notin ToSet(order) => DOMAIN order \subseteq places
  BY DEF ToSet
<1>4. {order[i] : i \in places} = ToSet(order) \ {c}
  BY DEF ToSet
<1> HIDE DEF S, places
<1>5. ToSet(Kept(order, places)) = {order[i] : i \in places}
  BY <1>1, <1>2, KeptElements
<1>6. c \notin ToSet(order) => Kept(order, places) = order
  BY <1>1, <1>3, KeptWhole
<1> QED BY <1>4, <1>5, <1>6 DEF places

LEMMA RemovalsOwe ==
  ASSUME QueueInvariant, QueueInvariant', SeenInvariant, ScreenInvariant, [Next]_vars,
         (\E c \in Ids : ConfirmRemoval(c)) \/ RemovalLapses
  PROVE  ScreenInvariant'
<1>1. UNCHANGED <<doc, minted, shown, read, fetch, outline, past, future>>
  BY DEF ConfirmRemoval, RemovalLapses, server
<1>2. UNCHANGED <<buffer, mirrored, flight>> \/ \E c \in staged : Queued(RemovalIn(buffer, c))
  BY DEF ConfirmRemoval, RemovalLapses, Staging, queue
<1>3. staged' = {} \/ \E c \in IdsOf(outline) : staged' = {c}
  BY DEF ConfirmRemoval, RemovalLapses, Staging, Visible
<1>4. flight' = flight /\ Coming' = Coming /\ (Outstanding' <=> Outstanding)
  <2>1. flight' = flight
    BY <1>2 DEF Queued
  <2> QED BY <1>1, <2>1 DEF Coming, Outstanding
<1>5. HasPatchShape(buffer)
  BY ShapesOfPatches
<1>6. ASSUME NEW c \in staged, Queued(RemovalIn(buffer, c))
      PROVE  /\ buffer'.edits = Without(buffer.edits, c)
             /\ buffer'.removals = buffer.removals \union {c}
             /\ buffer'.orders = OrdersWithout(buffer.orders, c)
             /\ mirrored' = buffer'
  <2>1. buffer' = RemovalIn(buffer, c) /\ mirrored' = buffer'
    BY <1>6 DEF Queued
  <2> QED BY <1>5, <2>1, RemovalFields
<1>7. Met' \subseteq Met
  BY <1>1, <1>4, NothingNewIsMet
<1>8. Pages' = Pages
  BY <1>1 DEF Pages
<1>9. IdsAreGivenOut' /\ LinesLeaveInOrder'
  <2>1. staged' \subseteq Known
    <3>1. IdsOf(outline) \subseteq Known
      BY DEF Known, Pages
    <3> QED BY <1>3, <3>1
  <2>2. mirrored'.removals \subseteq Known
    <3>1. staged \subseteq Known
      BY DEF Known
    <3> QED BY <1>2, <1>6, <3>1, BufferWasMirrored
  <2>3. Outstanding' => flight'.patch.removals \subseteq Known
    BY <1>4, BufferWasMirrored
  <2> QED BY <1>1, <1>4, <1>8, <2>1, <2>2, <2>3, IdentitiesStay
<1>10. ASSUME ~Spent("fail") PROVE TextsAreOwed' /\ OrderIsOwed'
  <2>1. TextsAreOwed /\ OrderIsOwed
    BY <1>10, WasOwed
  <2>2. CASE UNCHANGED <<buffer, mirrored, flight>>
    <3>1. TextsAreOwed'
      BY <1>1, <2>1, <2>2, TextsQueued
    <3>2. OrderIsOwed'
      BY <1>1, <2>1, <2>2, OrderQueued
    <3> QED BY <3>1, <3>2
  <2>3. ASSUME NEW c \in staged, Queued(RemovalIn(buffer, c)) PROVE TextsAreOwed' /\ OrderIsOwed'
    <3>1. /\ buffer'.edits = Without(buffer.edits, c)
          /\ buffer'.removals = buffer.removals \union {c}
          /\ buffer'.orders = OrdersWithout(buffer.orders, c)
      BY <1>6, <2>3
    <3>2. \A x : /\ x \in DOMAIN buffer'.edits <=> x # c /\ x \in DOMAIN buffer.edits
                 /\ x \in DOMAIN buffer'.edits => buffer'.edits[x] = buffer.edits[x]
      BY <3>1 DEF Without
    <3>3. TextsAreOwed'
      <4>1. \A x \in Lines \cap IdsOf(read) :
              \/ x \in buffer'.removals
              \/ /\ TextOf(outline', x) = TextOf(outline, x)
                 /\ x \in buffer.removals => x \in buffer'.removals
                 /\ x \in DOMAIN buffer'.edits <=> x \in DOMAIN buffer.edits
                 /\ x \in DOMAIN buffer.edits => buffer'.edits[x] = buffer.edits[x]
        BY <1>1, <3>1, <3>2
      <4> QED BY <1>1, <1>4, <2>1, <4>1, TextsQueued
    <3>4. ASSUME NEW o \in buffer.orders, OrderIsOf(o, buffer)
          PROVE  OrderIsOf(Kept(o, {i \in DOMAIN o : o[i] # c}), buffer')
      <4> DEFINE rest == Kept(o, {i \in DOMAIN o : o[i] # c})
      <4>1. ToSet(rest) = ToSet(o) \ {c} /\ (c \notin ToSet(o) => rest = o)
        <5>1. IsSequence(o)
          BY PageShapes
        <5> QED BY <5>1, OrderWithoutALine
      <4> HIDE DEF rest
      <4>2. \A x \in DOMAIN buffer.edits \union buffer.removals :
               x \in DOMAIN buffer'.edits \union buffer'.removals
        BY <3>1, <3>2
      <4>3. CASE c \in ToSet(o) /\ c \in IdsOf(outline)
        <5>1. c \in IdsOf(outline) \ ToSet(rest) /\ c \in buffer'.removals
          BY <3>1, <4>1, <4>3
        <5> QED BY <5>1 DEF OrderIsOf, rest
      <4>4. CASE o = OrderOf(outline) /\ ~(c \in ToSet(o) /\ c \in IdsOf(outline))
        <5>1. ToSet(o) = IdsOf(outline)
          BY <4>4, OrderTellsIds
        <5>2. rest = OrderOf(outline)
          BY <4>1, <4>4, <5>1
        <5> QED BY <5>2 DEF OrderIsOf, rest
      <4>5. CASE \E x \in IdsOf(outline) \ ToSet(o) : x \in DOMAIN buffer.edits \union buffer.removals
        BY <4>1, <4>2, <4>5 DEF OrderIsOf, rest
      <4> QED BY <3>4, <4>3, <4>4, <4>5 DEF OrderIsOf
    <3>5. OrderIsOwed'
      <4>1. buffer'.orders = {} => buffer.orders = {}
        <5>1. \A o \in buffer.orders : Kept(o, {i \in DOMAIN o : o[i] # c}) \in buffer'.orders
          BY <3>1 DEF OrdersWithout
        <5> QED BY <5>1
      <4>2. (\A order \in buffer.orders : OrderIsOf(order, buffer)) =>
                \A order \in buffer'.orders : OrderIsOf(order, buffer')
        BY <3>1, <3>4 DEF OrdersWithout
      <4> QED BY <1>1, <1>4, <2>1, <4>1, <4>2, OrderQueued
    <3> QED BY <3>3, <3>5
  <2> QED BY <1>2, <2>2, <2>3
<1> QED BY <1>7, <1>9, <1>10, ScreenStays

LEMMA AddLineOwes ==
  ASSUME QueueInvariant, QueueInvariant', SeenInvariant, ScreenInvariant, [Next]_vars, AddLine
  PROVE  ScreenInvariant'
<1>1. UNCHANGED <<doc, minted, shown, read, fetch, outline, past, future, staged>>
  BY DEF AddLine, server, page
<1>2. Queued(AdditionIn(buffer, {NextKey})) /\ Spend("add") /\ typed' = typed \union {NextKey}
  BY DEF AddLine
<1>3. {NextKey} \in Texts
  <2>1. NextKey \in Own
    BY <1>2, KeystrokeIsPaidFor DEF QueueInvariant
  <2> QED BY <2>1 DEF Texts
<1>4. /\ flight' = flight /\ mirrored' = buffer' /\ buffer'.edits = buffer.edits
      /\ buffer'.removals = buffer.removals /\ buffer'.orders = buffer.orders
  BY <1>2, <1>3, ShapesOfPatches, AdditionFields DEF Queued
<1>5. Coming' = Coming /\ (Outstanding' <=> Outstanding) /\ Pages' = Pages
  BY <1>1, <1>4 DEF Coming, Outstanding, Pages
<1>6. Met' \subseteq Met
  BY <1>1, <1>5, NothingNewIsMet
<1>7. IdsAreGivenOut' /\ LinesLeaveInOrder'
  <2>1. staged' \subseteq Known
    BY <1>1 DEF Known
  <2>2. mirrored'.removals \subseteq Known
    BY <1>4, BufferWasMirrored
  <2>3. Outstanding' => flight'.patch.removals \subseteq Known
    BY <1>4, <1>5, BufferWasMirrored
  <2> QED BY <1>1, <1>5, <2>1, <2>2, <2>3, IdentitiesStay
<1>8. ASSUME ~Spent("fail") PROVE TextsAreOwed' /\ OrderIsOwed'
  <2>1. TextsAreOwed /\ OrderIsOwed
    BY <1>8, WasOwed
  <2>2. TextsAreOwed'
    BY <1>1, <1>4, <2>1, TextsQueued
  <2>3. OrderIsOwed'
    <3>1. \A order : OrderIsOf(order, buffer) => OrderIsOf(order, buffer')
      BY <1>4 DEF OrderIsOf
    <3> QED BY <1>1, <1>4, <2>1, <3>1, OrderQueued
  <2> QED BY <2>2, <2>3
<1> QED BY <1>6, <1>7, <1>8, ScreenStays

\* Two lines changing places are the same lines.
LEMMA SwappedLines ==
  ASSUME NEW d, HasLines(d), Distinct(d), NEW i \in DOMAIN d, i + 1 \in DOMAIN d
  PROVE  LET next == [d EXCEPT ![i] = d[i + 1], ![i + 1] = d[i]]
         IN  /\ Distinct(next) /\ IdsOf(next) = IdsOf(d)
             /\ \A c \in IdsOf(d) : TextOf(next, c) = TextOf(d, c)
<1> DEFINE next == [d EXCEPT ![i] = d[i + 1], ![i + 1] = d[i]]
           n == Len(d)
           from == [j \in 1 .. n |-> IF j = i + 1 THEN i ELSE IF j = i THEN i + 1 ELSE j]
<1>1. n \in Nat /\ DOMAIN d = 1 .. n /\ d = [j \in 1 .. n |-> d[j]]
  BY DocumentsAreLines
<1>2. i \in 1 .. n /\ i + 1 \in 1 .. n
  BY <1>1
<1>3. /\ DOMAIN next = 1 .. n
      /\ \A j \in 1 .. n : next[j] = d[from[j]] /\ from[j] \in 1 .. n
  BY <1>1, <1>2
<1>4. \A j, k \in 1 .. n : from[j] = from[k] => j = k
  BY <1>2
<1>5. \A k \in 1 .. n : \E j \in 1 .. n : from[j] = k
  <2> TAKE k \in 1 .. n
  <2>1. CASE k = i
    BY <1>2, <2>1
  <2>2. CASE k = i + 1
    BY <1>2, <2>2
  <2>3. CASE k # i /\ k # i + 1
    BY <2>3
  <2> QED BY <2>1, <2>2, <2>3
<1> HIDE DEF next, n, from
<1>6. Distinct(next)
  BY <1>1, <1>3, <1>4 DEF Distinct
<1>7. IdsOf(next) = IdsOf(d)
  <2>1. IdsOf(next) \subseteq IdsOf(d)
    BY <1>1, <1>3 DEF IdsOf
  <2>2. ASSUME NEW k \in 1 .. n PROVE d[k].id \in IdsOf(next)
    <3>1. PICK j \in 1 .. n : from[j] = k
      BY <1>5
    <3>2. next[j].id = d[k].id
      BY <1>3, <3>1
    <3> QED BY <1>3, <3>2 DEF IdsOf
  <2>3. IdsOf(d) \subseteq IdsOf(next)
    BY <1>1, <2>2 DEF IdsOf
  <2> QED BY <2>1, <2>3
<1>8. ASSUME NEW c \in IdsOf(d) PROVE TextOf(next, c) = TextOf(d, c)
  <2>1. PICK j \in DOMAIN next : next[j].id = c /\ TextOf(next, c) = next[j].text
    BY <1>7, PlaceOf
  <2>2. from[j] \in DOMAIN d /\ next[j] = d[from[j]]
    BY <1>1, <1>3
  <2> QED BY <2>1, <2>2, TextAt
<1> QED BY <1>6, <1>7, <1>8 DEF next

LEMMA MoveLineOwes ==
  ASSUME QueueInvariant, QueueInvariant', SeenInvariant, ScreenInvariant, [Next]_vars,
         NEW i, MoveLine(i)
  PROVE  ScreenInvariant'
<1> DEFINE next == [outline EXCEPT ![i] = outline[i + 1], ![i + 1] = outline[i]]
<1>1. /\ Recorded(next, {}, FALSE) /\ Queued(OrderIn(buffer, OrderOf(next)))
      /\ UNCHANGED <<doc, minted, shown>> /\ i \in DOMAIN outline /\ i + 1 \in DOMAIN outline
  BY DEF MoveLine, CanMoveDown, server, promises
<1>2. UNCHANGED <<read, fetch, staged>> /\ outline' = next
  BY <1>1 DEF Recorded
<1>3. outline \in Pages /\ HasLines(outline) /\ Distinct(outline)
  BY PageShapes DEF Pages, ScreenInvariant, IdsAreGivenOut
<1>4. /\ Distinct(next) /\ IdsOf(next) = IdsOf(outline)
      /\ \A c \in IdsOf(outline) : TextOf(next, c) = TextOf(outline, c)
  BY <1>1, <1>3, SwappedLines
<1> HIDE DEF next
<1>5. /\ flight' = flight /\ mirrored' = buffer' /\ buffer'.edits = buffer.edits
      /\ buffer'.removals = buffer.removals /\ buffer'.orders = {OrderOf(next)}
  BY <1>1, ShapesOfPatches, OrderFields DEF Queued
<1>6. Pages' \subseteq Pages \union {next}
  BY <1>1, RecordedPages
<1>7. Coming' = Coming /\ (Outstanding' <=> Outstanding)
  BY <1>2, <1>5 DEF Coming, Outstanding
<1>8. Met' \subseteq Met
  BY <1>1, <1>7, NothingNewIsMet
<1>9. IdsAreGivenOut' /\ LinesLeaveInOrder'
  <2>1. staged' \subseteq Known
    BY <1>2 DEF Known
  <2>2. mirrored'.removals \subseteq Known
    BY <1>5, BufferWasMirrored
  <2>3. Outstanding' => flight'.patch.removals \subseteq Known
    BY <1>5, <1>7, BufferWasMirrored
  <2> QED BY <1>1, <1>2, <1>3, <1>4, <1>6, <1>7, <2>1, <2>2, <2>3, IdentitiesStay
<1>10. ASSUME ~Spent("fail") PROVE TextsAreOwed' /\ OrderIsOwed'
  <2>1. TextsAreOwed /\ OrderIsOwed
    BY <1>10, WasOwed
  <2>2. TextsAreOwed'
    <3>1. \A x \in Lines \cap IdsOf(read) : x \in IdsOf(outline)
      BY <1>3 DEF ScreenInvariant, LinesLeaveInOrder
    <3> QED BY <1>1, <1>2, <1>4, <1>5, <2>1, <3>1, TextsQueued
  <2>3. OrderIsOwed'
    BY <1>1, <1>2, <1>5, <2>1, OrderQueued
  <2> QED BY <2>2, <2>3
<1> QED BY <1>8, <1>9, <1>10, ScreenStays

LEMMA StepOwes ==
  ASSUME QueueInvariant, QueueInvariant', SeenInvariant, ScreenInvariant, [Next]_vars,
         NEW target \in Pages, NEW newPast, NEW newFuture, Step(target, newPast, newFuture),
         Documents(newPast) \subseteq Pages, Documents(newFuture) \subseteq Pages
  PROVE  ScreenInvariant'
<1>1. /\ outline' = target /\ past' = newPast /\ future' = newFuture
      /\ UNCHANGED <<doc, minted, shown, read, fetch, staged>>
  BY DEF Step, server
<1>2. HasPatchShape(buffer)
  BY ShapesOfPatches
<1>3. /\ buffer' = Restoring(buffer, target) /\ mirrored' \in {mirrored, buffer'}
      /\ flight' = flight
  <2>1. CASE /\ Restoring(buffer, target) = buffer
             /\ UNCHANGED queue
    BY <2>1 DEF queue
  <2>2. CASE Queued(Restoring(buffer, target))
    BY <2>2 DEF Queued
  <2> QED BY <2>1, <2>2 DEF Step
<1>4. /\ buffer'.edits = [c \in DOMAIN buffer.edits \union Differing(target) |->
              IF c \in Differing(target) THEN TextOf(target, c) ELSE buffer.edits[c]]
      /\ buffer'.removals = buffer.removals \ Differing(target)
      /\ buffer'.orders = IF OrderOf(target) = OrderOf(outline) THEN buffer.orders
                          ELSE {OrderOf(target)}
  BY <1>2, <1>3, RestoringFields
<1>5. \A x : /\ x \in DOMAIN buffer'.edits <=> x \in Differing(target) \/ x \in DOMAIN buffer.edits
             /\ x \in DOMAIN buffer'.edits => buffer'.edits[x] =
                   IF x \in Differing(target) THEN TextOf(target, x) ELSE buffer.edits[x]
  BY <1>4
<1>6. Coming' = Coming /\ (Outstanding' <=> Outstanding)
  BY <1>1, <1>3 DEF Coming, Outstanding
<1>7. Pages' \subseteq Pages
  BY <1>1 DEF Pages
<1>8. Met' \subseteq Met
  BY <1>1, <1>6, NothingNewIsMet
<1>9. IdsAreGivenOut' /\ LinesLeaveInOrder'
  <2>1. staged' \subseteq Known
    BY <1>1 DEF Known
  <2>2. mirrored'.removals \subseteq Known
    BY <1>3, <1>4, BufferWasMirrored
  <2>3. Outstanding' => flight'.patch.removals \subseteq Known
    BY <1>3, <1>6, BufferWasMirrored
  <2> QED BY <1>1, <1>6, <1>7, <2>1, <2>2, <2>3, IdentitiesStay
<1>10. ASSUME ~Spent("fail") PROVE TextsAreOwed' /\ OrderIsOwed'
  <2>1. TextsAreOwed /\ OrderIsOwed
    BY <1>10, WasOwed
  <2>2. TextsAreOwed'
    <3>1. \A x \in Lines \cap IdsOf(read) : x \in IdsOf(outline) /\ x \in IdsOf(target)
      BY DEF ScreenInvariant, LinesLeaveInOrder, Pages
    <3>2. \A x \in Lines \cap IdsOf(read) :
            x \in Differing(target) \/ TextOf(target, x) = TextOf(outline, x)
      BY <3>1 DEF Differing
    <3>3. \A x \in Lines \cap IdsOf(read) :
            \/ x \in DOMAIN buffer'.edits /\ buffer'.edits[x] = TextOf(outline', x)
            \/ /\ TextOf(outline', x) = TextOf(outline, x)
               /\ x \in buffer.removals => x \in buffer'.removals
               /\ x \in DOMAIN buffer'.edits <=> x \in DOMAIN buffer.edits
               /\ x \in DOMAIN buffer.edits => buffer'.edits[x] = buffer.edits[x]
      <4> TAKE x \in Lines \cap IdsOf(read)
      <4>1. CASE x \in Differing(target)
        BY <1>1, <1>5, <4>1
      <4>2. CASE x \notin Differing(target)
        BY <1>1, <1>4, <1>5, <3>2, <4>2
      <4> QED BY <4>1, <4>2
    <3> QED BY <1>1, <1>3, <2>1, <3>3, TextsQueued
  <2>3. OrderIsOwed'
    <3>1. \A order : OrderIsOf(order, buffer) => OrderIsOf(order, buffer')
      BY <1>4, <1>5 DEF OrderIsOf
    <3>2. CASE OrderOf(target) = OrderOf(outline)
      <4>1. OrderOf(outline') = OrderOf(outline) /\ buffer'.orders = buffer.orders
        BY <1>1, <1>4, <3>2
      <4> QED BY <1>1, <1>3, <2>1, <3>1, <4>1, OrderQueued
    <3>3. CASE OrderOf(target) # OrderOf(outline)
      <4>1. buffer'.orders = {OrderOf(outline')}
        BY <1>1, <1>4, <3>3
      <4> QED BY <1>1, <1>3, <2>1, <4>1, OrderQueued
    <3> QED BY <3>2, <3>3
  <2> QED BY <2>2, <2>3
<1> QED BY <1>8, <1>9, <1>10, ScreenStays

LEMMA UndoRedoOwe ==
  ASSUME QueueInvariant, QueueInvariant', SeenInvariant, ScreenInvariant, [Next]_vars, Undo \/ Redo
  PROVE  ScreenInvariant'
<1>1. /\ IsSequence(past) /\ IsSequence(future)
      /\ Documents(past) \subseteq Pages /\ Documents(future) \subseteq Pages
  BY PageShapes DEF Pages
<1>2. CASE Undo
  <2>1. past # <<>> /\ Step(Last(past).before, Front(past), <<Last(past)>> \o future)
    BY <1>2 DEF Undo, CanUndo
  <2> DEFINE last == Last(past)
             longer == <<last>> \o future
  <2>2. /\ Documents(Front(past)) \subseteq Pages
        /\ last.before \in Pages /\ last.after \in Pages
    BY <1>1, <2>1, ShorterHistory
  <2>3. Step(last.before, Front(past), longer)
    BY <2>1
  <2> HIDE DEF last
  <2>4. Documents(longer) \subseteq Pages
    BY <1>1, <2>2, LongerHistory
  <2> HIDE DEF longer
  <2> QED BY <2>2, <2>3, <2>4, StepOwes
<1>3. CASE Redo
  <2>1. /\ future # <<>>
        /\ Step(Head(future).after, Trimmed(Append(past, Head(future))), Tail(future))
    BY <1>3 DEF Redo
  <2> DEFINE head == Head(future)
             longer == Trimmed(Append(past, head))
  <2>2. /\ Documents(Tail(future)) \subseteq Pages
        /\ head.before \in Pages /\ head.after \in Pages
    BY <1>1, <2>1, ShorterHistory
  <2>3. Step(head.after, longer, Tail(future))
    BY <2>1
  <2> HIDE DEF head
  <2>4. Documents(longer) \subseteq Pages
    BY <1>1, <2>2, LongerHistory
  <2> HIDE DEF longer
  <2> QED BY <2>2, <2>3, <2>4, StepOwes
<1> QED BY <1>2, <1>3

\* The buffer leaves in a request: what it owed the request owes, and what it did not is in the
\* read to come.
LEMMA SentOwes ==
  ASSUME UNCHANGED <<doc, read, outline>>, buffer' = NoPatch,
         \/ buffer = NoPatch /\ flight' = NoFlight
         \/ flight'.stage = "sent" /\ flight'.patch = buffer,
         \A c \in Lines \cap IdsOf(read) : TextOf(outline, c) # TextOf(read, c) =>
            \/ c \in buffer.removals
            \/ c \in DOMAIN buffer.edits /\ buffer.edits[c] = TextOf(outline, c)
            \/ /\ c \notin DOMAIN buffer.edits /\ fetch' # NoFetch
               /\ \A d \in {doc} \union Coming' : Changed(d, c),
         OrderOf(outline) # OrderOf(read) =>
            /\ \A order \in buffer.orders : OrderIsOf(order, buffer)
            /\ buffer.orders = {} =>
                  /\ fetch' # NoFetch
                  /\ \A d \in {doc} \union Coming' : OrderOf(d) # OrderOf(read)
  PROVE  TextsAreOwed' /\ OrderIsOwed'
<1>1. DOMAIN buffer'.edits = {} /\ buffer'.removals = {} /\ buffer'.orders = {}
  BY DEF NoPatch
<1>2. ~Accepted'
  BY DEF Accepted, NoFlight
<1>3. \A d, c : Changed(d, c) <=> Changed(d, c)'
  BY DEF Changed
<1>4. /\ Outstanding' => flight'.patch = buffer
      /\ ~Outstanding' => buffer = NoPatch
  BY DEF Outstanding, NoFlight
<1>5. TextsAreOwed'
  <2> SUFFICES ASSUME NEW c \in Lines \cap IdsOf(read), TextOf(outline, c) # TextOf(read, c)
               PROVE  TextIsOwed(c)'
    BY <1>2 DEF TextsAreOwed
  <2>1. CASE c \in buffer.removals \/ (c \in DOMAIN buffer.edits /\ buffer.edits[c] = TextOf(outline, c))
    <3>1. Outstanding'
      BY <1>4, <2>1 DEF NoPatch
    <3> QED BY <1>1, <1>4, <2>1, <3>1 DEF TextIsOwed
  <2>2. CASE /\ c \notin DOMAIN buffer.edits /\ fetch' # NoFetch
             /\ \A d \in {doc} \union Coming' : Changed(d, c)
    BY <1>1, <1>3, <1>4, <2>2 DEF TextIsOwed
  <2> QED BY <2>1, <2>2
<1>6. OrderIsOwed'
  <2>1. \A order, p : OrderIsOf(order, p)' <=> OrderIsOf(order, p)
    BY DEF OrderIsOf
  <2> SUFFICES ASSUME OrderOf(outline) # OrderOf(read)
               PROVE  /\ Outstanding' => \A order \in flight'.patch.orders : OrderIsOf(order, flight'.patch)
                      /\ (Outstanding' => flight'.patch.orders = {}) =>
                            /\ fetch' # NoFetch
                            /\ \A d \in {doc} \union Coming' : OrderOf(d) # OrderOf(read)
    BY <1>1, <1>2, <2>1 DEF OrderIsOwed, OrderIsOf
  <2>2. buffer.orders = {} =>
           /\ fetch' # NoFetch
           /\ \A d \in {doc} \union Coming' : OrderOf(d) # OrderOf(read)
    OBVIOUS
  <2>3. CASE Outstanding'
    BY <1>4, <2>2, <2>3
  <2>4. CASE ~Outstanding'
    <3>1. buffer.orders = {}
      BY <1>4, <2>4 DEF NoPatch
    <3> QED BY <2>2, <2>4, <3>1
  <2> QED BY <2>3, <2>4
<1> QED BY <1>5, <1>6

LEMMA SendingOwes ==
  ASSUME QueueInvariant, QueueInvariant', SeenInvariant, ScreenInvariant, [Next]_vars, Fire \/ Flush
  PROVE  ScreenInvariant'
<1>1. UNCHANGED <<doc, minted, shown, read, fetch, outline, past, future, staged, mirrored>>
  BY DEF Fire, Flush, server, page, promises
<1>2. \/ UNCHANGED <<buffer, flight>>
      \/ flight.stage = "none" /\ SentAfter(status, buffer, token)
  BY DEF Fire, Flush, Sent
<1>3. Coming' = Coming /\ Pages' = Pages
  BY <1>1 DEF Coming, Pages
<1>4. Met' \subseteq Met
  BY <1>1, <1>3, NothingNewIsMet
<1>5. ASSUME SentAfter(status, buffer, token)
      PROVE  /\ buffer' = NoPatch
             /\ \/ buffer = NoPatch /\ flight' = NoFlight
                \/ flight'.stage = "sent" /\ flight'.patch = buffer
  BY <1>5 DEF SentAfter
<1>6. IdsAreGivenOut' /\ LinesLeaveInOrder'
  <2>1. staged' \subseteq Known
    BY <1>1 DEF Known
  <2>2. mirrored'.removals \subseteq Known
    BY <1>1, BufferWasMirrored
  <2>3. Outstanding' => flight'.patch.removals \subseteq Known
    BY <1>2, <1>5, BufferWasMirrored DEF Outstanding, NoFlight
  <2> QED BY <1>1, <1>3, <2>1, <2>2, <2>3, IdentitiesStay
<1>7. ASSUME ~Spent("fail") PROVE TextsAreOwed' /\ OrderIsOwed'
  <2>1. TextsAreOwed /\ OrderIsOwed
    BY <1>7, WasOwed
  <2>2. CASE UNCHANGED <<buffer, flight>>
    BY <1>1, <2>1, <2>2, TextsQueued, OrderQueued
  <2>3. CASE flight.stage = "none" /\ SentAfter(status, buffer, token)
    <3>1. ~Outstanding
      BY <2>3 DEF Outstanding
    <3>2. \A c \in Lines \cap IdsOf(read) : TextOf(outline, c) # TextOf(read, c) =>
            \/ c \in buffer.removals
            \/ c \in DOMAIN buffer.edits /\ buffer.edits[c] = TextOf(outline, c)
            \/ /\ c \notin DOMAIN buffer.edits /\ fetch' # NoFetch
               /\ \A d \in {doc} \union Coming' : Changed(d, c)
      BY <1>1, <1>3, <2>1, <3>1 DEF TextsAreOwed, TextIsOwed
    <3>3. OrderOf(outline) # OrderOf(read) =>
            /\ \A order \in buffer.orders : OrderIsOf(order, buffer)
            /\ buffer.orders = {} =>
                  /\ fetch' # NoFetch
                  /\ \A d \in {doc} \union Coming' : OrderOf(d) # OrderOf(read)
      BY <1>1, <1>3, <2>1, <3>1 DEF OrderIsOwed
    <3>4. UNCHANGED <<doc, read, outline>>
      BY <1>1
    <3> QED BY <1>5, <2>3, <3>2, <3>3, <3>4, SentOwes
  <2> QED BY <1>2, <2>2, <2>3
<1> QED BY <1>4, <1>6, <1>7, ScreenStays

LEMMA SuccessOwes ==
  ASSUME QueueInvariant, QueueInvariant', SeenInvariant, ScreenInvariant, [Next]_vars, SaveSucceeds
  PROVE  ScreenInvariant'
<1>1. /\ UNCHANGED <<doc, minted, shown, read, outline, past, future, staged>>
      /\ mirrored' = buffer /\ fetch' = Asked /\ SentAfter("saved", buffer, flight.etag) /\ Accepted
  BY DEF SaveSucceeds, FollowUp, ReturnedToken, Invalidated, server, promises, Accepted
<1>2. Coming' = {} /\ Pages' = Pages /\ fetch' # NoFetch
  BY <1>1 DEF Coming, Pages, Asked, NoFetch
<1>3. /\ buffer' = NoPatch
      /\ \/ buffer = NoPatch /\ flight' = NoFlight
         \/ flight'.stage = "sent" /\ flight'.patch = buffer
  BY <1>1 DEF SentAfter
<1>4. Met' \subseteq Met
  BY <1>1, <1>2, NothingNewIsMet
<1>5. IdsAreGivenOut' /\ LinesLeaveInOrder'
  <2>1. staged' \subseteq Known
    BY <1>1 DEF Known
  <2>2. mirrored'.removals \subseteq Known
    BY <1>1, BufferWasMirrored
  <2>3. Outstanding' => flight'.patch.removals \subseteq Known
    BY <1>3, BufferWasMirrored DEF Outstanding, NoFlight
  <2> QED BY <1>1, <1>2, <2>1, <2>2, <2>3, IdentitiesStay
<1>6. ASSUME ~Spent("fail") PROVE TextsAreOwed' /\ OrderIsOwed'
  <2>1. TextsAreOwed /\ OrderIsOwed
    BY <1>6, WasOwed
  <2>2. \A c \in Lines \cap IdsOf(read) : TextOf(outline, c) # TextOf(read, c) =>
            \/ c \in buffer.removals
            \/ c \in DOMAIN buffer.edits /\ buffer.edits[c] = TextOf(outline, c)
            \/ /\ c \notin DOMAIN buffer.edits /\ fetch' # NoFetch
               /\ \A d \in {doc} \union Coming' : Changed(d, c)
    BY <1>1, <1>2, <2>1 DEF TextsAreOwed, TextIsOwed
  <2>3. OrderOf(outline) # OrderOf(read) =>
            /\ \A order \in buffer.orders : OrderIsOf(order, buffer)
            /\ buffer.orders = {} =>
                  /\ fetch' # NoFetch
                  /\ \A d \in {doc} \union Coming' : OrderOf(d) # OrderOf(read)
    BY <1>1, <1>2, <2>1 DEF OrderIsOwed
  <2>4. UNCHANGED <<doc, read, outline>>
    BY <1>1
  <2> QED BY <1>3, <2>2, <2>3, <2>4, SentOwes
<1> QED BY <1>4, <1>5, <1>6, ScreenStays

LEMMA RejectionOwes ==
  ASSUME QueueInvariant, QueueInvariant', SeenInvariant, ScreenInvariant, [Next]_vars,
         SaveFails \/ SaveConflicts
  PROVE  ScreenInvariant'
<1> DEFINE p == flight.patch
           q == Restored(buffer, p)
<1>1. /\ UNCHANGED <<doc, minted, shown, read, outline, past, future, staged>>
      /\ fetch' = fetch \/ (fetch = NoFetch /\ fetch' = Asked)
      /\ buffer' = q /\ mirrored' = q
      /\ flight'.stage \in {"none", "comparing"}
  BY DEF SaveFails, SaveConflicts, Rejected, Joined, NoFlight, server, page
<1>2. Outstanding
  BY DEF SaveFails, SaveConflicts, Outstanding
<1>3. ~Outstanding' /\ ~Accepted'
  BY <1>1 DEF Outstanding, Accepted
<1>4. /\ q.edits = [c \in DOMAIN buffer.edits \union DOMAIN p.edits |->
                       IF c \in DOMAIN buffer.edits THEN buffer.edits[c] ELSE p.edits[c]]
      /\ q.removals = buffer.removals \union p.removals
      /\ q.orders = IF buffer.orders = {} THEN p.orders ELSE buffer.orders
  BY DEF Restored
<1> HIDE DEF q
<1>5. /\ DOMAIN q.edits = DOMAIN buffer.edits \union DOMAIN p.edits
      /\ \A c \in DOMAIN q.edits :
            q.edits[c] = IF c \in DOMAIN buffer.edits THEN buffer.edits[c] ELSE p.edits[c]
  BY <1>4
<1>6. Coming' = Coming /\ Pages' = Pages /\ (fetch # NoFetch => fetch' = fetch)
  BY <1>1 DEF Coming, Pages, Asked, NoFetch
<1>7. Met' \subseteq Met
  BY <1>1, <1>6, NothingNewIsMet
<1>8. IdsAreGivenOut' /\ LinesLeaveInOrder'
  <2>1. staged' \subseteq Known
    BY <1>1 DEF Known
  <2>2. mirrored'.removals \subseteq Known
    BY <1>1, <1>2, <1>4, BufferWasMirrored
  <2> QED BY <1>1, <1>3, <1>6, <2>1, <2>2, IdentitiesStay
<1> HIDE DEF p
<1>9. ASSUME ~Spent("fail") PROVE TextsAreOwed' /\ OrderIsOwed'
  <2>1. TextsAreOwed /\ OrderIsOwed
    BY <1>9, WasOwed
  <2>2. TextsAreOwed'
    <3> SUFFICES ASSUME NEW c \in Lines \cap IdsOf(read), TextOf(outline, c) # TextOf(read, c)
                 PROVE  TextIsOwed(c)'
      BY <1>1, <1>3 DEF TextsAreOwed
    <3>1. TextIsOwed(c)
      BY <2>1 DEF TextsAreOwed
    <3>2. \A d : Changed(d, c)' <=> Changed(d, c)
      BY <1>1 DEF Changed
    <3>3. CASE c \in buffer.removals \/ (c \notin DOMAIN buffer.edits /\ c \in p.removals)
      BY <1>1, <1>4, <3>3 DEF TextIsOwed
    <3>4. CASE /\ c \in DOMAIN q.edits
               /\ q.edits[c] = TextOf(outline, c)
      BY <1>1, <3>4 DEF TextIsOwed
    <3>5. CASE /\ c \notin DOMAIN q.edits /\ fetch # NoFetch
               /\ \A d \in {doc} \union Coming : Changed(d, c)
      BY <1>1, <1>3, <1>6, <3>2, <3>5 DEF TextIsOwed
    <3> QED BY <1>2, <1>5, <3>1, <3>3, <3>4, <3>5 DEF TextIsOwed, p
  <2>3. OrderIsOwed'
    <3> SUFFICES ASSUME OrderOf(outline) # OrderOf(read)
                 PROVE  /\ \A order \in q.orders : OrderIsOf(order, q)
                        /\ q.orders = {} =>
                              /\ fetch' # NoFetch
                              /\ \A d \in {doc} \union Coming : OrderOf(d) # OrderOf(read)
      BY <1>1, <1>3, <1>6 DEF OrderIsOwed, OrderIsOf
    <3>1. /\ \A order \in buffer.orders : OrderIsOf(order, buffer)
          /\ buffer.orders = {} =>
                /\ \A order \in p.orders : OrderIsOf(order, p)
                /\ p.orders = {} =>
                      /\ fetch # NoFetch
                      /\ \A d \in {doc} \union Coming : OrderOf(d) # OrderOf(read)
      BY <1>2, <2>1 DEF OrderIsOwed, p
    <3>2. \A order : OrderIsOf(order, buffer) \/ OrderIsOf(order, p) => OrderIsOf(order, q)
      BY <1>4, <1>5 DEF OrderIsOf
    <3> QED BY <1>4, <1>6, <3>1, <3>2
  <2> QED BY <2>2, <2>3
<1> QED BY <1>7, <1>8, <1>9, ScreenStays

\* A lost request is one of the failures counted; a lost answer leaves what is owed as it is.
LEMMA LossOwes ==
  ASSUME QueueInvariant, QueueInvariant', SeenInvariant, ScreenInvariant, [Next]_vars,
         RequestLost \/ AnswerLost
  PROVE  ScreenInvariant'
<1>1. /\ UNCHANGED <<doc, minted, shown, read, fetch, outline, past, future, staged>>
      /\ UNCHANGED <<buffer, mirrored>>
  BY DEF RequestLost, AnswerLost, server, page, promises
<1>2. /\ Outstanding /\ Outstanding' /\ flight'.patch = flight.patch /\ ~Accepted'
  <2>1. CASE RequestLost
    BY <2>1 DEF RequestLost, Outstanding, Accepted
  <2>2. CASE AnswerLost
    BY <2>2 DEF AnswerLost, Outstanding, Accepted, QueueInvariant, FlightIsTracked
  <2> QED BY <2>1, <2>2
<1>3. Coming' = Coming /\ Pages' = Pages
  BY <1>1 DEF Coming, Pages
<1>4. Met' \subseteq Met
  BY <1>1, <1>3, NothingNewIsMet
<1>5. IdsAreGivenOut' /\ LinesLeaveInOrder'
  <2>1. staged' \subseteq Known
    BY <1>1 DEF Known
  <2>2. mirrored'.removals \subseteq Known
    BY <1>1, BufferWasMirrored
  <2>3. Outstanding' => flight'.patch.removals \subseteq Known
    BY <1>2, BufferWasMirrored
  <2> QED BY <1>1, <1>3, <2>1, <2>2, <2>3, IdentitiesStay
<1>6. ASSUME ~Spent("fail") PROVE TextsAreOwed' /\ OrderIsOwed'
  <2>1. TextsAreOwed /\ OrderIsOwed
    BY <1>6, WasOwed
  <2>2. TextsAreOwed'
    <3> SUFFICES ASSUME NEW c \in Lines \cap IdsOf(read), TextOf(outline, c) # TextOf(read, c)
                 PROVE  TextIsOwed(c)'
      BY <1>1, <1>2 DEF TextsAreOwed
    <3>1. TextIsOwed(c)
      BY <2>1 DEF TextsAreOwed
    <3> QED BY <1>1, <1>2, <1>3, <3>1 DEF TextIsOwed, Changed
  <2>3. OrderIsOwed'
    BY <1>1, <1>2, <1>3, <2>1 DEF OrderIsOwed, OrderIsOf
  <2> QED BY <2>2, <2>3
<1> QED BY <1>4, <1>5, <1>6, ScreenStays

\* A failed read is one of the failures counted.
LEMMA ReadFailsOwe ==
  ASSUME QueueInvariant, QueueInvariant', SeenInvariant, ScreenInvariant, [Next]_vars, ReadFails
  PROVE  ScreenInvariant'
<1>1. /\ UNCHANGED <<doc, minted, shown, read, outline, past, future, staged, mirrored>>
      /\ fetch' = NoFetch /\ flight' \in {flight, NoFlight} /\ Spend("fail")
  BY DEF ReadFails, server, promises
<1>2. Coming' = {} /\ Pages' = Pages
  BY <1>1 DEF Coming, Pages, NoFetch
<1>3. Met' \subseteq Met
  BY <1>1, <1>2, NothingNewIsMet
<1>4. IdsAreGivenOut' /\ LinesLeaveInOrder'
  <2>1. staged' \subseteq Known
    BY <1>1 DEF Known
  <2>2. mirrored'.removals \subseteq Known
    BY <1>1, BufferWasMirrored
  <2>3. Outstanding' => flight'.patch.removals \subseteq Known
    BY <1>1, BufferWasMirrored DEF Outstanding, NoFlight
  <2> QED BY <1>1, <1>2, <2>1, <2>2, <2>3, IdentitiesStay
<1>5. Spent("fail")'
  <2>1. left \in [Acts -> Nat] /\ Budget \in [Acts -> Nat] /\ "fail" \in Acts
    BY EditorConstants DEF QueueInvariant, KeystrokesCounted, Acts, Faults
  <2>2. left["fail"] <= Budget["fail"]
    BY <2>1 DEF ScreenInvariant, ForeignAreFresh
  <2>3. left'["fail"] = left["fail"] - 1
    BY <1>1, <2>1 DEF Spend, Kind, UserActs
  <2> QED BY <2>1, <2>2, <2>3 DEF Spent
<1> QED BY <1>3, <1>4, <1>5, ScreenStays

LEMMA NoEntriesNoDocuments == Documents(<<>>) = {}
  BY DEF Documents

\* What was read is shown, and nothing else is on the page.
LEMMA DiscardOwes ==
  ASSUME QueueInvariant, QueueInvariant', SeenInvariant, ScreenInvariant, [Next]_vars, DiscardLocal
  PROVE  ScreenInvariant'
<1>1. /\ UNCHANGED <<doc, minted, shown, read, fetch, staged, flight>>
      /\ outline' = read /\ past' = <<>> /\ future' = <<>>
      /\ buffer' = NoPatch /\ mirrored' = NoPatch
  BY DEF DiscardLocal, server
<1>2. Coming' = Coming /\ Pages' = {read} /\ (Outstanding' <=> Outstanding)
  BY <1>1, NoEntriesNoDocuments DEF Coming, Pages, Outstanding
<1>3. Met' \subseteq Met
  BY <1>1, <1>2, NothingNewIsMet
<1>4. IdsAreGivenOut' /\ LinesLeaveInOrder'
  <2>1. staged' \subseteq Known
    BY <1>1 DEF Known
  <2>2. mirrored'.removals \subseteq Known
    BY <1>1 DEF NoPatch
  <2>3. Outstanding' => flight'.patch.removals \subseteq Known
    BY <1>1, <1>2, BufferWasMirrored
  <2>4. \A d \in Pages' : d \in Pages
    BY <1>2 DEF Pages
  <2> QED BY <1>1, <1>2, <2>1, <2>2, <2>3, <2>4, IdentitiesStay
<1>5. TextsAreOwed' /\ OrderIsOwed'
  BY <1>1 DEF TextsAreOwed, OrderIsOwed
<1> QED BY <1>3, <1>4, <1>5, ScreenStays

LEMMA ReloadOwes ==
  ASSUME QueueInvariant, QueueInvariant', SeenInvariant, ScreenInvariant, [Next]_vars, Reload
  PROVE  ScreenInvariant'
<1>1. /\ UNCHANGED <<doc, minted, mirrored>> /\ read' = doc /\ outline' = doc /\ staged' = {}
      /\ past' = <<>> /\ future' = <<>> /\ fetch' = NoFetch /\ flight' = NoFlight
      /\ shown' = shown \union (KeysOf(doc) \cap Foreign)
  BY DEF Reload, server
<1>2. Coming' = {} /\ Pages' = {doc} /\ ~Outstanding' /\ GivenOut' = GivenOut
  BY <1>1, NoEntriesNoDocuments DEF Coming, Pages, Outstanding, NoFetch, NoFlight, GivenOut
<1>3. Met' \subseteq Met
  BY <1>1, <1>2 DEF Met
<1>4. IdsAreGivenOut /\ mirrored.removals \subseteq Known
  BY BufferWasMirrored DEF ScreenInvariant
<1>5. Known' = mirrored.removals \union IdsOf(doc)
  BY <1>1, <1>2 DEF Known
<1>6. IdsAreGivenOut'
  BY <1>1, <1>2, <1>4, <1>5 DEF IdsAreGivenOut
<1>7. LinesLeaveInOrder'
  BY <1>1, <1>2 DEF LinesLeaveInOrder
<1>8. TextsAreOwed' /\ OrderIsOwed'
  BY <1>1 DEF TextsAreOwed, OrderIsOwed
<1> QED BY <1>3, <1>6, <1>7, <1>8, ScreenStays

\* Reads that start, are served, or join one under way, and what the other tab writes.
LEMMA CallsOwe ==
  ASSUME QueueInvariant, QueueInvariant', SeenInvariant, ScreenInvariant, [Next]_vars,
         CancelRemoval \/ ReapplyLocal \/ Refresh \/ UNCHANGED vars
  PROVE  ScreenInvariant'
<1>1. /\ UNCHANGED <<doc, minted, shown, read, outline, past, future, mirrored, buffer, flight>>
      /\ staged' \subseteq staged /\ (fetch' = fetch \/ (fetch = NoFetch /\ fetch' = Asked))
  BY DEF CancelRemoval, ReapplyLocal, Refresh, Joined, server, queue, promises, vars, page
<1>2. /\ Coming' = Coming /\ Pages' = Pages /\ (Outstanding' <=> Outstanding)
      /\ (Accepted' <=> Accepted) /\ (fetch # NoFetch => fetch' # NoFetch)
  BY <1>1 DEF Coming, Pages, Outstanding, Accepted, Asked, NoFetch
<1>3. Met' \subseteq Met
  BY <1>1, <1>2, NothingNewIsMet
<1>4. IdsAreGivenOut' /\ LinesLeaveInOrder'
  <2>1. staged' \subseteq Known
    BY <1>1 DEF Known
  <2>2. mirrored'.removals \subseteq Known
    BY <1>1, BufferWasMirrored
  <2>3. Outstanding' => flight'.patch.removals \subseteq Known
    BY <1>1, <1>2, BufferWasMirrored
  <2> QED BY <1>1, <1>2, <2>1, <2>2, <2>3, IdentitiesStay
<1>5. ASSUME ~Spent("fail") PROVE TextsAreOwed' /\ OrderIsOwed'
  <2>1. TextsAreOwed /\ OrderIsOwed
    BY <1>5, WasOwed
  <2>2. TextsAreOwed'
    <3> SUFFICES ASSUME NEW c \in Lines \cap IdsOf(read), TextOf(outline, c) # TextOf(read, c)
                 PROVE  /\ TextIsOwed(c)'
                        /\ Accepted /\ c \notin DOMAIN buffer.edits \union buffer.removals
                              => Changed(doc, c)
      BY <1>1, <1>2 DEF TextsAreOwed, Changed
    <3>1. /\ TextIsOwed(c)
          /\ Accepted /\ c \notin DOMAIN buffer.edits \union buffer.removals => Changed(doc, c)
      BY <2>1 DEF TextsAreOwed
    <3> QED BY <1>1, <1>2, <3>1 DEF TextIsOwed, Changed
  <2>3. OrderIsOwed'
    BY <1>1, <1>2, <2>1 DEF OrderIsOwed, OrderIsOf
  <2> QED BY <2>2, <2>3
<1> QED BY <1>3, <1>4, <1>5, ScreenStays

LEMMA ServedReadOwes ==
  ASSUME QueueInvariant, QueueInvariant', SeenInvariant, ScreenInvariant, [Next]_vars, ServerReads
  PROVE  ScreenInvariant'
<1>1. /\ UNCHANGED <<doc, minted, shown, read, outline, past, future, staged, mirrored, buffer, flight>>
      /\ fetch = Asked /\ fetch' = [stage |-> "answered", lines |-> doc]
  BY DEF ServerReads, server, queue, promises
<1>2. /\ Coming = {} /\ Coming' = {doc} /\ Pages' = Pages /\ (Outstanding' <=> Outstanding)
      /\ (Accepted' <=> Accepted) /\ fetch # NoFetch /\ fetch' # NoFetch
      /\ Known' = Known /\ GivenOut' = GivenOut
  BY <1>1 DEF Coming, Pages, Outstanding, Accepted, Asked, NoFetch, Known, GivenOut
<1>3. Met' \subseteq Met
  BY <1>1, <1>2 DEF Met
<1>4. IdsAreGivenOut /\ LinesLeaveInOrder
  BY DEF ScreenInvariant
<1>5. IdsAreGivenOut'
  BY <1>1, <1>2, <1>4 DEF IdsAreGivenOut
<1>6. LinesLeaveInOrder'
  BY <1>1, <1>2, <1>4 DEF LinesLeaveInOrder
<1>7. ASSUME ~Spent("fail") PROVE TextsAreOwed' /\ OrderIsOwed'
  <2>1. TextsAreOwed /\ OrderIsOwed
    BY <1>7, WasOwed
  <2>2. TextsAreOwed'
    <3> SUFFICES ASSUME NEW c \in Lines \cap IdsOf(read), TextOf(outline, c) # TextOf(read, c)
                 PROVE  /\ TextIsOwed(c)'
                        /\ Accepted /\ c \notin DOMAIN buffer.edits \union buffer.removals
                              => Changed(doc, c)
      BY <1>1, <1>2 DEF TextsAreOwed, Changed
    <3>1. /\ TextIsOwed(c)
          /\ Accepted /\ c \notin DOMAIN buffer.edits \union buffer.removals => Changed(doc, c)
      BY <2>1 DEF TextsAreOwed
    <3> QED BY <1>1, <1>2, <3>1 DEF TextIsOwed, Changed
  <2>3. OrderIsOwed'
    BY <1>1, <1>2, <2>1 DEF OrderIsOwed, OrderIsOf
  <2> QED BY <2>2, <2>3
<1> QED BY <1>3, <1>5, <1>6, <1>7, ScreenStays

\* The other tab writes a keystroke that what was read cannot hold, so a line it changes is not
\* the line that was read.
LEMMA OtherWritesOwe ==
  ASSUME QueueInvariant, QueueInvariant', SeenInvariant, ScreenInvariant, [Next]_vars,
         NEW x \in Ids, OtherWrites(x)
  PROVE  ScreenInvariant'
<1> DEFINE key == <<"foreign", left["foreign"]>>
           text == TextOf(doc, x) \union {key}
           p == [NoPatch EXCEPT !.edits = With(@, x, text)]
<1>1. /\ doc' = Edited(doc, p) /\ x \in IdsOf(doc) /\ Spend("foreign")
      /\ UNCHANGED <<minted, shown, read, outline, fetch, past, future, staged>>
      /\ UNCHANGED <<mirrored, buffer, flight>>
  BY DEF OtherWrites, page, queue, promises
<1>2. DOMAIN p.edits = {x} /\ p.edits[x] = text
  BY DEF NoPatch, With
<1>3. HasLines(doc) /\ Distinct(doc)
  BY PageShapes DEF ScreenInvariant, IdsAreGivenOut
<1> HIDE DEF p
<1>4. /\ Distinct(doc') /\ IdsOf(doc') = IdsOf(doc) /\ OrderOf(doc') = OrderOf(doc)
      /\ \A c \in IdsOf(doc) : TextOf(doc', c) = IF c = x THEN text ELSE TextOf(doc, c)
  BY <1>1, <1>2, <1>3, EditedTexts
<1>5. KeysOf(doc') \subseteq KeysOf(doc) \union {key}
  <2>1. \A k \in KeysOf(doc') : k \in KeysOf(doc) \/ \E c \in DOMAIN p.edits : k \in p.edits[c]
    BY <1>1, <1>3, EditedLines
  <2>2. TextOf(doc, x) \subseteq KeysOf(doc)
    BY <1>1, TextOfALine
  <2> QED BY <1>2, <2>1, <2>2
<1>6. left["foreign"] \in Nat /\ left'["foreign"] = left["foreign"] - 1
  <2>1. left \in [Acts -> Nat] /\ "foreign" \in Acts
    BY DEF QueueInvariant, KeystrokesCounted, Acts, Faults
  <2> QED BY <1>1, <2>1 DEF Spend, Kind, UserActs
<1>7. /\ Coming' = Coming /\ Pages' = Pages /\ (Outstanding' <=> Outstanding)
      /\ (Accepted' <=> Accepted) /\ Known' = Known /\ GivenOut' = GivenOut
  BY <1>1 DEF Coming, Pages, Outstanding, Accepted, Known, GivenOut
<1>8. \A k \in Met' : k \in Met \/ k[2] > left'["foreign"]
  <2>1. \A k \in Met' : k \in Met \/ k = key
    BY <1>1, <1>5, <1>7 DEF Met
  <2>2. key[2] > left'["foreign"]
    BY <1>6
  <2> QED BY <2>1, <2>2
<1>9. IdsAreGivenOut'
  BY <1>1, <1>4, <1>7 DEF ScreenInvariant, IdsAreGivenOut
<1>10. LinesLeaveInOrder'
  BY <1>1, <1>4, <1>7 DEF ScreenInvariant, LinesLeaveInOrder
<1>11. key \notin KeysOf(read)
  <2> SUFFICES ASSUME key \in KeysOf(read) PROVE FALSE
    OBVIOUS
  <2>1. key \in Foreign
    <3>1. "foreign" \in Acts /\ left["foreign"] <= Budget["foreign"] /\ left["foreign"] > 0
      BY <1>1 DEF ScreenInvariant, ForeignAreFresh, Acts, Faults, Spend
    <3> QED BY <1>6, <3>1, EditorConstants DEF Foreign
  <2>2. key \in Met
    BY <2>1, PageShapes DEF Met
  <2>3. key[2] > left["foreign"]
    BY <2>2 DEF ScreenInvariant, ForeignAreFresh
  <2> QED BY <1>6, <2>3
<1>12. ASSUME NEW c, Changed(doc, c), c \in IdsOf(read)
       PROVE  Changed(doc', c)
  <2>1. CASE c \notin IdsOf(doc)
    BY <1>4, <2>1 DEF Changed
  <2>2. CASE c \in IdsOf(doc) /\ c # x
    BY <1>4, <1>12, <2>2 DEF Changed
  <2>3. CASE c \in IdsOf(doc) /\ c = x
    <3>1. key \in TextOf(doc', c)
      BY <1>4, <2>3
    <3>2. key \notin TextOf(read, c)
      BY <1>11, <1>12, TextOfALine
    <3> QED BY <3>1, <3>2 DEF Changed
  <2> QED BY <2>1, <2>2, <2>3
<1> HIDE DEF text, key
<1>13. ASSUME ~Spent("fail") PROVE TextsAreOwed' /\ OrderIsOwed'
  <2>1. TextsAreOwed /\ OrderIsOwed
    BY <1>13, WasOwed
  <2>2. TextsAreOwed'
    <3> SUFFICES ASSUME NEW c \in Lines \cap IdsOf(read), TextOf(outline, c) # TextOf(read, c)
                 PROVE  /\ TextIsOwed(c)'
                        /\ Accepted /\ c \notin DOMAIN buffer.edits \union buffer.removals
                              => Changed(doc', c)
      BY <1>1, <1>7 DEF TextsAreOwed, Changed
    <3>1. /\ TextIsOwed(c)
          /\ Accepted /\ c \notin DOMAIN buffer.edits \union buffer.removals => Changed(doc, c)
      BY <2>1 DEF TextsAreOwed
    <3>2. \A d : Changed(d, c)' <=> Changed(d, c)
      BY <1>1 DEF Changed
    <3>3. /\ TextIsOwed(c)'
      BY <1>1, <1>7, <1>12, <3>1, <3>2 DEF TextIsOwed
    <3> QED BY <1>12, <3>1, <3>3
  <2>3. OrderIsOwed'
    BY <1>1, <1>4, <1>7, <2>1 DEF OrderIsOwed, OrderIsOf
  <2> QED BY <2>2, <2>3
<1> QED BY <1>8, <1>9, <1>10, <1>13, ScreenStays

\* The server answers: a patch it saves carries every difference it was owed into the document.
LEMMA AnswerOwes ==
  ASSUME QueueInvariant, QueueInvariant', SeenInvariant, ScreenInvariant, [Next]_vars, ServerAnswers
  PROVE  ScreenInvariant'
<1> DEFINE p == flight.patch
           saved == Answer(doc, flight.base, p) = "saved"
           made == Patched(doc, p)
           fresh == ToSet(FreshIds(Len(p.additions)))
<1>1. /\ flight.stage = "sent" /\ flight'.stage = "answered" /\ flight'.patch = p
      /\ flight'.answer = Answer(doc, flight.base, p)
      /\ doc' = IF saved THEN made ELSE doc
      /\ minted' = IF saved THEN minted \union fresh ELSE minted
      /\ UNCHANGED <<read, outline, past, future, staged, fetch, shown, buffer, mirrored>>
      /\ Len(p.additions) <= Cardinality(NewLines \ minted)
  BY DEF ServerAnswers, page
<1>2. Outstanding /\ Outstanding' /\ ~Accepted /\ (Accepted' <=> saved)
  BY <1>1 DEF Outstanding, Accepted
<1>3. Coming' = Coming /\ Pages' = Pages /\ Known' = Known
  <2>1. Coming' = Coming /\ Pages' = Pages
    BY <1>1 DEF Coming, Pages
  <2> QED BY <1>1, <1>2, <2>1 DEF Known
<1>4. IdsAreGivenOut /\ LinesLeaveInOrder
  BY DEF ScreenInvariant
<1>5. CASE ~saved
  <2>1. UNCHANGED <<doc, minted>>
    BY <1>1, <1>5
  <2>2. Met' \subseteq Met
    BY <1>1, <1>3, <2>1, NothingNewIsMet
  <2>3. IdsAreGivenOut' /\ LinesLeaveInOrder'
    BY <1>1, <1>3, <1>4, <2>1 DEF IdsAreGivenOut, LinesLeaveInOrder, GivenOut
  <2>4. ASSUME ~Spent("fail") PROVE TextsAreOwed' /\ OrderIsOwed'
    <3>1. TextsAreOwed /\ OrderIsOwed
      BY <2>4, WasOwed
    <3>2. TextsAreOwed'
      <4> SUFFICES ASSUME NEW c \in Lines \cap IdsOf(read), TextOf(outline, c) # TextOf(read, c)
                   PROVE  TextIsOwed(c)'
        BY <1>1, <1>2, <1>5 DEF TextsAreOwed
      <4>1. TextIsOwed(c)
        BY <3>1 DEF TextsAreOwed
      <4> QED BY <1>1, <1>2, <1>3, <2>1, <4>1 DEF TextIsOwed, Changed
    <3>3. OrderIsOwed'
      BY <1>1, <1>2, <1>3, <1>5, <2>1, <3>1 DEF OrderIsOwed, OrderIsOf
    <3> QED BY <3>2, <3>3
  <2> QED BY <2>2, <2>3, <2>4, ScreenStays
<1>6. CASE saved
  <2>1. DOMAIN p.edits \cap p.removals = {} /\ Applicable(doc, p)
    BY <1>6 DEF Answer, WellFormed
  <2>2. /\ HasLines(doc) /\ Distinct(doc) /\ IdsOf(doc) \subseteq GivenOut
        /\ HasPatchShape(p) /\ \A order \in p.orders : IsSequence(order)
        /\ Len(p.additions) <= Cardinality(NewLines \ minted)
    BY <1>1, <1>2, <1>4, PageShapes, ShapesOfPatches DEF IdsAreGivenOut
  <2>3. DOMAIN p.edits \subseteq IdsOf(doc) /\ p.removals \subseteq IdsOf(doc)
    BY <2>1 DEF Applicable
  <2>4. p.removals \subseteq Known
    BY <1>2, BufferWasMirrored
  <2>5. PatchKeys(p) \cap Foreign \subseteq shown
    BY <1>2 DEF SeenInvariant, SavesAreOfTheSeen, PatchIsOfTheSeen, WereSeen
  <2>6. doc' = made /\ minted' = minted \union fresh
    BY <1>1, <1>6
  <2> HIDE DEF p, saved
  <2>7. /\ Distinct(made) /\ IdsOf(made) = (IdsOf(doc) \ p.removals) \union fresh
        /\ fresh \subseteq NewLines \ minted /\ fresh \cap GivenOut = {}
        /\ \A c \in IdsOf(doc) \ p.removals :
              TextOf(made, c) = IF c \in DOMAIN p.edits THEN p.edits[c] ELSE TextOf(doc, c)
        /\ p.orders # {} => OrderOf(made) \in p.orders
        /\ p.orders = {} => \/ OrderOf(made) = OrderOf(doc)
                            \/ \E c : c \in IdsOf(doc) \cap p.removals
                            \/ \E c : c \in fresh
    BY <2>1, <2>2, PatchedTexts
  <2>8. KeysOf(made) \subseteq KeysOf(doc) \union PatchKeys(p)
    BY <2>1, <2>2, PatchedLines
  <2> HIDE DEF made, fresh
  <2>9. Met' \subseteq Met
    BY <1>1, <1>3, <2>5, <2>6, <2>8 DEF Met
  <2>10. GivenOut' = GivenOut \union fresh
    BY <2>6 DEF GivenOut
  <2>11. IdsAreGivenOut'
    BY <1>3, <1>4, <2>6, <2>7, <2>10 DEF IdsAreGivenOut
  <2>12. Known \cap fresh = {} /\ Lines \cap fresh = {}
    BY <1>4, <2>7 DEF IdsAreGivenOut, GivenOut
  <2>13. LinesLeaveInOrder'
    BY <1>1, <1>3, <1>4, <2>6, <2>7, <2>12 DEF LinesLeaveInOrder
  <2>14. IdsOf(read) \subseteq Known /\ IdsOf(outline) \subseteq Known
    BY DEF Known, Pages
  <2>15. ASSUME NEW c \in IdsOf(read), c \notin DOMAIN p.edits, Changed(doc, c)
         PROVE  Changed(made, c)
    BY <2>7, <2>12, <2>14, <2>15 DEF Changed
  <2>16. ASSUME NEW c \in IdsOf(read), TextOf(outline, c) # TextOf(read, c),
                c \in DOMAIN p.edits, p.edits[c] = TextOf(outline, c)
         PROVE  Changed(made, c)
    BY <2>1, <2>3, <2>7, <2>16 DEF Changed
  <2>17. ASSUME NEW c \in IdsOf(read), c \in p.removals
         PROVE  Changed(made, c)
    BY <2>7, <2>12, <2>14, <2>17 DEF Changed
  <2>18. ASSUME ~Spent("fail") PROVE TextsAreOwed' /\ OrderIsOwed'
    <3>1. TextsAreOwed /\ OrderIsOwed
      BY <2>18, WasOwed
    <3>2. TextsAreOwed'
      <4> SUFFICES ASSUME NEW c \in Lines \cap IdsOf(read), TextOf(outline, c) # TextOf(read, c)
                   PROVE  /\ TextIsOwed(c)'
                          /\ c \notin DOMAIN buffer.edits \union buffer.removals
                                => Changed(made, c)
        BY <1>1, <2>6 DEF TextsAreOwed, Changed
      <4>1. TextIsOwed(c)
        BY <3>1 DEF TextsAreOwed
      <4>2. \A d : Changed(d, c)' <=> Changed(d, c)
        BY <1>1 DEF Changed
      <4>3. CASE c \in buffer.removals \union DOMAIN buffer.edits
        BY <1>1, <1>2, <4>1, <4>3 DEF TextIsOwed
      <4>4. CASE /\ c \notin buffer.removals \union DOMAIN buffer.edits
                 /\ \/ c \in p.removals
                    \/ c \in DOMAIN p.edits /\ p.edits[c] = TextOf(outline, c)
        <5>1. Changed(made, c)
          BY <2>16, <2>17, <4>4
        <5> QED BY <1>1, <1>2, <4>4, <5>1 DEF TextIsOwed
      <4>5. CASE /\ c \notin buffer.removals \union DOMAIN buffer.edits
                 /\ c \notin DOMAIN p.edits
                 /\ fetch # NoFetch /\ \A d \in {doc} \union Coming : Changed(d, c)
        <5>1. Changed(made, c)
          BY <2>15, <4>5
        <5> QED BY <1>1, <1>2, <1>3, <2>6, <4>2, <4>5, <5>1 DEF TextIsOwed
      <4> QED BY <1>2, <4>1, <4>3, <4>4, <4>5 DEF TextIsOwed, p
    <3>3. OrderIsOwed'
      <4> SUFFICES ASSUME OrderOf(outline) # OrderOf(read)
                   PROVE  /\ \A order \in buffer.orders : OrderIsOf(order, buffer)
                          /\ buffer.orders = {} =>
                                /\ \A order \in p.orders : OrderIsOf(order, p)
                                /\ p.orders = {} =>
                                      /\ fetch # NoFetch
                                      /\ \A d \in {made} \union Coming : OrderOf(d) # OrderOf(read)
                                /\ OrderOf(made) # OrderOf(read)
        BY <1>1, <1>2, <1>3, <2>6 DEF OrderIsOwed, OrderIsOf
      <4>1. /\ \A order \in buffer.orders : OrderIsOf(order, buffer)
            /\ buffer.orders = {} =>
                  /\ \A order \in p.orders : OrderIsOf(order, p)
                  /\ p.orders = {} =>
                        /\ fetch # NoFetch
                        /\ \A d \in {doc} \union Coming : OrderOf(d) # OrderOf(read)
        BY <1>2, <3>1 DEF OrderIsOwed, p
      <4>2. OrderOf(made) = OrderOf(read) => IdsOf(made) = IdsOf(read)
        BY OrderTellsIds
      <4>3. ASSUME buffer.orders = {}, p.orders # {}
            PROVE  OrderOf(made) # OrderOf(read)
        <5> SUFFICES ASSUME OrderOf(made) = OrderOf(read) PROVE FALSE
          OBVIOUS
        <5>1. OrderIsOf(OrderOf(made), p)
          BY <2>7, <4>1, <4>3
        <5>2. PICK c \in IdsOf(outline) \ ToSet(OrderOf(made)) : c \in DOMAIN p.edits \union p.removals
          BY <5>1 DEF OrderIsOf
        <5>3. c \in Known \cap IdsOf(doc)
          BY <2>3, <2>14, <5>2
        <5>4. c \in IdsOf(read)
          BY <1>4, <5>3 DEF LinesLeaveInOrder
        <5> QED BY <5>2, <5>4, OrderTellsIds
      <4>4. ASSUME buffer.orders = {}, p.orders = {}
            PROVE  OrderOf(made) # OrderOf(read)
        <5>1. CASE OrderOf(made) = OrderOf(doc)
          BY <4>1, <4>4, <5>1
        <5>2. ASSUME NEW c \in IdsOf(doc) \cap p.removals PROVE IdsOf(made) # IdsOf(read)
          <6>1. c \in IdsOf(read)
            BY <1>4, <2>4 DEF LinesLeaveInOrder
          <6>2. c \notin IdsOf(made)
            BY <2>4, <2>7, <2>12
          <6> QED BY <6>1, <6>2
        <5>3. ASSUME NEW c \in fresh PROVE IdsOf(made) # IdsOf(read)
          BY <2>7, <2>12, <2>14
        <5> QED BY <2>7, <4>2, <4>4, <5>1, <5>2, <5>3
      <4> QED BY <4>1, <4>3, <4>4
    <3> QED BY <3>2, <3>3
  <2> QED BY <2>9, <2>11, <2>13, <2>18, ScreenStays
<1> QED BY <1>5, <1>6

\* A read that differs is shown whole; one that does not leaves what was owed where it was, since
\* the read itself then owes nothing.
LEMMA ReadArrivesOwe ==
  ASSUME QueueInvariant, QueueInvariant', SeenInvariant, ScreenInvariant, [Next]_vars, ReadArrives
  PROVE  ScreenInvariant'
<1> DEFINE now == fetch.lines
<1>1. /\ UNCHANGED <<doc, minted, past, future, staged, mirrored>>
      /\ read' = now /\ fetch' = NoFetch /\ outline' = (IF now = read THEN outline ELSE now)
      /\ shown' = shown \union (KeysOf(now) \cap Foreign)
      /\ Coming = {now}
  BY DEF ReadArrives, Adopted, server, Coming
<1>2. \/ UNCHANGED <<flight, buffer>>
      \/ ~Outstanding /\ flight' = NoFlight /\ buffer' = buffer
      \/ /\ ~Outstanding /\ buffer' = NoPatch
         /\ \/ buffer = NoPatch /\ flight' = NoFlight
            \/ flight'.stage = "sent" /\ flight'.patch = buffer
  <2>1. CASE reapplying # 0
    BY <2>1 DEF ReadArrives, Reapplied, SentAfter
  <2>2. CASE reapplying = 0
    BY <2>2 DEF ReadArrives, Outstanding
  <2> QED BY <2>1, <2>2
<1> HIDE DEF now
<1>3. Coming' = {} /\ GivenOut' = GivenOut
  BY <1>1 DEF Coming, NoFetch, GivenOut
<1>4. Pages' \subseteq Pages \union {now}
  BY <1>1 DEF Pages
<1>5. Known' \subseteq Known \union IdsOf(now)
  <2>1. Known' = staged \union mirrored.removals
                 \union (IF Outstanding' THEN flight'.patch.removals ELSE {})
                 \union UNION {IdsOf(d) : d \in Pages'}
    BY <1>1 DEF Known
  <2>2. UNION {IdsOf(d) : d \in Pages'} \subseteq Known \union IdsOf(now)
    BY <1>4 DEF Known
  <2>3. Outstanding' => flight'.patch.removals \subseteq Known
    BY <1>2, BufferWasMirrored DEF Outstanding, NoFlight
  <2>4. staged \subseteq Known /\ mirrored.removals \subseteq Known
    BY DEF Known
  <2> QED BY <2>1, <2>2, <2>3, <2>4
<1>6. Met' \subseteq Met
  BY <1>1, <1>3 DEF Met
<1>7. IdsAreGivenOut /\ LinesLeaveInOrder
  BY DEF ScreenInvariant
<1>8. IdsAreGivenOut'
  BY <1>1, <1>3, <1>4, <1>5, <1>7 DEF IdsAreGivenOut
<1>9. LinesLeaveInOrder'
  BY <1>1, <1>3, <1>4, <1>5, <1>7 DEF LinesLeaveInOrder
<1>10. CASE now # read
  BY <1>1, <1>6, <1>8, <1>9, <1>10, ScreenStays DEF TextsAreOwed, OrderIsOwed
<1>11. CASE now = read
  <2>1. read' = read /\ outline' = outline
    BY <1>1, <1>11
  <2>2. ASSUME ~Spent("fail") PROVE TextsAreOwed' /\ OrderIsOwed'
    <3>1. TextsAreOwed /\ OrderIsOwed
      BY <2>2, WasOwed
    <3>2. \A c \in IdsOf(read) : ~Changed(now, c)
      BY <1>11 DEF Changed
    <3>3. ASSUME NEW c \in Lines \cap IdsOf(read), TextOf(outline, c) # TextOf(read, c)
          PROVE  /\ \/ c \in buffer.removals
                    \/ c \in DOMAIN buffer.edits /\ buffer.edits[c] = TextOf(outline, c)
                    \/ /\ c \notin DOMAIN buffer.edits /\ Outstanding
                       /\ \/ c \in flight.patch.removals
                          \/ /\ c \in DOMAIN flight.patch.edits
                             /\ flight.patch.edits[c] = TextOf(outline, c)
                 /\ Accepted /\ c \notin DOMAIN buffer.edits \union buffer.removals
                       => Changed(doc, c)
      BY <1>1, <3>1, <3>2, <3>3 DEF TextsAreOwed, TextIsOwed
    <3>4. OrderOf(outline) # OrderOf(read) =>
            /\ \A order \in buffer.orders : OrderIsOf(order, buffer)
            /\ buffer.orders = {} =>
                  /\ Outstanding /\ flight.patch.orders # {}
                  /\ \A order \in flight.patch.orders : OrderIsOf(order, flight.patch)
                  /\ Accepted => OrderOf(doc) # OrderOf(read)
      BY <1>1, <1>11, <3>1 DEF OrderIsOwed
    <3>5. CASE UNCHANGED <<flight, buffer>>
      <4>1. (Outstanding' <=> Outstanding) /\ (Accepted' <=> Accepted)
        BY <3>5 DEF Outstanding, Accepted
      <4>2. TextsAreOwed'
        <5> SUFFICES ASSUME NEW c \in Lines \cap IdsOf(read), TextOf(outline, c) # TextOf(read, c)
                     PROVE  /\ TextIsOwed(c)'
                            /\ Accepted /\ c \notin DOMAIN buffer.edits \union buffer.removals
                                  => Changed(doc, c)
          BY <1>1, <2>1, <3>5, <4>1 DEF TextsAreOwed, Changed
        <5> QED BY <2>1, <3>3, <3>5, <4>1 DEF TextIsOwed
      <4>3. OrderIsOwed'
        BY <1>1, <2>1, <3>4, <3>5, <4>1 DEF OrderIsOwed, OrderIsOf
      <4> QED BY <4>2, <4>3
    <3>6. CASE ~Outstanding /\ flight' = NoFlight /\ buffer' = buffer
      <4>1. ~Outstanding' /\ ~Accepted'
        BY <3>6 DEF Outstanding, Accepted, NoFlight
      <4>2. TextsAreOwed'
        BY <2>1, <3>3, <3>6, <4>1 DEF TextsAreOwed, TextIsOwed
      <4>3. OrderIsOwed'
        BY <2>1, <3>4, <3>6, <4>1 DEF OrderIsOwed, OrderIsOf
      <4> QED BY <4>2, <4>3
    <3>7. CASE /\ ~Outstanding /\ buffer' = NoPatch
               /\ \/ buffer = NoPatch /\ flight' = NoFlight
                  \/ flight'.stage = "sent" /\ flight'.patch = buffer
      <4>1. \A c \in Lines \cap IdsOf(read) : TextOf(outline, c) # TextOf(read, c) =>
               \/ c \in buffer.removals
               \/ c \in DOMAIN buffer.edits /\ buffer.edits[c] = TextOf(outline, c)
        BY <3>3, <3>7
      <4>2. OrderOf(outline) # OrderOf(read) =>
               /\ \A order \in buffer.orders : OrderIsOf(order, buffer)
               /\ buffer.orders # {}
        BY <3>4, <3>7
      <4> QED BY <1>1, <2>1, <3>7, <4>1, <4>2, SentOwes
    <3> QED BY <1>2, <3>5, <3>6, <3>7
  <2> QED BY <1>6, <1>8, <1>9, <2>2, ScreenStays
<1> QED BY <1>10, <1>11

LEMMA ScreenFirst == Init => ScreenInvariant
<1> SUFFICES ASSUME Init PROVE ScreenInvariant
  OBVIOUS
<1>1. PICK start \in SetToSeqs(Lines) :
        LET lines == [i \in DOMAIN start |-> [id |-> start[i], text |-> {}]]
        IN  doc = lines /\ read = lines /\ outline = lines
  BY DEF Init
<1> DEFINE lines == [i \in DOMAIN start |-> [id |-> start[i], text |-> {}]]
<1>2. /\ doc = lines /\ read = lines /\ outline = lines /\ minted = {} /\ staged = {}
      /\ fetch = NoFetch /\ past = <<>> /\ future = <<>> /\ shown = {} /\ left = Budget
      /\ mirrored = NoPatch /\ flight = NoFlight
  BY <1>1 DEF Init
<1>3. /\ \A i \in DOMAIN start : start[i] \in Lines
      /\ \A i, j \in DOMAIN start : start[i] = start[j] => i = j
  <2>1. /\ start \in [1 .. Cardinality(Lines) -> Lines]
        /\ \A i, j \in 1 .. Cardinality(Lines) : i # j => start[i] # start[j]
    BY <1>1 DEF SetToSeqs
  <2> QED BY <2>1
<1>4. DOMAIN lines = DOMAIN start /\ \A i \in DOMAIN lines : lines[i].id = start[i] /\ lines[i].text = {}
  <2> DEFINE id == [i \in DOMAIN start |-> start[i]]
  <2>1. DOMAIN lines = DOMAIN start /\ \A i \in DOMAIN start : lines[i] = [id |-> start[i], text |-> {}]
    OBVIOUS
  <2> HIDE DEF lines
  <2>2. ASSUME NEW i \in DOMAIN start PROVE lines[i].id = start[i] /\ lines[i].text = {}
    <3> DEFINE line == lines[i]
    <3>1. line = [id |-> start[i], text |-> {}]
      BY <2>1
    <3> HIDE DEF line
    <3>2. line.id = start[i] /\ line.text = {}
      BY <3>1
    <3> QED BY <3>2 DEF line
  <2> QED BY <2>1, <2>2
<1> HIDE DEF lines
<1>5. Distinct(lines) /\ IdsOf(lines) \subseteq Lines
  BY <1>3, <1>4 DEF Distinct, IdsOf
<1>6. KeysOf(lines) = {}
  BY <1>4, KeysOfLines
<1>7. /\ Coming = {} /\ Pages = {lines} /\ ~Outstanding /\ GivenOut = Lines
  BY <1>2, NoEntriesNoDocuments DEF Coming, Pages, Outstanding, NoFetch, NoFlight, GivenOut
<1>8. Known = IdsOf(lines)
  BY <1>2, <1>7 DEF Known, NoPatch
<1>9. IdsAreGivenOut
  BY <1>2, <1>5, <1>7, <1>8 DEF IdsAreGivenOut
<1>10. LinesLeaveInOrder
  BY <1>2, <1>7 DEF LinesLeaveInOrder
<1>11. ForeignAreFresh
  <2>1. Met = {}
    BY <1>2, <1>6, <1>7 DEF Met
  <2>2. \A act \in Acts : left[act] <= Budget[act]
    BY <1>2, EditorConstants
  <2> QED BY <2>1, <2>2 DEF ForeignAreFresh
<1>12. TextsAreOwed /\ OrderIsOwed
  BY <1>2 DEF TextsAreOwed, OrderIsOwed
<1> QED BY <1>9, <1>10, <1>11, <1>12 DEF ScreenInvariant

LEMMA ScreenKeeps ==
  ASSUME QueueInvariant, QueueInvariant', SeenInvariant, ScreenInvariant, [Next]_vars
  PROVE  ScreenInvariant'
<1>1. CASE User
  BY <1>1, TypeInOwes, RemovalsOwe, AddLineOwes, MoveLineOwes, UndoRedoOwe, SendingOwes,
     DiscardOwes, CallsOwe DEF User
<1>2. CASE Page
  BY <1>2, RemovalsOwe, SendingOwes, SuccessOwes, RejectionOwes, ReadArrivesOwe DEF Page
<1>3. CASE Server
  BY <1>3, AnswerOwes, ServedReadOwes DEF Server
<1>4. CASE Surroundings
  BY <1>4, LossOwes, ReadFailsOwe, CallsOwe, OtherWritesOwe, ReloadOwes DEF Surroundings
<1>5. CASE UNCHANGED vars
  BY <1>5, CallsOwe
<1> QED BY <1>1, <1>2, <1>3, <1>4, <1>5 DEF Next

\* Whatever the screen shows that was not read, a text of a line the document started with or the
\* order of the lines, is waiting in the buffer, on its way in the request, or about to be
\* replaced by a read under way that differs in it.  This is what the three hooks hand one
\* another: the history queues what it shows (useDraftHistory.ts), the autosave sends what is
\* queued and puts back what is rejected (useDraftAutosave.ts), and a read that differs takes
\* the screen over (useDraftEditing.ts).
THEOREM DifferencesAreOwed == Spec => []ScreenInvariant
<1>1. QueueInvariant /\ QueueInvariant' /\ SeenInvariant /\ ScreenInvariant /\ [Next]_vars
        => ScreenInvariant'
  BY ScreenKeeps
<1> QED BY <1>1, ScreenFirst, QueueIsSound, OnlyTheSeenIsHeld, PTL DEF Spec

\* With nothing to save and no read under way nothing can be owed: the screen shows the lines in
\* the order last read, and of every line the document started with the text last read.
THEOREM TheScreenShowsWhatIsSaved == Spec => []ShowsWhatIsSaved
<1>1. ASSUME SeenInvariant, ScreenInvariant PROVE ShowsWhatIsSaved
  <2> SUFFICES ASSUME Clean, fetch = NoFetch, ~Spent("fail")
               PROVE  /\ OrderOf(outline) = OrderOf(read)
                      /\ \A i \in DOMAIN read : read[i].id \in Lines => outline[i] = read[i]
    BY DEF ShowsWhatIsSaved
  <2>1. ~Outstanding
    BY DEF Clean, Outstanding
  <2>2. DOMAIN buffer.edits = {} /\ buffer.removals = {} /\ buffer.orders = {}
    BY DEF Clean, NoPatch
  <2>3. TextsAreOwed /\ OrderIsOwed
    BY <1>1, WasOwed
  <2>4. \A c \in Lines \cap IdsOf(read) : TextOf(outline, c) = TextOf(read, c)
    BY <2>1, <2>2, <2>3 DEF TextsAreOwed, TextIsOwed
  <2>5. OrderOf(outline) = OrderOf(read)
    BY <2>1, <2>2, <2>3 DEF OrderIsOwed
  <2>6. /\ HasLines(outline) /\ HasLines(read)
        /\ Distinct(outline) /\ Distinct(read)
    BY <1>1, PageShapes DEF Pages, ScreenInvariant, IdsAreGivenOut
  <2>7. ASSUME NEW i \in DOMAIN read, read[i].id \in Lines PROVE outline[i] = read[i]
    <3>1. read[i].id \in Lines \cap IdsOf(read)
      BY <2>7 DEF IdsOf
    <3> QED BY <2>4, <2>5, <2>6, <3>1, SameLines
  <2> QED BY <2>5, <2>7
<1> QED BY <1>1, DifferencesAreOwed, OnlyTheSeenIsHeld, PTL
-----------------------------------------------------------------------------
(* The version a save names *)

\* What the surroundings did they did for good.
LEMMA UndisturbedBefore ==
  ASSUME QueueInvariant, QueueInvariant', ScreenInvariant, [Next]_vars, Undisturbed'
  PROVE  /\ Undisturbed
         /\ ~Spend("foreign") /\ ~Spend("lostAnswer") /\ ~Spend("reload")
<1>1. /\ left \in [Acts -> Nat] /\ left' \in [Acts -> Nat] /\ Budget \in [Acts -> Nat]
      /\ "foreign" \in Acts /\ "lostAnswer" \in Acts /\ "reload" \in Acts
  BY EditorConstants DEF QueueInvariant, KeystrokesCounted, Acts, Faults
<1>2. \A act \in Acts : left'[act] <= left[act] /\ left[act] <= Budget[act]
  BY LeftShrinks DEF ScreenInvariant, ForeignAreFresh
<1>3. ASSUME NEW act \in {"foreign", "lostAnswer", "reload"}, Spend(act)
      PROVE  Spent(act)'
  <2>1. left'[act] = left[act] - 1
    BY <1>1, <1>3 DEF Spend, Kind, UserActs
  <2> QED BY <1>1, <1>2, <1>3, <2>1 DEF Spent
<1>4. Undisturbed
  BY <1>1, <1>2 DEF Undisturbed, Spent
<1> QED BY <1>3, <1>4 DEF Undisturbed

LEMMA TokenFirst == Init => TokenInvariant
<1> SUFFICES ASSUME Init PROVE TokenInvariant
  OBVIOUS
<1>1. /\ token = doc /\ fetch = NoFetch /\ flight = NoFlight
      /\ halted = FALSE /\ status = "idle" /\ reapplying = 0
  BY DEF Init
<1> QED BY <1>1 DEF TokenInvariant, NoConflictYet, TokenIsCurrent, Accepted, Coming, NoFetch, NoFlight

\* A step that leaves the version, the request and the document alone.
LEMMA TokenStays ==
  ASSUME NoConflictYet, TokenIsCurrent, UNCHANGED <<doc, token, flight, halted, reapplying>>,
         Coming' \subseteq Coming, status' \in {"idle", status}
  PROVE  NoConflictYet' /\ TokenIsCurrent'
<1>1. Accepted' <=> Accepted
  BY DEF Accepted
<1>2. NoConflictYet'
  BY DEF NoConflictYet
<1>3. TokenIsCurrent'
  BY <1>1 DEF TokenIsCurrent
<1> QED BY <1>2, <1>3

LEMMA QueuedIsCurrent ==
  ASSUME NoConflictYet, NEW p, Queued(p)
  PROVE  UNCHANGED <<token, flight, halted, reapplying>> /\ status' = "idle"
  BY DEF Queued, Quiet, NoConflictYet

\* What the reader does before the queue is sent.
LEMMA UserIsCurrent ==
  ASSUME NoConflictYet, TokenIsCurrent,
         \/ \E c \in Ids : TypeIn(c) \/ ConfirmRemoval(c)
         \/ CancelRemoval \/ AddLine \/ (\E i \in DOMAIN outline : MoveLine(i)) \/ Undo \/ Redo
         \/ RemovalLapses \/ Refresh
  PROVE  NoConflictYet' /\ TokenIsCurrent'
<1>1. doc' = doc /\ (fetch' = fetch \/ fetch' = Asked)
  BY DEF TypeIn, ConfirmRemoval, CancelRemoval, AddLine, MoveLine, Undo, Redo, Step, RemovalLapses,
     Refresh, Recorded, server, page
<1>2. Coming' \subseteq Coming
  BY <1>1 DEF Coming, Asked
<1>3. (\E p : Queued(p)) \/ UNCHANGED queue
  BY DEF TypeIn, ConfirmRemoval, Staging, CancelRemoval, AddLine, MoveLine, Undo, Redo, Step,
     RemovalLapses, Refresh
<1>4. UNCHANGED <<token, flight, halted, reapplying>> /\ status' \in {"idle", status}
  BY <1>3, QueuedIsCurrent DEF queue
<1> QED BY <1>1, <1>2, <1>4, TokenStays

LEMMA SendingIsCurrent ==
  ASSUME NoConflictYet, TokenIsCurrent, Fire \/ Flush
  PROVE  NoConflictYet' /\ TokenIsCurrent'
<1>1. UNCHANGED <<doc, fetch, token, halted, reapplying>>
  BY DEF Fire, Flush, server, page
<1>2. Coming' = Coming
  BY <1>1 DEF Coming
<1>3. \/ UNCHANGED <<flight, status>>
      \/ flight.stage = "none" /\ SentAfter(status, buffer, token)
  BY DEF Fire, Flush, Sent
<1>4. CASE UNCHANGED <<flight, status>>
  BY <1>1, <1>2, <1>4, TokenStays
<1>5. CASE flight.stage = "none" /\ SentAfter(status, buffer, token)
  <2>1. /\ ~Accepted
        /\ \/ flight' = NoFlight /\ status' = status
           \/ flight'.stage = "sent" /\ flight'.base = token /\ status' = "saving"
    BY <1>5 DEF SentAfter, Accepted
  <2>2. ~Accepted'
    BY <2>1 DEF Accepted, NoFlight
  <2>3. NoConflictYet'
    BY <1>1, <2>1 DEF NoConflictYet, NoFlight
  <2>4. TokenIsCurrent'
    BY <1>1, <1>2, <2>1, <2>2 DEF TokenIsCurrent, NoFlight
  <2> QED BY <2>3, <2>4
<1> QED BY <1>3, <1>4, <1>5

LEMMA AnswerIsCurrent ==
  ASSUME NoConflictYet, TokenIsCurrent, ServerAnswers
  PROVE  NoConflictYet' /\ TokenIsCurrent'
<1> DEFINE answer == Answer(doc, flight.base, flight.patch)
           made == Patched(doc, flight.patch)
<1>1. /\ flight.stage = "sent" /\ flight'.stage = "answered" /\ flight'.answer = answer
      /\ flight'.etag = IF answer = "saved" THEN made ELSE doc
      /\ doc' = IF answer = "saved" THEN made ELSE doc
      /\ UNCHANGED <<fetch, token, halted, status, reapplying>>
  BY DEF ServerAnswers, page
<1>2. flight.base = doc /\ token = doc /\ \A lines \in Coming : lines = doc
  BY <1>1 DEF TokenIsCurrent, Accepted
<1>3. answer # "conflict"
  BY <1>2 DEF Answer
<1> HIDE DEF answer, made
<1>4. Coming' = Coming /\ (Accepted' <=> answer = "saved")
  BY <1>1 DEF Coming, Accepted
<1>5. NoConflictYet'
  BY <1>1 DEF NoConflictYet
<1>6. TokenIsCurrent'
  BY <1>1, <1>2, <1>3, <1>4 DEF TokenIsCurrent
<1> QED BY <1>5, <1>6

\* The answer moves the version to the one it carries, and the read that started before is dropped.
LEMMA SuccessIsCurrent ==
  ASSUME NoConflictYet, TokenIsCurrent, SaveSucceeds
  PROVE  NoConflictYet' /\ TokenIsCurrent'
<1>1. /\ Accepted /\ doc' = doc /\ token' = flight.etag /\ fetch' = Asked
      /\ SentAfter("saved", buffer, flight.etag) /\ UNCHANGED <<halted, reapplying>>
  BY DEF SaveSucceeds, FollowUp, ReturnedToken, Invalidated, server, Accepted
<1>2. /\ \/ flight' = NoFlight /\ status' = "saved"
         \/ flight'.stage = "sent" /\ flight'.base = flight.etag /\ status' = "saving"
      /\ Coming' = {}
  BY <1>1 DEF SentAfter, Coming, Asked
<1>3. ~Accepted' /\ flight.etag = doc
  BY <1>1, <1>2 DEF Accepted, NoFlight, TokenIsCurrent
<1>4. NoConflictYet'
  BY <1>1, <1>2 DEF NoConflictYet, NoFlight
<1>5. TokenIsCurrent'
  BY <1>1, <1>2, <1>3 DEF TokenIsCurrent, NoFlight
<1> QED BY <1>4, <1>5

LEMMA FailureIsCurrent ==
  ASSUME NoConflictYet, TokenIsCurrent, SaveFails \/ SaveConflicts \/ RequestLost \/ ReadFails
  PROVE  NoConflictYet' /\ TokenIsCurrent'
<1>1. CASE SaveFails
  <2>1. /\ ~Accepted /\ UNCHANGED <<doc, fetch, token, halted, reapplying>>
        /\ flight' = NoFlight /\ status' = "failed"
    BY <1>1 DEF SaveFails, Accepted, server, page
  <2>2. ~Accepted' /\ Coming' = Coming
    BY <2>1 DEF Accepted, NoFlight, Coming
  <2> QED BY <2>1, <2>2 DEF NoConflictYet, TokenIsCurrent, NoFlight
<1>2. CASE SaveConflicts
  BY <1>2 DEF SaveConflicts, TokenIsCurrent, Accepted
<1>3. CASE RequestLost
  <2>1. /\ flight.stage = "sent" /\ UNCHANGED <<doc, fetch, token, halted, status, reapplying>>
        /\ flight'.stage = "answered" /\ flight'.answer = "network"
    BY <1>3 DEF RequestLost, server, page
  <2>2. ~Accepted /\ ~Accepted' /\ Coming' = Coming
    BY <2>1 DEF Accepted, Coming
  <2> QED BY <2>1, <2>2 DEF NoConflictYet, TokenIsCurrent
<1>4. CASE ReadFails
  <2>1. /\ UNCHANGED <<doc, token, halted, flight, status>> /\ fetch' = NoFetch /\ reapplying' = 0
    BY <1>4 DEF ReadFails, server, NoConflictYet
  <2>2. Coming' = {} /\ reapplying' = reapplying
    BY <2>1 DEF Coming, NoFetch, NoConflictYet
  <2> QED BY <2>1, <2>2, TokenStays
<1> QED BY <1>1, <1>2, <1>3, <1>4

LEMMA ReadIsCurrent ==
  ASSUME NoConflictYet, TokenIsCurrent, ReadArrives
  PROVE  NoConflictYet' /\ TokenIsCurrent'
<1>1. /\ doc' = doc /\ fetch' = NoFetch /\ token' \in {token, fetch.lines} /\ Coming = {fetch.lines}
      /\ halted' = (halted /\ reapplying = 0) /\ reapplying' = 0
      /\ UNCHANGED <<flight, status>>
  BY DEF ReadArrives, NoConflictYet, server, Coming
<1>2. Coming' = {} /\ (Accepted' <=> Accepted)
  BY <1>1 DEF Coming, NoFetch, Accepted
<1>3. NoConflictYet'
  BY <1>1 DEF NoConflictYet
<1>4. TokenIsCurrent'
  BY <1>1, <1>2 DEF TokenIsCurrent
<1> QED BY <1>3, <1>4

LEMMA ServedReadIsCurrent ==
  ASSUME NoConflictYet, TokenIsCurrent, ServerReads
  PROVE  NoConflictYet' /\ TokenIsCurrent'
<1>1. UNCHANGED <<doc, token, flight, halted, status, reapplying>> /\ Coming' = {doc}
  BY DEF ServerReads, server, queue, Coming
<1>2. Accepted' <=> Accepted
  BY <1>1 DEF Accepted
<1>3. NoConflictYet'
  BY <1>1 DEF NoConflictYet
<1>4. TokenIsCurrent'
  BY <1>1, <1>2 DEF TokenIsCurrent
<1> QED BY <1>3, <1>4

LEMMA TokenKeeps ==
  ASSUME QueueInvariant, QueueInvariant', ScreenInvariant, TokenInvariant, [Next]_vars
  PROVE  TokenInvariant'
<1> SUFFICES ASSUME Undisturbed' PROVE NoConflictYet' /\ TokenIsCurrent'
  BY DEF TokenInvariant
<1>1. /\ NoConflictYet /\ TokenIsCurrent
      /\ ~Spend("foreign") /\ ~Spend("lostAnswer") /\ ~Spend("reload")
  BY UndisturbedBefore DEF TokenInvariant
<1>2. CASE User
  <2>1. ~DiscardLocal /\ ~ReapplyLocal
    BY <1>1 DEF DiscardLocal, ReapplyLocal, DialogOpen, NoConflictYet
  <2> QED BY <1>1, <1>2, <2>1, UserIsCurrent, SendingIsCurrent DEF User
<1>3. CASE Page
  BY <1>1, <1>3, UserIsCurrent, SendingIsCurrent, SuccessIsCurrent, FailureIsCurrent, ReadIsCurrent
  DEF Page
<1>4. CASE Server
  BY <1>1, <1>4, AnswerIsCurrent, ServedReadIsCurrent DEF Server
<1>5. CASE Surroundings
  <2>1. ~AnswerLost /\ ~Reload /\ \A c \in Ids : ~OtherWrites(c)
    BY <1>1 DEF AnswerLost, Reload, OtherWrites
  <2> QED BY <1>1, <1>5, <2>1, FailureIsCurrent, UserIsCurrent DEF Surroundings
<1>6. CASE UNCHANGED vars
  <2>1. UNCHANGED <<doc, token, flight, halted, status, reapplying>> /\ Coming' = Coming
    BY <1>6 DEF vars, server, page, queue, Coming
  <2> QED BY <1>1, <2>1, TokenStays
<1> QED BY <1>2, <1>3, <1>4, <1>5, <1>6 DEF Next

\* While nobody else writes, no answer is lost and the page is not loaded again, the version the
\* next save names is that of the document: each answer moves it, and no read that was under way
\* moves it back (`token` of useDraftAutosave.ts, `onSaved` of useDraftEditing.ts).
THEOREM TheTokenIsCurrent == Spec => []TokenInvariant
<1>1. QueueInvariant /\ QueueInvariant' /\ ScreenInvariant /\ TokenInvariant /\ [Next]_vars
        => TokenInvariant'
  BY TokenKeeps
<1> QED BY <1>1, TokenFirst, QueueIsSound, DifferencesAreOwed, PTL DEF Spec

\* So a 409 is never the page's own doing: it has met another writer, a save of its own whose
\* answer was lost, or an earlier load of the page.
THEOREM ThePageNeverConflictsWithItself == Spec => []ConflictHasCause
<1>1. TokenInvariant => ConflictHasCause
  BY DEF TokenInvariant, Undisturbed, NoConflictYet, ConflictHasCause
<1> QED BY <1>1, TheTokenIsCurrent, PTL


LEMMA StoredKeeps ==
  ASSUME QueueInvariant, QueueInvariant', ScreenInvariant, TokenInvariant, ReadIsStored, [Next]_vars
  PROVE  ReadIsStored'
<1> SUFFICES ASSUME Undisturbed', ~Spent("fail")', fetch' = NoFetch, ~Accepted'
             PROVE  read' = doc'
  BY DEF ReadIsStored
<1>1. /\ NoConflictYet /\ TokenIsCurrent /\ Undisturbed
      /\ ~Spend("foreign") /\ ~Spend("lostAnswer") /\ ~Spend("reload")
  BY UndisturbedBefore DEF TokenInvariant
<1>2. ~Spent("fail") /\ ~ReadFails
  <2>1. /\ left \in [Acts -> Nat] /\ left' \in [Acts -> Nat] /\ Budget \in [Acts -> Nat]
        /\ "fail" \in Acts
    BY EditorConstants DEF QueueInvariant, KeystrokesCounted, Acts, Faults
  <2>2. left'["fail"] <= left["fail"] /\ left["fail"] <= Budget["fail"]
    BY <2>1, LeftShrinks DEF ScreenInvariant, ForeignAreFresh
  <2>3. ASSUME Spend("fail") PROVE FALSE
    <3>1. left'["fail"] = left["fail"] - 1
      BY <2>1, <2>3 DEF Spend, Kind, UserActs
    <3> QED BY <2>1, <2>2, <3>1 DEF Spent
  <2> QED BY <2>1, <2>2, <2>3 DEF Spent, ReadFails
<1>3. CASE ReadArrives
  <2>1. /\ doc' = doc /\ read' = fetch.lines /\ Coming = {fetch.lines} /\ flight' = flight
    BY <1>1, <1>3 DEF ReadArrives, NoConflictYet, server, Coming
  <2>2. ~Accepted
    BY <2>1 DEF Accepted
  <2> QED BY <1>1, <2>1, <2>2 DEF TokenIsCurrent
<1>4. CASE ServerAnswers
  <2>1. /\ fetch' = fetch /\ read' = read /\ flight.stage = "sent"
        /\ Answer(doc, flight.base, flight.patch) # "saved" => doc' = doc
        /\ Answer(doc, flight.base, flight.patch) = "saved" => Accepted'
    BY <1>4 DEF ServerAnswers, page, Accepted
  <2>2. ~Accepted
    BY <2>1 DEF Accepted
  <2> QED BY <1>1, <1>2, <2>1, <2>2 DEF ReadIsStored
<1>5. CASE SaveFails
  BY <1>1, <1>2, <1>5 DEF SaveFails, ReadIsStored, Accepted, server, page
<1>6. CASE SaveSucceeds \/ ServerReads \/ Refresh
  BY <1>6 DEF SaveSucceeds, ServerReads, Refresh, Invalidated, Asked, NoFetch
<1>7. CASE RequestLost
  BY <1>1, <1>2, <1>7 DEF RequestLost, ReadIsStored, Accepted, server, page
<1>8. CASE Fire \/ Flush
  BY <1>1, <1>2, <1>8 DEF Fire, Flush, Sent, SentAfter, ReadIsStored, Accepted, server, page
<1>9. CASE \/ \E c \in Ids : TypeIn(c) \/ ConfirmRemoval(c)
           \/ CancelRemoval \/ AddLine \/ (\E i \in DOMAIN outline : MoveLine(i)) \/ Undo \/ Redo
           \/ RemovalLapses
  <2>1. UNCHANGED <<doc, read, fetch>>
    BY <1>9 DEF TypeIn, ConfirmRemoval, CancelRemoval, AddLine, MoveLine, Undo, Redo, Step,
       RemovalLapses, Recorded, server, page
  <2>2. (\E p : Queued(p)) \/ UNCHANGED queue
    BY <1>9 DEF TypeIn, ConfirmRemoval, Staging, CancelRemoval, AddLine, MoveLine, Undo, Redo, Step,
       RemovalLapses
  <2>3. flight' = flight
    BY <2>2 DEF Queued, queue
  <2> QED BY <1>1, <1>2, <2>1, <2>3 DEF ReadIsStored, Accepted
<1>10. ~SaveConflicts /\ ~AnswerLost /\ ~DiscardLocal /\ ~ReapplyLocal /\ ~Reload
       /\ \A c \in Ids : ~OtherWrites(c)
  BY <1>1 DEF SaveConflicts, AnswerLost, DiscardLocal, ReapplyLocal, Reload, OtherWrites, DialogOpen,
     NoConflictYet, TokenIsCurrent, Accepted
<1>11. CASE UNCHANGED vars
  BY <1>1, <1>2, <1>11 DEF vars, server, page, queue, ReadIsStored, Accepted
<1> QED BY <1>2, <1>3, <1>4, <1>5, <1>6, <1>7, <1>8, <1>9, <1>10, <1>11
        DEF Next, User, Page, Server, Surroundings

\* When nothing waits and no read is under way, what the reader sees is what is stored: the order
\* of the document and the text of every line it started with, while nobody else wrote, nothing
\* failed and the page was not loaded again (useDraftHistory.ts, useDraftAutosave.ts,
\* useDraftEditing.ts).
THEOREM TheScreenShowsTheDocument == Spec => []ShowsWhatIsStored
<1>1. Init => ReadIsStored
  <2>1. Init => read = doc
    BY DEF Init
  <2> QED BY <2>1 DEF ReadIsStored
<1>2. QueueInvariant /\ QueueInvariant' /\ ScreenInvariant /\ TokenInvariant /\ ReadIsStored
        /\ [Next]_vars => ReadIsStored'
  BY StoredKeeps
<1>3. ReadIsStored /\ ShowsWhatIsSaved => ShowsWhatIsStored
  <2> SUFFICES ASSUME ReadIsStored, ShowsWhatIsSaved, Clean, fetch = NoFetch, Undisturbed, ~Spent("fail")
               PROVE  /\ OrderOf(outline) = OrderOf(doc)
                      /\ \A i \in DOMAIN doc : doc[i].id \in Lines => outline[i] = doc[i]
    BY DEF ShowsWhatIsStored
  <2>1. ~Accepted
    BY DEF Clean, Accepted
  <2>2. read = doc
    BY <2>1 DEF ReadIsStored
  <2> QED BY <2>2 DEF ShowsWhatIsSaved
<1> QED BY <1>1, <1>2, <1>3, QueueIsSound, DifferencesAreOwed, TheTokenIsCurrent,
        TheScreenShowsWhatIsSaved, PTL DEF Spec
=============================================================================
