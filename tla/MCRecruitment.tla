---------------------------- MODULE MCRecruitment ----------------------------
EXTENDS ApplicationRecord, TLC

CONSTANTS a, spaced, b, x, y, u

Interchangeable == Permutations(Clients) \union Permutations(Texts)

\* Two visits in up to two tabs; one label is the other with a space before it, and each is a
\* duplicate of nothing the third names.
ThreeLabels == {a, spaced, b}
Form(l, t) == [label |-> l, text |-> t, link |-> "blank"]
NoForm == Form("blank", "blank")
FourForms == {NoForm, Form(spaced, x), Form(b, x), Form(b, y)}
NoneOrOne == {NoForm, Form(a, x)}
Unspaced == [l \in ThreeLabels |-> IF l = spaced THEN a ELSE l]
Compared == [l \in ThreeLabels \union {x, y} |-> IF l = spaced THEN a ELSE l]
Once == [edit |-> 1, press |-> 2, leave |-> 1, unload |-> 1, lose |-> 1, refuse |-> 1, trouble |-> 1]
=============================================================================
