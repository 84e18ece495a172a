\* Two requests and two render attempts on one document, with every command.
SPECIFICATION Spec
CONSTANTS
  citing = citing  plain = plain  f1 = f1
  Clients = {c1, c2}
  Attempts = {p1, p2}
  Analyses = {a1, a2}
  Contents = {citing, plain}
  Templates = {t1, t2}
  Facts = {f1}
  Cites <- OneCites
  Null = Null
  MaxChanges = 3
SYMMETRY Interchangeable
INVARIANTS
  ReadyShowsTheDocument
  ApprovedFactsAreUsable
  SubmissionsShowTheirContent
PROPERTIES
  ApprovalIsGivenOnce
CHECK_DEADLOCK FALSE
