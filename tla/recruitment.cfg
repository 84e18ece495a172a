\* Two requests on one Application, or two visits of the page that creates one.
SPECIFICATION MCSpec
CONSTANTS
  Clients = {c1, c2}
  Texts = {t1, t2}
  Targets = {"saved", "applied", "interview", "rejected", "withdrawn", "closed"}
  MaxEvents = 4
  MaxSubmissions = 2
  Null = Null
  a = a
  spaced = spaced
  b = b
  x = x
  y = y
  u = u
  NVisits = 2
  Labels <- ThreeLabels
  Postings = {x, y}
  Links = {u}
  Inputs <- FourForms
  Drafts <- NoneOrOne
  Trim <- Unspaced
  Normal <- Compared
  CreationBudget <- Once
SYMMETRY Interchangeable
INVARIANTS
  LogIsAChain
  OutcomeFollowsStatus
  NoSilentRepeat
  CreatesWhatIsOnScreen
  KeptIsWhatWasNotCreated
PROPERTY DeletedIsNeverSent
CHECK_DEADLOCK FALSE
