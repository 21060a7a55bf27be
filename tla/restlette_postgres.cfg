SPECIFICATION Spec
CONSTANTS
  Requests = {r1, r2, r3, r4}
  Ids = {d1}
  Stored = {d1}
  Kinds = {"update", "read", "list"}
  Unique = TRUE
  MaxRetries = 1
  Unbounded = Unbounded
  DbClock = TRUE
  MaxLag = 1
  TimedScan = FALSE
  Swallow = FALSE
  StrictSearch = FALSE
  FindSeesRemoved = FALSE
  AllSeesRemoved = FALSE
  Valid = {TRUE}
  Permitted = {TRUE}
  Earlier = Earlier
  NoDoc = NoDoc
  MaxTime = 2
  MaxFailures = 0
INVARIANTS
  GraphAgreesWithRest
  StampsFollowAnswers
  ScansSeeAnsweredWrites
  ReadsNeverGoBack
  DeathNeedsContention
SYMMETRY
  Symmetry
