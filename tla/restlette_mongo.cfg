SPECIFICATION Spec
CONSTANTS
  Requests = {r1, r2, r3, r4}
  Ids = {d1}
  Stored = {d1}
  Kinds = {"update", "remove", "read"}
  Unique = FALSE
  MaxRetries = 0
  Unbounded = Unbounded
  DbClock = FALSE
  MaxLag = 0
  TimedScan = FALSE
  Swallow = TRUE
  StrictSearch = TRUE
  FindSeesRemoved = TRUE
  AllSeesRemoved = TRUE
  Valid = {TRUE}
  Permitted = {TRUE}
  Earlier = Earlier
  NoDoc = NoDoc
  MaxTime = 2
  MaxFailures = 1
INVARIANTS
  SearchesFindAnsweredWrites
  StampsFollowAnswers
  ReadsSeeAnsweredWrites
  ReadsNeverGoBack
SYMMETRY
  Symmetry
