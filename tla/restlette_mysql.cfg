SPECIFICATION Spec
CONSTANTS
  Requests = {r1, r2, r3}
  Ids = {d1, d2}
  Stored = {d1}
  Kinds = {"create", "update", "remove", "read", "list", "bulk_read"}
  Unique = TRUE
  MaxRetries = 0
  Unbounded = Unbounded
  DbClock = FALSE
  MaxLag = 0
  TimedScan = FALSE
  Swallow = FALSE
  StrictSearch = FALSE
  FindSeesRemoved = FALSE
  AllSeesRemoved = FALSE
  Valid = {TRUE, FALSE}
  Permitted = {TRUE, FALSE}
  Earlier = Earlier
  NoDoc = NoDoc
  MaxTime = 2
  MaxFailures = 1
INVARIANTS
  RemovedStaysRemovedUnlessRaced
PROPERTIES
  SearchesOfThePastRepeat
  SettledTimesChangeByRemovalOnly
SYMMETRY
  Symmetry
