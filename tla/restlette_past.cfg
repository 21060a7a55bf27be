SPECIFICATION Spec
CONSTANTS
  Requests = {r1, r2, r3}
  Ids = {d1}
  Stored = {d1}
  Kinds = {"update", "remove"}
  Unique = TRUE
  MaxRetries = 0
  Unbounded = Unbounded
  DbClock = FALSE
  MaxLag = 0
  TimedScan = FALSE
  Swallow = FALSE
  StrictSearch = FALSE
  FindSeesRemoved = FALSE
  AllSeesRemoved = FALSE
  Valid = {TRUE, FALSE}
  Permitted = {TRUE, FALSE}
  Earlier = Earlier
  NoDoc = NoDoc
  MaxTime = 2
  MaxFailures = 0
PROPERTY
  SettledTimesNeverChange
