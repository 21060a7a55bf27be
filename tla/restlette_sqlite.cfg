SPECIFICATION StoreSpec
CONSTANTS
  Requests = {r1, r2, r3}
  Ids = {d1}
  Stored = {d1}
  Kinds = {"update", "remove", "bulk_read"}
  Unique = TRUE
  MaxRetries = Unbounded
  Unbounded = Unbounded
  DbClock = FALSE
  MaxLag = 0
  TimedScan = TRUE
  Swallow = FALSE
  StrictSearch = FALSE
  FindSeesRemoved = TRUE
  AllSeesRemoved = FALSE
  Valid = {TRUE}
  Permitted = {TRUE}
  Earlier = Earlier
  NoDoc = NoDoc
  Nobody = Nobody
  MaxTime = 2
  MaxFailures = 1
INVARIANTS
  GraphAgreesWithRest
  SupersededOnlyByMismatch
  TypeOK
  StampsFollowAnswers
  ReadsSeeAnsweredWrites
  RemovedStaysRemovedUnlessRaced
PROPERTIES
  IsDocumentStore
  EveryRequestEnds
