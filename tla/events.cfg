\* One process that ends, fails a post and falls back once each.
SPECIFICATION Spec
CONSTANTS
    Instances = {p1}
    Events = {a, b, noise}
    Named = {a, b}
    MaxPublished = 3
    MaxEnds = 2
    MaxFailures = 1
    MaxRebalances = 1
INVARIANTS
    TypeOK
    NothingPassedOver
    OncePerReading
PROPERTY
    DeliversAtLeastOnce
CHECK_DEADLOCK FALSE
