\* Two processes, and nothing goes wrong.
SPECIFICATION Spec
CONSTANTS
    Instances = {p1, p2}
    Events = {a, b, noise}
    Named = {a, b}
    MaxPublished = 3
    MaxEnds = 0
    MaxFailures = 0
    MaxRebalances = 0
INVARIANT
    ExactlyOnce
CHECK_DEADLOCK FALSE
