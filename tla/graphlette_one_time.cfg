\* One operation whose top level fields have one time and one selection.
SPECIFICATION Spec
CONSTANTS
    Roots = {r1, r2}
    Fields = {f1, f2, f3}
    Root <- Below
    Asked <- OneTime
    Selection <- OneSelection
    Keys = {k1, k2, k3}
    NoKey = NoKey
    Absent = Absent
    NoAt = NoAt
    MaxBatch = 2
    Pending = Pending
    Empty = Empty
    Failed = Failed
    MaxTime = 1
    r1 = r1
    r2 = r2
    f1 = f1
    f2 = f2
    f3 = f3
INVARIANTS
    TypeOK
    AskedOncePerOperation
PROPERTY
    ResolvesAsDirectCalls
