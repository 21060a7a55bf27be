\* All four repositories: Init chooses the one of the process.
SPECIFICATION Spec
CONSTANTS
    Requests = {r1, r2, r3}
    Backends = {"sqlite", "mongo", "postgres", "mysql"}
    MaxBatch = 2
    MaxFailures = 1
INVARIANTS
    TypeOK
    AnsweredIsCommitted
    BulkIsAtomic
    TransactionIsOwned
SYMMETRY
    Symmetry
