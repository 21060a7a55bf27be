----------------------------- MODULE BulkWrites -----------------------------
(***************************************************************************)
(* Requests that write several documents: Crud.bulk_create, which calls    *)
(* createMany of its repository, and removeMany, beside the ordinary       *)
(* create, all served by one process.                                      *)
(*                                                                         *)
(* SQLite wraps a bulk write in BEGIN ... COMMIT on the one connection the *)
(* repository has, awaits every statement in between, and never rolls      *)
(* back: what other requests write meanwhile is part of the transaction.   *)
(* Postgres and MySQL store one document after the other and remove in one *)
(* statement.  Mongo stores and removes in one call that may stop half     *)
(* way, and createMany logs a failure and answers as if it had succeeded.  *)
(***************************************************************************)
EXTENDS Integers, FiniteSets

CONSTANTS
    Requests,   \* the requests that may ever arrive
    Backends,   \* the repositories checked, a subset of AllBackends
    MaxBatch,   \* bound: documents of one bulk request
    MaxFailures \* bound: statements that fail

AllBackends == {"sqlite", "mongo", "postgres", "mysql"}

Bulks == {"bulk_create", "bulk_remove"}

ASSUME BulkConstants ==
    /\ Backends \subseteq AllBackends
    /\ MaxBatch \in Nat \ {0} /\ MaxFailures \in Nat

VARIABLES
    backend,    \* the repository of the process; never changes
    kind,       \* kind[r]: what r asks for
    size,       \* size[r]: how many documents of r the validator let pass
    pc,         \* pc[r]: the statement of r under way, or where its handler is
    n,          \* n[r]: how many of its documents r has dealt with
    table,      \* what the connection of the process sees
    disk,       \* what is committed
    inTransaction, \* BEGIN was executed and no COMMIT since
    before,     \* before[r]: the requests answered when r arrived (history)
    lost,       \* the requests whose process died before it answered them
    failed      \* the requests one statement of which failed

vars == <<backend, kind, size, pc, n, table, disk, inTransaction, before, lost, failed>>

\* A created document is its request and its place in it.  The documents the
\* bulk_removes mark were there before, and are known by their place.
Contents == [rows : SUBSET (Requests \X (1 .. MaxBatch)), marked : SUBSET (1 .. MaxBatch)]

TypeOK ==
    /\ backend \in AllBackends
    /\ kind \in [Requests -> Bulks \cup {"create", "none"}]
    /\ size \in [Requests -> 0 .. MaxBatch]
    /\ pc \in [Requests -> {"idle", "begin", "write", "resume", "commit", "reply", "done"}]
    /\ n \in [Requests -> 0 .. MaxBatch] /\ \A r \in Requests : n[r] <= size[r]
    /\ table \in Contents /\ disk \in Contents
    /\ inTransaction \in BOOLEAN
    /\ before \in [Requests -> SUBSET Requests]
    /\ lost \subseteq Requests /\ failed \subseteq Requests

Init ==
    /\ backend \in Backends
    /\ kind = [r \in Requests |-> "none"]
    /\ size = [r \in Requests |-> 0]
    /\ pc = [r \in Requests |-> "idle"]
    /\ n = [r \in Requests |-> 0]
    /\ table = [rows |-> {}, marked |-> {}]
    /\ disk = [rows |-> {}, marked |-> {}]
    /\ inTransaction = FALSE
    /\ before = [r \in Requests |-> {}]
    /\ lost = {}
    /\ failed = {}

-----------------------------------------------------------------------------
Arrived == {r \in Requests : pc[r] # "idle"}

Done == {r \in Requests : pc[r] = "done"}

Alive(r) == r \notin lost

\* createMany and removeMany of SQLite begin and commit.
Transacts(r) == backend = "sqlite" /\ kind[r] \in Bulks

\* The repository deals with all documents of r in one statement.
AtOnce(r) ==
    \/ backend = "mongo" /\ kind[r] = "bulk_create"
    \/ backend # "sqlite" /\ kind[r] = "bulk_remove"

\* Plausible bugs of More: one document too many, and one too few.
MoreByOne(r) == n[r] <= size[r]
LessByOne(r) == n[r] + 1 < size[r]

\* r has documents left to write.
More(r) == n[r] < size[r]

\* The documents the statement of r under way writes.
Items(r) == IF AtOnce(r) THEN 1 .. size[r] ELSE {n[r] + 1}

\* How many documents r has dealt with after the statement under way.
Advanced(r) == n[r] + Cardinality(Items(r))

\* A plausible bug of AfterWrite: the COMMIT is missing.
AfterWriteOpen(r) == IF More(r) THEN "write" ELSE "reply"

\* What comes next for r when a write or its BEGIN is done.
AfterWrite(r) == IF More(r) THEN "write" ELSE IF Transacts(r) THEN "commit" ELSE "reply"

\* c with the documents S of r written.
Written(c, r, S) ==
    IF kind[r] = "bulk_remove" THEN [c EXCEPT !.marked = @ \cup S]
                               ELSE [c EXCEPT !.rows = @ \cup ({r} \X S)]

-----------------------------------------------------------------------------
\* A request arrives.  The validator drops documents of a bulk_create without
\* a word; the rest travels on to the repository.
Arrive(r) ==
    /\ pc[r] = "idle"
    /\ \E k \in Bulks \cup {"create"} :
          /\ kind' = [kind EXCEPT ![r] = k]
          /\ \E s \in IF k = "create" THEN {1} ELSE 0 .. MaxBatch :
                /\ size' = [size EXCEPT ![r] = s]
                /\ pc' = [pc EXCEPT ![r] =
                     IF backend = "sqlite" /\ k \in Bulks THEN "begin"
                     ELSE IF s > 0 THEN "write" ELSE "reply"]
    /\ before' = [before EXCEPT ![r] = Done]
    /\ UNCHANGED <<backend, n, table, disk, inTransaction, lost, failed>>

\* BEGIN TRANSACTION is executed.
Begin(r) ==
    /\ pc[r] = "begin" /\ Alive(r)
    /\ ~inTransaction
    /\ inTransaction' = TRUE
    /\ pc' = [pc EXCEPT ![r] = "resume"]
    /\ UNCHANGED <<backend, kind, size, n, table, disk, before, lost, failed>>

\* The statement under way is executed: for good, unless a transaction is
\* open.  A server's database does so even when the process has died.
Execute(r) ==
    /\ pc[r] = "write"
    /\ Alive(r) \/ backend # "sqlite"
    /\ table' = Written(table, r, Items(r))
    /\ disk' = IF inTransaction THEN disk ELSE Written(disk, r, Items(r))
    /\ n' = [n EXCEPT ![r] = Advanced(r)]
    /\ pc' = [pc EXCEPT ![r] = "resume"]
    /\ UNCHANGED <<backend, kind, size, inTransaction, before, lost, failed>>

\* COMMIT is executed, whoever wrote what it commits.
Commit(r) ==
    /\ pc[r] = "commit" /\ Alive(r)
    /\ disk' = table
    /\ inTransaction' = FALSE
    /\ pc' = [pc EXCEPT ![r] = "reply"]
    /\ UNCHANGED <<backend, kind, size, n, table, before, lost, failed>>

\* The repository resumes and sends the next statement.
Resume(r) ==
    /\ pc[r] = "resume" /\ Alive(r)
    /\ pc' = [pc EXCEPT ![r] = AfterWrite(r)]
    /\ UNCHANGED <<backend, kind, size, n, table, disk, inTransaction, before, lost, failed>>

\* The handler resumes and answers, with the ids of all documents.
Reply(r) ==
    /\ pc[r] = "reply" /\ Alive(r)
    /\ pc' = [pc EXCEPT ![r] = "done"]
    /\ UNCHANGED <<backend, kind, size, n, table, disk, inTransaction, before, lost, failed>>

\* A rejected handler ends the process: its requests are lost, and the end of
\* the connection rolls back what is not committed (c is).
ProcessDies(c) ==
    /\ lost' = lost \cup (Arrived \ Done)
    /\ disk' = c
    /\ table' = c
    /\ inTransaction' = FALSE

\* A second BEGIN on the connection is an error.
BeginAgain(r) ==
    /\ pc[r] = "begin" /\ Alive(r)
    /\ inTransaction
    /\ ProcessDies(disk)
    /\ UNCHANGED <<backend, kind, size, pc, n, before, failed>>

\* What a failed statement of r may have written: insertMany stops at the
\* document that fails, updateMany anywhere, a single statement does it or not.
Partly(r) ==
    IF backend = "mongo" /\ kind[r] = "bulk_create" THEN {1 .. k : k \in 0 .. size[r]}
    ELSE IF backend = "mongo" THEN SUBSET Items(r)
    ELSE {{}, Items(r)}

\* A plausible bug of Swallows: every createMany catches what goes wrong.
SwallowsAlways(r) == kind[r] = "bulk_create"

\* createMany of Mongo logs what goes wrong and returns all documents.
Swallows(r) == backend = "mongo" /\ kind[r] = "bulk_create"

Fails(r) ==
    /\ pc[r] \in {"begin", "write", "commit"} /\ Alive(r)
    /\ Cardinality(failed) < MaxFailures
    /\ failed' = failed \cup {r}

FailQuietly(r) ==
    /\ Fails(r)
    /\ pc[r] = "write" /\ Swallows(r)
    /\ \E S \in Partly(r) :
          /\ table' = Written(table, r, S)
          /\ disk' = IF inTransaction THEN disk ELSE Written(disk, r, S)
    /\ n' = [n EXCEPT ![r] = size[r]]
    /\ pc' = [pc EXCEPT ![r] = "resume"]
    /\ UNCHANGED <<backend, kind, size, inTransaction, before, lost>>

FailLoudly(r) ==
    /\ Fails(r)
    /\ ~(pc[r] = "write" /\ Swallows(r))
    /\ \E S \in IF pc[r] = "write" /\ ~inTransaction THEN Partly(r) ELSE {{}} :
          ProcessDies(Written(disk, r, S))
    /\ UNCHANGED <<backend, kind, size, pc, n, before>>

\* Every request was answered or lost.
Quiet ==
    /\ \A r \in Requests : pc[r] = "done" \/ r \in lost
    /\ UNCHANGED vars

Step(r) == Begin(r) \/ Execute(r) \/ Commit(r) \/ Resume(r) \/ Reply(r) \/ BeginAgain(r)

Next ==
    \/ Quiet
    \/ \E r \in Requests : Arrive(r) \/ Step(r) \/ FailQuietly(r) \/ FailLoudly(r)

Spec == Init /\ [][Next]_vars

-----------------------------------------------------------------------------
\* c holds all, or something, of what r writes.
AllOf(c, r) ==
    IF kind[r] = "bulk_remove" THEN 1 .. size[r] \subseteq c.marked
                               ELSE {r} \X (1 .. size[r]) \subseteq c.rows

SomeOf(c, r) == c.rows \cap ({r} \X (1 .. MaxBatch)) # {}

\* r1 and r2 were being served at the same time.
Overlap(r1, r2) == r1 \notin before[r2] /\ r2 \notin before[r1]

\* The answer of r may be wrong: the insertMany of r failed, or r ran inside
\* the transaction of a bulk write that has not been committed, or never was.
Hollow(r) ==
    \/ backend = "mongo" /\ kind[r] = "bulk_create" /\ r \in failed
    \/ /\ backend = "sqlite" /\ kind[r] = "create"
       /\ \E s \in Requests :
             kind[s] \in Bulks /\ pc[s] \notin {"begin", "done"} /\ Overlap(r, s)

\* What a client was told is done, is done and committed, except for the two
\* weaknesses Hollow names (createMany of MongoRepository and of
\* SQLiteRepository, Crud.bulk_create, Crud.create).
AnsweredIsCommitted ==
    \A r \in Done : AllOf(disk, r) \/ Hollow(r)

\* In SQLite a bulk_create is on the disk as a whole or not at all, whatever
\* fails and whoever shares its transaction.  In the others a part of it stays
\* only of a request that is under way, lost, or failed.
BulkIsAtomic ==
    \A r \in Requests : kind[r] = "bulk_create" /\ SomeOf(disk, r) =>
        \/ AllOf(disk, r)
        \/ backend # "sqlite" /\ (r \in lost \cup failed \/ pc[r] # "done")

\* A transaction never outlives the bulk write that began it, although nothing
\* rolls it back (createMany, removeMany): exactly one request that is being
\* served will commit it, and without a transaction nothing is uncommitted.
TransactionIsOwned ==
    LET Owners == {r \in Requests \ lost :
                      Transacts(r) /\ pc[r] \in {"write", "resume", "commit"}}
    IN  IF inTransaction THEN Cardinality(Owners) = 1 ELSE table = disk
=============================================================================
