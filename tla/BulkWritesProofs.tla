--------------------------- MODULE BulkWritesProofs ---------------------------
(***************************************************************************)
(* Proofs about BulkWrites, for every set of requests, every size of a     *)
(* batch and any number of failures.                                       *)
(***************************************************************************)
EXTENDS BulkWrites, FiniteSetTheorems, TLAPS

\* What the control point of a request says of its kind and its progress.
PhaseInv ==
    \A r \in Requests :
        /\ pc[r] = "idle" <=> kind[r] = "none"
        /\ pc[r] = "idle" => size[r] = 0 /\ n[r] = 0
        /\ kind[r] = "create" => size[r] = 1
        /\ pc[r] \in {"begin", "commit"} => Transacts(r)
        /\ pc[r] = "begin" => n[r] = 0
        /\ pc[r] = "write" => More(r) /\ (AtOnce(r) => n[r] = 0)
        /\ pc[r] = "resume" /\ AtOnce(r) => n[r] = size[r]
        /\ pc[r] \in {"commit", "reply", "done"} => n[r] = size[r]
        /\ before[r] \subseteq Done \ {r}
        /\ r \in lost => pc[r] \notin {"idle", "done"}

\* r is between its BEGIN and its COMMIT, and lives.
Owns(r) == Transacts(r) /\ pc[r] \in {"write", "resume", "commit"} /\ Alive(r)

\* Only the commit is missing from what the connection sees; whoever writes in
\* a transaction of its own is the only one, and will commit.
TransactionInv ==
    /\ inTransaction => backend = "sqlite" /\ \E r \in Requests : Owns(r)
    /\ \A r \in Requests : Owns(r) => inTransaction
    /\ \A r, s \in Requests : Owns(r) /\ Owns(s) => r = s
    /\ ~inTransaction => table = disk
    /\ disk.rows \subseteq table.rows /\ disk.marked \subseteq table.marked

\* c holds the first k documents of r.
UpTo(c, r, k) ==
    IF kind[r] = "bulk_remove" THEN 1 .. k \subseteq c.marked
                               ELSE {r} \X (1 .. k) \subseteq c.rows

\* The insertMany of r failed, and was answered as if it had not.
Swallowed(r) == Swallows(r) /\ r \in failed

\* The connection sees what a request being served has written; a bulk write
\* of SQLite that is about to be answered is committed.
ProgressInv ==
    \A r \in Requests :
        /\ Alive(r) /\ pc[r] # "done" => UpTo(table, r, n[r]) \/ Swallowed(r)
        /\ pc[r] = "reply" /\ Transacts(r) => AllOf(disk, r)

\* SQLite: a part of a bulk_create is seen only by its own transaction.
AtomicInv ==
    \A r \in Requests :
        /\ pc[r] = "idle" => ~SomeOf(table, r)
        /\ backend = "sqlite" /\ kind[r] = "bulk_create" =>
              /\ SomeOf(table, r) => AllOf(disk, r) \/ Owns(r)
              /\ SomeOf(disk, r) => AllOf(disk, r)

\* r was answered inside the transaction of s, which overlaps it: s will commit
\* what r wrote, or died on the way.
InTransactionOf(r, s) ==
    /\ kind[s] \in Bulks /\ pc[s] \in {"write", "resume", "commit"} /\ Overlap(r, s)
    /\ s \in lost \/ (Owns(s) /\ AllOf(table, r))

AnsweredInv ==
    \A r \in Done :
        \/ AllOf(disk, r)
        \/ Swallowed(r)
        \/ /\ backend = "sqlite" /\ kind[r] = "create"
           /\ \E s \in Requests : InTransactionOf(r, s)

IInv ==
    /\ TypeOK /\ PhaseInv /\ TransactionInv
    /\ ProgressInv /\ AtomicInv /\ AnsweredInv

(***************************************************************************)
(* What the statements write.                                              *)
(***************************************************************************)

\* A statement writes the documents of its request that come next.
LEMMA NextItems ==
    ASSUME TypeOK, PhaseInv, NEW r \in Requests, pc[r] = "write"
    PROVE  /\ Advanced(r) \in 1 .. size[r] /\ n[r] < Advanced(r)
           /\ Items(r) = (n[r] + 1) .. Advanced(r)
           /\ AtOnce(r) => Advanced(r) = size[r]
<1>1. n[r] \in Nat /\ size[r] \in Nat /\ n[r] < size[r]
  BY DEF TypeOK, PhaseInv, More
<1>2. CASE AtOnce(r)
  <2>1. Items(r) = 1 .. size[r] /\ n[r] = 0
    BY <1>2 DEF Items, PhaseInv
  <2>2. Cardinality(Items(r)) = size[r]
    BY <1>1, <2>1, FS_Interval
  <2> QED BY <1>1, <2>1, <2>2 DEF Advanced
<1>3. CASE ~AtOnce(r)
  <2>1. Items(r) = {n[r] + 1}
    BY <1>3 DEF Items
  <2>2. Cardinality(Items(r)) = 1
    BY <2>1, FS_Singleton
  <2>3. Advanced(r) = n[r] + 1
    BY <2>2 DEF Advanced
  <2>4. Items(r) = (n[r] + 1) .. (n[r] + 1)
    BY <1>1, <2>1
  <2> QED BY <1>1, <1>3, <2>3, <2>4
<1> QED BY <1>2, <1>3

\* Writing adds documents of the request, and takes nothing away.
LEMMA WrittenContents ==
    ASSUME NEW c \in Contents, NEW r \in Requests, NEW S, S \subseteq 1 .. MaxBatch
    PROVE  /\ Written(c, r, S) \in Contents
           /\ IF kind[r] = "bulk_remove"
              THEN /\ Written(c, r, S).rows = c.rows
                   /\ Written(c, r, S).marked = c.marked \cup S
              ELSE /\ Written(c, r, S).rows = c.rows \cup ({r} \X S)
                   /\ Written(c, r, S).marked = c.marked
  BY DEF Written, Contents

\* Writing nothing changes nothing.
LEMMA WrittenNothing ==
    ASSUME NEW c \in Contents, NEW r \in Requests
    PROVE  Written(c, r, {}) = c
  BY DEF Written, Contents

\* A failed statement may have written documents of its own, in order when it
\* is an insertMany.
LEMMA PartlyItems ==
    ASSUME TypeOK, PhaseInv, NEW r \in Requests, pc[r] = "write", NEW S \in Partly(r)
    PROVE  S \subseteq 1 .. size[r]
<1>1. Items(r) \subseteq 1 .. size[r]
  BY NextItems DEF TypeOK
<1>2. size[r] \in Nat
  BY DEF TypeOK
<1>3. \A k \in 0 .. size[r] : 1 .. k \subseteq 1 .. size[r]
  BY <1>2
<1> QED BY <1>1, <1>3 DEF Partly

(***************************************************************************)
(* Types and control points.                                               *)
(***************************************************************************)

\* The first state has the types and the phases.
LEMMA InitTypePhase == Init => TypeOK /\ PhaseInv
<1> SUFFICES ASSUME Init PROVE TypeOK /\ PhaseInv
  OBVIOUS
<1>1. table \in Contents /\ disk \in Contents
  BY DEF Init, Contents
<1>2. backend \in AllBackends /\ MaxBatch \in Nat
  BY BulkConstants DEF Init
<1>3. TypeOK
  <2>1. /\ n \in [Requests -> 0 .. MaxBatch] /\ \A r \in Requests : n[r] <= size[r]
        /\ size \in [Requests -> 0 .. MaxBatch]
    BY <1>2 DEF Init
  <2>2. /\ kind \in [Requests -> Bulks \cup {"create", "none"}]
        /\ pc \in [Requests -> {"idle", "begin", "write", "resume", "commit", "reply", "done"}]
        /\ inTransaction \in BOOLEAN
        /\ before \in [Requests -> SUBSET Requests]
        /\ lost \subseteq Requests /\ failed \subseteq Requests
    BY DEF Init
  <2> QED BY <1>1, <1>2, <2>1, <2>2 DEF TypeOK
<1>4. PhaseInv
  BY DEF Init, PhaseInv
<1> QED BY <1>3, <1>4

\* Every step keeps them.
LEMMA TypePhaseStep ==
    ASSUME TypeOK, PhaseInv, [Next]_vars
    PROVE  TypeOK' /\ PhaseInv'
<1> USE BulkConstants
<1>1. ASSUME NEW r \in Requests, Arrive(r) PROVE TypeOK' /\ PhaseInv'
  <2>1. PICK k \in Bulks \cup {"create"} : Arrive(r)!2!(k)
    BY <1>1 DEF Arrive
  <2>2. PICK s \in IF k = "create" THEN {1} ELSE 0 .. MaxBatch : Arrive(r)!2!(k)!2!(s)
    BY <2>1
  <2>3. /\ s \in 0 .. MaxBatch
        /\ k = "create" => s = 1
        /\ kind' = [kind EXCEPT ![r] = k]
        /\ size' = [size EXCEPT ![r] = s]
        /\ pc' = [pc EXCEPT ![r] = IF backend = "sqlite" /\ k \in Bulks THEN "begin"
                                   ELSE IF s > 0 THEN "write" ELSE "reply"]
    <3>1. k = "create" => s = 1
      BY <2>2
    <3>2. s \in 0 .. MaxBatch
      BY <2>2, <3>1
    <3> QED BY <2>1, <2>2, <3>1, <3>2
  <2>4. TypeOK'
    BY <1>1, <2>1 DEF Arrive, TypeOK, PhaseInv, Done, Bulks
  <2>5. /\ pc[r] = "idle" /\ before' = [before EXCEPT ![r] = Done]
        /\ UNCHANGED <<backend, n, lost>>
    BY <1>1 DEF Arrive
  <2>6. ASSUME NEW q \in Requests PROVE PhaseInv!(q)'
    <3>1. CASE q # r
      BY <2>3, <2>5, <3>1 DEF TypeOK, PhaseInv, Done, Transacts, More, AtOnce
    <3>2. CASE q = r
      BY <2>3, <2>5, <3>2 DEF TypeOK, PhaseInv, Done, Bulks, Transacts, More, AtOnce
    <3> QED BY <3>1, <3>2
  <2>7. PhaseInv'
    BY <2>6 DEF PhaseInv
  <2> QED BY <2>4, <2>7
<1>2. ASSUME NEW r \in Requests, Begin(r) PROVE TypeOK' /\ PhaseInv'
  BY <1>2 DEF Begin, TypeOK, PhaseInv, Done, Transacts, More, AtOnce
<1>3. ASSUME NEW r \in Requests, Execute(r) PROVE TypeOK' /\ PhaseInv'
  <2>1. /\ Advanced(r) \in 0 .. size[r] /\ Items(r) \subseteq 1 .. MaxBatch
        /\ AtOnce(r) => Advanced(r) = size[r]
    <3>1. Advanced(r) \in 1 .. size[r] /\ Items(r) = (n[r] + 1) .. Advanced(r)
      BY <1>3, NextItems DEF Execute
    <3>2. size[r] \in 0 .. MaxBatch /\ n[r] \in 0 .. MaxBatch
      BY DEF TypeOK
    <3> QED BY <1>3, <3>1, <3>2, NextItems DEF Execute
  <2>2. table' \in Contents /\ disk' \in Contents
    BY <1>3, <2>1, WrittenContents DEF Execute, TypeOK
  <2>3. /\ pc[r] = "write" /\ pc' = [pc EXCEPT ![r] = "resume"]
        /\ n' = [n EXCEPT ![r] = Advanced(r)]
        /\ UNCHANGED <<backend, kind, size, inTransaction, before, lost, failed>>
    BY <1>3 DEF Execute
  <2>4. TypeOK'
    BY <2>1, <2>2, <2>3 DEF TypeOK
  <2>5. PhaseInv'
    BY <2>1, <2>3 DEF TypeOK, PhaseInv, Done, Transacts, More, AtOnce
  <2> QED BY <2>4, <2>5
<1>4. ASSUME NEW r \in Requests, Commit(r) PROVE TypeOK' /\ PhaseInv'
  <2>1. TypeOK'
    BY <1>4 DEF Commit, TypeOK
  <2>2. PhaseInv'
    BY <1>4 DEF Commit, TypeOK, PhaseInv, Done, Transacts, More, AtOnce
  <2> QED BY <2>1, <2>2
<1>5. ASSUME NEW r \in Requests, Resume(r) PROVE TypeOK' /\ PhaseInv'
  BY <1>5 DEF Resume, AfterWrite, TypeOK, PhaseInv, Done, Transacts, More, AtOnce
<1>6. ASSUME NEW r \in Requests, Reply(r) PROVE TypeOK' /\ PhaseInv'
  BY <1>6 DEF Reply, TypeOK, PhaseInv, Done, Transacts, More, AtOnce, Alive
<1>7. ASSUME NEW r \in Requests, BeginAgain(r) PROVE TypeOK' /\ PhaseInv'
  BY <1>7 DEF BeginAgain, ProcessDies, TypeOK, PhaseInv, Done, Arrived, Transacts, More, AtOnce
<1>8. ASSUME NEW r \in Requests, FailQuietly(r) PROVE TypeOK' /\ PhaseInv'
  <2>1. PICK S \in Partly(r) :
          /\ table' = Written(table, r, S)
          /\ disk' = IF inTransaction THEN disk ELSE Written(disk, r, S)
    BY <1>8 DEF FailQuietly
  <2>2. S \subseteq 1 .. MaxBatch
    BY <1>8, PartlyItems DEF FailQuietly, TypeOK
  <2>3. table' \in Contents /\ disk' \in Contents
    BY <2>1, <2>2, WrittenContents DEF TypeOK
  <2>4. /\ pc[r] = "write" /\ pc' = [pc EXCEPT ![r] = "resume"]
        /\ n' = [n EXCEPT ![r] = size[r]]
        /\ failed' \subseteq Requests
        /\ UNCHANGED <<backend, kind, size, inTransaction, before, lost>>
    BY <1>8 DEF FailQuietly, Fails, TypeOK
  <2> HIDE <1>8
  <2>5. TypeOK'
    BY <2>3, <2>4 DEF TypeOK
  <2>6. PhaseInv'
    BY <2>4 DEF TypeOK, PhaseInv, Done, Transacts, More, AtOnce
  <2> QED BY <2>5, <2>6
<1>9. ASSUME NEW r \in Requests, FailLoudly(r) PROVE TypeOK' /\ PhaseInv'
  <2>1. PICK S \in IF pc[r] = "write" /\ ~inTransaction THEN Partly(r) ELSE {{}} :
          ProcessDies(Written(disk, r, S))
    BY <1>9 DEF FailLoudly
  <2>2. S \subseteq 1 .. MaxBatch
    BY <2>1, PartlyItems DEF TypeOK
  <2>3. table' \in Contents /\ disk' \in Contents
    BY <2>1, <2>2, WrittenContents DEF TypeOK, ProcessDies
  <2>4. /\ lost' = lost \cup (Arrived \ Done) /\ inTransaction' = FALSE
        /\ failed' \subseteq Requests
        /\ UNCHANGED <<backend, kind, size, pc, n, before>>
    BY <1>9, <2>1 DEF FailLoudly, ProcessDies, Fails, TypeOK
  <2> HIDE <1>9
  <2>5. TypeOK'
    BY <2>3, <2>4 DEF TypeOK, Arrived
  <2>6. PhaseInv'
    BY <2>4 DEF TypeOK, PhaseInv, Done, Arrived, Transacts, More, AtOnce
  <2> QED BY <2>5, <2>6
<1>10. ASSUME UNCHANGED vars PROVE TypeOK' /\ PhaseInv'
  BY <1>10 DEF vars, TypeOK, PhaseInv, Done, Transacts, More, AtOnce
<1> QED
  BY <1>1, <1>2, <1>3, <1>4, <1>5, <1>6, <1>7, <1>8, <1>9, <1>10 DEF Next, Step, Quiet

(***************************************************************************)
(* What a step does to the contents.                                       *)
(***************************************************************************)

\* The documents S of r are written by a statement that r has sent.
Wrote(r, S) ==
    /\ pc[r] = "write" /\ (Alive(r) \/ backend # "sqlite")
    /\ table' = Written(table, r, S)
    /\ disk' = IF inTransaction THEN disk ELSE Written(disk, r, S)
    /\ pc' = [pc EXCEPT ![r] = "resume"]
    /\ \A q \in Requests \ {r} : n'[q] = n[q]
    /\ Swallowed(r)' \/ (UpTo(table, r, n[r]) => UpTo(table, r, n[r])')
    /\ failed \subseteq failed'
    /\ UNCHANGED <<backend, kind, size, inTransaction, before, lost>>

\* The process dies, of a statement of r that may have written the documents S.
Died(r, S) ==
    /\ pc[r] \notin {"idle", "done"}
    /\ ProcessDies(Written(disk, r, S))
    /\ backend = "sqlite" /\ kind[r] = "bulk_create" => S = {}
    /\ failed \subseteq failed'
    /\ UNCHANGED <<backend, kind, size, pc, n, before>>

\* A statement that is executed, or fails without a word, writes.
LEMMA WriteStep ==
    ASSUME TypeOK, PhaseInv, NEW r \in Requests, Execute(r) \/ FailQuietly(r)
    PROVE  \E S \in SUBSET (1 .. MaxBatch) : Wrote(r, S)
<1>1. CASE Execute(r)
  <2>1. pc[r] = "write"
    BY <1>1 DEF Execute
  <2>2. /\ Advanced(r) \in 1 .. size[r] /\ n[r] < Advanced(r)
        /\ Items(r) = (n[r] + 1) .. Advanced(r)
    BY <2>1, NextItems
  <2>3. size[r] \in 0 .. MaxBatch /\ n[r] \in 0 .. MaxBatch /\ MaxBatch \in Nat
    BY BulkConstants DEF TypeOK
  <2>4. Items(r) \subseteq 1 .. MaxBatch /\ 1 .. Advanced(r) = (1 .. n[r]) \cup Items(r)
    BY <2>2, <2>3
  <2>5. n'[r] = Advanced(r) /\ kind' = kind /\ table' = Written(table, r, Items(r))
    BY <1>1 DEF Execute, TypeOK
  <2>6. IF kind[r] = "bulk_remove"
        THEN /\ table'.rows = table.rows
             /\ table'.marked = table.marked \cup Items(r)
        ELSE /\ table'.rows = table.rows \cup ({r} \X Items(r))
             /\ table'.marked = table.marked
    <3>1. table \in Contents
      BY DEF TypeOK
    <3> QED BY <2>4, <2>5, <3>1, WrittenContents
  <2>7. UpTo(table, r, n[r]) => UpTo(table, r, n[r])'
    BY <2>4, <2>5, <2>6 DEF UpTo
  <2>8. Wrote(r, Items(r))
    BY <1>1, <2>7 DEF Execute, Wrote, TypeOK
  <2> QED BY <2>4, <2>8
<1>2. CASE FailQuietly(r)
  <2>1. PICK S \in Partly(r) :
          /\ table' = Written(table, r, S)
          /\ disk' = IF inTransaction THEN disk ELSE Written(disk, r, S)
    BY <1>2 DEF FailQuietly
  <2>2. S \subseteq 1 .. MaxBatch
    <3>1. S \subseteq 1 .. size[r]
      BY <1>2, <2>1, PartlyItems DEF FailQuietly
    <3>2. size[r] \in 0 .. MaxBatch /\ MaxBatch \in Nat
      BY BulkConstants DEF TypeOK
    <3> QED BY <3>1, <3>2
  <2>3. Swallowed(r)'
    BY <1>2 DEF FailQuietly, Fails, Swallowed, Swallows
  <2>4. Wrote(r, S)
    BY <1>2, <2>1, <2>3 DEF FailQuietly, Fails, Wrote, TypeOK
  <2> QED BY <2>2, <2>4
<1> QED BY <1>1, <1>2

\* A second BEGIN and a statement that fails loudly end the process; what a
\* bulk_create of SQLite wrote is never kept, for its transaction is open.
LEMMA DeathStep ==
    ASSUME TypeOK, PhaseInv, TransactionInv, NEW r \in Requests,
           BeginAgain(r) \/ FailLoudly(r)
    PROVE  \E S \in SUBSET (1 .. MaxBatch) : Died(r, S)
<1>1. CASE BeginAgain(r)
  <2>1. Written(disk, r, {}) = disk
    BY WrittenNothing DEF TypeOK
  <2>2. Died(r, {})
    BY <1>1, <2>1 DEF BeginAgain, Died
  <2> QED BY <2>2
<1>2. CASE FailLoudly(r)
  <2>1. PICK S \in IF pc[r] = "write" /\ ~inTransaction THEN Partly(r) ELSE {{}} :
          ProcessDies(Written(disk, r, S))
    BY <1>2 DEF FailLoudly
  <2>2. S \subseteq 1 .. MaxBatch
    <3>1. CASE pc[r] = "write" /\ ~inTransaction
      <4>1. S \subseteq 1 .. size[r]
        BY <2>1, <3>1, PartlyItems
      <4>2. size[r] \in 0 .. MaxBatch /\ MaxBatch \in Nat
        BY BulkConstants DEF TypeOK
      <4> QED BY <4>1, <4>2
    <3>2. CASE ~(pc[r] = "write" /\ ~inTransaction)
      BY <2>1, <3>2
    <3> QED BY <3>1, <3>2
  <2>3. ASSUME backend = "sqlite", kind[r] = "bulk_create" PROVE S = {}
    <3>1. pc[r] = "write" => Owns(r)
      BY <1>2, <2>3 DEF FailLoudly, Fails, Owns, Transacts, Bulks
    <3> QED BY <2>1, <3>1 DEF TransactionInv
  <2>4. Died(r, S)
    BY <1>2, <2>1, <2>3 DEF FailLoudly, Fails, Died
  <2> QED BY <2>2, <2>4
<1> QED BY <1>1, <1>2

\* Whatever happens is one of these.
LEMMA NextShapes ==
    ASSUME TypeOK, PhaseInv, TransactionInv, [Next]_vars
    PROVE  \/ \E r \in Requests : Arrive(r) \/ Begin(r) \/ Commit(r) \/ Resume(r) \/ Reply(r)
           \/ \E r \in Requests, S \in SUBSET (1 .. MaxBatch) : Wrote(r, S) \/ Died(r, S)
           \/ UNCHANGED vars
  BY WriteStep, DeathStep DEF Next, Step, Quiet

\* Only a request that writes gains documents, and no document is lost from
\* the disk; from what the connection sees, only by the end of the process.
LEMMA WroteContents ==
    ASSUME TypeOK, TransactionInv, NEW r \in Requests, NEW S \in SUBSET (1 .. MaxBatch),
           Wrote(r, S)
    PROVE  /\ table.rows \subseteq table'.rows /\ table.marked \subseteq table'.marked
           /\ disk.rows \subseteq disk'.rows /\ disk.marked \subseteq disk'.marked
           /\ disk'.rows \subseteq table'.rows /\ disk'.marked \subseteq table'.marked
           /\ ~inTransaction => table' = disk'
           /\ \A q \in Requests \ {r} : SomeOf(table', q) => SomeOf(table, q)
           /\ \A q \in Requests \ {r} : SomeOf(disk', q) => SomeOf(disk, q)
<1>1. IF kind[r] = "bulk_remove"
      THEN /\ table'.rows = table.rows
           /\ table'.marked = table.marked \cup S
      ELSE /\ table'.rows = table.rows \cup ({r} \X S)
           /\ table'.marked = table.marked
  <2>1. table \in Contents /\ table' = Written(table, r, S)
    BY DEF TypeOK, Wrote
  <2> QED BY <2>1 DEF Written, Contents
<1>2. ~inTransaction => table' = disk'
  BY DEF Wrote, TransactionInv
<1>3. inTransaction => disk' = disk
  BY DEF Wrote
<1>4. /\ disk.rows \subseteq table.rows /\ disk.marked \subseteq table.marked
      /\ ~inTransaction => table = disk
  BY DEF TransactionInv
<1>5. \A q \in Requests \ {r} : SomeOf(table', q) => SomeOf(table, q)
  BY <1>1 DEF SomeOf
<1> QED BY <1>1, <1>2, <1>3, <1>4, <1>5

\* The same of the end of the process.
LEMMA DiedContents ==
    ASSUME TypeOK, TransactionInv, NEW r \in Requests, NEW S \in SUBSET (1 .. MaxBatch),
           Died(r, S)
    PROVE  /\ table' = disk' /\ ~inTransaction'
           /\ disk.rows \subseteq disk'.rows /\ disk.marked \subseteq disk'.marked
           /\ \A q \in Requests \ {r} : SomeOf(disk', q) => SomeOf(disk, q)
           /\ S = {} => disk' = disk
<1>1. /\ table' = disk' /\ ~inTransaction' /\ disk' = Written(disk, r, S)
  BY DEF Died, ProcessDies
<1>2. IF kind[r] = "bulk_remove"
      THEN /\ disk'.rows = disk.rows
           /\ disk'.marked = disk.marked \cup S
      ELSE /\ disk'.rows = disk.rows \cup ({r} \X S)
           /\ disk'.marked = disk.marked
  <2>1. disk \in Contents
    BY DEF TypeOK
  <2> QED BY <1>1, <2>1 DEF Written, Contents
<1>3. \A q \in Requests \ {r} : SomeOf(disk', q) => SomeOf(disk, q)
  BY <1>2 DEF SomeOf
<1>4. S = {} => disk' = disk
  BY <1>1, WrittenNothing DEF TypeOK
<1> QED BY <1>1, <1>2, <1>3, <1>4

(***************************************************************************)
(* Transactions.                                                           *)
(***************************************************************************)

\* A transaction keeps its one owner until it is committed or rolled back.
LEMMA TransactionStep ==
    ASSUME TypeOK, PhaseInv, TransactionInv, [Next]_vars
    PROVE  TransactionInv'
<1>1. ASSUME NEW r \in Requests, Arrive(r) PROVE TransactionInv'
  <2>1. \A q \in Requests : Owns(q)' <=> Owns(q)
    <3>1. \A q \in Requests \ {r} : Owns(q)' <=> Owns(q)
      BY <1>1 DEF Arrive, Owns, Transacts, Alive, TypeOK
    <3>2. ~Owns(r) /\ ~Owns(r)'
      BY <1>1 DEF Arrive, Owns, Transacts, Alive, TypeOK
    <3> QED BY <3>1, <3>2
  <2> QED BY <1>1, <2>1 DEF Arrive, TransactionInv
<1>2. ASSUME NEW r \in Requests, Begin(r) PROVE TransactionInv'
  <2>1. \A q \in Requests : Owns(q)' <=> q = r
    BY <1>2 DEF Begin, Owns, Transacts, Alive, TypeOK, PhaseInv, TransactionInv
  <2>2. backend' = "sqlite" /\ inTransaction'
    BY <1>2 DEF Begin, PhaseInv, Transacts
  <2> QED BY <1>2, <2>1, <2>2 DEF Begin, TransactionInv
<1>3. ASSUME NEW r \in Requests, NEW S \in SUBSET (1 .. MaxBatch), Wrote(r, S)
      PROVE  TransactionInv'
  <2>1. \A q \in Requests : Owns(q)' <=> Owns(q)
    BY <1>3 DEF Wrote, Owns, Transacts, Alive, TypeOK
  <2>2. inTransaction' = inTransaction /\ backend' = backend
    BY <1>3 DEF Wrote
  <2> QED BY <1>3, <2>1, <2>2, WroteContents DEF TransactionInv
<1>4. ASSUME NEW r \in Requests, Commit(r) PROVE TransactionInv'
  <2>1. Owns(r)
    BY <1>4 DEF Commit, Owns, PhaseInv
  <2>2. \A q \in Requests : ~Owns(q)'
    BY <1>4, <2>1 DEF Commit, Owns, Transacts, Alive, TypeOK, TransactionInv
  <2> QED BY <1>4, <2>2 DEF Commit, TransactionInv
<1>5. ASSUME NEW r \in Requests, Resume(r) PROVE TransactionInv'
  <2>1. \A q \in Requests : Owns(q)' <=> Owns(q)
    BY <1>5 DEF Resume, AfterWrite, Owns, Transacts, Alive, TypeOK
  <2> QED BY <1>5, <2>1 DEF Resume, TransactionInv
<1>6. ASSUME NEW r \in Requests, Reply(r) PROVE TransactionInv'
  <2>1. \A q \in Requests : Owns(q)' <=> Owns(q)
    BY <1>6 DEF Reply, Owns, Transacts, Alive, TypeOK
  <2> QED BY <1>6, <2>1 DEF Reply, TransactionInv
<1>7. ASSUME NEW r \in Requests, NEW S \in SUBSET (1 .. MaxBatch), Died(r, S)
      PROVE  TransactionInv'
  <2>1. \A q \in Requests : ~Owns(q)'
    BY <1>7 DEF Died, ProcessDies, Owns, Transacts, Alive, Arrived, Done
  <2> QED BY <1>7, <2>1, DiedContents DEF TransactionInv
<1>8. ASSUME UNCHANGED vars PROVE TransactionInv'
  BY <1>8 DEF vars, TransactionInv, Owns, Transacts, Alive
<1> QED BY <1>1, <1>2, <1>3, <1>4, <1>5, <1>6, <1>7, <1>8, NextShapes

\* What is committed stays committed, and a request that has arrived stays what
\* it is.
LEMMA DiskGrows ==
    ASSUME TypeOK, PhaseInv, TransactionInv, [Next]_vars
    PROVE  /\ disk.rows \subseteq disk'.rows /\ disk.marked \subseteq disk'.marked
           /\ backend' = backend /\ failed \subseteq failed'
           /\ \A q \in Requests : pc[q] # "idle" =>
                 kind'[q] = kind[q] /\ size'[q] = size[q] /\ before'[q] = before[q]
<1>1. \A r \in Requests : Arrive(r) =>
          /\ disk' = disk /\ backend' = backend /\ failed' = failed
          /\ \A q \in Requests : pc[q] # "idle" =>
                kind'[q] = kind[q] /\ size'[q] = size[q] /\ before'[q] = before[q]
  BY DEF Arrive, TypeOK
<1>2. \A r \in Requests : Begin(r) \/ Resume(r) \/ Reply(r) =>
          UNCHANGED <<disk, backend, kind, size, before, failed>>
  BY DEF Begin, Resume, Reply
<1>3. \A r \in Requests : Commit(r) =>
          /\ disk' = table
          /\ UNCHANGED <<backend, kind, size, before, failed>>
  BY DEF Commit
<1>4. ASSUME NEW r \in Requests, NEW S \in SUBSET (1 .. MaxBatch), Wrote(r, S) \/ Died(r, S)
      PROVE  /\ disk.rows \subseteq disk'.rows /\ disk.marked \subseteq disk'.marked
             /\ failed \subseteq failed'
             /\ UNCHANGED <<backend, kind, size, before>>
  <2>1. CASE Wrote(r, S)
    BY <2>1, WroteContents DEF Wrote
  <2>2. CASE Died(r, S)
    BY <2>2, DiedContents DEF Died
  <2> QED BY <1>4, <2>1, <2>2
<1>5. disk.rows \subseteq table.rows /\ disk.marked \subseteq table.marked
  BY DEF TransactionInv
<1>6. UNCHANGED vars => UNCHANGED <<disk, backend, kind, size, before, failed>>
  BY DEF vars
<1> QED BY <1>1, <1>2, <1>3, <1>4, <1>5, <1>6, NextShapes

(***************************************************************************)
(* Progress, atomicity and answers.                                        *)
(***************************************************************************)

\* What a request has written stays seen while it is being served.
LEMMA ProgressStep ==
    ASSUME TypeOK, PhaseInv, TransactionInv, ProgressInv, [Next]_vars
    PROVE  ProgressInv'
<1> DEFINE Seen(q) == UpTo(table, q, n[q]) \/ Swallowed(q)
           Kept(q) == pc[q] = "reply" /\ Transacts(q) => AllOf(disk, q)
<1>1. ASSUME NEW q \in Requests, pc[q] = "idle" \/ pc'[q] # "reply" \/ pc[q] = "reply",
             pc[q] = "idle" => pc'[q] # "reply" \/ ~Transacts(q)'
      PROVE  Kept(q)'
  <2>1. CASE pc[q] = "idle"
    BY <1>1, <2>1
  <2>2. CASE pc[q] # "idle"
    BY <1>1, <2>2, DiskGrows DEF ProgressInv, Transacts, AllOf
  <2> QED BY <2>1, <2>2
<1>2. ASSUME NEW r \in Requests, Arrive(r) PROVE ProgressInv'
  <2>1. \A q \in Requests \ {r} : Seen(q)' <=> Seen(q)
    BY <1>2 DEF Arrive, UpTo, Swallowed, Swallows, TypeOK
  <2>2. n'[r] = 0
    BY <1>2 DEF Arrive, PhaseInv
  <2>3. Seen(r)'
    BY <2>2 DEF UpTo
  <2>4. \A q \in Requests \ {r} : pc'[q] = pc[q] /\ lost' = lost
    BY <1>2 DEF Arrive, TypeOK
  <2>5. pc[r] = "idle" /\ (pc'[r] # "reply" \/ ~Transacts(r)')
    BY <1>2 DEF Arrive, TypeOK, Transacts
  <2>6. \A q \in Requests : Kept(q)'
    BY <1>1, <2>4, <2>5
  <2> QED BY <2>1, <2>3, <2>4, <2>6 DEF ProgressInv, Alive
<1>3. ASSUME NEW r \in Requests, Begin(r) PROVE ProgressInv'
  BY <1>3 DEF Begin, ProgressInv, UpTo, AllOf, Swallowed, Swallows, Transacts, Alive, TypeOK
<1>4. ASSUME NEW r \in Requests, NEW S \in SUBSET (1 .. MaxBatch), Wrote(r, S)
      PROVE  ProgressInv'
  <2>1. /\ table.rows \subseteq table'.rows /\ table.marked \subseteq table'.marked
    BY <1>4, WroteContents
  <2>2. /\ \A q \in Requests \ {r} : n'[q] = n[q] /\ pc'[q] = pc[q]
        /\ failed \subseteq failed'
        /\ UNCHANGED <<backend, kind, lost>>
        /\ Swallowed(r)' \/ (UpTo(table, r, n[r]) => UpTo(table, r, n[r])')
        /\ pc[r] = "write" /\ pc'[r] = "resume"
    BY <1>4 DEF Wrote, TypeOK
  <2>3. \A q \in Requests \ {r} : Seen(q) => Seen(q)'
    BY <2>1, <2>2 DEF UpTo, Swallowed, Swallows
  <2>4. Seen(r) => Seen(r)'
    BY <2>2 DEF Swallowed, Swallows
  <2>5. \A q \in Requests : Kept(q)'
    BY <1>1, <2>2
  <2> QED BY <2>2, <2>3, <2>4, <2>5 DEF ProgressInv, Alive
<1>5. ASSUME NEW r \in Requests, Commit(r) PROVE ProgressInv'
  <2>1. /\ pc[r] = "commit" /\ Transacts(r) /\ Alive(r) /\ n[r] = size[r]
        /\ pc' = [pc EXCEPT ![r] = "reply"] /\ disk' = table
        /\ UNCHANGED <<backend, kind, size, n, table, lost, failed>>
    BY <1>5 DEF Commit, PhaseInv
  <2>2. AllOf(table, r)
    BY <2>1 DEF ProgressInv, UpTo, AllOf, Swallowed, Swallows, Transacts
  <2>3. \A q \in Requests : Seen(q)' <=> Seen(q)
    BY <2>1 DEF UpTo, Swallowed, Swallows
  <2>4. \A q \in Requests \ {r} : Kept(q)'
    BY <1>1, <2>1 DEF TypeOK
  <2>5. Kept(r)'
    BY <2>1, <2>2 DEF AllOf
  <2> QED BY <2>1, <2>3, <2>4, <2>5 DEF ProgressInv, Alive, TypeOK
<1>6. ASSUME NEW r \in Requests, Resume(r) PROVE ProgressInv'
  <2>1. Kept(r)'
    BY <1>6 DEF Resume, AfterWrite, Transacts, TypeOK
  <2>2. \A q \in Requests \ {r} : Kept(q)'
    BY <1>1, <1>6 DEF Resume, TypeOK
  <2>3. \A q \in Requests : Seen(q)' <=> Seen(q)
    BY <1>6 DEF Resume, UpTo, Swallowed, Swallows
  <2>4. \A q \in Requests : pc'[q] # "done" => pc[q] # "done"
    BY <1>6 DEF Resume, TypeOK
  <2>5. lost' = lost
    BY <1>6 DEF Resume
  <2> QED BY <2>1, <2>2, <2>3, <2>4, <2>5 DEF ProgressInv, Alive
<1>7. ASSUME NEW r \in Requests, Reply(r) PROVE ProgressInv'
  BY <1>7 DEF Reply, ProgressInv, UpTo, AllOf, Swallowed, Swallows, Transacts, Alive, TypeOK
<1>8. ASSUME NEW r \in Requests, NEW S \in SUBSET (1 .. MaxBatch), Died(r, S)
      PROVE  ProgressInv'
  <2>1. /\ lost' = lost \cup (Arrived \ Done)
        /\ UNCHANGED <<pc, n>>
    BY <1>8 DEF Died, ProcessDies
  <2>2. \A q \in Requests : Kept(q)'
    BY <1>1, <1>8, DiskGrows DEF Died, ProgressInv, AllOf, Transacts
  <2>3. ASSUME NEW q \in Requests, Alive(q)', pc'[q] # "done" PROVE Seen(q)'
    <3>1. pc[q] = "idle"
      BY <2>1, <2>3 DEF Alive, Arrived, Done
    <3>2. n'[q] = 0
      BY <2>1, <3>1 DEF PhaseInv
    <3> QED BY <3>2 DEF UpTo
  <2> QED BY <2>2, <2>3 DEF ProgressInv
<1>9. ASSUME UNCHANGED vars PROVE ProgressInv'
  BY <1>9 DEF vars, ProgressInv, UpTo, AllOf, Swallowed, Swallows, Transacts, Alive
<1> QED BY <1>2, <1>3, <1>4, <1>5, <1>6, <1>7, <1>8, <1>9, NextShapes

\* Nothing of a request is written before it arrives; in SQLite a part of a
\* bulk_create is never committed without the rest.
LEMMA AtomicStep ==
    ASSUME TypeOK, PhaseInv, TransactionInv, ProgressInv, AtomicInv, [Next]_vars
    PROVE  AtomicInv'
<1>0. /\ \A c, d \in Contents, q \in Requests :
            c.rows \subseteq d.rows /\ SomeOf(c, q) => SomeOf(d, q)
      /\ table \in Contents /\ disk \in Contents
  BY DEF SomeOf, TypeOK
<1>1. ASSUME NEW r \in Requests, Arrive(r) PROVE AtomicInv'
  <2>1. /\ \A q \in Requests \ {r} : kind'[q] = kind[q] /\ size'[q] = size[q] /\ pc'[q] = pc[q]
        /\ pc[r] = "idle" /\ pc'[r] # "idle"
        /\ UNCHANGED <<backend, table, disk, lost>>
    BY <1>1 DEF Arrive, TypeOK
  <2>2. ~SomeOf(table, r) /\ ~SomeOf(disk, r)
    BY <1>0, <2>1 DEF AtomicInv, TransactionInv
  <2>3. \A q \in Requests \ {r} : Owns(q)' <=> Owns(q)
    BY <2>1 DEF Owns, Transacts, Alive
  <2> QED BY <2>1, <2>2, <2>3 DEF AtomicInv, AllOf, SomeOf
<1>2. ASSUME NEW r \in Requests, Begin(r) \/ Resume(r) \/ Reply(r) PROVE AtomicInv'
  <2>1. \A q \in Requests : pc'[q] = "idle" => pc[q] = "idle"
    BY <1>2 DEF Begin, Resume, AfterWrite, Reply, TypeOK
  <2>2. \A q \in Requests : Owns(q) => Owns(q)'
    BY <1>2 DEF Begin, Resume, AfterWrite, Reply, Owns, Transacts, Alive, TypeOK
  <2>3. UNCHANGED <<backend, kind, size, table, disk>>
    BY <1>2 DEF Begin, Resume, Reply
  <2> QED BY <2>1, <2>2, <2>3 DEF AtomicInv, AllOf, SomeOf
<1>3. ASSUME NEW r \in Requests, NEW S \in SUBSET (1 .. MaxBatch), Wrote(r, S)
      PROVE  AtomicInv'
  <2>1. /\ \A q \in Requests : Owns(q)' <=> Owns(q)
        /\ \A q \in Requests : pc'[q] = "idle" => pc[q] = "idle" /\ q # r
        /\ UNCHANGED <<backend, kind, size>>
    BY <1>3 DEF Wrote, Owns, Transacts, Alive, TypeOK
  <2>2. /\ \A q \in Requests \ {r} : SomeOf(table', q) => SomeOf(table, q)
        /\ \A q \in Requests \ {r} : SomeOf(disk', q) => SomeOf(disk, q)
        /\ \A q \in Requests : AllOf(disk, q) => AllOf(disk, q)'
    BY <1>3, <2>1, WroteContents DEF AllOf
  <2>3. ASSUME backend = "sqlite", kind[r] = "bulk_create"
        PROVE  Owns(r) /\ disk' = disk
    BY <1>3, <2>3 DEF Wrote, Owns, Transacts, Bulks, TransactionInv
  <2>4. ASSUME NEW q \in Requests, backend = "sqlite", kind[q] = "bulk_create"
        PROVE  /\ SomeOf(table', q) => AllOf(disk, q)' \/ Owns(q)'
               /\ SomeOf(disk', q) => AllOf(disk, q)'
    <3>1. CASE q = r
      BY <2>1, <2>2, <2>3, <2>4, <3>1 DEF AtomicInv
    <3>2. CASE q # r
      BY <2>1, <2>2, <2>4, <3>2 DEF AtomicInv
    <3> QED BY <3>1, <3>2
  <2> QED BY <2>1, <2>2, <2>4 DEF AtomicInv, SomeOf
<1>4. ASSUME NEW r \in Requests, Commit(r) PROVE AtomicInv'
  <2>1. /\ Transacts(r) /\ Owns(r) /\ n[r] = size[r]
        /\ pc' = [pc EXCEPT ![r] = "reply"] /\ disk' = table
        /\ UNCHANGED <<backend, kind, size, table>>
    BY <1>4 DEF Commit, PhaseInv, Owns
  <2>2. AllOf(table, r)
    BY <1>4, <2>1
    DEF Commit, ProgressInv, UpTo, AllOf, Swallowed, Swallows, Transacts
  <2>3. \A q \in Requests : Owns(q) => q = r
    BY <2>1 DEF TransactionInv
  <2>4. \A q \in Requests : AllOf(disk, q) => AllOf(table, q)
    BY DEF TransactionInv, AllOf
  <2>5. \A q \in Requests : pc'[q] = "idle" => pc[q] = "idle"
    BY <2>1 DEF TypeOK
  <2>6. ASSUME NEW q \in Requests, backend = "sqlite", kind[q] = "bulk_create", SomeOf(table, q)
        PROVE  AllOf(table, q)
    BY <2>2, <2>3, <2>4, <2>6 DEF AtomicInv
  <2> QED BY <2>1, <2>5, <2>6 DEF AtomicInv, AllOf, SomeOf
<1>5. ASSUME NEW r \in Requests, NEW S \in SUBSET (1 .. MaxBatch), Died(r, S)
      PROVE  AtomicInv'
  <2>1. /\ UNCHANGED <<backend, kind, size, pc>>
        /\ pc[r] # "idle"
        /\ backend = "sqlite" /\ kind[r] = "bulk_create" => S = {}
    BY <1>5 DEF Died
  <2>2. /\ table' = disk'
        /\ \A q \in Requests \ {r} : SomeOf(disk', q) => SomeOf(disk, q)
        /\ \A q \in Requests : AllOf(disk, q) => AllOf(disk, q)'
        /\ S = {} => disk' = disk
    BY <1>5, <2>1, DiedContents DEF AllOf
  <2>3. \A q \in Requests : SomeOf(disk, q) => SomeOf(table, q)
    BY <1>0 DEF TransactionInv
  <2>4. ASSUME NEW q \in Requests, backend = "sqlite", kind[q] = "bulk_create", SomeOf(disk', q)
        PROVE  AllOf(disk, q)'
    <3>1. SomeOf(disk, q)
      BY <2>1, <2>2, <2>4
    <3> QED BY <2>2, <2>4, <3>1 DEF AtomicInv
  <2> QED BY <2>1, <2>2, <2>3, <2>4 DEF AtomicInv, SomeOf
<1>6. ASSUME UNCHANGED vars PROVE AtomicInv'
  BY <1>6 DEF vars, AtomicInv, AllOf, SomeOf, Owns, Transacts, Alive
<1> QED BY <1>1, <1>2, <1>3, <1>4, <1>5, <1>6, NextShapes

\* An answer stays what it was when it was given, or its transaction is
\* committed after all.
LEMMA AnsweredStep ==
    ASSUME TypeOK, PhaseInv, TransactionInv, ProgressInv, AnsweredInv, [Next]_vars
    PROVE  AnsweredInv'
<1> DEFINE Good(q) == \/ AllOf(disk, q)
                      \/ Swallowed(q)
                      \/ /\ backend = "sqlite" /\ kind[q] = "create"
                         /\ \E s \in Requests : InTransactionOf(q, s)
<1>1. ASSUME NEW q \in Done,
             \A s \in Requests : backend = "sqlite" /\ InTransactionOf(q, s) =>
                 InTransactionOf(q, s)' \/ AllOf(disk, q)'
      PROVE  Good(q)'
  <2>1. q \in Requests /\ pc[q] # "idle"
    BY DEF Done
  <2>2. AllOf(disk, q) => AllOf(disk, q)'
    BY <2>1, DiskGrows DEF AllOf
  <2>3. Swallowed(q) => Swallowed(q)'
    BY <2>1, DiskGrows DEF Swallowed, Swallows
  <2> QED BY <1>1, <2>1, <2>2, <2>3, DiskGrows DEF AnsweredInv
<1>2. ASSUME NEW r \in Requests, Arrive(r) PROVE AnsweredInv'
  <2>1. Done' = Done /\ r \notin Done
    BY <1>2 DEF Arrive, Done, TypeOK
  <2>2. ASSUME NEW q \in Done, NEW s \in Requests, InTransactionOf(q, s)
        PROVE  InTransactionOf(q, s)'
    <3>1. s # r /\ q # r /\ q \in Requests
      BY <1>2, <2>1, <2>2 DEF InTransactionOf, Arrive, Done
    <3>2. /\ kind'[s] = kind[s] /\ pc'[s] = pc[s] /\ before'[s] = before[s]
          /\ kind'[q] = kind[q] /\ size'[q] = size[q] /\ before'[q] = before[q]
          /\ UNCHANGED <<backend, table, lost>>
      BY <1>2, <3>1 DEF Arrive, TypeOK
    <3> QED BY <2>2, <3>2 DEF InTransactionOf, Overlap, Owns, Transacts, Alive, AllOf
  <2> QED BY <1>1, <2>1, <2>2 DEF AnsweredInv
<1>3. ASSUME NEW r \in Requests, Begin(r) PROVE AnsweredInv'
  <2>1. Done' = Done
    BY <1>3 DEF Begin, Done, TypeOK
  <2>2. ASSUME NEW q \in Done, NEW s \in Requests, InTransactionOf(q, s)
        PROVE  InTransactionOf(q, s)'
    BY <1>3, <2>2
    DEF Begin, InTransactionOf, Overlap, Owns, Transacts, Alive, AllOf, Done, TypeOK
  <2> QED BY <1>1, <2>1, <2>2 DEF AnsweredInv
<1>4. ASSUME NEW r \in Requests, NEW S \in SUBSET (1 .. MaxBatch), Wrote(r, S)
      PROVE  AnsweredInv'
  <2>1. Done' = Done
    BY <1>4 DEF Wrote, Done, TypeOK
  <2>2. \A q \in Requests : AllOf(table, q) => AllOf(table, q)'
    BY <1>4, WroteContents DEF Wrote, AllOf
  <2>3. ASSUME NEW q \in Done, NEW s \in Requests, InTransactionOf(q, s)
        PROVE  InTransactionOf(q, s)'
    BY <1>4, <2>2, <2>3
    DEF Wrote, InTransactionOf, Overlap, Owns, Transacts, Alive, Done, TypeOK
  <2> QED BY <1>1, <2>1, <2>3 DEF AnsweredInv
<1>5. ASSUME NEW r \in Requests, Commit(r) PROVE AnsweredInv'
  <2>1. Done' = Done
    BY <1>5 DEF Commit, Done, TypeOK
  <2>2. Owns(r) /\ disk' = table /\ r \notin lost
    BY <1>5 DEF Commit, Owns, PhaseInv, Alive
  <2>3. ASSUME NEW q \in Done, NEW s \in Requests, InTransactionOf(q, s)
        PROVE  InTransactionOf(q, s)' \/ AllOf(disk, q)'
    <3>1. CASE s \in lost
      BY <1>5, <2>2, <2>3, <3>1 DEF Commit, InTransactionOf, Overlap, TypeOK
    <3>2. CASE s \notin lost
      BY <1>5, <2>2, <2>3, <3>2 DEF Commit, InTransactionOf, AllOf
    <3> QED BY <3>1, <3>2
  <2> QED BY <1>1, <2>1, <2>3 DEF AnsweredInv
<1>6. ASSUME NEW r \in Requests, Resume(r) PROVE AnsweredInv'
  <2>1. Done' = Done
    BY <1>6 DEF Resume, AfterWrite, Done, TypeOK
  <2>2. ASSUME NEW q \in Done, NEW s \in Requests, backend = "sqlite", InTransactionOf(q, s)
        PROVE  InTransactionOf(q, s)'
    BY <1>6, <2>2
    DEF Resume, AfterWrite, InTransactionOf, Overlap, Owns, Transacts, Alive, AllOf, Done, TypeOK
  <2> QED BY <1>1, <2>1, <2>2 DEF AnsweredInv
<1>7. ASSUME NEW r \in Requests, Reply(r) PROVE AnsweredInv'
  <2>1. /\ Done' = Done \cup {r} /\ r \notin Done /\ Alive(r)
        /\ pc[r] = "reply" /\ pc' = [pc EXCEPT ![r] = "done"]
        /\ UNCHANGED <<backend, kind, size, table, disk, inTransaction, before, lost, failed>>
    BY <1>7 DEF Reply, Done, TypeOK
  <2>2. ASSUME NEW q \in Done, NEW s \in Requests, InTransactionOf(q, s)
        PROVE  InTransactionOf(q, s)'
    BY <2>1, <2>2 DEF InTransactionOf, Overlap, Owns, Transacts, Alive, AllOf, TypeOK
  <2>3. ASSUME ~AllOf(disk, r), ~Swallowed(r)
        PROVE  /\ backend = "sqlite" /\ kind[r] = "create"
               /\ \E s \in Requests : InTransactionOf(r, s)'
    <3>1. AllOf(table, r) /\ ~Transacts(r)
      BY <2>1, <2>3 DEF ProgressInv, PhaseInv, UpTo, AllOf
    <3>2. inTransaction
      BY <2>3, <3>1 DEF TransactionInv
    <3>3. backend = "sqlite"
      BY <3>2 DEF TransactionInv
    <3>4. PICK s \in Requests : Owns(s)
      BY <3>2 DEF TransactionInv
    <3>5. kind[r] = "create"
      BY <2>1, <3>1, <3>3 DEF Transacts, PhaseInv, TypeOK
    <3>6. s # r
      BY <3>1, <3>4 DEF Owns
    <3>7. Owns(s)' /\ pc'[s] = pc[s]
      BY <2>1, <3>4, <3>6 DEF Owns, Transacts, Alive, TypeOK
    <3>8. s \notin before[r] /\ r \notin before[s]
      BY <2>1, <3>4 DEF PhaseInv, Done, Owns
    <3>9. InTransactionOf(r, s)'
      BY <2>1, <3>1, <3>4, <3>7, <3>8 DEF InTransactionOf, Overlap, Owns, Transacts, AllOf
    <3> QED BY <3>3, <3>5, <3>9
  <2>4. Good(r)'
    BY <2>1, <2>3 DEF AllOf, Swallowed, Swallows
  <2>5. \A q \in Done : Good(q)'
    BY <1>1, <2>2
  <2> QED BY <2>1, <2>4, <2>5 DEF AnsweredInv
<1>8. ASSUME NEW r \in Requests, NEW S \in SUBSET (1 .. MaxBatch), Died(r, S)
      PROVE  AnsweredInv'
  <2>1. /\ Done' = Done /\ lost' = lost \cup (Arrived \ Done)
        /\ UNCHANGED <<backend, kind, pc, before>>
    BY <1>8 DEF Died, ProcessDies, Done
  <2>2. ASSUME NEW q \in Done, NEW s \in Requests, InTransactionOf(q, s)
        PROVE  InTransactionOf(q, s)'
    BY <2>1, <2>2 DEF InTransactionOf, Overlap, Arrived, Done
  <2> QED BY <1>1, <2>1, <2>2 DEF AnsweredInv
<1>9. ASSUME UNCHANGED vars PROVE AnsweredInv'
  BY <1>9 DEF vars, AnsweredInv, InTransactionOf, Overlap, Owns, Transacts, Alive,
              AllOf, Swallowed, Swallows, Done
<1> QED BY <1>2, <1>3, <1>4, <1>5, <1>6, <1>7, <1>8, <1>9, NextShapes

(***************************************************************************)
(* The theorems.                                                           *)
(***************************************************************************)

\* The first state satisfies the inductive invariant.
LEMMA InitIInv == Init => IInv
<1> SUFFICES ASSUME Init PROVE IInv
  OBVIOUS
<1>1. TypeOK /\ PhaseInv
  BY InitTypePhase
<1>2. TransactionInv
  BY DEF Init, TransactionInv, Owns
<1>3. ProgressInv
  <2>1. \A r \in Requests : pc[r] = "idle" /\ n[r] = 0
    BY DEF Init
  <2>2. \A r \in Requests : UpTo(table, r, n[r])
    BY <2>1 DEF UpTo
  <2> QED BY <2>1, <2>2 DEF ProgressInv
<1>4. AtomicInv
  BY DEF Init, AtomicInv, SomeOf
<1>5. AnsweredInv
  BY DEF Init, AnsweredInv, Done
<1> QED BY <1>1, <1>2, <1>3, <1>4, <1>5 DEF IInv

\* Every step keeps it.
LEMMA NextIInv == IInv /\ [Next]_vars => IInv'
  BY TypePhaseStep, TransactionStep, ProgressStep, AtomicStep, AnsweredStep DEF IInv

\* The inductive invariant holds in every state, whatever the number of the
\* requests, the size of a batch and the statements that fail.
THEOREM Invariance == Spec => []IInv
  BY InitIInv, NextIInv, PTL DEF Spec

\* The variables keep their types.
THEOREM TypeCorrect == Spec => []TypeOK
<1>1. IInv => TypeOK
  BY DEF IInv
<1> QED BY <1>1, Invariance, PTL

\* SQLiteRepository rolls nothing back, and still a transaction is never left
\* without the one bulk write that will commit it.
THEOREM Owned == Spec => []TransactionIsOwned
<1>1. IInv => TransactionIsOwned
  <2> SUFFICES ASSUME IInv PROVE TransactionIsOwned
    OBVIOUS
  <2> DEFINE Owners == {r \in Requests \ lost :
                          Transacts(r) /\ pc[r] \in {"write", "resume", "commit"}}
  <2>1. Owners = {r \in Requests : Owns(r)}
    BY DEF Owns, Alive
  <2>2. CASE inTransaction
    <3>1. PICK r \in Requests : Owns(r)
      BY <2>2 DEF IInv, TransactionInv
    <3>2. Owners = {r}
      BY <2>1, <3>1 DEF IInv, TransactionInv
    <3>3. Cardinality(Owners) = 1
      BY <3>2, FS_Singleton
    <3> QED BY <2>2, <3>3 DEF TransactionIsOwned
  <2>3. CASE ~inTransaction
    BY <2>3 DEF IInv, TransactionInv, TransactionIsOwned
  <2> QED BY <2>2, <2>3
<1> QED BY <1>1, Invariance, PTL

\* What a client was told is committed, but for a failed insertMany of Mongo
\* and a create of SQLite inside the transaction of another request.
THEOREM Committed == Spec => []AnsweredIsCommitted
<1>1. IInv => AnsweredIsCommitted
  <2> SUFFICES ASSUME IInv, NEW r \in Done PROVE AllOf(disk, r) \/ Hollow(r)
    BY DEF AnsweredIsCommitted
  <2>1. Swallowed(r) => Hollow(r)
    BY DEF Swallowed, Swallows, Hollow
  <2>2. ASSUME backend = "sqlite", kind[r] = "create",
               NEW s \in Requests, InTransactionOf(r, s)
        PROVE  Hollow(r)
    BY <2>2 DEF InTransactionOf, Hollow
  <2> QED BY <2>1, <2>2 DEF IInv, AnsweredInv
<1> QED BY <1>1, Invariance, PTL

\* A bulk_create of SQLite is on the disk as a whole or not at all; of the
\* others a part stays only of a request under way, lost, or failed.
THEOREM Atomic == Spec => []BulkIsAtomic
<1>1. IInv => BulkIsAtomic
  <2> SUFFICES ASSUME IInv, NEW r \in Requests, kind[r] = "bulk_create", SomeOf(disk, r)
               PROVE  \/ AllOf(disk, r)
                      \/ backend # "sqlite" /\ (r \in lost \cup failed \/ pc[r] # "done")
    BY DEF BulkIsAtomic
  <2>1. CASE backend = "sqlite"
    BY <2>1 DEF IInv, AtomicInv
  <2>2. CASE backend # "sqlite" /\ pc[r] = "done"
    BY <2>2 DEF IInv, AnsweredInv, Done, Swallowed
  <2> QED BY <2>1, <2>2
<1> QED BY <1>1, Invariance, PTL
=============================================================================
