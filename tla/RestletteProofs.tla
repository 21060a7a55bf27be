--------------------------- MODULE RestletteProofs ---------------------------
(***************************************************************************)
(* Proofs about Restlette, for every set of requests and documents, every  *)
(* repository traits and every bound.                                      *)
(***************************************************************************)
EXTENDS RestletteInv, VersionedTableProofs

(***************************************************************************)
(* Every step keeps the shape of the state.                                *)
(***************************************************************************)
LEMMA InitTypeOK == Init => TypeOK
<1> SUFFICES ASSUME Init PROVE TypeOK
  OBVIOUS
<1>1. ASSUME NEW i \in Stored
      PROVE  [id |-> i, at |-> 0, deleted |-> FALSE, by |-> Earlier] \in Row
  BY ConstantsOK DEF Row
<1>2. rows \subseteq Row
  BY <1>1 DEF Init
<1> QED BY <1>2 DEF Init, TypeOK, PCs

\* A removal leaves rows of the same shape.
LEMMA MarkDeletedType ==
    ASSUME NEW S, S \subseteq Row, NEW i
    PROVE  MarkDeleted(S, i) \subseteq Row
  BY DEF MarkDeleted, Row

\* After its read a handler answers, updates or removes, as its kind says.
LEMMA AfterLookupType ==
    ASSUME NEW r \in Requests, NEW c, NEW ok \in BOOLEAN,
           kind[r] \in {"read", "update", "remove"}
    PROVE  /\ AfterLookup(r, c, ok)[1] \in {"reply", "stamp", "mark"}
           /\ AfterLookup(r, c, ok)[2] \in {0, 200, 403, 404}
           /\ AfterLookup(r, c, ok)[1] # "reply" => AfterLookup(r, c, ok)[2] = 0
           /\ AfterLookup(r, c, ok)[1] = "stamp" => kind[r] = "update" /\ c # {}
           /\ AfterLookup(r, c, ok)[1] = "mark" => kind[r] = "remove"
           /\ AfterLookup(r, c, ok)[2] = 200 => kind[r] = "read"
           /\ AfterLookup(r, c, ok)[2] # 303
  BY DEF AfterLookup

\* An arrival leaves the shape of what it assigns.
LEMMA ArriveType ==
    ASSUME TypeOK, NEW r \in Requests, NEW k, NEW i \in Ids, NEW next \in PCs,
           Arrive(r, k, i, next)
    PROVE  /\ kind' \in [Requests -> AllKinds \cup {"none"}]
           /\ doc' \in [Requests -> Ids \cup {NoDoc}]
           /\ pc' \in [Requests -> PCs]
           /\ before' \in [Requests -> SUBSET Requests]
           /\ UNCHANGED <<now, appNow, rows, found, tries, lost, failed>>
  BY ConstantsOK DEF TypeOK, Arrive, Answered

\* A query returns versions of the table.
LEMMA FoundType ==
    ASSUME TypeOK, NEW r \in Requests,
           NEW c \in First(AsOf(rows, doc[r], at[r])) \cup First(Scanned(r))
    PROVE  c \subseteq rows
  BY DEF First, AsOf, Scanned, Latest, Newest, Live, TypeOK

(***************************************************************************)
(* Every step keeps the types and what the control points mean.            *)
(***************************************************************************)
LEMMA ArrivePhase ==
    ASSUME TypeOK, PhaseInv, NEW r \in Requests, NEW k, NEW i \in Ids,
           NEW next \in PCs \ {"idle", "done"}, Arrive(r, k, i, next),
           status' = status \/ (next = "reply" /\ status' = [status EXCEPT ![r] = 400]),
           next = "lookup" => k \in {"read", "update", "remove"},
           next = "scan" => k \in {"list", "bulk_read"},
           next = "insert" => k = "create",
           next \notin {"stamp", "wait", "mark"}
    PROVE  PhaseInv'
<1> SUFFICES ASSUME NEW s \in Requests PROVE PhaseInv!(s)'
  BY DEF PhaseInv
<1>1. before'[s] \subseteq (Answered \ {s})'
  BY DEF Arrive, Answered, TypeOK, PhaseInv
<1> QED BY <1>1 DEF PhaseInv, Arrive, TypeOK, IsWrite, PCs

\* Every step keeps the types and the meaning of the control points.
LEMMA TypePhaseStep ==
    ASSUME TypeOK, PhaseInv, [Next]_vars
    PROVE  TypeOK' /\ PhaseInv'
<1> USE ConstantsOK
<1>1. ASSUME NEW r \in Requests, Refuse(r) PROVE TypeOK' /\ PhaseInv'
  <2>1. PICK k \in {"create", "update"}, i \in Ids : Arrive(r, k, i, "reply")
    BY <1>1 DEF Refuse
  <2>2. TypeOK'
    BY <1>1, <2>1, ArriveType DEF Refuse, TypeOK, PCs
  <2>3. PhaseInv'
    BY <1>1, <2>1, ArrivePhase DEF Refuse, PCs
  <2> QED BY <2>2, <2>3
<1>2. ASSUME NEW r \in Requests, Create(r) PROVE TypeOK' /\ PhaseInv'
  <2>1. PICK i \in Ids : Arrive(r, "create", i, "insert")
    BY <1>2 DEF Create
  <2>2. TypeOK'
    BY <1>2, <2>1, ArriveType DEF Create, TypeOK, PCs, StampTime
  <2>3. PhaseInv'
    BY <1>2, <2>1, ArrivePhase DEF Create, PCs
  <2> QED BY <2>2, <2>3
<1>3. ASSUME NEW r \in Requests, Lookup(r) PROVE TypeOK' /\ PhaseInv'
  <2>1. PICK k \in {"read", "update", "remove"}, i \in Ids : Arrive(r, k, i, "lookup")
    BY <1>3 DEF Lookup
  <2>2. TypeOK'
    BY <1>3, <2>1, ArriveType DEF Lookup, TypeOK, PCs
  <2>3. PhaseInv'
    BY <1>3, <2>1, ArrivePhase DEF Lookup, PCs
  <2> QED BY <2>2, <2>3
<1>4. ASSUME NEW r \in Requests, Scan(r) PROVE TypeOK' /\ PhaseInv'
  <2>1. PICK k \in {"list", "bulk_read"}, i \in Ids : Arrive(r, k, i, "scan")
    BY <1>4 DEF Scan
  <2>2. TypeOK'
    BY <1>4, <2>1, ArriveType DEF Scan, TypeOK, PCs
  <2>3. PhaseInv'
    BY <1>4, <2>1, ArrivePhase DEF Scan, PCs
  <2> QED BY <2>2, <2>3
<1>5. ASSUME NEW r \in Requests, ReadRow(r) PROVE TypeOK' /\ PhaseInv'
  <2>1. PICK c \in First(AsOf(rows, doc[r], at[r])), ok \in Permitted :
          /\ found' = [found EXCEPT ![r] = IF kind[r] = "read" THEN c ELSE {}]
          /\ pc' = [pc EXCEPT ![r] = AfterLookup(r, c, ok)[1]]
          /\ status' = [status EXCEPT ![r] = AfterLookup(r, c, ok)[2]]
    BY <1>5 DEF ReadRow
  <2>2. c \subseteq Row
    BY FoundType DEF TypeOK
  <2>3. kind[r] \in {"read", "update", "remove"} /\ ok \in BOOLEAN
    BY <1>5 DEF ReadRow, PhaseInv
  <2> DEFINE a == AfterLookup(r, c, ok)
  <2>4. /\ a[1] \in {"reply", "stamp", "mark"}
        /\ a[2] \in {0, 200, 403, 404}
        /\ a[1] # "reply" => a[2] = 0
        /\ a[1] = "stamp" => kind[r] = "update"
        /\ a[1] = "mark" => kind[r] = "remove"
    BY <2>3, AfterLookupType
  <2>5. /\ pc' = [pc EXCEPT ![r] = a[1]]
        /\ status' = [status EXCEPT ![r] = a[2]]
    BY <2>1
  <2> HIDE DEF a
  <2>6. found' \in [Requests -> SUBSET Row]
    BY <2>1, <2>2 DEF TypeOK
  <2>7. TypeOK'
    BY <1>5, <2>4, <2>5, <2>6 DEF ReadRow, TypeOK, PCs
  <2>8. PhaseInv'
    BY <1>5, <2>4, <2>5 DEF ReadRow, TypeOK, PhaseInv, Answered, IsWrite
  <2> QED BY <2>7, <2>8
<1>6. ASSUME NEW r \in Requests, ScanRows(r) PROVE TypeOK' /\ PhaseInv'
  <2>1. PICK c \in First(Scanned(r)) : found' = [found EXCEPT ![r] = c]
    BY <1>6 DEF ScanRows
  <2>2. c \subseteq Row
    BY FoundType DEF TypeOK
  <2>3. TypeOK'
    BY <1>6, <2>1, <2>2 DEF ScanRows, TypeOK, PCs
  <2>4. PhaseInv'
    BY <1>6 DEF ScanRows, TypeOK, PhaseInv, Answered, IsWrite
  <2> QED BY <2>3, <2>4
<1>7. ASSUME NEW r \in Requests, Insert(r) PROVE TypeOK' /\ PhaseInv'
  <2>1. [id |-> doc[r], at |-> at[r], deleted |-> FALSE, by |-> r] \in Row
    BY <1>7 DEF Insert, PhaseInv, TypeOK, Row
  <2> DEFINE q == [id |-> doc[r], at |-> at[r], deleted |-> FALSE, by |-> r]
  <2>2. rows' = rows \cup {q} /\ q \in Row
    BY <1>7, <2>1 DEF Insert
  <2> HIDE DEF q
  <2>3. rows' \subseteq Row
    BY <2>2 DEF TypeOK
  <2>4. TypeOK'
    BY <1>7, <2>3 DEF Insert, TypeOK, PCs
  <2>5. PhaseInv'
    BY <1>7 DEF Insert, TypeOK, PhaseInv, Answered, IsWrite
  <2> QED BY <2>4, <2>5
<1>8. ASSUME NEW r \in Requests, Mark(r) PROVE TypeOK' /\ PhaseInv'
  BY <1>8, MarkDeletedType DEF Mark, TypeOK, PCs, PhaseInv, Answered, IsWrite
<1>9. ASSUME NEW r \in Requests, Stamp(r) PROVE TypeOK' /\ PhaseInv'
  BY <1>9 DEF Stamp, StampTime, TypeOK, PCs, PhaseInv, Answered, IsWrite
<1>10. ASSUME NEW r \in Requests, Duplicate(r) PROVE TypeOK' /\ PhaseInv'
  BY <1>10 DEF Duplicate, TypeOK, PCs, PhaseInv, Answered, IsWrite
<1>11. ASSUME NEW r \in Requests, Retry(r) PROVE TypeOK' /\ PhaseInv'
  BY <1>11 DEF Retry, RetryTime, StampTime, TypeOK, PCs, PhaseInv, Answered, IsWrite
<1>12. ASSUME NEW r \in Requests, Throw(r) \/ FailLoudly(r)
       PROVE  TypeOK' /\ PhaseInv'
  BY <1>12 DEF Throw, FailLoudly, Fails, ProcessDies, Arrived, TypeOK, PhaseInv, Answered, IsWrite
<1>13. ASSUME NEW r \in Requests, FailQuietly(r) PROVE TypeOK' /\ PhaseInv'
  BY <1>13 DEF FailQuietly, Fails, TypeOK, PCs, PhaseInv, Answered, IsWrite
<1>14. ASSUME NEW r \in Requests, Reply(r) PROVE TypeOK' /\ PhaseInv'
  BY <1>14 DEF Reply, TypeOK, PCs, PhaseInv, Answered, IsWrite
<1>15. ASSUME Tick PROVE TypeOK' /\ PhaseInv'
  BY <1>15 DEF Tick, TypeOK, PhaseInv, Answered, IsWrite
<1>16. ASSUME UNCHANGED vars PROVE TypeOK' /\ PhaseInv'
  BY <1>16 DEF vars, TypeOK, PhaseInv, Answered, IsWrite
<1> QED
  BY <1>1, <1>2, <1>3, <1>4, <1>5, <1>6, <1>7, <1>8, <1>9, <1>10, <1>11, <1>12,
     <1>13, <1>14, <1>15, <1>16
  DEF Next, Quiet, Arrives, Step, Executes, Resumes, Breaks

(***************************************************************************)
(* What a step may do to the history of requests and to the table.         *)
(***************************************************************************)

\* A request keeps its handler, its document, its history and its answer.
HistoryKept ==
    /\ \A r \in Requests : pc[r] # "idle" =>
          kind'[r] = kind[r] /\ doc'[r] = doc[r] /\ before'[r] = before[r] /\ pc'[r] # "idle"
    /\ \A r \in Requests : status[r] # 0 \/ pc[r] = "done" => status'[r] = status[r]
    /\ \A r \in Requests : pc[r] = "done" => pc'[r] = "done"
    /\ now' >= now

\* A request that arrives finds the table as it is, and a create a fresh id.
ArrivalKept ==
    \A r \in Requests : pc[r] = "idle" /\ pc'[r] # "idle" =>
        /\ before'[r] = Answered
        /\ pc'[r] \in {"stamp", "insert", "wait"} =>
              \A d \in Requests : pc[d] # "idle" => doc[d] # doc'[r]

\* A version is stamped, and a query bounded, by the time it is sent.
StampKept ==
    /\ \A r \in Requests : pc'[r] = "insert" =>
          \/ pc[r] = "insert" /\ at'[r] = at[r]
          \/ at'[r] = now /\ now' = now /\ rows' = rows
    /\ \A r \in Requests : pc'[r] \in {"lookup", "scan"} =>
          \/ pc[r] \in {"lookup", "scan"} /\ at'[r] = at[r]
          \/ at'[r] = appNow /\ rows' = rows
    /\ \A r \in Requests : at'[r] \in {at[r], now, appNow, 0}

\* A write gets past its check only when the document is there, and only the
\* statement of a removal answers one.
OutcomeKept ==
    /\ \A r \in Requests : pc'[r] \in {"stamp", "insert", "wait"} =>
          pc[r] \in {"idle", "stamp", "insert", "wait"} \/ Live(rows, doc[r]) # {}
    /\ \A r \in Requests : Removed(r)' => Removed(r) \/ Mark(r)

StepKept == HistoryKept /\ ArrivalKept /\ StampKept /\ OutcomeKept

\* Only an insert or a removal changes the table.
LEMMA TableStep ==
    ASSUME [Next]_vars
    PROVE  rows' = rows \/ \E r \in Requests : Insert(r) \/ Mark(r)
  BY DEF Next, vars, Tick, Quiet, Arrives, Step, Executes, Resumes, Breaks, Arrive, Refuse,
     Create, Lookup, Scan, ReadRow, ScanRows, Stamp, Duplicate, Retry, Throw, Reply,
     FailQuietly, FailLoudly

\* An arrival keeps the history of every other request and stamps as it sends.
LEMMA ArrivalHistory ==
    ASSUME TypeOK, PhaseInv, NEW r \in Requests, NEW k, NEW i \in Ids,
           NEW next \in {"reply", "insert", "lookup", "scan"}, Arrive(r, k, i, next),
           \/ status' = status
           \/ next = "reply" /\ status' = [status EXCEPT ![r] = 400],
           next = "insert" => Fresh(i) /\ at' = [at EXCEPT ![r] = now],
           next \in {"lookup", "scan"} => at' = [at EXCEPT ![r] = appNow],
           next = "reply" => at' = at
    PROVE  StepKept
<1>1. HistoryKept
  BY DEF HistoryKept, TypeOK, Arrive, PhaseInv
<1>2. ArrivalKept
  BY DEF ArrivalKept, TypeOK, Arrive, PhaseInv, Fresh, Arrived
<1>3. StampKept
  BY DEF StampKept, TypeOK, Arrive
<1>4. OutcomeKept
  BY DEF OutcomeKept, Removed, TypeOK, Arrive, PhaseInv
<1> QED BY <1>1, <1>2, <1>3, <1>4 DEF StepKept

\* Every step keeps the history of the requests and stamps as it sends.
LEMMA HistoryStep ==
    ASSUME TypeOK, PhaseInv, [Next]_vars
    PROVE  StepKept
<1>1. ASSUME NEW r \in Requests, Refuse(r) PROVE StepKept
  <2>1. PICK k \in {"create", "update"}, i \in Ids : Arrive(r, k, i, "reply")
    BY <1>1 DEF Refuse
  <2> QED BY <1>1, <2>1, ArrivalHistory DEF Refuse
<1>2. ASSUME NEW r \in Requests, Create(r) PROVE StepKept
  <2>1. PICK i \in Ids : Fresh(i) /\ Arrive(r, "create", i, "insert")
    BY <1>2 DEF Create
  <2> QED BY <1>2, <2>1, ArrivalHistory DEF Create, StampTime
<1>3. ASSUME NEW r \in Requests, Lookup(r) PROVE StepKept
  <2>1. PICK k \in {"read", "update", "remove"}, i \in Ids : Arrive(r, k, i, "lookup")
    BY <1>3 DEF Lookup
  <2> QED BY <1>3, <2>1, ArrivalHistory DEF Lookup
<1>4. ASSUME NEW r \in Requests, Scan(r) PROVE StepKept
  <2>1. PICK k \in {"list", "bulk_read"}, i \in Ids : Arrive(r, k, i, "scan")
    BY <1>4 DEF Scan
  <2> QED BY <1>4, <2>1, ArrivalHistory DEF Scan
<1> USE DEF StepKept, HistoryKept, ArrivalKept, StampKept, OutcomeKept, Removed
<1>5. ASSUME NEW r \in Requests, ReadRow(r) PROVE StepKept
  <2>1. PICK c \in First(AsOf(rows, doc[r], at[r])), ok \in Permitted :
          /\ pc' = [pc EXCEPT ![r] = AfterLookup(r, c, ok)[1]]
          /\ status' = [status EXCEPT ![r] = AfterLookup(r, c, ok)[2]]
    BY <1>5 DEF ReadRow
  <2>2. kind[r] \in {"read", "update", "remove"} /\ ok \in BOOLEAN
    BY <1>5, ConstantsOK DEF ReadRow, PhaseInv
  <2> DEFINE a == AfterLookup(r, c, ok)
  <2>3. /\ a[1] \in {"reply", "stamp", "mark"}
        /\ a[1] = "stamp" => c # {}
        /\ a[2] = 200 => kind[r] = "read"
    BY <2>2, AfterLookupType
  <2>4. pc' = [pc EXCEPT ![r] = a[1]] /\ status' = [status EXCEPT ![r] = a[2]]
    BY <2>1
  <2>5. c # {} => Live(rows, doc[r]) # {}
    BY DEF First, AsOf, Newest
  <2> HIDE DEF a
  <2>6. /\ pc[r] = "lookup" /\ at' = [at EXCEPT ![r] = 0]
        /\ UNCHANGED <<now, appNow, rows, kind, doc, before>>
    BY <1>5 DEF ReadRow
  <2> QED BY <2>3, <2>4, <2>5, <2>6 DEF TypeOK, PhaseInv
<1>6. ASSUME NEW r \in Requests, ScanRows(r) PROVE StepKept
  BY <1>6 DEF ScanRows, TypeOK, PhaseInv
<1>7. ASSUME NEW r \in Requests, Insert(r) PROVE StepKept
  <2>1. /\ pc[r] = "insert" /\ pc' = [pc EXCEPT ![r] = "reply"]
        /\ status' = [status EXCEPT ![r] = 303]
        /\ at' = [at EXCEPT ![r] = 0]
        /\ UNCHANGED <<now, appNow, kind, doc, before>>
    BY <1>7 DEF Insert
  <2> QED BY <2>1 DEF TypeOK, PhaseInv
<1>8. ASSUME NEW r \in Requests, Mark(r) PROVE StepKept
  <2>1. /\ pc[r] = "mark" /\ pc' = [pc EXCEPT ![r] = "reply"]
        /\ status' = [status EXCEPT ![r] = 200]
        /\ UNCHANGED <<now, appNow, kind, doc, before, at>>
    BY <1>8 DEF Mark
  <2> QED BY <1>8, <2>1 DEF TypeOK, PhaseInv
<1>9. ASSUME NEW r \in Requests, Stamp(r) PROVE StepKept
  BY <1>9 DEF Stamp, StampTime, TypeOK, PhaseInv
<1>10. ASSUME NEW r \in Requests, Duplicate(r) PROVE StepKept
  BY <1>10 DEF Duplicate, TypeOK, PhaseInv
<1>11. ASSUME NEW r \in Requests, Retry(r) PROVE StepKept
  BY <1>11 DEF Retry, RetryTime, StampTime, TypeOK, PhaseInv
<1>12. ASSUME NEW r \in Requests, Throw(r) \/ FailLoudly(r) PROVE StepKept
  BY <1>12 DEF Throw, FailLoudly, TypeOK, PhaseInv
<1>13. ASSUME NEW r \in Requests, FailQuietly(r) PROVE StepKept
  BY <1>13 DEF FailQuietly, TypeOK, PhaseInv
<1>14. ASSUME NEW r \in Requests, Reply(r) PROVE StepKept
  BY <1>14 DEF Reply, TypeOK, PhaseInv
<1>15. ASSUME Tick PROVE StepKept
  BY <1>15 DEF Tick, TypeOK
<1>16. ASSUME UNCHANGED vars PROVE StepKept
  BY <1>16 DEF vars, TypeOK
<1> HIDE DEF StepKept, HistoryKept, ArrivalKept, StampKept, OutcomeKept, Removed
<1> QED
  BY <1>1, <1>2, <1>3, <1>4, <1>5, <1>6, <1>7, <1>8, <1>9, <1>10, <1>11, <1>12,
     <1>13, <1>14, <1>15, <1>16
  DEF Next, Quiet, Arrives, Step, Executes, Resumes, Breaks

(***************************************************************************)
(* What an insert and a removal make of the table.                         *)
(***************************************************************************)

\* An insert adds the version of its request, and nothing that clashes.
LEMMA InsertedRow ==
    ASSUME TypeOK, PhaseInv, NEW r \in Requests, Insert(r)
    PROVE  \E v \in Row :
              /\ rows' = rows \cup {v}
              /\ v.id = doc[r] /\ v.at = at[r] /\ ~v.deleted /\ v.by = r
              /\ Unique => \A q \in rows : ~(q.id = v.id /\ q.at = v.at)
<1> DEFINE v == [id |-> doc[r], at |-> at[r], deleted |-> FALSE, by |-> r]
<1>1. v \in Row
  BY DEF Insert, PhaseInv, TypeOK, Row
<1>2. v.id = doc[r] /\ v.at = at[r] /\ ~v.deleted /\ v.by = r
  OBVIOUS
<1>3. rows' = rows \cup {v}
  BY DEF Insert
<1>4. Unique => \A q \in rows : ~(q.id = doc[r] /\ q.at = at[r])
  BY DEF Insert, Clash
<1> HIDE DEF v
<1> QED BY <1>1, <1>2, <1>3, <1>4

\* A removal keeps the id, the stamp and the writer of every version, deletes
\* the versions of its document and leaves the others alone.
LEMMA MarkedRows ==
    ASSUME NEW S, S \subseteq Row, NEW i
    PROVE  \A p \in MarkDeleted(S, i) : \E q \in S :
              /\ p.id = q.id /\ p.at = q.at /\ p.by = q.by
              /\ p.id = i => p.deleted
              /\ p.id # i => p = q
              /\ ~p.deleted => p = q
<1> SUFFICES ASSUME NEW q \in S
             PROVE  LET p == IF q.id = i THEN [q EXCEPT !.deleted = TRUE] ELSE q
                    IN  /\ p.id = q.id /\ p.at = q.at /\ p.by = q.by
                        /\ p.id = i => p.deleted
                        /\ p.id # i => p = q
                        /\ ~p.deleted => p = q
  BY DEF MarkDeleted
<1> QED BY DEF Row

\* Two versions a removal leaves are one if they come from one.
LEMMA MarkedOnce ==
    ASSUME NEW S, S \subseteq Row, NEW i,
           \A p, q \in S : p.id = q.id /\ p.at = q.at => p = q
    PROVE  \A p, q \in MarkDeleted(S, i) : p.id = q.id /\ p.at = q.at => p = q
<1> DEFINE m(q) == IF q.id = i THEN [q EXCEPT !.deleted = TRUE] ELSE q
<1>1. ASSUME NEW q \in S PROVE m(q).id = q.id /\ m(q).at = q.at
  BY DEF Row
<1>2. MarkDeleted(S, i) = {m(q) : q \in S}
  BY DEF MarkDeleted
<1> HIDE DEF m
<1> QED BY <1>1, <1>2

\* A version in the table comes from one that was there, or is the one stored.
LEMMA RowOrigin ==
    ASSUME TypeOK, PhaseInv, [Next]_vars
    PROVE  \A p \in rows' :
              \/ \E q \in rows :
                    /\ p.id = q.id /\ p.at = q.at /\ p.by = q.by
                    /\ ~p.deleted => p = q
              \/ /\ p.by \in Requests /\ Insert(p.by) /\ p.id = doc[p.by] /\ p.at = at[p.by]
                 /\ \A q \in rows' \ {p} : q \in rows
                 /\ Unique => \A q \in rows : ~(q.id = p.id /\ q.at = p.at)
<1>1. CASE rows' = rows
  BY <1>1
<1>2. CASE \E r \in Requests : Insert(r)
  <2>1. PICK r \in Requests : Insert(r)
    BY <1>2
  <2>2. PICK v \in Row :
          /\ rows' = rows \cup {v}
          /\ v.id = doc[r] /\ v.at = at[r] /\ ~v.deleted /\ v.by = r
          /\ Unique => \A q \in rows : ~(q.id = v.id /\ q.at = v.at)
    BY <2>1, InsertedRow
  <2> QED BY <2>1, <2>2
<1>3. CASE \E r \in Requests : Mark(r)
  <2>1. PICK r \in Requests : rows' = MarkDeleted(rows, doc[r])
    BY <1>3 DEF Mark
  <2> QED BY <2>1, MarkedRows DEF TypeOK
<1> QED BY <1>1, <1>2, <1>3, TableStep

(***************************************************************************)
(* The parts of IInv, each preserved by every step.                        *)
(***************************************************************************)

\* No step stamps a version with, or reads at, a time still to come.
LEMMA ClockStep ==
    ASSUME TypeOK, PhaseInv, ClockInv, [Next]_vars
    PROVE  ClockInv'
<1>1. appNow' <= now' /\ (MaxLag = 0 => appNow' = now') /\ now' >= now
  <2>1. ASSUME NEW r \in Requests, Arrives(r) \/ Breaks(r) PROVE UNCHANGED <<now, appNow>>
    BY <2>1 DEF Arrives, Arrive, Refuse, Create, Lookup, Scan, Breaks, FailQuietly, FailLoudly
  <2>2. ASSUME NEW r \in Requests, Executes(r) PROVE UNCHANGED <<now, appNow>>
    BY <2>2 DEF Executes, ReadRow, ScanRows, Insert, Mark
  <2>3. ASSUME NEW r \in Requests, Resumes(r) PROVE UNCHANGED <<now, appNow>>
    BY <2>3 DEF Resumes, Stamp, Duplicate, Retry, Throw, Reply
  <2>4. UNCHANGED <<now, appNow>> \/ Tick
    BY <2>1, <2>2, <2>3 DEF Next, vars, Quiet, Step
  <2> QED BY <2>4, ConstantsOK DEF ClockInv, TypeOK, Tick
<1>2. \A r \in Requests : at'[r] <= now'
  <2>1. now \in Nat /\ now' \in Nat /\ appNow \in Nat /\ \A r \in Requests : at[r] \in Nat
    BY TypePhaseStep DEF TypeOK
  <2>2. \A r \in Requests : at'[r] \in {at[r], now, appNow, 0}
    BY HistoryStep DEF StepKept, StampKept
  <2> QED BY <1>1, <2>1, <2>2 DEF ClockInv
<1>3. ASSUME NEW p \in rows' PROVE p.at <= now'
  <2>1. \/ \E q \in rows : p.at = q.at
        \/ \E r \in Requests : p.at = at[r]
    BY RowOrigin
  <2>2. now \in Nat /\ now' \in Nat
    BY TypePhaseStep DEF TypeOK
  <2>3. \A q \in rows : q.at \in Nat
    BY DEF TypeOK, Row
  <2>4. \A r \in Requests : at[r] \in Nat
    BY DEF TypeOK
  <2> QED BY <1>1, <2>1, <2>2, <2>3, <2>4 DEF ClockInv
<1> QED BY <1>1, <1>2, <1>3 DEF ClockInv

\* A version once stored is stored for good.
LEMMA LandedKept ==
    ASSUME TypeOK, PhaseInv, [Next]_vars, NEW w \in Requests, Landed(w)
    PROVE  /\ pc[w] # "idle" /\ Landed(w)'
           /\ doc'[w] = doc[w] /\ before'[w] = before[w]
  BY HistoryStep DEF StepKept, HistoryKept, Landed, IsWrite, PhaseInv

\* So is a removal.
LEMMA RemovedKept ==
    ASSUME TypeOK, PhaseInv, [Next]_vars, NEW d \in Requests, Removed(d)
    PROVE  /\ pc[d] # "idle" /\ Removed(d)'
           /\ doc'[d] = doc[d] /\ before'[d] = before[d]
  BY HistoryStep DEF StepKept, HistoryKept, Removed, PhaseInv

\* And so is the race of a write and a removal.
LEMMA RaceKept ==
    ASSUME TypeOK, PhaseInv, [Next]_vars, NEW d \in Requests, doc'[d] = doc[d],
           WriteRacedRemoval(doc[d])
    PROVE  WriteRacedRemoval(doc[d])'
<1>1. PICK w \in Requests, e \in Requests :
        Landed(w) /\ Removed(e) /\ doc[w] = doc[d] /\ doc[e] = doc[d] /\ Overlap(w, e)
  BY DEF WriteRacedRemoval
<1> QED BY <1>1, LandedKept, RemovedKept DEF WriteRacedRemoval, Overlap

\* The insert of r is the end of a write.
LEMMA InsertLands ==
    ASSUME TypeOK, PhaseInv, NEW r \in Requests, Insert(r)
    PROVE  /\ pc[r] = "insert" /\ Landed(r)'
           /\ UNCHANGED <<kind, doc, before>>
           /\ r \notin Answered
  BY DEF Insert, Landed, IsWrite, TypeOK, PhaseInv, Answered

\* Every version names the write that stored it, and UNIQUE holds.
LEMMA RowsStep ==
    ASSUME TypeOK, PhaseInv, RowsInv, [Next]_vars
    PROVE  RowsInv'
<1>1. ASSUME NEW p \in rows', p.by # Earlier
      PROVE  Landed(p.by)' /\ doc'[p.by] = p.id
  <2>1. CASE \E q \in rows : p.id = q.id /\ p.by = q.by
    <3>1. PICK q \in rows : p.id = q.id /\ p.by = q.by
      BY <2>1
    <3>2. q.by \in Requests
      BY <1>1, <3>1 DEF TypeOK, Row
    <3> QED BY <1>1, <3>1, <3>2, LandedKept DEF RowsInv
  <2>2. CASE p.by \in Requests /\ Insert(p.by) /\ p.id = doc[p.by]
    BY <2>2, InsertLands
  <2> QED BY <2>1, <2>2, RowOrigin
<1>2. ASSUME Unique, NEW p \in rows', NEW q \in rows', p.id = q.id, p.at = q.at
      PROVE  p = q
  <2>1. CASE rows' = rows
    BY <1>2, <2>1 DEF RowsInv
  <2>2. CASE \E r \in Requests : Insert(r)
    BY <1>2, <2>2, InsertedRow DEF RowsInv
  <2>3. CASE \E r \in Requests : Mark(r)
    <3>1. PICK i : rows' = MarkDeleted(rows, i)
      BY <2>3 DEF Mark
    <3> QED BY <1>2, <3>1, MarkedOnce DEF RowsInv, TypeOK
  <2> QED BY <2>1, <2>2, <2>3, TableStep
<1> QED BY <1>1, <1>2 DEF RowsInv

\* The requests a version waited for are answered: an insert under way is of
\* none of them.
LEMMA BeforeAnswered ==
    ASSUME TypeOK, PhaseInv, NEW r \in Requests, NEW w \in Requests,
           w \in before[r]
    PROVE  pc[w] = "done" /\ w # r
  BY DEF PhaseInv, Answered

\* A stored version precedes the same requests after a step, for each request
\* that had arrived.
LEMMA PrecedesKept ==
    ASSUME TypeOK, PhaseInv, [Next]_vars, NEW r \in Requests, pc[r] # "idle"
    PROVE  \A p : Precedes(p, r)' <=> Precedes(p, r)
  BY HistoryStep DEF StepKept, HistoryKept, Precedes

\* A version that precedes a request under way was in the table before the step.
LEMMA PrecedingOrigin ==
    ASSUME TypeOK, PhaseInv, [Next]_vars, NEW r \in Requests, pc[r] # "idle"
    PROVE  \A p \in rows' : Precedes(p, r) =>
              \E q \in rows : /\ p.id = q.id /\ p.at = q.at /\ p.by = q.by
                              /\ ~p.deleted => p = q
<1> SUFFICES ASSUME NEW p \in rows', Precedes(p, r), p.by \in Requests, Insert(p.by)
             PROVE  FALSE
  BY RowOrigin
<1>1. p.by \in before[r]
  BY ConstantsOK DEF Precedes
<1> QED BY <1>1, BeforeAnswered, InsertLands

\* A version under way keeps a stamp no earlier than those answered before it.
LEMMA StampStep ==
    ASSUME TypeOK, PhaseInv, ClockInv, StampInv, [Next]_vars
    PROVE  StampInv'
<1> SUFFICES ASSUME NEW r \in Requests, pc'[r] = "insert",
                    NEW p \in rows', Precedes(p, r)'
             PROVE  p.at <= at'[r]
  BY DEF StampInv
<1>1. CASE pc[r] = "insert" /\ at'[r] = at[r]
  BY <1>1, PrecedesKept, PrecedingOrigin DEF StampInv, Precedes
<1>2. CASE at'[r] = now /\ now' = now /\ rows' = rows
  BY <1>2 DEF ClockInv
<1> QED BY <1>1, <1>2, HistoryStep DEF StepKept, StampKept

\* A query under way keeps a bound no earlier than the versions before it.
LEMMA BoundStep ==
    ASSUME TypeOK, PhaseInv, ClockInv, BoundInv, [Next]_vars
    PROVE  BoundInv'
<1> SUFFICES ASSUME MaxLag = 0, NEW r \in Requests, pc'[r] \in {"lookup", "scan"},
                    NEW p \in rows', Precedes(p, r)'
             PROVE  p.at <= at'[r]
  BY DEF BoundInv
<1>1. CASE pc[r] \in {"lookup", "scan"} /\ at'[r] = at[r]
  BY <1>1, PrecedesKept, PrecedingOrigin DEF BoundInv, Precedes
<1>2. CASE at'[r] = appNow /\ rows' = rows
  BY <1>2 DEF ClockInv
<1> QED BY <1>1, <1>2, HistoryStep DEF StepKept, StampKept

\* Stamps follow answers after every step: an insert meets older stamps only,
\* and what is stored after it comes from requests not yet answered.
LEMMA FollowStep ==
    ASSUME TypeOK, PhaseInv, RowsInv, StampInv, StampsFollowAnswers, [Next]_vars
    PROVE  StampsFollowAnswers'
<1> SUFFICES ASSUME NEW p \in rows', NEW q \in rows',
                    p.id = q.id, q.by # Earlier, Precedes(p, q.by)'
             PROVE  IF Unique THEN p.at < q.at ELSE p.at <= q.at
  BY DEF StampsFollowAnswers
<1>1. CASE \E q0 \in rows : q.id = q0.id /\ q.at = q0.at /\ q.by = q0.by
  <2>1. PICK q0 \in rows : q.id = q0.id /\ q.at = q0.at /\ q.by = q0.by
    BY <1>1
  <2>2. q.by \in Requests /\ Landed(q.by)
    BY <1>1 DEF RowsInv, TypeOK, Row
  <2>3. pc[q.by] # "idle" /\ Precedes(p, q.by)
    BY <2>2, LandedKept, PrecedesKept
  <2>4. PICK p0 \in rows : p.id = p0.id /\ p.at = p0.at /\ p.by = p0.by
    BY <2>2, <2>3, PrecedingOrigin
  <2>5. Precedes(p0, q0.by)
    BY <2>1, <2>3, <2>4 DEF Precedes
  <2> QED BY <2>1, <2>4, <2>5 DEF StampsFollowAnswers
<1>2. CASE /\ q.by \in Requests /\ Insert(q.by) /\ q.id = doc[q.by] /\ q.at = at[q.by]
           /\ \A p0 \in rows' \ {q} : p0 \in rows
           /\ Unique => \A p0 \in rows : ~(p0.id = q.id /\ p0.at = q.at)
  <2>1. pc[q.by] = "insert" /\ Precedes(p, q.by)
    BY <1>2, InsertLands DEF Precedes
  <2>2. p # q
    BY <1>2, <2>1, BeforeAnswered, ConstantsOK DEF Precedes
  <2>3. p \in rows /\ (Unique => p.at # q.at)
    BY <1>2, <2>2
  <2>4. p.at <= q.at
    BY <1>2, <2>1, <2>3 DEF StampInv
  <2>5. p.at \in Nat /\ q.at \in Nat
    BY TypePhaseStep DEF TypeOK, Row
  <2> QED BY <2>3, <2>4, <2>5
<1> QED BY <1>1, <1>2, RowOrigin

\* A write gets past its check after a removal only when a race put the
\* document back.
LEMMA RemovedInvStep ==
    ASSUME TypeOK, PhaseInv, RemovedInv, RemovedStaysRemovedUnlessRaced, [Next]_vars
    PROVE  RemovedInv'
<1> SUFFICES ASSUME NEW w \in Requests, NEW d \in Requests,
                    pc'[w] \in {"stamp", "insert", "wait"},
                    Removed(d)', d \in before'[w], doc'[d] = doc'[w]
             PROVE  WriteRacedRemoval(doc[d])'
  BY DEF RemovedInv
<1>1. CASE pc[w] = "idle"
  <2>1. d \in Answered /\ \A e \in Requests : pc[e] # "idle" => doc[e] # doc'[w]
    BY <1>1, HistoryStep DEF StepKept, ArrivalKept
  <2> QED BY <2>1, HistoryStep DEF StepKept, HistoryKept, Answered
<1>2. CASE pc[w] # "idle"
  <2>1. doc'[w] = doc[w] /\ before'[w] = before[w]
    BY <1>2, HistoryStep DEF StepKept, HistoryKept
  <2>2. pc[d] = "done"
    BY <2>1, BeforeAnswered
  <2>3. Removed(d) /\ doc'[d] = doc[d]
    BY <2>2, HistoryStep DEF StepKept, HistoryKept, Removed
  <2>4. CASE pc[w] \in {"stamp", "insert", "wait"}
    <3>1. WriteRacedRemoval(doc[d])
      BY <2>1, <2>3, <2>4 DEF RemovedInv
    <3> QED BY <2>3, <3>1, RaceKept
  <2>5. CASE Live(rows, doc[w]) # {}
    <3>1. WriteRacedRemoval(doc[d])
      BY <2>1, <2>3, <2>5 DEF RemovedStaysRemovedUnlessRaced
    <3> QED BY <2>3, <3>1, RaceKept
  <2> QED BY <1>2, <2>4, <2>5, HistoryStep DEF StepKept, OutcomeKept
<1> QED BY <1>1, <1>2

\* A removal empties its document, and what is stored after it raced a removal.
LEMMA RemovedStaysStep ==
    ASSUME TypeOK, PhaseInv, RemovedInv, RemovedStaysRemovedUnlessRaced, [Next]_vars
    PROVE  RemovedStaysRemovedUnlessRaced'
<1> SUFFICES ASSUME NEW d \in Requests, Removed(d)',
                    NEW p \in rows', p.id = doc'[d], ~p.deleted
             PROVE  WriteRacedRemoval(doc[d])'
  BY DEF RemovedStaysRemovedUnlessRaced, Live
<1>1. CASE Mark(d)
  <2>1. doc'[d] = doc[d] /\ rows' = MarkDeleted(rows, doc[d])
    BY <1>1 DEF Mark
  <2> QED BY <2>1, MarkedRows DEF TypeOK
<1>2. CASE Removed(d)
  <2>1. doc'[d] = doc[d] /\ before'[d] = before[d]
    BY <1>2, RemovedKept
  <2>2. CASE p \in rows
    <3>1. WriteRacedRemoval(doc[d])
      BY <1>2, <2>1, <2>2 DEF RemovedStaysRemovedUnlessRaced, Live
    <3> QED BY <2>1, <3>1, RaceKept
  <2>3. CASE p.by \in Requests /\ Insert(p.by) /\ p.id = doc[p.by]
    <3> DEFINE w == p.by
    <3> HIDE DEF w
    <3>1. w \in Requests /\ Insert(w) /\ doc[w] = doc[d]
      BY <2>1, <2>3 DEF w
    <3>2. /\ pc[w] = "insert" /\ Landed(w)' /\ w \notin Answered
          /\ doc'[w] = doc[w] /\ before'[w] = before[w]
      BY <3>1, InsertLands
    <3>3. CASE d \in before[w]
      <4>1. WriteRacedRemoval(doc[d])
        BY <1>2, <3>1, <3>2, <3>3 DEF RemovedInv
      <4> QED BY <2>1, <4>1, RaceKept
    <3>4. CASE d \notin before[w]
      <4>1. w \notin before[d]
        BY <3>1, <3>2, BeforeAnswered DEF Answered
      <4> QED BY <2>1, <3>1, <3>2, <3>4, <4>1 DEF WriteRacedRemoval, Overlap
    <3> QED BY <3>3, <3>4
  <2> QED BY <2>2, <2>3, RowOrigin
<1> QED BY <1>1, <1>2, HistoryStep DEF StepKept, OutcomeKept

(***************************************************************************)
(* What queries return.                                                    *)
(***************************************************************************)

\* A query is answered once, by the statement it sent.
LEMMA AnswerStep ==
    ASSUME TypeOK, PhaseInv, [Next]_vars, NEW r \in Requests, Queried(r)'
    PROVE  \/ Queried(r) /\ found'[r] = found[r]
           \/ ReadRow(r) /\ kind[r] = "read"
           \/ ScanRows(r)
<1>1. CASE \E s \in Requests : ReadRow(s) \/ ScanRows(s)
  <2>1. PICK s \in Requests : ReadRow(s) \/ ScanRows(s)
    BY <1>1
  <2>2. UNCHANGED <<kind, failed>> /\ status[s] = 0
    BY <2>1 DEF ReadRow, ScanRows, PhaseInv
  <2>3. \A t \in Requests \ {s} : status'[t] = status[t] /\ found'[t] = found[t]
    BY <2>1 DEF ReadRow, ScanRows, TypeOK
  <2>4. ReadRow(s) => kind[s] \in {"read", "update", "remove"}
    BY DEF ReadRow, PhaseInv
  <2> QED BY <2>1, <2>2, <2>3, <2>4 DEF Queried
<1>2. ASSUME NEW s \in Requests, Refuse(s) \/ Insert(s) \/ Mark(s) \/ FailQuietly(s)
      PROVE  Queried(r) /\ found'[r] = found[r]
  <2>1. /\ UNCHANGED found /\ failed \subseteq failed'
        /\ \A t \in Requests \ {s} : status'[t] = status[t] /\ kind'[t] = kind[t]
    <3>1. CASE Refuse(s)
      BY <3>1 DEF Refuse, Arrive, TypeOK
    <3>2. CASE Insert(s)
      BY <3>2 DEF Insert, TypeOK
    <3>3. CASE Mark(s)
      BY <3>3 DEF Mark, TypeOK
    <3>4. CASE FailQuietly(s)
      BY <3>4 DEF FailQuietly, Fails, TypeOK
    <3> QED BY <1>2, <3>1, <3>2, <3>3, <3>4
  <2>2. r # s
    <3>1. CASE Refuse(s)
      BY <3>1 DEF Refuse, TypeOK, Queried
    <3>2. CASE Insert(s)
      BY <3>2 DEF Insert, TypeOK, Queried
    <3>3. CASE Mark(s)
      BY <3>3 DEF Mark, TypeOK, Queried, PhaseInv
    <3>4. CASE FailQuietly(s)
      BY <3>4 DEF FailQuietly, Fails, TypeOK, Queried
    <3> QED BY <1>2, <3>1, <3>2, <3>3, <3>4
  <2> QED BY <2>1, <2>2 DEF Queried
<1>3. CASE UNCHANGED <<status, found>> /\ failed \subseteq failed'
  <2>1. status[r] # 0
    BY <1>3 DEF Queried
  <2>2. kind'[r] = kind[r]
    BY <2>1, HistoryStep DEF StepKept, HistoryKept, PhaseInv
  <2> QED BY <1>3, <2>2 DEF Queried
<1>4. \/ \E s \in Requests : ReadRow(s) \/ ScanRows(s)
      \/ \E s \in Requests : Refuse(s) \/ Insert(s) \/ Mark(s) \/ FailQuietly(s)
      \/ UNCHANGED <<status, found>> /\ failed \subseteq failed'
  BY DEF Next, vars, Tick, Quiet, Arrives, Step, Executes, Resumes, Breaks, Arrive, Create,
         Lookup, Scan, Stamp, Duplicate, Retry, Throw, Reply, FailLoudly, Fails
<1> QED BY <1>1, <1>2, <1>3, <1>4

\* What ORDER BY created_at DESC returns is no older than any match.
LEMMA NewestOfRows ==
    ASSUME TypeOK, ClockInv, NEW S, S \subseteq rows, NEW q \in S,
           NEW c \in First(Newest(S))
    PROVE  \E x \in c : x.at >= q.at
<1>1. \A x \in S : x.at \in Nat /\ x.at <= now
  BY DEF TypeOK, ClockInv, Row
<1>2. Newest(S) # {}
  BY <1>1, NewestExists DEF TypeOK
<1>3. PICK x \in Newest(S) : c = {x}
  BY <1>2 DEF First
<1> QED BY <1>1, <1>3 DEF Newest

\* The queries see the writes answered before them: with a bound they were
\* sent with when there is one clock, without one always.
SeeInv == (MaxLag = 0 => ReadsSeeAnsweredWrites) /\ ScansSeeAnsweredWrites

\* The version a query r answers with is no older than any it should see.
LEMMA SeenByQuery ==
    ASSUME IInv, NEW r \in Requests, NEW q \in rows, q.id = doc[r], ~q.deleted,
           Precedes(q, r), pc[r] \in {"lookup", "scan"}
    PROVE  /\ MaxLag = 0 => \A c \in First(AsOf(rows, doc[r], at[r])) :
                               \E x \in c : x.at >= q.at
           /\ \A c \in First(Latest(rows, doc[r])) : \E x \in c : x.at >= q.at
<1> USE DEF IInv
<1>1. q \in Live(rows, doc[r]) /\ Live(rows, doc[r]) \subseteq rows
  BY DEF Live
<1>2. \A c \in First(Latest(rows, doc[r])) : \E x \in c : x.at >= q.at
  BY <1>1, NewestOfRows DEF Latest
<1>3. ASSUME MaxLag = 0
      PROVE  \A c \in First(AsOf(rows, doc[r], at[r])) : \E x \in c : x.at >= q.at
  <2> DEFINE S == {x \in Live(rows, doc[r]) : x.at <= at[r]}
  <2>1. q \in S /\ S \subseteq rows
    BY <1>1, <1>3 DEF BoundInv
  <2>2. AsOf(rows, doc[r], at[r]) = Newest(S)
    BY DEF AsOf
  <2> HIDE DEF S
  <2> QED BY <2>1, <2>2, NewestOfRows
<1> QED BY <1>2, <1>3

\* Every step keeps what the queries see.
LEMMA SeeStep ==
    ASSUME IInv, SeeInv, [Next]_vars
    PROVE  SeeInv'
<1> USE DEF IInv
<1>1. ASSUME NEW r \in Requests, Queried(r)', NEW p \in rows', p.id = doc'[r],
             ~p.deleted, Precedes(p, r)', Timed(r)' => MaxLag = 0
      PROVE  \E c \in found'[r] : c.at >= p.at
  <2>1. pc[r] # "idle"
    BY <1>1, AnswerStep DEF Queried, ReadRow, ScanRows, PhaseInv
  <2>2. doc'[r] = doc[r] /\ kind'[r] = kind[r] /\ Precedes(p, r)
    BY <1>1, <2>1, PrecedesKept, HistoryStep DEF StepKept, HistoryKept
  <2>3. p \in rows
    BY <1>1, <2>1, <2>2, PrecedingOrigin
  <2>4. Timed(r)' <=> Timed(r)
    BY <2>2 DEF Timed
  <2>5. CASE Queried(r) /\ found'[r] = found[r]
    BY <1>1, <2>2, <2>3, <2>4, <2>5
    DEF SeeInv, ReadsSeeAnsweredWrites, ScansSeeAnsweredWrites
  <2>6. CASE ReadRow(r) /\ kind[r] = "read"
    <3>1. pc[r] = "lookup" /\ Timed(r)
      BY <2>6 DEF ReadRow, Timed
    <3>2. found'[r] \in First(AsOf(rows, doc[r], at[r]))
      BY <2>6 DEF ReadRow, TypeOK
    <3> QED BY <1>1, <2>2, <2>3, <2>4, <3>1, <3>2, SeenByQuery
  <2>7. CASE ScanRows(r)
    <3>1. pc[r] = "scan" /\ kind[r] # "read"
      BY <2>7 DEF ScanRows, PhaseInv
    <3>2. found'[r] \in First(Scanned(r))
      BY <2>7 DEF ScanRows, TypeOK
    <3> QED BY <1>1, <2>2, <2>3, <2>4, <3>1, <3>2, SeenByQuery DEF Scanned, Timed
  <2> QED BY <1>1, <2>5, <2>6, <2>7, AnswerStep
<1> QED BY <1>1 DEF SeeInv, ReadsSeeAnsweredWrites, ScansSeeAnsweredWrites

(***************************************************************************)
(* The theorems.                                                           *)
(***************************************************************************)

\* The first state satisfies the invariant: nothing has arrived, and every
\* stored document has one version.
LEMMA InitIInv == Init => IInv
<1> SUFFICES ASSUME Init PROVE IInv
  OBVIOUS
<1>1. TypeOK
  BY InitTypeOK
<1> DEFINE v(i) == [id |-> i, at |-> 0, deleted |-> FALSE, by |-> Earlier]
<1>11. \A i : v(i).id = i /\ v(i).at = 0 /\ v(i).by = Earlier
  OBVIOUS
<1>12. rows = {v(i) : i \in Stored}
  BY DEF Init
<1> HIDE DEF v
<1>2. \A q \in rows : q.at = 0 /\ q.by = Earlier /\ q \in Row
  BY <1>1, <1>11, <1>12 DEF TypeOK
<1>3. \A p, q \in rows : p.id = q.id => p = q
  BY <1>11, <1>12
<1>4. \A r \in Requests : /\ pc[r] = "idle" /\ status[r] = 0 /\ at[r] = 0
                         /\ kind[r] = "none" /\ before[r] = {}
  BY DEF Init
<1>5. now = 0 /\ appNow = 0
  BY DEF Init
<1>6. ClockInv
  BY <1>2, <1>4, <1>5 DEF ClockInv
<1>7. PhaseInv
  BY <1>4 DEF PhaseInv
<1>8. RowsInv
  BY <1>2, <1>3 DEF RowsInv
<1>9. StampInv /\ BoundInv /\ RemovedInv /\ StampsFollowAnswers
  BY <1>2, <1>4 DEF StampInv, BoundInv, RemovedInv, StampsFollowAnswers
<1>10. RemovedStaysRemovedUnlessRaced
  BY <1>4 DEF RemovedStaysRemovedUnlessRaced, Removed
<1> QED BY <1>1, <1>6, <1>7, <1>8, <1>9, <1>10 DEF IInv

\* Every step preserves the invariant.
LEMMA NextIInv == IInv /\ [Next]_vars => IInv'
<1> SUFFICES ASSUME IInv, [Next]_vars PROVE IInv'
  OBVIOUS
<1> USE DEF IInv
<1>1. TypeOK' /\ PhaseInv'
  BY TypePhaseStep
<1>2. ClockInv'
  BY ClockStep
<1>3. RowsInv'
  BY RowsStep
<1>4. StampInv' /\ StampsFollowAnswers'
  BY StampStep, FollowStep
<1>5. RemovedInv' /\ RemovedStaysRemovedUnlessRaced'
  BY RemovedInvStep, RemovedStaysStep
<1>6. BoundInv'
  BY BoundStep
<1> QED BY <1>1, <1>2, <1>3, <1>4, <1>5, <1>6

\* The invariant holds of every reachable state of every repository.
THEOREM Invariance == Spec => []IInv
  BY InitIInv, NextIInv, PTL DEF Spec

\* The variables keep their types whatever the handlers, the database and the
\* failures do.
THEOREM TypeCorrect == Spec => []TypeOK
<1>1. IInv => TypeOK
  BY DEF IInv
<1> QED BY <1>1, Invariance, PTL

\* For any number of requests, documents and retries: of two versions of a
\* document the one answered before the other was asked for has the older
\* stamp, strictly so where the table is UNIQUE (repo.create).
THEOREM StampsFollow == Spec => []StampsFollowAnswers
<1>1. IInv => StampsFollowAnswers
  BY DEF IInv
<1> QED BY <1>1, Invariance, PTL

\* For any number of requests and documents: a removed document is visible
\* again only if some write of it overlapped some removal of it (Crud.update,
\* Crud.remove).
THEOREM RemovedStays == Spec => []RemovedStaysRemovedUnlessRaced
<1>1. IInv => RemovedStaysRemovedUnlessRaced
  BY DEF IInv
<1> QED BY <1>1, Invariance, PTL

\* Nothing was queried in the first state.
LEMMA InitSeeInv == Init => SeeInv
  BY DEF Init, SeeInv, ReadsSeeAnsweredWrites, ScansSeeAnsweredWrites, Queried

\* The queries see the answered writes in every reachable state.
LEMMA SeeInvariance == Spec => []SeeInv
<1>1. IInv /\ SeeInv /\ [Next]_vars => SeeInv'
  BY SeeStep
<1> QED BY <1>1, InitSeeInv, Invariance, PTL DEF Spec

\* Where one clock stamps the versions and bounds the reads, a read returns the
\* versions answered before it arrived, or newer ones (repo.read): without the
\* assumption it does not, as with Postgres.
THEOREM ReadsSee == MaxLag = 0 => (Spec => []ReadsSeeAnsweredWrites)
<1> SUFFICES ASSUME MaxLag = 0 PROVE Spec => []ReadsSeeAnsweredWrites
  OBVIOUS
<1>1. SeeInv => ReadsSeeAnsweredWrites
  BY DEF SeeInv
<1> QED BY <1>1, SeeInvariance, PTL

\* A listing needs no assumption on the clocks (repo.list, repo.readMany).
THEOREM ScansSee == Spec => []ScansSeeAnsweredWrites
<1>1. SeeInv => ScansSeeAnsweredWrites
  BY DEF SeeInv
<1> QED BY <1>1, SeeInvariance, PTL

(***************************************************************************)
(* A settled time: what may still change of what was true then.            *)
(***************************************************************************)

\* A removal of another document leaves the live versions of this one.
LEMMA MarkedOthers ==
    ASSUME NEW S, S \subseteq Row, NEW i, NEW j, i # j
    PROVE  Live(MarkDeleted(S, j), i) = Live(S, i)
<1>1. Live(MarkDeleted(S, j), i) \subseteq Live(S, i)
  BY MarkedRows DEF Live
<1>2. \A q \in S : q.id = i => q \in MarkDeleted(S, j)
  BY DEF MarkDeleted
<1> QED BY <1>1, <1>2 DEF Live

\* An insert stores a version stamped after every settled time.
LEMMA InsertedAfterSettled ==
    ASSUME TypeOK, PhaseInv, NEW r \in Requests, Insert(r), NEW t \in Nat, Settled(t)
    PROVE  \E v \in Row : /\ rows' = rows \cup {v}
                         /\ v.id = doc[r] /\ v.by = r /\ v.at > t /\ v.at \in Nat
<1>1. at[r] > t
  BY DEF Insert, Settled
<1> QED BY <1>1, InsertedRow DEF Row

\* A settled time stays settled: whatever is stamped later is stamped now.
LEMMA SettledStays ==
    ASSUME TypeOK, PhaseInv, [Next]_vars, NEW t \in Nat, Settled(t)
    PROVE  Settled(t)'
<1>1. now \in Nat /\ now' \in Nat /\ now' >= now
  BY TypePhaseStep, HistoryStep DEF TypeOK, StepKept, HistoryKept
<1>2. ASSUME NEW r \in Requests, pc'[r] = "insert" PROVE at'[r] > t
  <2>1. (pc[r] = "insert" /\ at'[r] = at[r]) \/ at'[r] = now
    BY <1>2, HistoryStep DEF StepKept, StampKept
  <2> QED BY <1>1, <2>1 DEF Settled
<1> QED BY <1>1, <1>2 DEF Settled

\* What a read of a settled time returns changes by a removal only.
LEMMA SettledReadStays ==
    ASSUME TypeOK, PhaseInv, [Next]_vars, NEW t \in Nat, Settled(t), NEW i \in Ids
    PROVE  RemovalOf(i) \/ AsOf(rows', i, t) = AsOf(rows, i, t)
<1>1. CASE rows' = rows
  BY <1>1
<1>2. CASE \E r \in Requests : Insert(r)
  <2>1. PICK r \in Requests, v \in Row : rows' = rows \cup {v} /\ v.at > t /\ v.at \in Nat
    BY <1>2, InsertedAfterSettled
  <2>2. {q \in Live(rows', i) : q.at <= t} = {q \in Live(rows, i) : q.at <= t}
    BY <2>1 DEF Live
  <2> QED BY <2>2 DEF AsOf
<1>3. CASE \E r \in Requests : Mark(r)
  <2>1. PICK r \in Requests : Mark(r)
    BY <1>3
  <2>2. rows' = MarkDeleted(rows, doc[r])
    BY <2>1 DEF Mark
  <2>3. CASE doc[r] = i
    BY <2>1, <2>3 DEF RemovalOf
  <2>4. CASE doc[r] # i
    <3>1. Live(MarkDeleted(rows, doc[r]), i) = Live(rows, i)
      BY <2>4, MarkedOthers DEF TypeOK
    <3> QED BY <2>2, <3>1 DEF AsOf
  <2> QED BY <2>3, <2>4
<1> QED BY <1>1, <1>2, <1>3, TableStep

\* A time no version under way is stamped with stays so, and what a query of
\* that time returns changes by a removal only (repo.create, repo.read).
THEOREM SettledTimes == Spec => SettledTimesChangeByRemovalOnly
<1>1. ASSUME IInv, [Next]_vars, NEW t \in 0 .. now, Settled(t)
      PROVE  /\ Settled(t)'
             /\ \A i \in Ids : RemovalOf(i) \/ AsOf(rows', i, t) = AsOf(rows, i, t)
  <2>1. TypeOK /\ PhaseInv /\ t \in Nat
    BY <1>1 DEF IInv
  <2> QED BY <1>1, <2>1, SettledStays, SettledReadStays
<1>2. IInv /\ [Next]_vars => [\A t \in 0 .. now : Settled(t) =>
          /\ Settled(t)'
          /\ \A i \in Ids : RemovalOf(i) \/ AsOf(rows', i, t) = AsOf(rows, i, t)]_vars
  BY <1>1
<1> QED BY <1>2, Invariance, PTL DEF Spec, SettledTimesChangeByRemovalOnly

(***************************************************************************)
(* Reads of one document, one after another.                               *)
(***************************************************************************)

\* Date.now() of the process never goes back.
LEMMA AppNowStep ==
    ASSUME TypeOK, [Next]_vars
    PROVE  appNow' >= appNow
<1>1. UNCHANGED appNow \/ Tick
  BY DEF Next, vars, Quiet, Arrives, Step, Executes, Resumes, Breaks, Arrive, Refuse,
     Create, Lookup, Scan, ReadRow, ScanRows, Insert, Mark, Stamp, Duplicate, Retry, Throw,
     Reply, FailQuietly, FailLoudly
<1> QED BY <1>1 DEF Tick, TypeOK

\* A read was answered before the step, or is answered by it, and keeps what
\* it asked for.
LEMMA ReadAnswer ==
    ASSUME TypeOK, PhaseInv, [Next]_vars, NEW r \in Requests, WasRead(r)'
    PROVE  /\ (WasRead(r) /\ found'[r] = found[r]) \/ (ReadRow(r) /\ kind[r] = "read")
           /\ pc[r] # "idle" /\ kind'[r] = kind[r] /\ doc'[r] = doc[r]
           /\ before'[r] = before[r]
<1>1. pc[r] # "idle"
  BY AnswerStep DEF WasRead, Queried, ReadRow, ScanRows, PhaseInv
<1>2. kind'[r] = kind[r] /\ doc'[r] = doc[r] /\ before'[r] = before[r]
  BY <1>1, HistoryStep DEF StepKept, HistoryKept
<1>3. ~ScanRows(r)
  BY <1>2 DEF ScanRows, PhaseInv, WasRead
<1> QED BY <1>1, <1>2, <1>3, AnswerStep DEF WasRead

\* What a read finds is a live version of its document, within its bound.
LEMMA ReadFinds ==
    ASSUME TypeOK, NEW r \in Requests, ReadRow(r), kind[r] = "read", NEW c \in found'[r]
    PROVE  c \in rows /\ c.id = doc[r] /\ ~c.deleted /\ c.at <= at[r]
<1>1. found'[r] \in First(AsOf(rows, doc[r], at[r])) /\ rows' = rows
  BY DEF ReadRow, TypeOK
<1> QED BY <1>1 DEF First, AsOf, Newest, Live

\* Every step keeps what is known of the reads.
LEMMA ReadStep ==
    ASSUME IInv, ReadInv, [Next]_vars
    PROVE  ReadInv'
<1> USE DEF IInv
<1>1. TypeOK' /\ PhaseInv' /\ StepKept /\ appNow' >= appNow
  BY TypePhaseStep, HistoryStep, AppNowStep
<1>2. appNow \in Nat /\ appNow' \in Nat /\ \A r \in Requests : at[r] \in Nat
  BY <1>1 DEF TypeOK
<1>3. ASSUME NEW r \in Requests, pc'[r] = "lookup"
      PROVE  (pc[r] = "lookup" /\ at'[r] = at[r]) \/ at'[r] = appNow
  <2>1. pc[r] = "scan" => kind'[r] = kind[r] /\ kind[r] \in {"list", "bulk_read"}
    BY <1>1 DEF StepKept, HistoryKept, PhaseInv
  <2>2. kind'[r] \in {"read", "update", "remove"}
    BY <1>1, <1>3 DEF PhaseInv
  <2> QED BY <1>1, <1>3, <2>1, <2>2 DEF StepKept, StampKept
<1>4. ASSUME NEW r \in Requests, pc'[r] = "lookup" PROVE at'[r] <= appNow'
  BY <1>1, <1>2, <1>3, <1>4 DEF ReadInv
<1>5. ASSUME NEW r \in Requests, WasRead(r)', NEW c \in found'[r]
      PROVE  /\ c.id = doc'[r] /\ ~c.deleted /\ c.at <= appNow'
             /\ c.by # Earlier => Landed(c.by)'
  <2>1. doc'[r] = doc[r] /\ c.at \in Nat /\ c.by \in Requests \cup {Earlier}
    BY <1>1, <1>5, ReadAnswer DEF TypeOK, Row
  <2>2. /\ c.id = doc[r] /\ ~c.deleted /\ c.at <= appNow
        /\ c.by # Earlier => Landed(c.by)
    <3>1. CASE WasRead(r) /\ found'[r] = found[r]
      BY <1>5, <3>1 DEF ReadInv
    <3>2. CASE ReadRow(r) /\ kind[r] = "read"
      <4>1. c \in rows /\ c.id = doc[r] /\ ~c.deleted /\ c.at <= at[r]
        BY <1>5, <3>2, ReadFinds
      <4>2. at[r] <= appNow
        BY <3>2 DEF ReadRow, ReadInv
      <4> QED BY <1>2, <2>1, <4>1, <4>2 DEF RowsInv
    <3> QED BY <1>5, <3>1, <3>2, ReadAnswer
  <2> QED BY <1>1, <1>2, <2>1, <2>2, LandedKept
<1>6. ASSUME NEW r1 \in Requests, NEW r2 \in Requests, WasRead(r1)',
             kind'[r2] = "read", pc'[r2] = "lookup", r1 \in before'[r2],
             doc'[r1] = doc'[r2], NEW c \in found'[r1]
      PROVE  c.at <= at'[r2]
  <2>1. pc[r1] = "done"
    <3>1. CASE pc[r2] = "idle"
      BY <1>1, <1>6, <3>1 DEF StepKept, ArrivalKept, Answered
    <3>2. CASE pc[r2] # "idle"
      BY <1>1, <1>6, <3>2, BeforeAnswered DEF StepKept, HistoryKept
    <3> QED BY <3>1, <3>2
  <2>2. WasRead(r1) /\ found'[r1] = found[r1] /\ doc'[r1] = doc[r1]
    BY <1>6, <2>1, ReadAnswer DEF ReadRow
  <2>3. CASE at'[r2] = appNow
    BY <1>6, <2>2, <2>3 DEF ReadInv
  <2>4. CASE pc[r2] = "lookup" /\ at'[r2] = at[r2]
    <3>1. kind'[r2] = kind[r2] /\ doc'[r2] = doc[r2] /\ before'[r2] = before[r2]
      BY <1>1, <2>4 DEF StepKept, HistoryKept
    <3> QED BY <1>6, <2>2, <2>4, <3>1 DEF ReadInv
  <2> QED BY <1>3, <1>6, <2>3, <2>4
<1> QED BY <1>4, <1>5, <1>6 DEF ReadInv

\* Every step keeps reads from going back: what an earlier read found and
\* nobody removed is still there for the next, within its bound.
LEMMA NeverBackStep ==
    ASSUME IInv, ReadInv, ReadsNeverGoBack, [Next]_vars
    PROVE  ReadsNeverGoBack'
<1> USE DEF IInv
<1> SUFFICES ASSUME NEW r1 \in Requests, NEW r2 \in Requests, WasRead(r1)', WasRead(r2)',
                    r1 \in before'[r2], doc'[r1] = doc'[r2],
                    NEW c \in found'[r1], c \in rows'
             PROVE  \E d \in found'[r2] : d.at >= c.at
  BY DEF ReadsNeverGoBack, WasRead
<1>1. r1 \in before[r2] /\ doc'[r2] = doc[r2]
  BY ReadAnswer
<1>2. pc[r1] = "done"
  BY <1>1, BeforeAnswered
<1>3. WasRead(r1) /\ c \in found[r1] /\ doc'[r1] = doc[r1]
  BY <1>2, ReadAnswer DEF ReadRow
<1>4. c \in rows
  <2>1. ~c.deleted /\ (c.by # Earlier => Landed(c.by))
    BY <1>3 DEF ReadInv
  <2>2. ~(c.by \in Requests /\ Insert(c.by))
    BY <2>1, ConstantsOK DEF Insert, PhaseInv, Landed
  <2> QED BY <2>1, <2>2, RowOrigin
<1>5. CASE WasRead(r2) /\ found'[r2] = found[r2]
  BY <1>1, <1>3, <1>4, <1>5 DEF ReadsNeverGoBack, WasRead
<1>6. CASE ReadRow(r2) /\ kind[r2] = "read"
  <2>1. c.id = doc[r2] /\ ~c.deleted
    BY <1>1, <1>3 DEF ReadInv
  <2>2. c.at <= at[r2]
    BY <1>1, <1>3, <1>6 DEF ReadInv, ReadRow
  <2> DEFINE S == {q \in Live(rows, doc[r2]) : q.at <= at[r2]}
  <2>3. c \in S /\ S \subseteq rows
    BY <1>4, <2>1, <2>2 DEF Live
  <2>4. found'[r2] \in First(Newest(S))
    BY <1>6 DEF ReadRow, TypeOK, AsOf
  <2> HIDE DEF S
  <2> QED BY <2>3, <2>4, NewestOfRows
<1> QED BY <1>5, <1>6, ReadAnswer

\* Whatever the lag of the clocks and the traits of the table: a read that
\* arrives after another was answered does not go back to an older version of
\* the document (repo.read).
THEOREM NeverBack == Spec => []ReadsNeverGoBack
<1>1. Init => ReadInv /\ ReadsNeverGoBack
  BY DEF Init, ReadInv, ReadsNeverGoBack, WasRead, Queried
<1>2. IInv /\ ReadInv /\ ReadsNeverGoBack /\ [Next]_vars => ReadInv' /\ ReadsNeverGoBack'
  BY ReadStep, NeverBackStep
<1> QED BY <1>1, <1>2, Invariance, PTL DEF Spec

(***************************************************************************)
(* Retries of a create.                                                    *)
(***************************************************************************)

\* Every version stays, deleted or not, with its id and its stamp.
LEMMA RowKept ==
    ASSUME TypeOK, PhaseInv, [Next]_vars, NEW q \in rows
    PROVE  \E p \in rows' : p.id = q.id /\ p.at = q.at
<1>1. CASE rows' = rows
  BY <1>1
<1>2. CASE \E r \in Requests : Insert(r)
  BY <1>2 DEF Insert
<1>3. ASSUME NEW r \in Requests, Mark(r) PROVE \E p \in rows' : p.id = q.id /\ p.at = q.at
  <2> DEFINE m == IF q.id = doc[r] THEN [q EXCEPT !.deleted = TRUE] ELSE q
  <2>1. m \in rows'
    BY <1>3 DEF Mark, MarkDeleted
  <2>2. m.id = q.id /\ m.at = q.at
    BY DEF TypeOK, Row
  <2> QED BY <2>1, <2>2
<1> QED BY <1>1, <1>2, <1>3, TableStep

\* A document has finitely many stamps before a given time.
LEMMA TimesFinite ==
    ASSUME NEW S, S \subseteq Row, NEW i, NEW t \in Nat
    PROVE  IsFiniteSet(Times(S, i, t)) /\ Cardinality(Times(S, i, t)) \in Nat
<1>1. Times(S, i, t) \in SUBSET (0 .. t)
  BY DEF Times, Row
<1>2. IsFiniteSet(0 .. t)
  BY FS_Interval
<1>3. IsFiniteSet(Times(S, i, t))
  BY <1>1, <1>2, FS_Subset
<1> QED BY <1>3, FS_CardinalityType

\* Until a later time, and in a later table, it has as many stamps or more.
LEMMA TimesGrow ==
    ASSUME NEW S, NEW T, T \subseteq Row, NEW i, NEW t \in Nat, NEW u \in Nat, t <= u,
           \A q \in S : q.at \in Nat /\ \E p \in T : p.id = q.id /\ p.at = q.at
    PROVE  Cardinality(Times(S, i, t)) <= Cardinality(Times(T, i, u))
<1>1. Times(S, i, t) \in SUBSET Times(T, i, u)
  BY DEF Times
<1> QED BY <1>1, TimesFinite, FS_Subset

\* The version an insert meets is one stamp more.
LEMMA ClashCounts ==
    ASSUME NEW S, S \subseteq Row, NEW i, NEW t \in Nat, Clash(S, i, t)
    PROVE  Cardinality(Times(S, i, t)) < Cardinality(Times(S, i, t + 1))
<1>1. t \notin Times(S, i, t)
  BY DEF Times, Row
<1>2. Times(S, i, t) \cup {t} \in SUBSET Times(S, i, t + 1)
  <2>1. \A q \in S : q.at \in Nat
    BY DEF Row
  <2> QED BY <2>1 DEF Times, Clash
<1>3. t + 1 \in Nat
  OBVIOUS
<1>4. /\ IsFiniteSet(Times(S, i, t)) /\ IsFiniteSet(Times(S, i, t + 1))
      /\ Cardinality(Times(S, i, t)) \in Nat /\ Cardinality(Times(S, i, t + 1)) \in Nat
  BY <1>3, TimesFinite
<1>5. Cardinality(Times(S, i, t) \cup {t}) = Cardinality(Times(S, i, t)) + 1
  BY <1>1, <1>4, FS_AddElement
<1>6. Cardinality(Times(S, i, t) \cup {t}) <= Cardinality(Times(S, i, t + 1))
  BY <1>2, <1>4, FS_Subset
<1> QED BY <1>4, <1>5, <1>6

\* The versions of one document are finitely many after every step.
LEMMA VersionsFinite ==
    ASSUME TypeOK, PhaseInv, [Next]_vars, NEW i, IsFiniteSet({q \in rows : q.id = i})
    PROVE  IsFiniteSet({q \in rows' : q.id = i})
<1> DEFINE D == {q \in rows : q.id = i}
<1>1. CASE rows' = rows
  BY <1>1
<1>2. CASE \E r \in Requests : Insert(r)
  <2>1. PICK v : rows' = rows \cup {v}
    BY <1>2, InsertedRow
  <2>2. {q \in rows' : q.id = i} \in SUBSET (D \cup {v})
    BY <2>1
  <2>3. IsFiniteSet(D \cup {v})
    BY FS_AddElement
  <2> QED BY <2>2, <2>3, FS_Subset
<1>3. ASSUME NEW r \in Requests, Mark(r) PROVE IsFiniteSet({q \in rows' : q.id = i})
  <2> DEFINE m(q) == IF q.id = doc[r] THEN [q EXCEPT !.deleted = TRUE] ELSE q
             f == [q \in D |-> m(q)]
             T == {m(q) : q \in D}
  <2>1. \A q \in rows : m(q).id = q.id
    BY DEF TypeOK, Row
  <2>2. rows' = {m(q) : q \in rows}
    BY <1>3 DEF Mark, MarkDeleted
  <2>3. IsFiniteSet(T)
    <3>1. f \in Surjection(D, T)
      BY DEF Surjection
    <3> HIDE DEF f, T, D
    <3> QED BY <3>1, FS_Surjection DEF D
  <2>4. {q \in rows' : q.id = i} \in SUBSET T
    <3> HIDE DEF m
    <3> QED BY <2>1, <2>2
  <2> HIDE DEF T
  <2> QED BY <2>3, <2>4, FS_Subset
<1> QED BY <1>1, <1>2, <1>3, TableStep

\* What a step may do to the retries of a create.
RetryKept ==
    \A r \in Requests :
        /\ pc'[r] \in {"idle", "lookup", "stamp"} =>
              pc[r] \in {"idle", "lookup", "stamp"} /\ tries'[r] = tries[r]
        /\ pc'[r] = "insert" =>
              \/ pc[r] = "insert" /\ at'[r] = at[r] /\ tries'[r] = tries[r]
              \/ pc[r] \in {"idle", "stamp"} /\ tries'[r] = tries[r]
              \/ Retry(r)
        /\ pc'[r] = "wait" =>
              \/ pc[r] = "wait" /\ at'[r] = at[r] /\ tries'[r] = tries[r]
              \/ Duplicate(r)

\* A create is sent once, and again by a retry only.
LEMMA RetryTrace ==
    ASSUME TypeOK, PhaseInv, [Next]_vars
    PROVE  RetryKept
<1> USE DEF RetryKept
<1>1. ASSUME NEW r \in Requests, Arrives(r) PROVE RetryKept
  <2>1. /\ pc[r] = "idle" /\ tries' = tries
        /\ \E next \in {"reply", "insert", "lookup", "scan"} : pc' = [pc EXCEPT ![r] = next]
    BY <1>1 DEF Arrives, Refuse, Create, Lookup, Scan, Arrive
  <2>2. \/ at' = at
        \/ at' = [at EXCEPT ![r] = StampTime]
        \/ at' = [at EXCEPT ![r] = appNow]
    BY <1>1 DEF Arrives, Refuse, Create, Lookup, Scan
  <2>3. \A s \in Requests \ {r} : at'[s] = at[s]
    BY <2>2 DEF TypeOK
  <2> QED BY <2>1, <2>3 DEF TypeOK
<1>2. ASSUME NEW r \in Requests, ReadRow(r) PROVE RetryKept
  <2>1. PICK c \in First(AsOf(rows, doc[r], at[r])), ok \in Permitted :
          pc' = [pc EXCEPT ![r] = AfterLookup(r, c, ok)[1]]
    BY <1>2 DEF ReadRow
  <2>2. AfterLookup(r, c, ok)[1] \in {"reply", "stamp", "mark"}
    BY <1>2, AfterLookupType, ConstantsOK DEF ReadRow, PhaseInv
  <2>3. pc[r] = "lookup" /\ at' = [at EXCEPT ![r] = 0] /\ tries' = tries
    BY <1>2 DEF ReadRow
  <2> QED BY <2>1, <2>2, <2>3 DEF TypeOK
<1>3. ASSUME NEW r \in Requests, ScanRows(r) \/ Insert(r) \/ FailQuietly(r) PROVE RetryKept
  <2>1. /\ pc' = [pc EXCEPT ![r] = "reply"] /\ at' = [at EXCEPT ![r] = 0]
        /\ tries' = tries
    BY <1>3 DEF ScanRows, Insert, FailQuietly
  <2> QED BY <2>1 DEF TypeOK
<1>4. ASSUME NEW r \in Requests, Mark(r) \/ Reply(r) PROVE RetryKept
  BY <1>4 DEF Mark, Reply, TypeOK
<1>5. ASSUME NEW r \in Requests, Stamp(r) PROVE RetryKept
  BY <1>5 DEF Stamp, TypeOK
<1>6. ASSUME NEW r \in Requests, Duplicate(r) PROVE RetryKept
  <2>1. pc' = [pc EXCEPT ![r] = "wait"] /\ at' = at /\ tries' = tries
    BY <1>6 DEF Duplicate
  <2> QED BY <1>6, <2>1 DEF TypeOK
<1>7. ASSUME NEW r \in Requests, Retry(r) PROVE RetryKept
  <2>1. /\ pc' = [pc EXCEPT ![r] = "insert"]
        /\ \A s \in Requests \ {r} : at'[s] = at[s] /\ tries'[s] = tries[s]
    BY <1>7 DEF Retry, TypeOK
  <2> QED BY <1>7, <2>1 DEF TypeOK
<1>8. CASE UNCHANGED <<pc, at, tries>>
  BY <1>8
<1>9. \/ UNCHANGED <<pc, at, tries>>
      \/ \E r \in Requests : \/ Arrives(r) \/ ReadRow(r) \/ ScanRows(r) \/ Insert(r)
                             \/ FailQuietly(r) \/ Mark(r) \/ Reply(r) \/ Stamp(r)
                             \/ Duplicate(r) \/ Retry(r)
  BY DEF Next, vars, Tick, Quiet, Step, Executes, Resumes, Breaks, Throw, FailLoudly
<1> HIDE DEF RetryKept
<1> QED BY <1>1, <1>2, <1>3, <1>4, <1>5, <1>6, <1>7, <1>8, <1>9

\* The process dies of the requests it serves, and without a failed statement
\* of a duplicate version only.
LEMMA DeathStep ==
    ASSUME [Next]_vars
    PROVE  /\ lost' = lost \/ lost' = lost \cup (Arrived \ Answered)
           /\ failed' = {} => failed = {}
           /\ failed' = {} =>
                 lost' = lost \/ \E r \in Requests : Throw(r)
<1>1. \/ UNCHANGED <<lost, failed>>
      \/ \E r \in Requests : Throw(r) \/ Breaks(r)
  <2>1. ASSUME NEW r \in Requests, Arrives(r) PROVE UNCHANGED <<lost, failed>>
    BY <2>1 DEF Arrives, Arrive, Refuse, Create, Lookup, Scan
  <2>2. ASSUME NEW r \in Requests, Executes(r) PROVE UNCHANGED <<lost, failed>>
    BY <2>2 DEF Executes, ReadRow, ScanRows, Insert, Mark
  <2>3. ASSUME NEW r \in Requests, Resumes(r), ~Throw(r) PROVE UNCHANGED <<lost, failed>>
    BY <2>3 DEF Resumes, Stamp, Duplicate, Retry, Reply
  <2>4. CASE Tick \/ Quiet \/ UNCHANGED vars
    BY <2>4 DEF Tick, Quiet, vars
  <2> QED BY <2>1, <2>2, <2>3, <2>4 DEF Next, Step
<1>2. ASSUME NEW r \in Requests, Throw(r)
      PROVE  failed' = failed /\ lost' = lost \cup (Arrived \ Answered)
  BY <1>2 DEF Throw, ProcessDies
<1>3. ASSUME NEW r \in Requests, Breaks(r)
      PROVE  failed' # {} /\ (lost' = lost \/ lost' = lost \cup (Arrived \ Answered))
  BY <1>3 DEF Breaks, FailQuietly, FailLoudly, Fails, ProcessDies
<1> QED BY <1>1, <1>2, <1>3

\* Every step keeps the count of the versions the retries met.
LEMMA TriesStep ==
    ASSUME TypeOK, PhaseInv, ClockInv, RetryInv, [Next]_vars, NEW r \in Requests
    PROVE  /\ pc'[r] \in {"idle", "lookup", "stamp"} => tries'[r] = 0
           /\ pc'[r] = "insert" => tries'[r] <= Cardinality(Times(rows', doc'[r], at'[r]))
           /\ pc'[r] = "wait" => tries'[r] < Cardinality(Times(rows', doc'[r], at'[r] + 1))
<1>1. /\ tries[r] \in Nat /\ tries'[r] \in Nat /\ at[r] \in Nat /\ at'[r] \in Nat
      /\ at[r] + 1 \in Nat /\ now \in Nat /\ rows \subseteq Row /\ rows' \subseteq Row
  BY TypePhaseStep DEF TypeOK
<1>2. pc[r] # "idle" => doc'[r] = doc[r]
  BY HistoryStep DEF StepKept, HistoryKept
<1>3. ASSUME NEW i, NEW t \in Nat, NEW u \in Nat, t <= u
      PROVE  /\ Cardinality(Times(rows, i, t)) <= Cardinality(Times(rows', i, u))
             /\ Cardinality(Times(rows, i, t)) \in Nat
             /\ Cardinality(Times(rows', i, u)) \in Nat
  <2>1. \A q \in rows : q.at \in Nat /\ \E p \in rows' : p.id = q.id /\ p.at = q.at
    BY <1>1, RowKept DEF Row
  <2> QED BY <1>1, <1>3, <2>1, TimesGrow, TimesFinite
<1>4. RetryKept
  BY RetryTrace
<1>5. pc'[r] \in {"idle", "lookup", "stamp"} => tries'[r] = 0
  BY <1>4 DEF RetryKept, RetryInv
<1>6. ASSUME pc'[r] = "insert"
      PROVE  tries'[r] <= Cardinality(Times(rows', doc'[r], at'[r]))
  <2>1. CASE pc[r] = "insert" /\ at'[r] = at[r] /\ tries'[r] = tries[r]
    <3>1. tries[r] <= Cardinality(Times(rows, doc[r], at[r]))
      BY <2>1 DEF RetryInv
    <3>2. doc'[r] = doc[r] /\ at[r] <= at'[r]
      BY <1>1, <1>2, <2>1
    <3> QED BY <1>1, <1>3, <2>1, <3>1, <3>2
  <2>2. CASE pc[r] \in {"idle", "stamp"} /\ tries'[r] = tries[r]
    <3>1. tries'[r] = 0
      BY <2>2 DEF RetryInv
    <3>2. Cardinality(Times(rows', doc'[r], at'[r])) \in Nat
      BY <1>1, TimesFinite
    <3> QED BY <3>1, <3>2
  <2>3. CASE Retry(r)
    <3>1. /\ pc[r] = "wait" /\ at[r] < now /\ at'[r] = now
          /\ tries'[r] = 0 \/ tries'[r] = tries[r] + 1
      BY <2>3 DEF Retry, RetryTime, StampTime, TypeOK
    <3>2. tries[r] < Cardinality(Times(rows, doc[r], at[r] + 1))
      BY <3>1 DEF RetryInv
    <3>3. doc'[r] = doc[r] /\ at[r] + 1 <= at'[r]
      BY <1>1, <1>2, <3>1
    <3>4. /\ Cardinality(Times(rows, doc[r], at[r] + 1))
                <= Cardinality(Times(rows', doc'[r], at'[r]))
          /\ Cardinality(Times(rows, doc[r], at[r] + 1)) \in Nat
          /\ Cardinality(Times(rows', doc'[r], at'[r])) \in Nat
      BY <1>1, <1>3, <3>3
    <3> QED BY <1>1, <3>1, <3>2, <3>4
  <2> QED BY <1>4, <1>6, <2>1, <2>2, <2>3 DEF RetryKept
<1>7. ASSUME pc'[r] = "wait"
      PROVE  tries'[r] < Cardinality(Times(rows', doc'[r], at'[r] + 1))
  <2>1. /\ pc[r] \in {"insert", "wait"} /\ at'[r] = at[r] /\ tries'[r] = tries[r]
        /\ tries[r] < Cardinality(Times(rows, doc[r], at[r] + 1))
    <3>1. CASE pc[r] = "wait" /\ at'[r] = at[r] /\ tries'[r] = tries[r]
      BY <3>1 DEF RetryInv
    <3>2. CASE Duplicate(r)
      <4>1. /\ pc[r] = "insert" /\ at' = at /\ tries' = tries
            /\ Clash(rows, doc[r], at[r])
        BY <3>2 DEF Duplicate
      <4>2. tries[r] <= Cardinality(Times(rows, doc[r], at[r]))
        BY <4>1 DEF RetryInv
      <4>3. Cardinality(Times(rows, doc[r], at[r]))
               < Cardinality(Times(rows, doc[r], at[r] + 1))
        BY <1>1, <4>1, ClashCounts
      <4>4. /\ Cardinality(Times(rows, doc[r], at[r])) \in Nat
            /\ Cardinality(Times(rows, doc[r], at[r] + 1)) \in Nat
        BY <1>1, TimesFinite
      <4> QED BY <1>1, <4>1, <4>2, <4>3, <4>4
    <3> QED BY <1>4, <1>7, <3>1, <3>2 DEF RetryKept
  <2>2. doc'[r] = doc[r] /\ at[r] + 1 <= at'[r] + 1 /\ at'[r] + 1 \in Nat
    BY <1>1, <1>2, <2>1
  <2>3. /\ Cardinality(Times(rows, doc[r], at[r] + 1))
              <= Cardinality(Times(rows', doc'[r], at'[r] + 1))
        /\ Cardinality(Times(rows, doc[r], at[r] + 1)) \in Nat
        /\ Cardinality(Times(rows', doc'[r], at'[r] + 1)) \in Nat
    BY <1>1, <1>3, <2>2
  <2> QED BY <1>1, <2>1, <2>3
<1> QED BY <1>5, <1>6, <1>7

\* A create that gives up met a version more than it may retry.
LEMMA ThrowCounts ==
    ASSUME TypeOK, ClockInv, RetryInv, NEW r \in Requests, Throw(r)
    PROVE  /\ MaxRetries # Unbounded /\ r \in lost'
           /\ Cardinality(Times(rows, doc[r], now + 1)) > MaxRetries
<1>1. /\ pc[r] = "insert" /\ Clash(rows, doc[r], at[r]) /\ ~MayRetry(r)
      /\ lost' = lost \cup (Arrived \ Answered)
  BY DEF Throw, ProcessDies
<1>2. /\ tries[r] \in Nat /\ at[r] \in Nat /\ at[r] + 1 \in Nat /\ now + 1 \in Nat
      /\ at[r] + 1 <= now + 1 /\ rows \subseteq Row
  BY DEF TypeOK, ClockInv
<1>3. MaxRetries # Unbounded /\ MaxRetries \in Nat /\ MaxRetries <= tries[r]
  BY <1>1, <1>2, ConstantsOK DEF MayRetry
<1>4. r \in lost'
  BY <1>1 DEF Arrived, Answered
<1>5. tries[r] <= Cardinality(Times(rows, doc[r], at[r]))
  BY <1>1 DEF RetryInv
<1>6. Cardinality(Times(rows, doc[r], at[r])) < Cardinality(Times(rows, doc[r], at[r] + 1))
  BY <1>1, <1>2, ClashCounts
<1>7. Cardinality(Times(rows, doc[r], at[r] + 1)) <= Cardinality(Times(rows, doc[r], now + 1))
  <2>1. \A q \in rows : q.at \in Nat /\ \E p \in rows : p.id = q.id /\ p.at = q.at
    BY <1>2 DEF Row
  <2> QED BY <1>2, <2>1, TimesGrow
<1>8. /\ Cardinality(Times(rows, doc[r], at[r])) \in Nat
      /\ Cardinality(Times(rows, doc[r], at[r] + 1)) \in Nat
      /\ Cardinality(Times(rows, doc[r], now + 1)) \in Nat
  BY <1>2, TimesFinite
<1> QED BY <1>2, <1>3, <1>4, <1>5, <1>6, <1>7, <1>8

\* Every step keeps what is known of the retries and of the death they cause.
LEMMA RetryStep ==
    ASSUME IInv, RetryInv, [Next]_vars
    PROVE  RetryInv'
<1> USE DEF IInv
<1>1. \A i \in Ids : IsFiniteSet({q \in rows' : q.id = i})
  BY VersionsFinite DEF RetryInv
<1>2. \A r \in lost' : pc'[r] # "idle"
  <2>1. lost' \subseteq lost \cup Arrived
    BY DeathStep
  <2>2. \A r \in lost' : r \in Requests /\ pc[r] # "idle"
    BY <2>1 DEF Arrived, RetryInv, TypeOK
  <2> QED BY <2>2, HistoryStep DEF StepKept, HistoryKept
<1>3. ASSUME lost' # {}, failed' = {}
      PROVE  /\ MaxRetries # Unbounded
             /\ \E r \in lost' : Cardinality(Times(rows', doc'[r], now' + 1)) > MaxRetries
  <2>1. failed = {} /\ lost \subseteq lost'
    BY <1>3, DeathStep
  <2>2. MaxRetries # Unbounded /\ \E r \in lost' :
            r \in Requests /\ pc[r] # "idle"
            /\ Cardinality(Times(rows, doc[r], now + 1)) > MaxRetries
    <3>1. CASE lost' = lost
      BY <1>3, <2>1, <3>1 DEF RetryInv, TypeOK
    <3>2. ASSUME NEW r \in Requests, Throw(r)
          PROVE  /\ MaxRetries # Unbounded /\ r \in lost' /\ pc[r] # "idle"
                 /\ Cardinality(Times(rows, doc[r], now + 1)) > MaxRetries
      BY <3>2, ThrowCounts DEF Throw
    <3> QED BY <1>3, <3>1, <3>2, DeathStep
  <2>3. PICK r \in lost' : /\ r \in Requests /\ pc[r] # "idle"
                           /\ Cardinality(Times(rows, doc[r], now + 1)) > MaxRetries
    BY <2>2
  <2>4. doc'[r] = doc[r] /\ now' >= now
    BY <2>3, HistoryStep DEF StepKept, HistoryKept
  <2>5. /\ now \in Nat /\ now' \in Nat /\ now + 1 <= now' + 1
        /\ rows \subseteq Row /\ rows' \subseteq Row
    BY <2>4, TypePhaseStep DEF TypeOK
  <2>6. \A q \in rows : q.at \in Nat /\ \E p \in rows' : p.id = q.id /\ p.at = q.at
    BY <2>5, RowKept DEF Row
  <2>7. Cardinality(Times(rows, doc[r], now + 1)) <= Cardinality(Times(rows', doc'[r], now' + 1))
    BY <2>4, <2>5, <2>6, TimesGrow
  <2>8. MaxRetries \in Nat
    BY <2>2, ConstantsOK
  <2>9. /\ Cardinality(Times(rows, doc[r], now + 1)) \in Nat
        /\ Cardinality(Times(rows', doc'[r], now' + 1)) \in Nat
    BY <2>5, TimesFinite
  <2>10. Cardinality(Times(rows', doc'[r], now' + 1)) > MaxRetries
    BY <2>3, <2>7, <2>8, <2>9
  <2> QED BY <2>2, <2>10
<1>4. \A r \in Requests :
         /\ pc'[r] \in {"idle", "lookup", "stamp"} => tries'[r] = 0
         /\ pc'[r] = "insert" => tries'[r] <= Cardinality(Times(rows', doc'[r], at'[r]))
         /\ pc'[r] = "wait" => tries'[r] < Cardinality(Times(rows', doc'[r], at'[r] + 1))
  BY TriesStep
<1> QED BY <1>1, <1>2, <1>3, <1>4 DEF RetryInv

\* Nothing was stored twice or retried in the first state.
LEMMA InitRetryInv == Init => RetryInv
<1> SUFFICES ASSUME Init PROVE RetryInv
  OBVIOUS
<1>1. ASSUME NEW i \in Ids PROVE IsFiniteSet({q \in rows : q.id = i})
  <2> DEFINE v(j) == [id |-> j, at |-> 0, deleted |-> FALSE, by |-> Earlier]
  <2>1. rows = {v(j) : j \in Stored} /\ \A j : v(j).id = j
    BY DEF Init
  <2> HIDE DEF v
  <2>2. {q \in rows : q.id = i} \in SUBSET {v(i)}
    BY <2>1
  <2>3. IsFiniteSet({v(i)})
    BY FS_Singleton
  <2> QED BY <2>2, <2>3, FS_Subset
<1> QED BY <1>1 DEF Init, RetryInv

\* The process dies of a duplicate version only when one document has more
\* versions than a create may retry, and never where retries are unbounded
\* (repo.create).
THEOREM DeathOfContention == Spec => []DeathNeedsContention
<1>1. ASSUME IInv, RetryInv PROVE DeathNeedsContention
  <2> SUFFICES ASSUME lost # {}, failed = {}
               PROVE  \E r \in lost : Cardinality({q \in rows : q.id = doc[r]}) > MaxRetries
    BY DEF DeathNeedsContention
  <2>1. MaxRetries \in Nat
    BY <1>1, ConstantsOK DEF RetryInv
  <2>2. PICK r \in lost : Cardinality(Times(rows, doc[r], now + 1)) > MaxRetries
    BY <1>1 DEF RetryInv
  <2>3. doc[r] \in Ids
    BY <1>1 DEF IInv, TypeOK, PhaseInv, RetryInv
  <2> DEFINE D == {q \in rows : q.id = doc[r]}
             f == [q \in D |-> q.at]
             T == Times(rows, doc[r], now + 1)
  <2>4. IsFiniteSet(D)
    BY <1>1, <2>3 DEF RetryInv
  <2>5. f \in Surjection(D, T)
    <3>1. T = {q.at : q \in D}
      <4>1. \A q \in rows : q.at < now + 1
        <5>1. now \in Nat /\ \A q \in rows : q.at \in Nat /\ q.at <= now
          BY <1>1 DEF IInv, TypeOK, ClockInv, Row
        <5> QED BY <5>1
      <4> QED BY <4>1 DEF Times
    <3> QED BY <3>1 DEF Surjection
  <2> HIDE DEF D, f, T
  <2>6. Cardinality(T) <= Cardinality(D) /\ IsFiniteSet(T)
    BY <2>4, <2>5, FS_Surjection
  <2>7. Cardinality(T) \in Nat /\ Cardinality(D) \in Nat
    BY <2>4, <2>6, FS_CardinalityType
  <2>8. Cardinality(T) > MaxRetries
    BY <2>2 DEF T
  <2>9. Cardinality(D) > MaxRetries
    BY <2>1, <2>6, <2>7, <2>8
  <2> QED BY <2>9 DEF D
<1>2. IInv /\ RetryInv /\ [Next]_vars => RetryInv'
  BY RetryStep
<1> QED BY <1>1, <1>2, InitRetryInv, Invariance, PTL DEF Spec
=============================================================================
