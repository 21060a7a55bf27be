------------------------- MODULE RestletteStoreProofs -------------------------
(***************************************************************************)
(* A restlette on a table with UNIQUE (id, created_at), one clock and a    *)
(* driver that hides no failure implements DocumentStore, step by step.    *)
(***************************************************************************)
EXTENDS RestletteStore, RestletteProofs

\* SQLite and MySQL: not Mongo (no constraint, failures hidden) and not
\* Postgres (two clocks).
Linear == Unique /\ MaxLag = 0 /\ ~Swallow

\* What a waiting query can be answered with is in its history.
StoreInv ==
    /\ \A r \in Requests :
          /\ pc[r] = "idle" => doc[r] = NoDoc
          /\ pc[r] \notin {"lookup", "scan"} => seen[r] = {}
          /\ pc[r] \in {"lookup", "scan"} =>
                /\ Author(Latest(rows, doc[r])) \in seen[r]
                /\ Author(AsOf(rows, doc[r], at[r])) \in seen[r]
    /\ seen = [r \in Requests |-> seen[r]]
    /\ \A q \in rows : q.by = Earlier => q.id \in Stored

(***************************************************************************)
(* The newest version, and whose it is.                                    *)
(***************************************************************************)

\* Of one version the author is its writer, of none it is nobody.
LEMMA AuthorOne ==
    /\ Author({}) = Nobody
    /\ \A x : Author({x}) = x.by
<1> SUFFICES ASSUME NEW x PROVE Author({x}) = x.by
  BY DEF Author
<1>1. (CHOOSE q \in {x} : TRUE) = x
  OBVIOUS
<1> QED BY <1>1 DEF Author

\* On a UNIQUE table one version of a document is the newest.
LEMMA OneNewest ==
    ASSUME TypeOK, RowsInv, Unique, NEW i, NEW S, S \subseteq Live(rows, i)
    PROVE  Newest(S) = {} \/ \E x \in S : Newest(S) = {x}
<1> SUFFICES ASSUME NEW x \in Newest(S), NEW y \in Newest(S) PROVE x = y
  BY DEF Newest
<1>1. x \in rows /\ y \in rows /\ x.id = y.id
  BY DEF Newest, Live
<1>2. x.at \in Nat /\ y.at \in Nat
  BY <1>1 DEF TypeOK, Row
<1>3. x.at = y.at
  BY <1>2 DEF Newest
<1> QED BY <1>1, <1>3 DEF RowsInv

\* A version more is the newest, or changes nothing.
LEMMA NewestOfMore ==
    ASSUME NEW S, NEW v, \A q \in S \cup {v} : q.at \in Nat, \A q \in S : q.at # v.at
    PROVE  \/ Newest(S \cup {v}) = {v} /\ \A q \in S : q.at < v.at
           \/ Newest(S \cup {v}) = Newest(S) /\ \E q \in S : q.at > v.at
<1>1. CASE \A q \in S : q.at < v.at
  <2>1. v \in Newest(S \cup {v})
    BY <1>1 DEF Newest
  <2>2. \A q \in S : q \notin Newest(S \cup {v}) \/ q = v
    BY <1>1 DEF Newest
  <2> QED BY <1>1, <2>1, <2>2 DEF Newest
<1>2. ASSUME NEW q \in S, q.at > v.at
      PROVE  Newest(S \cup {v}) = Newest(S)
  <2>1. v \notin Newest(S)
    BY <1>2 DEF Newest
  <2>2. \A p \in Newest(S) : p.at > v.at
    BY <1>2 DEF Newest
  <2> QED BY <1>2, <2>1, <2>2 DEF Newest
<1> QED BY <1>1, <1>2

\* What an insert makes of its document, and that it leaves the others alone.
LEMMA InsertedLive ==
    ASSUME TypeOK, PhaseInv, RowsInv, Unique, NEW r \in Requests, Insert(r)
    PROVE  \E v \in Row :
              /\ v.by = r /\ v.at = at[r] /\ v \notin rows
              /\ Live(rows', doc[r]) = Live(rows, doc[r]) \cup {v}
              /\ \A q \in Live(rows, doc[r]) : q.at # v.at
              /\ \A i : i # doc[r] => Live(rows', i) = Live(rows, i)
<1>1. PICK v \in Row :
        /\ rows' = rows \cup {v}
        /\ v.id = doc[r] /\ v.at = at[r] /\ ~v.deleted /\ v.by = r
        /\ \A q \in rows : ~(q.id = v.id /\ q.at = v.at)
  BY InsertedRow
<1> QED BY <1>1 DEF Live

\* A removal empties its document and leaves the others alone.
LEMMA MarkedLive ==
    ASSUME TypeOK, NEW r \in Requests, Mark(r)
    PROVE  /\ Live(rows', doc[r]) = {}
           /\ \A i : i # doc[r] => Live(rows', i) = Live(rows, i)
<1>1. rows' = MarkDeleted(rows, doc[r]) /\ rows \subseteq Row
  BY DEF Mark, TypeOK
<1>2. Live(rows', doc[r]) = {}
  BY <1>1, MarkedRows DEF Live
<1> QED BY <1>1, <1>2, MarkedOthers

(***************************************************************************)
(* What a step makes of the registers and of the history of the queries.   *)
(***************************************************************************)

\* The register of a document after a step.
LEMMA HolderAt == \A i \in Ids : Holder[i] = Author(Latest(rows, i))
                              /\ Holder'[i] = Author(Latest(rows', i))
  BY DEF Holder

\* An insert moves its register on to its own version, unless a version stored
\* by an overlapping write is stamped later.
LEMMA InsertHolder ==
    ASSUME IInv, Linear, NEW r \in Requests, Insert(r)
    PROVE  /\ \A i \in Ids \ {doc[r]} : Passing(i) = {Holder[i]} /\ Holder'[i] = Holder[i]
           /\ \/ Holder' = [Holder EXCEPT ![doc[r]] = r] /\ Passing(doc[r]) = {r}
              \/ /\ Holder' = Holder /\ Passing(doc[r]) = {r, Holder[doc[r]]}
                 /\ Holder[doc[r]] \notin before[r] \cup {Earlier, Nobody}
<1> USE DEF IInv
<1> DEFINE d == doc[r]
           L == Live(rows, d)
<1>1. d \in Ids /\ pc[r] = "insert"
  BY DEF Insert, PhaseInv
<1>2. PICK v \in Row :
        /\ v.by = r /\ v.at = at[r] /\ v \notin rows
        /\ Live(rows', d) = L \cup {v}
        /\ \A q \in L : q.at # v.at
        /\ \A i : i # d => Live(rows', i) = Live(rows, i)
  BY InsertedLive DEF Linear
<1>3. ASSUME NEW i \in Ids \ {d}
      PROVE  Passing(i) = {Holder[i]} /\ Holder'[i] = Holder[i]
  <2>1. Live(rows', i) = Live(rows, i)
    BY <1>2
  <2>2. Holder'[i] = Holder[i]
    BY <2>1, HolderAt DEF Latest
  <2>3. Live(rows', i) \ rows = {}
    BY <2>1 DEF Live
  <2> QED BY <2>2, <2>3 DEF Passing
<1>4. L \subseteq rows /\ \A q \in L : q.at \in Nat /\ q.at <= now /\ q \in Row
  BY DEF Live, ClockInv, TypeOK, Row
<1>5. Passing(d) = {r, Holder'[d]}
  <2>1. Live(rows', d) \ rows = {v}
    BY <1>2, <1>4
  <2> QED BY <1>2, <2>1 DEF Passing
<1>6. \/ Newest(L \cup {v}) = {v}
      \/ Newest(L \cup {v}) = Newest(L) /\ \E q \in L : q.at > v.at
  <2> HIDE DEF L
  <2>1. \A q \in L \cup {v} : q.at \in Nat
    BY <1>4 DEF Row
  <2> QED BY <1>2, <2>1, NewestOfMore
<1>7. CASE Newest(L \cup {v}) = {v}
  <2>1. Holder'[d] = r
    <3>1. Latest(rows', d) = {v}
      BY <1>2, <1>7 DEF Latest
    <3>2. Author({v}) = r
      BY <1>2, AuthorOne
    <3> QED BY <1>1, <3>1, <3>2, HolderAt
  <2>2. Holder' = [Holder EXCEPT ![d] = r]
    BY <1>1, <1>3, <2>1 DEF Holder
  <2> QED BY <1>3, <1>5, <2>1, <2>2
<1>8. CASE Newest(L \cup {v}) = Newest(L) /\ \E q \in L : q.at > v.at
  <2>1. Holder'[d] = Holder[d]
    BY <1>1, <1>2, <1>8, HolderAt DEF Latest
  <2>2. Holder' = Holder
    BY <1>3, <2>1 DEF Holder
  <2>3. Newest(L) # {}
    <3> HIDE DEF L
    <3>1. now \in Nat
      BY DEF TypeOK
    <3> QED BY <1>4, <1>8, <3>1, NewestExists
  <2>4. PICK x \in L : Newest(L) = {x}
    BY <2>3, OneNewest DEF Linear
  <2>5. x.at > at[r]
    <3>1. PICK q \in L : q.at > v.at
      BY <1>8
    <3>2. q.at <= x.at
      BY <2>4 DEF Newest
    <3> QED BY <1>2, <1>4, <3>1, <3>2 DEF Row
  <2>6. ~Precedes(x, r)
    BY <1>1, <1>4, <2>5 DEF StampInv, TypeOK
  <2>7. Holder[d] = x.by /\ x.by \in Requests \cup {Earlier}
    BY <1>1, <1>4, <2>4, HolderAt, AuthorOne DEF Latest, Row
  <2>8. Holder[d] \notin before[r] \cup {Earlier, Nobody}
    BY <2>6, <2>7, NobodyIsNobody DEF Precedes
  <2> QED BY <1>3, <1>5, <2>1, <2>2, <2>8
<1> QED BY <1>6, <1>7, <1>8

\* A removal empties its register.
LEMMA MarkHolder ==
    ASSUME TypeOK, PhaseInv, NEW r \in Requests, Mark(r)
    PROVE  /\ \A i \in Ids \ {doc[r]} : Passing(i) = {Holder[i]} /\ Holder'[i] = Holder[i]
           /\ Holder' = [Holder EXCEPT ![doc[r]] = Nobody]
           /\ Passing(doc[r]) = {Nobody}
<1>1. doc[r] \in Ids
  BY DEF Mark, PhaseInv
<1>2. ASSUME NEW i \in Ids \ {doc[r]}
      PROVE  Passing(i) = {Holder[i]} /\ Holder'[i] = Holder[i]
  <2>1. Live(rows', i) = Live(rows, i)
    BY MarkedLive
  <2>2. Holder'[i] = Holder[i]
    BY <2>1, HolderAt DEF Latest
  <2>3. Live(rows', i) \ rows = {}
    BY <2>1 DEF Live
  <2> QED BY <2>2, <2>3 DEF Passing
<1>3. Live(rows', doc[r]) = {}
  BY MarkedLive
<1>4. Holder'[doc[r]] = Nobody
  <2>1. Latest(rows', doc[r]) = {}
    BY <1>3 DEF Latest, Newest
  <2> QED BY <1>1, <2>1, HolderAt, AuthorOne
<1>5. Holder' = [Holder EXCEPT ![doc[r]] = Nobody]
  BY <1>1, <1>2, <1>4 DEF Holder
<1>6. Passing(doc[r]) = {Nobody}
  BY <1>3, <1>4 DEF Passing
<1> QED BY <1>2, <1>5, <1>6

\* A step that leaves the table alone shows what the registers hold.
LEMMA StillPassing ==
    ASSUME rows' = rows
    PROVE  Holder' = Holder /\ \A i : Passing(i) = {Holder[i]}
<1>1. Holder' = Holder
  BY DEF Holder
<1>2. \A i : Live(rows', i) \ rows = {}
  BY DEF Live
<1> QED BY <1>1, <1>2 DEF Passing

\* What a read with the bound of r may return after an insert: what it could
\* before, or the version stored.
LEMMA InsertAsOf ==
    ASSUME TypeOK, PhaseInv, RowsInv, Unique, NEW r \in Requests, Insert(r),
           NEW i \in Ids, NEW t \in Nat
    PROVE  \/ AsOf(rows', i, t) = AsOf(rows, i, t)
           \/ Author(AsOf(rows', i, t)) \in Passing(i)
<1>1. PICK v \in Row :
        /\ v.by = r /\ v.at = at[r] /\ v \notin rows
        /\ Live(rows', doc[r]) = Live(rows, doc[r]) \cup {v}
        /\ \A q \in Live(rows, doc[r]) : q.at # v.at
        /\ \A j : j # doc[r] => Live(rows', j) = Live(rows, j)
  BY InsertedLive
<1>2. CASE i # doc[r] \/ v.at > t
  <2>1. v.at \in Nat
    BY DEF Row
  <2>2. {q \in Live(rows', i) : q.at <= t} = {q \in Live(rows, i) : q.at <= t}
    BY <1>1, <1>2, <2>1
  <2> QED BY <2>2 DEF AsOf
<1>3. CASE i = doc[r] /\ v.at <= t
  <2> DEFINE S == {q \in Live(rows, i) : q.at <= t}
  <2>1. {q \in Live(rows', i) : q.at <= t} = S \cup {v}
    BY <1>1, <1>3
  <2>2. /\ \A q \in S \cup {v} : q.at \in Nat
        /\ \A q \in S : q.at # v.at
    BY <1>1, <1>3 DEF Live, TypeOK, Row
  <2>3. AsOf(rows', i, t) = Newest(S \cup {v}) /\ AsOf(rows, i, t) = Newest(S)
    BY <2>1 DEF AsOf
  <2> HIDE DEF S
  <2>4. AsOf(rows', i, t) = {v} \/ AsOf(rows', i, t) = AsOf(rows, i, t)
    BY <2>2, <2>3, NewestOfMore
  <2>5. Author({v}) = v.by
    BY AuthorOne
  <2>6. v.by \in Passing(i)
    BY <1>1, <1>3 DEF Passing, Live
  <2> QED BY <2>4, <2>5, <2>6
<1> QED BY <1>1, <1>2, <1>3 DEF Row

\* A request that stays idle addresses nothing yet.
LEMMA IdleStays ==
    ASSUME TypeOK, PhaseInv, [Next]_vars, NEW r \in Requests, pc'[r] = "idle"
    PROVE  pc[r] = "idle" /\ doc'[r] = doc[r]
<1>1. ASSUME NEW s \in Requests, Arrives(s) PROVE pc[r] = "idle" /\ doc'[r] = doc[r]
  <2>1. /\ \E next \in {"reply", "insert", "lookup", "scan"} : pc' = [pc EXCEPT ![s] = next]
        /\ \E i \in Ids : doc' = [doc EXCEPT ![s] = i]
    BY <1>1 DEF Arrives, Refuse, Create, Lookup, Scan, Arrive
  <2> QED BY <2>1 DEF TypeOK
<1>2. ASSUME NEW s \in Requests, ReadRow(s) PROVE pc[r] = "idle" /\ doc'[r] = doc[r]
  <2>1. PICK c \in First(AsOf(rows, doc[s], at[s])), ok \in Permitted :
          pc' = [pc EXCEPT ![s] = AfterLookup(s, c, ok)[1]]
    BY <1>2 DEF ReadRow
  <2>2. AfterLookup(s, c, ok)[1] \in {"reply", "stamp", "mark"}
    BY <1>2, AfterLookupType, ConstantsOK DEF ReadRow, PhaseInv
  <2> QED BY <1>2, <2>1, <2>2 DEF ReadRow, TypeOK
<1>3. CASE UNCHANGED <<pc, doc>>
  BY <1>3
<1>4. ASSUME NEW s \in Requests, NEW p \in {"reply", "insert", "wait", "done"},
             pc' = [pc EXCEPT ![s] = p], doc' = doc
      PROVE  pc[r] = "idle" /\ doc'[r] = doc[r]
  BY <1>4 DEF TypeOK
<1>5. \/ UNCHANGED <<pc, doc>>
      \/ \E s \in Requests :
            \/ Arrives(s) \/ ReadRow(s)
            \/ /\ \E p \in {"reply", "insert", "wait", "done"} : pc' = [pc EXCEPT ![s] = p]
               /\ doc' = doc
  BY DEF Next, vars, Tick, Quiet, Step, Executes, Resumes, Breaks, ScanRows, Insert, Mark,
     Stamp, Duplicate, Retry, Throw, Reply, FailQuietly, FailLoudly
<1> QED BY <1>1, <1>2, <1>3, <1>4, <1>5

\* Every step keeps the history of the queries.
LEMMA StoreInvStep ==
    ASSUME IInv, Linear, StoreInv, [StoreNext]_<<vars, seen>>
    PROVE  StoreInv'
<1> USE DEF IInv
<1>1. CASE UNCHANGED <<vars, seen>>
  BY <1>1 DEF vars, StoreInv
<1>2. CASE StoreNext
  <2>1. /\ [Next]_vars
        /\ seen' = [r \in Requests |->
              IF pc'[r] \in {"lookup", "scan"} THEN seen[r] \cup Passing(doc'[r]) ELSE {}]
    BY <1>2 DEF StoreNext
  <2>2. TypeOK' /\ PhaseInv' /\ StepKept /\ ClockInv'
    BY <2>1, TypePhaseStep, HistoryStep, ClockStep
  <2>3. ASSUME NEW r \in Requests, pc'[r] = "idle" PROVE doc'[r] = NoDoc
    BY <2>1, <2>3, IdleStays DEF StoreInv
  <2>4. ASSUME NEW r \in Requests, pc'[r] \in {"lookup", "scan"}
        PROVE  /\ Author(Latest(rows', doc'[r])) \in seen'[r]
               /\ Author(AsOf(rows', doc'[r], at'[r])) \in seen'[r]
    <3> DEFINE i == doc'[r]
    <3>1. i \in Ids /\ seen'[r] = seen[r] \cup Passing(i)
      BY <2>1, <2>2, <2>4 DEF PhaseInv
    <3>2. Author(Latest(rows', i)) \in Passing(i)
      BY <3>1, HolderAt DEF Passing
    <3>3. Author(AsOf(rows', i, at'[r])) \in seen'[r]
      <4>1. CASE at'[r] = appNow /\ rows' = rows
        <5>1. appNow = now /\ \A q \in rows : q.at <= now
          BY DEF ClockInv, Linear
        <5>2. {q \in Live(rows', i) : q.at <= at'[r]} = Live(rows', i)
          BY <4>1, <5>1 DEF Live
        <5>3. AsOf(rows', i, at'[r]) = Latest(rows', i)
          BY <5>2 DEF AsOf, Latest
        <5> QED BY <3>1, <3>2, <5>3
      <4>2. CASE pc[r] \in {"lookup", "scan"} /\ at'[r] = at[r]
        <5>1. i = doc[r] /\ at[r] \in Nat
          BY <2>2, <4>2 DEF StepKept, HistoryKept, TypeOK
        <5>2. Author(AsOf(rows, i, at[r])) \in seen[r]
          BY <4>2, <5>1 DEF StoreInv
        <5>3. CASE rows' = rows
          BY <3>1, <4>2, <5>2, <5>3
        <5>4. ASSUME NEW s \in Requests, Insert(s)
              PROVE  Author(AsOf(rows', i, at'[r])) \in seen'[r]
          BY <3>1, <4>2, <5>1, <5>2, <5>4, InsertAsOf DEF Linear
        <5>5. ASSUME NEW s \in Requests, Mark(s)
              PROVE  Author(AsOf(rows', i, at'[r])) \in seen'[r]
          <6>1. CASE i = doc[s]
            <7>1. AsOf(rows', i, at'[r]) = {}
              BY <5>5, <6>1, MarkedLive DEF AsOf, Newest
            <7>2. Nobody \in Passing(i)
              BY <5>5, <6>1, MarkHolder
            <7> QED BY <3>1, <7>1, <7>2, AuthorOne
          <6>2. CASE i # doc[s]
            <7>1. AsOf(rows', i, at'[r]) = AsOf(rows, i, at[r])
              BY <4>2, <5>5, <6>2, MarkedLive DEF AsOf
            <7> QED BY <3>1, <5>2, <7>1
          <6> QED BY <6>1, <6>2
        <5> QED BY <2>1, <5>3, <5>4, <5>5, TableStep
      <4> QED BY <2>2, <2>4, <4>1, <4>2 DEF StepKept, StampKept
    <3> QED BY <3>1, <3>2, <3>3
  <2>5. ASSUME NEW q \in rows', q.by = Earlier PROVE q.id \in Stored
    BY <2>1, <2>5, RowOrigin, ConstantsOK DEF StoreInv
  <2>6. seen' = [r \in Requests |-> seen'[r]]
    BY <2>1
  <2>7. \A r \in Requests : pc'[r] \notin {"lookup", "scan"} => seen'[r] = {}
    BY <2>1
  <2> QED BY <2>3, <2>4, <2>5, <2>6, <2>7 DEF StoreInv
<1> QED BY <1>1, <1>2

(***************************************************************************)
(* What a step makes of the calls and the answers.                         *)
(***************************************************************************)

\* Where a call stands.
LEMMA CallValues ==
    ASSUME NEW p \in PCs
    PROVE  /\ CallAt(p) = "idle" <=> p = "idle"
           /\ CallAt(p) = "done" <=> p = "done"
           /\ CallAt(p) = "open" <=> p \in {"lookup", "scan"}
           /\ CallAt(p) = "granted" <=> p \in {"stamp", "insert", "wait", "mark"}
           /\ CallAt(p) = "settled" <=> p = "reply"
  BY DEF CallAt, PCs

\* The calls are where the handlers are.
LEMMA CallsAre ==
    ASSUME TypeOK
    PROVE  /\ \A r \in Requests : Calls[r] = CallAt(pc[r]) /\ pc[r] \in PCs
           /\ {r \in Requests : Calls[r] = "done"} = Answered
           /\ {r \in Requests : Calls[r] \notin {"idle", "done"}} = Arrived \ Answered
<1>1. \A r \in Requests : Calls[r] = CallAt(pc[r]) /\ pc[r] \in PCs
  BY DEF Calls, TypeOK
<1> QED BY <1>1, CallValues DEF Answered, Arrived

\* A handler that moves moves its call.
LEMMA CallsMove ==
    ASSUME TypeOK, NEW r \in Requests, NEW p, pc' = [pc EXCEPT ![r] = p]
    PROVE  Calls' = [Calls EXCEPT ![r] = CallAt(p)]
<1>1. pc'[r] = p /\ \A s \in Requests \ {r} : pc'[s] = pc[s]
  BY DEF TypeOK
<1>2. Calls' = [s \in Requests |-> CallAt(pc'[s])]
  BY DEF Calls
<1>3. CallAt(pc'[r]) = CallAt(p) /\ \A s \in Requests \ {r} : CallAt(pc'[s]) = CallAt(pc[s])
  BY <1>1
<1>4. Calls = [s \in Requests |-> CallAt(pc[s])]
  BY DEF Calls
<1> QED BY <1>2, <1>3, <1>4

\* A step answers the request it is about, and no other.
LEMMA GivenMove ==
    ASSUME NEW r \in Requests,
           \A s \in Requests \ {r} :
              kind'[s] = kind[s] /\ status'[s] = status[s] /\ found'[s] = found[s]
    PROVE  Given' = [Given EXCEPT ![r] = Answers(r)']
<1>1. \A s \in Requests \ {r} : Answers(s)' = Answers(s)
  BY DEF Answers
<1>2. Given' = [s \in Requests |-> Answers(s)']
  BY DEF Given
<1> HIDE DEF Answers
<1> QED BY <1>1, <1>2 DEF Given

\* An answer is what the status says.
LEMMA AnswerValues ==
    ASSUME NEW r \in Requests
    PROVE  /\ status[r] = 0 => Answers(r) = "none"
           /\ status[r] = 303 => Answers(r) = "stored"
           /\ status[r] \in {400, 403} => Answers(r) = "refused"
           /\ kind[r] = "remove" /\ status[r] = 200 => Answers(r) = "removed"
           /\ status[r] = 404 => Answers(r) = Author(found[r])
           /\ kind[r] # "remove" /\ status[r] = 200 => Answers(r) = Author(found[r])
<1>1. status[r] = 0 => Answers(r) = "none"
  BY DEF Answers
<1>2. status[r] = 303 => Answers(r) = "stored"
  BY DEF Answers
<1>3. status[r] \in {400, 403} => Answers(r) = "refused"
  BY DEF Answers
<1>4. kind[r] = "remove" /\ status[r] = 200 => Answers(r) = "removed"
  BY DEF Answers
<1>5. status[r] = 404 => Answers(r) = Author(found[r])
  BY DEF Answers
<1>6. kind[r] # "remove" /\ status[r] = 200 => Answers(r) = Author(found[r])
  BY DEF Answers
<1> QED BY <1>1, <1>2, <1>3, <1>4, <1>5, <1>6

\* Requests that are not answered by a step keep their answers.
LEMMA GivenKept ==
    ASSUME TypeOK, TypeOK', UNCHANGED <<status, found>>,
           \A s \in Requests : status[s] # 0 => kind'[s] = kind[s]
    PROVE  Given' = Given
<1>1. ASSUME NEW s \in Requests PROVE Answers(s)' = Answers(s)
  <2>1. CASE status[s] = 0
    <3>1. Answers(s) = "none"
      BY <2>1, AnswerValues
    <3>2. Answers(s)' = "none"
      BY <2>1 DEF Answers
    <3> QED BY <3>1, <3>2
  <2>2. CASE status[s] # 0
    BY <2>2 DEF Answers
  <2> QED BY <2>1, <2>2
<1>2. Given' = [s \in Requests |-> Answers(s)']
  BY DEF Given
<1> HIDE DEF Answers
<1> QED BY <1>1, <1>2 DEF Given

\* How seen follows a step.
SeenFollows ==
    seen' = [r \in Requests |->
                IF pc'[r] \in {"lookup", "scan"} THEN seen[r] \cup Passing(doc'[r]) ELSE {}]

\* A query that waits on through a step that leaves the table alone sees
\* nothing new.
LEMMA SeenKept ==
    ASSUME TypeOK, PhaseInv, StoreInv, SeenFollows, rows' = rows, NEW s \in Requests,
           \/ pc'[s] = pc[s] /\ doc'[s] = doc[s]
           \/ pc[s] \notin {"lookup", "scan"} /\ pc'[s] \notin {"lookup", "scan"}
    PROVE  seen'[s] = seen[s]
<1>1. CASE pc[s] \notin {"lookup", "scan"} /\ pc'[s] \notin {"lookup", "scan"}
  BY <1>1 DEF SeenFollows, StoreInv
<1>2. CASE pc[s] \in {"lookup", "scan"} /\ pc'[s] = pc[s] /\ doc'[s] = doc[s]
  <2>1. doc[s] \in Ids
    BY <1>2 DEF PhaseInv
  <2>2. Passing(doc[s]) = {Author(Latest(rows, doc[s]))}
    BY <2>1, StillPassing, HolderAt
  <2>3. Author(Latest(rows, doc[s])) \in seen[s]
    BY <1>2 DEF StoreInv
  <2> QED BY <1>2, <2>2, <2>3 DEF SeenFollows
<1> QED BY <1>1, <1>2

\* A step that keeps every call where it stands, the table and the answers is
\* no step of the store.
LEMMA SilentStep ==
    ASSUME TypeOK, TypeOK', PhaseInv, StoreInv, SeenFollows,
           UNCHANGED <<rows, kind, doc, found, status, before, lost>>,
           \A s \in Requests :
              \/ pc'[s] = pc[s]
              \/ {pc[s], pc'[s]} \subseteq {"stamp", "insert", "wait", "mark"}
    PROVE  UNCHANGED Store!store
<1>1. Holder' = Holder
  BY StillPassing
<1>2. Calls' = Calls
  <2>1. \A s \in Requests : CallAt(pc'[s]) = CallAt(pc[s])
    BY DEF CallAt
  <2> QED BY <2>1 DEF Calls
<1>3. Given' = Given
  BY GivenKept
<1>4. \A s \in Requests : seen'[s] = seen[s]
  BY SeenKept
<1>5. seen' = seen
  <2>1. seen' = [s \in Requests |-> seen'[s]]
    BY DEF SeenFollows
  <2> QED BY <1>4, <2>1 DEF StoreInv
<1> QED BY <1>1, <1>2, <1>3, <1>5 DEF Store!store

(***************************************************************************)
(* The steps of a restlette are steps of the store.                        *)
(***************************************************************************)

\* An arrival, as the store sees it, before what it is granted or refused.
LEMMA ArriveMaps ==
    ASSUME TypeOK, NEW r \in Requests, NEW k, NEW i, NEW next, Arrive(r, k, i, next)
    PROVE  Store!Arrive(r, k, i, CallAt(next))
<1>1. Calls[r] = "idle"
  BY CallsAre, CallValues DEF Arrive
<1>2. Calls' = [Calls EXCEPT ![r] = CallAt(next)]
  BY CallsMove DEF Arrive
<1>3. before' = [before EXCEPT ![r] = {q \in Requests : Calls[q] = "done"}]
  BY CallsAre DEF Arrive
<1>4. Holder' = Holder /\ lost' = lost
  BY StillPassing DEF Arrive
<1> QED BY <1>1, <1>2, <1>3, <1>4 DEF Arrive, Store!Arrive

\* An arrival keeps every other request as it is.
LEMMA ArriveOthers ==
    ASSUME TypeOK, NEW r \in Requests, NEW k, NEW i, NEW next, Arrive(r, k, i, next)
    PROVE  /\ pc[r] = "idle" /\ pc'[r] = next /\ doc'[r] = i /\ kind'[r] = k
           /\ rows' = rows /\ found' = found
           /\ \A s \in Requests \ {r} : pc'[s] = pc[s] /\ doc'[s] = doc[s] /\ kind'[s] = kind[s]
  BY DEF Arrive, TypeOK

\* An arrival that is not answered keeps the answers.
LEMMA ArriveGiven ==
    ASSUME TypeOK, TypeOK', PhaseInv, NEW r \in Requests, NEW k, NEW i, NEW next,
           Arrive(r, k, i, next), status' = status
    PROVE  Given' = Given
<1>1. status[r] = 0
  BY ArriveOthers DEF PhaseInv
<1>2. \A s \in Requests : status[s] # 0 => kind'[s] = kind[s]
  BY <1>1, ArriveOthers
<1> QED BY <1>2, ArriveOthers, GivenKept

\* The document of a create is nobody's: no row and no request names it.
LEMMA FreshIsNew ==
    ASSUME TypeOK, PhaseInv, RowsInv, StoreInv, NEW i \in Ids, Fresh(i)
    PROVE  Holder[i] = Nobody /\ \A q \in Requests : doc[q] # i
<1>1. \A q \in Requests : doc[q] # i
  BY ConstantsOK DEF Fresh, Arrived, StoreInv
<1>2. Live(rows, i) = {}
  <2> SUFFICES ASSUME NEW x \in rows, x.id = i PROVE FALSE
    BY DEF Live
  <2>1. x.by \in Requests \cup {Earlier}
    BY DEF TypeOK, Row
  <2>2. CASE x.by = Earlier
    BY <2>2 DEF StoreInv, Fresh
  <2>3. CASE x.by # Earlier
    BY <1>1, <2>1, <2>3 DEF RowsInv
  <2> QED BY <2>2, <2>3
<1>3. Latest(rows, i) = {}
  BY <1>2 DEF Latest, Newest
<1> QED BY <1>1, <1>3, HolderAt, AuthorOne

\* A request arrives.
LEMMA ArrivesMaps ==
    ASSUME IInv, StoreInv, TypeOK', SeenFollows, NEW r \in Requests, Arrives(r)
    PROVE  Store!Next
<1> USE DEF IInv
<1>1. CASE Refuse(r)
  <2>1. PICK k \in {"create", "update"}, i \in Ids : Arrive(r, k, i, "reply")
    BY <1>1 DEF Refuse
  <2>2. Store!Arrive(r, k, i, "settled")
    BY <2>1, ArriveMaps, CallValues DEF PCs
  <2>3. Given' = [Given EXCEPT ![r] = "refused"]
    <3>1. status' = [status EXCEPT ![r] = 400]
      BY <1>1 DEF Refuse
    <3>2. \A s \in Requests \ {r} :
             kind'[s] = kind[s] /\ status'[s] = status[s] /\ found'[s] = found[s]
      BY <2>1, <3>1, ArriveOthers DEF TypeOK
    <3>3. Given' = [Given EXCEPT ![r] = Answers(r)']
      BY <3>2, GivenMove
    <3>4. status'[r] = 400
      BY <3>1 DEF TypeOK
    <3>5. Answers(r)' = "refused"
      BY <3>4 DEF Answers
    <3> QED BY <3>3, <3>5
  <2>4. seen' = seen
    <3>1. \A s \in Requests : seen'[s] = seen[s]
      BY <2>1, ArriveOthers, SeenKept
    <3> QED BY <3>1 DEF SeenFollows, StoreInv
  <2> QED BY <2>2, <2>3, <2>4 DEF Store!Next, Store!Reject
<1>2. CASE Create(r)
  <2>1. PICK i \in Ids : Fresh(i) /\ Arrive(r, "create", i, "insert") /\ status' = status
    BY <1>2 DEF Create
  <2>2. Store!Arrive(r, "create", i, "granted")
    BY <2>1, ArriveMaps, CallValues DEF PCs
  <2>3. Given' = Given
    BY <2>1, ArriveGiven
  <2>4. seen' = seen
    <3>1. \A s \in Requests : seen'[s] = seen[s]
      BY <2>1, ArriveOthers, SeenKept
    <3> QED BY <3>1 DEF SeenFollows, StoreInv
  <2> QED BY <2>1, <2>2, <2>3, <2>4, FreshIsNew DEF Store!Next, Store!New
<1>3. CASE Lookup(r) \/ Scan(r)
  <2>1. PICK k \in {"read", "update", "remove", "list", "bulk_read"}, i \in Ids,
             next \in {"lookup", "scan"} : Arrive(r, k, i, next) /\ status' = status
    BY <1>3 DEF Lookup, Scan
  <2>2. Store!Arrive(r, k, i, "open")
    BY <2>1, ArriveMaps, CallValues DEF PCs
  <2>3. Given' = Given
    BY <2>1, ArriveGiven
  <2>4. seen' = [seen EXCEPT ![r] = {Holder[i]}]
    <3>1. \A s \in Requests \ {r} : seen'[s] = seen[s]
      BY <2>1, ArriveOthers, SeenKept
    <3>2. seen'[r] = {Holder[i]}
      BY <2>1, ArriveOthers, StillPassing DEF SeenFollows, StoreInv
    <3>3. seen' = [s \in Requests |-> seen'[s]]
      BY DEF SeenFollows
    <3> QED BY <3>1, <3>2, <3>3 DEF StoreInv
  <2> QED BY <2>2, <2>3, <2>4 DEF Store!Next, Store!Ask
<1> QED BY <1>1, <1>2, <1>3 DEF Arrives

\* What a query of r answers with was in the register since r arrived.
LEMMA QuerySees ==
    ASSUME IInv, Linear, StoreInv, NEW r \in Requests, pc[r] \in {"lookup", "scan"},
           NEW c \in First(AsOf(rows, doc[r], at[r])) \cup First(Latest(rows, doc[r]))
    PROVE  /\ Author(c) \in seen[r]
           /\ c # {} => Author(c) # Nobody
<1> USE DEF IInv
<1>1. PICK S : S \subseteq Live(rows, doc[r]) /\ c \in First(Newest(S)) /\ Author(Newest(S)) \in seen[r]
  <2>1. CASE c \in First(AsOf(rows, doc[r], at[r]))
    <3> DEFINE S == {q \in Live(rows, doc[r]) : q.at <= at[r]}
    <3>1. AsOf(rows, doc[r], at[r]) = Newest(S)
      BY DEF AsOf
    <3> QED BY <2>1, <3>1 DEF StoreInv
  <2>2. CASE c \in First(Latest(rows, doc[r]))
    BY <2>2 DEF StoreInv, Latest
  <2> QED BY <2>1, <2>2
<1>2. c = Newest(S) /\ (c # {} => \E x \in rows : c = {x})
  <2>1. Newest(S) = {} \/ \E x \in S : Newest(S) = {x}
    BY <1>1, OneNewest DEF Linear
  <2> QED BY <1>1, <2>1 DEF First, Live
<1>3. ASSUME c # {} PROVE Author(c) # Nobody
  <2>1. PICK x \in rows : c = {x}
    BY <1>2, <1>3
  <2>2. Author(c) = x.by /\ x.by \in Requests \cup {Earlier}
    BY <2>1, AuthorOne DEF TypeOK, Row
  <2> QED BY <2>2, NobodyIsNobody
<1> QED BY <1>1, <1>2, <1>3

\* A step of one query leaves the others and the table alone.
LEMMA QuerySeen ==
    ASSUME TypeOK, PhaseInv, StoreInv, SeenFollows, NEW r \in Requests,
           UNCHANGED <<rows, doc>>, pc'[r] \notin {"lookup", "scan"},
           \A s \in Requests \ {r} : pc'[s] = pc[s]
    PROVE  seen' = [seen EXCEPT ![r] = {}]
<1>1. \A s \in Requests \ {r} : seen'[s] = seen[s]
  BY SeenKept
<1>2. seen'[r] = {} /\ seen' = [s \in Requests |-> seen'[s]]
  BY DEF SeenFollows
<1> QED BY <1>1, <1>2 DEF StoreInv

\* A query is executed.
LEMMA QueryMaps ==
    ASSUME IInv, Linear, StoreInv, SeenFollows, NEW r \in Requests, ReadRow(r) \/ ScanRows(r)
    PROVE  Store!See(r)
<1> USE DEF IInv
<1>1. /\ pc[r] \in {"lookup", "scan"} /\ r \notin lost
      /\ UNCHANGED <<rows, kind, doc, before, lost>>
  BY DEF ReadRow, ScanRows, Alive
<1>2. Calls[r] = "open"
  BY <1>1, CallsAre, CallValues
<1>3. ASSUME pc' = [pc EXCEPT ![r] = pc'[r]], pc'[r] \in {"reply", "stamp", "mark"},
             status' = [status EXCEPT ![r] = status'[r]],
             found' = [found EXCEPT ![r] = found'[r]]
      PROVE  Store!Look(r, CallAt(pc'[r]), Answers(r)')
  <2>1. Calls' = [Calls EXCEPT ![r] = CallAt(pc'[r])]
    BY <1>3, CallsMove
  <2>2. \A s \in Requests \ {r} :
           /\ kind'[s] = kind[s] /\ status'[s] = status[s] /\ found'[s] = found[s]
           /\ pc'[s] = pc[s]
    BY <1>1, <1>3 DEF TypeOK
  <2>3. Given' = [Given EXCEPT ![r] = Answers(r)']
    BY <2>2, GivenMove
  <2>4. seen' = [seen EXCEPT ![r] = {}]
    BY <1>1, <1>3, <2>2, QuerySeen
  <2>5. Holder' = Holder
    BY <1>1, StillPassing
  <2> QED BY <1>1, <1>2, <2>1, <2>3, <2>4, <2>5 DEF Store!Look
<1>4. CASE ReadRow(r)
  <2>1. PICK c \in First(AsOf(rows, doc[r], at[r])), ok \in Permitted :
          /\ found' = [found EXCEPT ![r] = IF kind[r] = "read" THEN c ELSE {}]
          /\ pc' = [pc EXCEPT ![r] = AfterLookup(r, c, ok)[1]]
          /\ status' = [status EXCEPT ![r] = AfterLookup(r, c, ok)[2]]
    BY <1>4 DEF ReadRow
  <2>2. kind[r] \in {"read", "update", "remove"} /\ ok \in BOOLEAN
    BY <1>4, ConstantsOK DEF ReadRow, PhaseInv
  <2>3. Author(c) \in seen[r] /\ (c # {} => Author(c) # Nobody)
    BY <1>1, QuerySees
  <2> DEFINE n == AfterLookup(r, c, ok)
  <2>4. n[1] \in {"reply", "stamp", "mark"}
    BY <2>2, AfterLookupType
  <2> HIDE DEF n
  <2>5. pc'[r] = n[1] /\ status'[r] = n[2]
    BY <2>1 DEF TypeOK, n
  <2>6. /\ kind[r] = "read" => found'[r] = c
        /\ kind[r] # "read" => found'[r] = {}
    BY <2>1 DEF TypeOK
  <2>7. /\ pc' = [pc EXCEPT ![r] = pc'[r]]
        /\ status' = [status EXCEPT ![r] = status'[r]]
        /\ found' = [found EXCEPT ![r] = found'[r]]
    BY <2>1 DEF TypeOK
  <2>8. Store!Look(r, CallAt(pc'[r]), Answers(r)')
    BY <1>3, <2>4, <2>5, <2>7
  <2>9. CASE c = {}
    <3>1. pc'[r] = "reply" /\ status'[r] = 404
      BY <2>5, <2>9 DEF AfterLookup, n
    <3>2. Answers(r)' = Author({})
      BY <2>6, <2>9, <3>1 DEF Answers, Author
    <3>3. Store!Look(r, "settled", Author(c))
      BY <2>8, <2>9, <3>1, <3>2, CallValues DEF PCs
    <3> QED BY <2>3, <2>9, <3>3, AuthorOne DEF Store!See
  <2>10. CASE c # {} /\ ~ok
    <3>1. pc'[r] = "reply" /\ status'[r] = 403
      BY <2>5, <2>10 DEF AfterLookup, n
    <3>2. Answers(r)' = "refused"
      BY <3>1 DEF Answers
    <3>3. Store!Look(r, "settled", "refused")
      BY <2>8, <3>1, <3>2, CallValues DEF PCs
    <3> QED BY <2>3, <2>10, <3>3 DEF Store!See
  <2>11. CASE c # {} /\ ok /\ kind[r] = "read"
    <3>1. pc'[r] = "reply" /\ status'[r] = 200
      BY <2>5, <2>11 DEF AfterLookup, n
    <3>2. Answers(r)' = Author(c)
      <4>1. kind'[r] = "read" /\ found'[r] = c
        BY <1>1, <2>6, <2>11
      <4>2. (Author(found[r]))' = Author(c)
        BY <4>1 DEF Author
      <4>3. (Answers(r))' = (Author(found[r]))'
        BY <3>1, <4>1 DEF Answers
      <4> QED BY <4>2, <4>3
    <3>3. Store!Look(r, "settled", Author(c))
      BY <2>8, <3>1, <3>2, CallValues DEF PCs
    <3> QED BY <2>3, <2>11, <3>3 DEF Store!See
  <2>12. CASE c # {} /\ ok /\ kind[r] \in {"update", "remove"}
    <3>1. pc'[r] \in {"stamp", "mark"} /\ status'[r] = 0
      BY <2>5, <2>12 DEF AfterLookup, n
    <3>2. Answers(r)' = "none"
      BY <3>1 DEF Answers
    <3>3. Store!Look(r, "granted", "none")
      BY <2>8, <3>1, <3>2, CallValues DEF PCs
    <3> QED BY <2>3, <2>12, <3>3 DEF Store!See
  <2> QED BY <2>2, <2>9, <2>10, <2>11, <2>12
<1>5. CASE ScanRows(r)
  <2>1. PICK c \in First(Scanned(r)) : found' = [found EXCEPT ![r] = c]
    BY <1>5 DEF ScanRows
  <2>2. Author(c) \in seen[r]
    BY <1>1, QuerySees DEF Scanned
  <2>3. /\ pc' = [pc EXCEPT ![r] = "reply"] /\ status' = [status EXCEPT ![r] = 200]
        /\ kind[r] \in {"list", "bulk_read"}
    BY <1>5 DEF ScanRows, PhaseInv
  <2>4. pc'[r] = "reply" /\ status'[r] = 200 /\ found'[r] = c /\ kind'[r] = kind[r]
    BY <1>1, <2>1, <2>3 DEF TypeOK
  <2>5. Answers(r)' = Author(c)
    <3>1. (Author(found[r]))' = Author(c)
      BY <2>4 DEF Author
    <3>2. (Answers(r))' = (Author(found[r]))'
      BY <2>3, <2>4 DEF Answers
    <3> QED BY <3>1, <3>2
  <2>6. Store!Look(r, "settled", Author(c))
    BY <1>3, <2>1, <2>3, <2>4, <2>5, CallValues DEF PCs
  <2> QED BY <2>2, <2>3, <2>6 DEF Store!See
<1> QED BY <1>4, <1>5

\* A write or a removal takes effect: how the calls, the answers and what the
\* waiting queries may see follow.
LEMMA EffectMaps ==
    ASSUME IInv, StoreInv, TypeOK', SeenFollows, NEW r \in Requests,
           pc[r] \in {"insert", "mark"}, pc' = [pc EXCEPT ![r] = "reply"],
           status' = [status EXCEPT ![r] = status'[r]],
           UNCHANGED <<kind, doc, found, before, lost>>,
           \A i \in Ids \ {doc[r]} : Passing(i) = {Holder[i]},
           NEW w, Passing(doc[r]) = {w} \/ Passing(doc[r]) = {w, Holder[doc[r]]}
    PROVE  Store!Effect(r, w, Answers(r)')
<1> USE DEF IInv
<1>1. Calls[r] = "granted" /\ Calls' = [Calls EXCEPT ![r] = "settled"]
  <2>1. CallAt("reply") = "settled" /\ Calls[r] = "granted"
    BY CallsAre, CallValues DEF PCs
  <2>2. Calls' = [Calls EXCEPT ![r] = CallAt("reply")]
    BY CallsMove
  <2> QED BY <2>1, <2>2
<1>2. Given' = [Given EXCEPT ![r] = Answers(r)']
  <2>1. \A s \in Requests \ {r} :
           kind'[s] = kind[s] /\ status'[s] = status[s] /\ found'[s] = found[s]
    BY DEF TypeOK
  <2> QED BY <2>1, GivenMove
<1>3. ASSUME NEW q \in Requests
      PROVE  seen'[q] = IF Calls[q] = "open" /\ doc[q] = doc[r] THEN seen[q] \cup {w} ELSE seen[q]
  <2>1. Calls[q] = "open" <=> pc[q] \in {"lookup", "scan"}
    BY CallsAre, CallValues
  <2>2. pc'[q] \in {"lookup", "scan"} <=> pc[q] \in {"lookup", "scan"}
    BY DEF TypeOK
  <2>3. CASE pc[q] \notin {"lookup", "scan"}
    BY <2>1, <2>2, <2>3 DEF SeenFollows, StoreInv
  <2>4. CASE pc[q] \in {"lookup", "scan"}
    <3>1. doc[q] \in Ids /\ seen'[q] = seen[q] \cup Passing(doc[q])
      BY <2>2, <2>4 DEF SeenFollows, PhaseInv
    <3>2. Holder[doc[q]] \in seen[q]
      BY <2>4, <3>1, HolderAt DEF StoreInv
    <3> QED BY <2>1, <2>4, <3>1, <3>2
  <2> QED BY <2>3, <2>4
<1>4. seen' = [q \in Requests |->
         IF Calls[q] = "open" /\ doc[q] = doc[r] THEN seen[q] \cup {w} ELSE seen[q]]
  <2> DEFINE g == [q \in Requests |->
         IF Calls[q] = "open" /\ doc[q] = doc[r] THEN seen[q] \cup {w} ELSE seen[q]]
  <2>1. \A q \in Requests : seen'[q] = g[q]
    BY <1>3
  <2>2. seen' = [q \in Requests |-> seen'[q]]
    BY DEF SeenFollows
  <2>3. g = [q \in Requests |-> g[q]]
    OBVIOUS
  <2> HIDE DEF g
  <2>4. seen' = g
    BY <2>1, <2>2, <2>3
  <2> QED BY <2>4 DEF g
<1> QED BY <1>1, <1>2, <1>4 DEF Store!Effect

\* An insert is a write of the store.
LEMMA InsertMaps ==
    ASSUME IInv, Linear, StoreInv, TypeOK', SeenFollows, NEW r \in Requests, Insert(r)
    PROVE  Store!Write(r)
<1>1. /\ pc[r] = "insert" /\ pc' = [pc EXCEPT ![r] = "reply"]
      /\ status' = [status EXCEPT ![r] = status'[r]] /\ status'[r] = 303
      /\ UNCHANGED <<kind, doc, found, before, lost>>
  BY DEF Insert, TypeOK, IInv
<1>2. kind[r] \in {"create", "update"}
  BY <1>1 DEF IInv, PhaseInv, IsWrite
<1>3. /\ \A i \in Ids \ {doc[r]} : Passing(i) = {Holder[i]}
      /\ Passing(doc[r]) = {r} \/ Passing(doc[r]) = {r, Holder[doc[r]]}
  BY InsertHolder
<1>4. Store!Effect(r, r, Answers(r)')
  BY <1>1, <1>3, EffectMaps
<1>5. Answers(r)' = "stored"
  <2>1. status'[r] = 303
    BY <1>1
  <2> QED BY <2>1 DEF Answers
<1>6. \/ Holder' = [Holder EXCEPT ![doc[r]] = r]
      \/ Store!Overlapped(r) /\ Holder' = Holder
  BY InsertHolder DEF Store!Overlapped
<1> QED BY <1>2, <1>4, <1>5, <1>6 DEF Store!Write

\* The statement of a removal is a removal of the store.
LEMMA MarkMaps ==
    ASSUME IInv, StoreInv, TypeOK', SeenFollows, NEW r \in Requests, Mark(r)
    PROVE  Store!Remove(r)
<1>1. /\ pc[r] = "mark" /\ pc' = [pc EXCEPT ![r] = "reply"]
      /\ status' = [status EXCEPT ![r] = status'[r]] /\ status'[r] = 200
      /\ UNCHANGED <<kind, doc, found, before, lost>>
  BY DEF Mark, TypeOK, IInv
<1>2. kind[r] = "remove"
  BY <1>1 DEF IInv, PhaseInv
<1>3. /\ \A i \in Ids \ {doc[r]} : Passing(i) = {Holder[i]}
      /\ Passing(doc[r]) = {Nobody}
      /\ Holder' = [Holder EXCEPT ![doc[r]] = Nobody]
  BY MarkHolder DEF IInv
<1>4. Store!Effect(r, Nobody, Answers(r)')
  BY <1>1, <1>3, EffectMaps
<1>5. Answers(r)' = "removed"
  <2>1. status'[r] = 200 /\ kind'[r] = "remove"
    BY <1>1, <1>2
  <2> QED BY <2>1 DEF Answers
<1> QED BY <1>2, <1>3, <1>4, <1>5 DEF Store!Remove

\* The answer is sent.
LEMMA ReplyMaps ==
    ASSUME IInv, StoreInv, TypeOK', SeenFollows, NEW r \in Requests, Reply(r)
    PROVE  Store!Answer(r)
<1> USE DEF IInv
<1>1. /\ pc[r] = "reply" /\ r \notin lost /\ pc' = [pc EXCEPT ![r] = "done"]
      /\ UNCHANGED <<rows, kind, doc, found, status, before, lost>>
  BY DEF Reply, Alive
<1>2. Calls[r] = "settled" /\ Calls' = [Calls EXCEPT ![r] = "done"]
  <2>1. CallAt("done") = "done" /\ Calls[r] = "settled"
    BY <1>1, CallsAre, CallValues DEF PCs
  <2> QED BY <1>1, <2>1, CallsMove
<1>3. seen' = seen
  <2>1. \A s \in Requests : seen'[s] = seen[s]
    BY <1>1, SeenKept DEF TypeOK
  <2> QED BY <2>1 DEF SeenFollows, StoreInv
<1>4. Holder' = Holder /\ Given' = Given
  BY <1>1, StillPassing, GivenKept
<1> QED BY <1>1, <1>2, <1>3, <1>4 DEF Store!Answer

\* The process dies.
LEMMA DeathMaps ==
    ASSUME IInv, StoreInv, TypeOK', SeenFollows, ProcessDies,
           UNCHANGED <<rows, kind, doc, pc, found, status, before>>
    PROVE  Store!Lose
<1> USE DEF IInv
<1>1. lost' = lost \cup {r \in Requests : Calls[r] \notin {"idle", "done"}}
  BY CallsAre DEF ProcessDies
<1>2. Calls' = Calls /\ Holder' = Holder /\ Given' = Given
  BY StillPassing, GivenKept DEF Calls
<1>3. seen' = seen
  <2>1. \A s \in Requests : seen'[s] = seen[s]
    BY SeenKept
  <2> QED BY <2>1 DEF SeenFollows, StoreInv
<1> QED BY <1>1, <1>2, <1>3 DEF Store!Lose

\* Every step of a restlette is a step of the store, or none.
LEMMA StoreStep ==
    ASSUME IInv, Linear, StoreInv, [StoreNext]_<<vars, seen>>
    PROVE  [Store!Next]_(Store!store)
<1> USE DEF IInv
<1>1. CASE UNCHANGED <<vars, seen>>
  <2>1. UNCHANGED <<Holder, Calls, Given>>
    BY <1>1 DEF vars, Holder, Calls, Given, Answers
  <2> QED BY <1>1, <2>1 DEF vars, Store!store
<1>2. CASE StoreNext
  <2>1. Next /\ SeenFollows /\ [Next]_vars
    BY <1>2 DEF StoreNext, SeenFollows
  <2>2. TypeOK'
    BY <2>1, TypePhaseStep
  <2>3. ASSUME NEW r \in Requests, Arrives(r) PROVE Store!Next
    BY <2>1, <2>2, <2>3, ArrivesMaps
  <2>4. ASSUME NEW r \in Requests, ReadRow(r) \/ ScanRows(r) PROVE Store!Next
    BY <2>1, <2>4, QueryMaps DEF Store!Next
  <2>5. ASSUME NEW r \in Requests, Insert(r) PROVE Store!Next
    BY <2>1, <2>2, <2>5, InsertMaps DEF Store!Next
  <2>6. ASSUME NEW r \in Requests, Mark(r) PROVE Store!Next
    BY <2>1, <2>2, <2>6, MarkMaps DEF Store!Next
  <2>7. ASSUME NEW r \in Requests, Reply(r) PROVE Store!Next
    BY <2>1, <2>2, <2>7, ReplyMaps DEF Store!Next
  <2>8. ASSUME NEW r \in Requests, Throw(r) \/ Breaks(r) PROVE Store!Next
    <3>1. ProcessDies /\ UNCHANGED <<rows, kind, doc, pc, found, status, before>>
      BY <2>8 DEF Throw, Breaks, FailQuietly, FailLoudly, Linear
    <3> QED BY <2>1, <2>2, <3>1, DeathMaps DEF Store!Next
  <2>9. ASSUME NEW r \in Requests, Stamp(r) \/ Duplicate(r) \/ Retry(r)
        PROVE  UNCHANGED Store!store
    <3>1. /\ UNCHANGED <<rows, kind, doc, found, status, before, lost>>
          /\ pc[r] \in {"stamp", "insert", "wait"}
          /\ \E p \in {"insert", "wait"} : pc' = [pc EXCEPT ![r] = p]
      BY <2>9 DEF Stamp, Duplicate, Retry
    <3>2. \A s \in Requests :
             \/ pc'[s] = pc[s]
             \/ {pc[s], pc'[s]} \subseteq {"stamp", "insert", "wait", "mark"}
      BY <3>1 DEF TypeOK
    <3> QED BY <2>1, <2>2, <3>1, <3>2, SilentStep
  <2>10. CASE Tick \/ Quiet
    <3>1. UNCHANGED <<rows, kind, doc, pc, found, status, before, lost>>
      BY <2>10 DEF Tick, Quiet, vars
    <3> QED BY <2>1, <2>2, <3>1, SilentStep
  <2> QED BY <2>1, <2>3, <2>4, <2>5, <2>6, <2>7, <2>8, <2>9, <2>10
          DEF Next, Step, Executes, Resumes
<1> QED BY <1>1, <1>2

\* The first state of a restlette is the first state of the store, and nothing
\* waits.
LEMMA InitStore == StoreInit => StoreInv /\ Store!Init
<1> SUFFICES ASSUME StoreInit PROVE StoreInv /\ Store!Init
  OBVIOUS
<1> USE DEF StoreInit
<1> DEFINE v(i) == [id |-> i, at |-> 0, deleted |-> FALSE, by |-> Earlier]
<1>1. /\ \A i : v(i).id = i /\ v(i).at = 0 /\ v(i).by = Earlier /\ ~v(i).deleted
      /\ rows = {v(i) : i \in Stored}
  BY DEF Init
<1> HIDE DEF v
<1>2. \A q \in rows : q.id \in Stored
  BY <1>1
<1>3. StoreInv
  BY <1>2 DEF Init, StoreInv
<1>4. ASSUME NEW i \in Ids
      PROVE  Holder[i] = IF i \in Stored THEN Earlier ELSE Nobody
  <2>1. CASE i \in Stored
    <3>1. Latest(rows, i) = {v(i)}
      BY <1>1, <2>1 DEF Latest, Live, Newest
    <3> QED BY <1>1, <2>1, <3>1, HolderAt, AuthorOne
  <2>2. CASE i \notin Stored
    <3>1. Latest(rows, i) = {}
      BY <1>1, <2>2 DEF Latest, Live, Newest
    <3> QED BY <2>2, <3>1, HolderAt, AuthorOne
  <2> QED BY <2>1, <2>2
<1>5. Holder = [i \in Ids |-> IF i \in Stored THEN Earlier ELSE Nobody]
  BY <1>4 DEF Holder
<1>6. Calls = [r \in Requests |-> "idle"]
  <2>1. CallAt("idle") = "idle"
    BY CallValues DEF PCs
  <2> QED BY <2>1 DEF Init, Calls
<1>7. Given = [r \in Requests |-> "none"]
  <2>1. \A r \in Requests : Answers(r) = "none"
    BY DEF Init, Answers
  <2> QED BY <2>1 DEF Given
<1> QED BY <1>3, <1>5, <1>6, <1>7 DEF Init, Store!Init

\* The restlette with its history variable keeps the invariants of the restlette.
LEMMA StoreInvariance == StoreSpec => []IInv
<1>1. StoreInit => IInv
  BY InitIInv DEF StoreInit
<1>2. IInv /\ [StoreNext]_<<vars, seen>> => IInv'
  <2>1. [StoreNext]_<<vars, seen>> => [Next]_vars
    BY DEF StoreNext
  <2> QED BY <2>1, NextIInv
<1> QED BY <1>1, <1>2, PTL DEF StoreSpec

\* For any number of requests and documents, whatever the interleaving of
\* handlers, statements, retries and failures: a restlette whose table is
\* UNIQUE, whose reads and stamps share a clock and whose driver reports its
\* failures (SQLite, MySQL) is a document store (Crud, repo.read,
\* repo.readMany, repo.create, repo.remove).
THEOREM ImplementsStore == Linear => (StoreSpec => IsDocumentStore)
<1> SUFFICES ASSUME Linear PROVE StoreSpec => IsDocumentStore
  OBVIOUS
<1>1. StoreInit => StoreInv /\ Store!Init
  BY InitStore
<1>2. IInv /\ StoreInv /\ [StoreNext]_<<vars, seen>>
         => StoreInv' /\ [Store!Next]_(Store!store)
  BY StoreInvStep, StoreStep
<1> QED BY <1>1, <1>2, StoreInvariance, PTL DEF StoreSpec, IsDocumentStore, Store!Spec
=============================================================================
