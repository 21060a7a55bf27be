------------------------------ MODULE Restlette ------------------------------
(***************************************************************************)
(* The REST handlers of a restlette (core/restlette/src/crud.ts, class     *)
(* Crud) served concurrently by one Node process over one table of a       *)
(* repository.  Node runs a handler up to an await and then any other      *)
(* handler: every await on the repository splits the handler into a step   *)
(* that sends a statement, a step of the database that executes it, and a  *)
(* step that resumes the handler with the outcome.                         *)
(*                                                                         *)
(* The repository is one of the four in repos/; they differ in             *)
(*   Unique      UNIQUE (id, created_at) on the table (all but Mongo)      *)
(*   MaxRetries  how often create tries again after a duplicate version:   *)
(*               0 for MySQL, 5 for Postgres, Unbounded for SQLite         *)
(*   DbClock     created_at is NOW() of the database server (Postgres),    *)
(*               else the Date.now() of the process                        *)
(*   MaxLag      how far Date.now(), which bounds a read, may lag behind   *)
(*               the clock that stamps (0 when they are one clock)         *)
(*   TimedScan   readMany filters by the current time (SQLite)             *)
(*   Swallow     a failed query is logged and answers nothing (Mongo)      *)
(***************************************************************************)
EXTENDS VersionedTable, FiniteSets

CONSTANTS
    Requests,   \* the requests that may ever arrive
    Ids,        \* logical ids: the stored ones and the uuids still to come
    Stored,     \* the documents stored before the first request
    Kinds,      \* the handlers exercised, a subset of AllKinds
    Unique, MaxRetries, Unbounded, DbClock, MaxLag, TimedScan, Swallow,
    Earlier,    \* the writer of the rows in Stored: no request
    NoDoc,      \* the target of a request that has not arrived
    Valid,      \* the verdicts the validator can reach
    Permitted,  \* the verdicts isAuthorized can reach
    MaxTime,    \* bound: the clock stops here unless a retry waits for more
    MaxFailures \* bound: statements that fail

AllKinds == {"create", "update", "remove", "read", "list", "bulk_read"}

ASSUME ConstantsOK ==
    /\ Stored \subseteq Ids
    /\ Kinds \subseteq AllKinds
    /\ Unique \in BOOLEAN /\ DbClock \in BOOLEAN
    /\ TimedScan \in BOOLEAN /\ Swallow \in BOOLEAN
    /\ Unbounded \notin Nat
    /\ MaxRetries \in Nat \cup {Unbounded}
    /\ MaxLag \in Nat /\ (MaxLag > 0 => DbClock)
    /\ Earlier \notin Requests
    /\ NoDoc \notin Ids
    /\ Valid \subseteq BOOLEAN /\ Permitted \subseteq BOOLEAN
    /\ MaxTime \in Nat /\ MaxFailures \in Nat

VARIABLES
    now,        \* the clock that stamps versions
    appNow,     \* Date.now() in the process
    rows,       \* the table
    kind,       \* kind[r]: which handler serves r
    doc,        \* doc[r]: the id r addresses
    pc,         \* pc[r]: where the handler of r stands
    at,         \* at[r]: the read bound or created_at of r's statement, else 0
    found,      \* found[r]: the version r's query answers with, {} for none
    tries,      \* tries[r]: retries of r's create so far
    status,     \* status[r]: the HTTP status of r's answer, 0 before it
    before,     \* before[r]: the requests answered when r arrived (history)
    lost,       \* the requests whose process died before it answered them
    failed      \* the requests one statement of which failed

vars == <<now, appNow, rows, kind, doc, pc, at, found, tries, status, before,
          lost, failed>>

Row == [id : Ids, at : Nat, deleted : BOOLEAN, by : Requests \cup {Earlier}]

PCs == {"idle", "lookup", "scan", "stamp", "insert", "wait", "mark", "reply", "done"}

TypeOK ==
    /\ now \in Nat
    /\ appNow \in Nat
    /\ rows \subseteq Row
    /\ kind \in [Requests -> AllKinds \cup {"none"}]
    /\ doc \in [Requests -> Ids \cup {NoDoc}]
    /\ pc \in [Requests -> PCs]
    /\ at \in [Requests -> Nat]
    /\ found \in [Requests -> SUBSET Row]
    /\ tries \in [Requests -> Nat]
    /\ status \in [Requests -> {0, 200, 303, 400, 403, 404}]
    /\ before \in [Requests -> SUBSET Requests]
    /\ lost \subseteq Requests
    /\ failed \subseteq Requests

Init ==
    /\ now = 0
    /\ appNow = 0
    /\ rows = {[id |-> i, at |-> 0, deleted |-> FALSE, by |-> Earlier] : i \in Stored}
    /\ kind = [r \in Requests |-> "none"]
    /\ doc = [r \in Requests |-> NoDoc]
    /\ pc = [r \in Requests |-> "idle"]
    /\ at = [r \in Requests |-> 0]
    /\ found = [r \in Requests |-> {}]
    /\ tries = [r \in Requests |-> 0]
    /\ status = [r \in Requests |-> 0]
    /\ before = [r \in Requests |-> {}]
    /\ lost = {}
    /\ failed = {}

-----------------------------------------------------------------------------
\* The handlers.

Arrived == {r \in Requests : pc[r] # "idle"}

Answered == {r \in Requests : pc[r] = "done"}

\* A handler is resumed by its process only.
Alive(r) == r \notin lost

IsWrite(r) == kind[r] \in {"create", "update"}

\* uuid(): an id no document has and no request names.
Fresh(i) == i \notin Stored \cup {doc[r] : r \in Arrived}

\* A plausible bug of StampTime: created_at comes from a clock that is late.
StampLate == now - 1

\* created_at of a version: new Date(), Date.now() or NOW() as it is sent.
StampTime == now

\* r arrives and runs to its first statement, or to its answer.
Arrive(r, k, i, next) ==
    /\ pc[r] = "idle"
    /\ k \in Kinds
    /\ kind' = [kind EXCEPT ![r] = k]
    /\ doc' = [doc EXCEPT ![r] = i]
    /\ pc' = [pc EXCEPT ![r] = next]
    /\ before' = [before EXCEPT ![r] = Answered]
    /\ UNCHANGED <<now, appNow, rows, found, tries, lost, failed>>

\* create and update: the validator refuses the body before any statement.
Refuse(r) ==
    /\ FALSE \in Valid
    /\ \E k \in {"create", "update"}, i \in Ids :
          /\ k = "create" => Fresh(i)
          /\ Arrive(r, k, i, "reply")
    /\ status' = [status EXCEPT ![r] = 400]
    /\ at' = at

\* create: repo.create(doc) draws the id and stamps the version.
Create(r) ==
    /\ TRUE \in Valid
    /\ \E i \in Ids : Fresh(i) /\ Arrive(r, "create", i, "insert")
    /\ at' = [at EXCEPT ![r] = StampTime]
    /\ UNCHANGED status

\* read, update and remove: repo.read(id), at = new Date().
Lookup(r) ==
    /\ \E k \in {"read", "update", "remove"}, i \in Ids :
          /\ k = "update" => TRUE \in Valid
          /\ Arrive(r, k, i, "lookup")
    /\ at' = [at EXCEPT ![r] = appNow]
    /\ UNCHANGED status

\* list and bulk_read: repo.list() and repo.readMany(ids), observed at one id.
Scan(r) ==
    /\ \E k \in {"list", "bulk_read"}, i \in Ids : Arrive(r, k, i, "scan")
    /\ at' = [at EXCEPT ![r] = appNow]
    /\ UNCHANGED status

-----------------------------------------------------------------------------
\* Statements the database executes.  A write that was sent takes effect even
\* when the process dies before its outcome is back.

\* A plausible bug of AfterLookup: an update of an unknown document stores it.
AfterLookupUpserts(r, c, ok) ==
    IF kind[r] = "update" THEN <<"stamp", 0>>
    ELSE IF c = {} THEN <<"reply", 404>>
    ELSE IF kind[r] = "read" THEN <<"reply", 200>>
    ELSE <<"mark", 0>>

\* What a handler does next with the document its repo.read returned, when
\* isAuthorized says ok: the next control point and the status of the answer.
AfterLookup(r, c, ok) ==
    IF c = {} THEN <<"reply", 404>>
    ELSE IF ~ok THEN <<"reply", 403>>
    ELSE CASE kind[r] = "read"   -> <<"reply", 200>>
           [] kind[r] = "update" -> <<"stamp", 0>>
           [] kind[r] = "remove" -> <<"mark", 0>>

\* The SELECT of repo.read executes, and the handler decides on its row.
ReadRow(r) ==
    /\ pc[r] = "lookup"
    /\ Alive(r)
    /\ \E c \in First(AsOf(rows, doc[r], at[r])), ok \in Permitted :
          /\ found' = [found EXCEPT ![r] = IF kind[r] = "read" THEN c ELSE {}]
          /\ pc' = [pc EXCEPT ![r] = AfterLookup(r, c, ok)[1]]
          /\ status' = [status EXCEPT ![r] = AfterLookup(r, c, ok)[2]]
    /\ at' = [at EXCEPT ![r] = 0]
    /\ UNCHANGED <<now, appNow, rows, kind, doc, tries, before, lost, failed>>

\* A plausible bug of Scanned: every query is bounded by Date.now().
ScannedTimed(r) == AsOf(rows, doc[r], at[r])

\* The version(s) of its document a list or a bulk_read may return.  The
\* filter of bulk_read tests a promise, which is never false: nothing is left
\* out of the answer.
Scanned(r) ==
    IF TimedScan /\ kind[r] = "bulk_read" THEN AsOf(rows, doc[r], at[r])
                                          ELSE Latest(rows, doc[r])

ScanRows(r) ==
    /\ pc[r] = "scan"
    /\ Alive(r)
    /\ \E c \in First(Scanned(r)) : found' = [found EXCEPT ![r] = c]
    /\ pc' = [pc EXCEPT ![r] = "reply"]
    /\ status' = [status EXCEPT ![r] = 200]
    /\ at' = [at EXCEPT ![r] = 0]
    /\ UNCHANGED <<now, appNow, rows, kind, doc, tries, before, lost, failed>>

\* The INSERT of repo.create executes.
Insert(r) ==
    /\ pc[r] = "insert"
    /\ ~(Unique /\ Clash(rows, doc[r], at[r]))
    /\ rows' = rows \cup {[id |-> doc[r], at |-> at[r], deleted |-> FALSE, by |-> r]}
    /\ pc' = [pc EXCEPT ![r] = "reply"]
    /\ status' = [status EXCEPT ![r] = 303]
    /\ at' = [at EXCEPT ![r] = 0]
    /\ UNCHANGED <<now, appNow, kind, doc, found, tries, before, lost, failed>>

\* The UPDATE ... SET deleted of repo.remove executes.  It matches rows the
\* removal before it already marked, so it reports success for every id that
\* was ever stored.
Mark(r) ==
    /\ pc[r] = "mark"
    /\ rows' = MarkDeleted(rows, doc[r])
    /\ pc' = [pc EXCEPT ![r] = "reply"]
    /\ status' = [status EXCEPT ![r] = 200]
    /\ UNCHANGED <<now, appNow, kind, doc, at, found, tries, before, lost, failed>>

-----------------------------------------------------------------------------
\* Steps of the process between statements.

\* A plausible bug of Stamp: a created_at the client sent is kept.
StampOfClient(r) ==
    /\ pc[r] = "stamp"
    /\ Alive(r)
    /\ pc' = [pc EXCEPT ![r] = "insert"]
    /\ \E t \in 0 .. now : at' = [at EXCEPT ![r] = t]
    /\ UNCHANGED <<now, appNow, rows, kind, doc, found, tries, status, before, lost, failed>>

\* update goes on to repo.create(envelope), which stamps the version.
Stamp(r) ==
    /\ pc[r] = "stamp"
    /\ Alive(r)
    /\ pc' = [pc EXCEPT ![r] = "insert"]
    /\ at' = [at EXCEPT ![r] = StampTime]
    /\ UNCHANGED <<now, appNow, rows, kind, doc, found, tries, status, before, lost, failed>>

\* A plausible bug of MayRetry: the last retry is not made.
MayRetryLess(r) == IF MaxRetries = Unbounded THEN TRUE ELSE tries[r] + 1 < MaxRetries

MayRetry(r) == IF MaxRetries = Unbounded THEN TRUE ELSE tries[r] < MaxRetries

\* A duplicate version: repo.create sleeps 2 ms before it tries again.
Duplicate(r) ==
    /\ pc[r] = "insert"
    /\ Alive(r)
    /\ Unique /\ Clash(rows, doc[r], at[r])
    /\ MayRetry(r)
    /\ pc' = [pc EXCEPT ![r] = "wait"]
    /\ UNCHANGED <<now, appNow, rows, kind, doc, at, found, tries, status, before, lost, failed>>

\* A plausible bug of RetryTime: the retry sends the same statement again.
SameTime(r) == at[r]

\* created_at of r's version when repo.create is called again for it.
RetryTime(r) == StampTime

\* repo.create calls itself, and stamps anew.  2 ms are longer than a tick.
\* SQLite counts no retries.
Retry(r) ==
    /\ pc[r] = "wait"
    /\ Alive(r)
    /\ now > at[r]
    /\ pc' = [pc EXCEPT ![r] = "insert"]
    /\ at' = [at EXCEPT ![r] = RetryTime(r)]
    /\ tries' = [tries EXCEPT ![r] = IF MaxRetries = Unbounded THEN 0 ELSE @ + 1]
    /\ UNCHANGED <<now, appNow, rows, kind, doc, found, status, before, lost, failed>>

\* A handler rejects.  Express 4 drops the promise and nothing else handles
\* the rejection, so Node ends the process: every request it was serving is
\* lost.  A supervisor starts it again, and no state was in memory.
ProcessDies == lost' = lost \cup (Arrived \ Answered)

\* A duplicate version and no retry left: repo.create throws.
Throw(r) ==
    /\ pc[r] = "insert"
    /\ Alive(r)
    /\ Unique /\ Clash(rows, doc[r], at[r])
    /\ ~MayRetry(r)
    /\ ProcessDies
    /\ UNCHANGED <<now, appNow, rows, kind, doc, pc, at, found, tries, status, before, failed>>

\* A statement fails for its handler: the connection is gone, say.  A write
\* may still be executed.
Fails(r) ==
    /\ Cardinality(failed) < MaxFailures
    /\ Alive(r)
    /\ failed' = failed \cup {r}

\* Mongo logs a failed query and goes on as if it had matched nothing.
FailQuietly(r) ==
    /\ Fails(r)
    /\ Swallow
    /\ pc[r] \in {"lookup", "scan"}
    /\ pc' = [pc EXCEPT ![r] = "reply"]
    /\ status' = [status EXCEPT ![r] = IF pc[r] = "lookup" THEN 404 ELSE 200]
    /\ at' = [at EXCEPT ![r] = 0]
    /\ UNCHANGED <<now, appNow, rows, kind, doc, found, tries, before, lost>>

\* Any other failed statement rejects the handler.
FailLoudly(r) ==
    /\ Fails(r)
    /\ pc[r] \in IF Swallow THEN {"insert", "mark"} ELSE {"lookup", "scan", "insert", "mark"}
    /\ ProcessDies
    /\ UNCHANGED <<now, appNow, rows, kind, doc, pc, at, found, tries, status, before>>

\* The handler resumes and sends the answer.
Reply(r) ==
    /\ pc[r] = "reply"
    /\ Alive(r)
    /\ pc' = [pc EXCEPT ![r] = "done"]
    /\ UNCHANGED <<now, appNow, rows, kind, doc, at, found, tries, status, before, lost, failed>>

\* Time passes.  With one clock the two readings agree.
Tick ==
    /\ now < MaxTime \/ \E r \in Requests : pc[r] = "wait" /\ Alive(r) /\ at[r] >= now
    /\ now' = now + 1
    /\ appNow' \in {t \in appNow .. now + 1 : now + 1 - t <= MaxLag}
    /\ UNCHANGED <<rows, kind, doc, pc, at, found, tries, status, before, lost, failed>>

\* Nothing is left to do: every request was answered or lost.
Quiet ==
    /\ \A r \in Requests : pc[r] = "done" \/ r \in lost
    /\ now >= MaxTime
    /\ UNCHANGED vars

Arrives(r) == Refuse(r) \/ Create(r) \/ Lookup(r) \/ Scan(r)

Executes(r) == ReadRow(r) \/ ScanRows(r) \/ Insert(r) \/ Mark(r)

Resumes(r) == Stamp(r) \/ Duplicate(r) \/ Retry(r) \/ Throw(r) \/ Reply(r)

Breaks(r) == FailQuietly(r) \/ FailLoudly(r)

Step(r) == Executes(r) \/ Resumes(r)

Next == Tick \/ Quiet \/ \E r \in Requests : Arrives(r) \/ Step(r) \/ Breaks(r)

\* A statement that was sent is executed, a handler whose await is settled is
\* resumed, and time passes.  No client has to send a request.
Fairness == WF_vars(Tick) /\ \A r \in Requests : WF_vars(Alive(r) /\ Step(r))

Spec == Init /\ [][Next]_vars /\ Fairness

-----------------------------------------------------------------------------
\* What the handlers guarantee.

\* r's version is in the table.
Landed(r) == IsWrite(r) /\ status[r] = 303

\* r's removal has marked the table.
Removed(r) == kind[r] = "remove" /\ status[r] = 200

\* r has an answer from the database to a query with (without) a time bound.
Timed(r) == kind[r] = "read" \/ (TimedScan /\ kind[r] = "bulk_read")
Queried(r) ==
    /\ kind[r] \in {"read", "list", "bulk_read"}
    /\ status[r] \in {200, 403, 404}
    /\ r \notin failed

\* The version q was answered for, or stored, before r arrived.
Precedes(q, r) == q.by \in before[r] \cup {Earlier}

\* Of two versions of one document, the one whose request was answered before
\* the other arrived has the older stamp: strictly older where the table is
\* UNIQUE, so that "latest" means the write a client made last (repo.create).
StampsFollowAnswers ==
    \A p, q \in rows :
        p.id = q.id /\ q.by # Earlier /\ Precedes(p, q.by)
            => IF Unique THEN p.at < q.at ELSE p.at <= q.at

\* A query with a time bound that arrives after a write was answered returns
\* that version or a newer one, as long as nobody removed it (repo.read).
ReadsSeeAnsweredWrites ==
    \A r \in Requests : Queried(r) /\ Timed(r) =>
        \A q \in rows : q.id = doc[r] /\ ~q.deleted /\ Precedes(q, r) =>
            \E c \in found[r] : c.at >= q.at

\* The same for the queries without a time bound (repo.list, repo.readMany).
ScansSeeAnsweredWrites ==
    \A r \in Requests : Queried(r) /\ ~Timed(r) =>
        \A q \in rows : q.id = doc[r] /\ ~q.deleted /\ Precedes(q, r) =>
            \E c \in found[r] : c.at >= q.at

\* A read that arrives after another one was answered does not go back to an
\* older version, nor to none, unless the version was removed (repo.read).
ReadsNeverGoBack ==
    \A r1, r2 \in Requests :
        /\ Queried(r1) /\ kind[r1] = "read"
        /\ Queried(r2) /\ kind[r2] = "read"
        /\ r1 \in before[r2] /\ doc[r1] = doc[r2]
        => \A c \in found[r1] \cap rows : \E d \in found[r2] : d.at >= c.at

\* r1 and r2 were being served at the same time.
Overlap(r1, r2) == r1 \notin before[r2] /\ r2 \notin before[r1]

\* A write and a removal of document i were being served at the same time.
WriteRacedRemoval(i) ==
    \E w, d \in Requests :
        Landed(w) /\ Removed(d) /\ doc[w] = i /\ doc[d] = i /\ Overlap(w, d)

\* A removed document is visible again only if some write of it overlapped
\* some removal: update checks the document before it stores the new version,
\* and a removal in between is not noticed (Crud.update, Crud.remove).
RemovedStaysRemovedUnlessRaced ==
    \A d \in Requests : Removed(d) =>
        Live(rows, doc[d]) = {} \/ WriteRacedRemoval(doc[d])

\* No version that may still be stored is stamped t or earlier.
Settled(t) == t < now /\ \A r \in Requests : pc[r] = "insert" => at[r] > t

\* A step that executes a removal of document i.
RemovalOf(i) == \E r \in Requests : doc[r] = i /\ Mark(r)

\* A settled time stays settled, and what a query of that time returns changes
\* only by a removal: every version is stamped as it is sent (repo.create).
SettledTimesChangeByRemovalOnly ==
    [][\A t \in 0 .. now : Settled(t) =>
          /\ Settled(t)'
          /\ \A i \in Ids : RemovalOf(i) \/ AsOf(rows', i, t) = AsOf(rows, i, t)]_vars

\* The same without the exception: "Query data at specific points in time
\* using timestamps" (README.md).
SettledTimesNeverChange ==
    [][\A t \in 0 .. now : Settled(t) =>
          \A i \in Ids : AsOf(rows', i, t) = AsOf(rows, i, t)]_vars

\* The process dies of a duplicate version only when a document has more
\* versions than there are retries: every retry met another one.
DeathNeedsContention ==
    lost # {} /\ failed = {} =>
        \E r \in lost : Cardinality({q \in rows : q.id = doc[r]}) > MaxRetries

\* Every request is answered, or dies with the process.
EveryRequestEnds ==
    \A r \in Requests : pc[r] # "idle" ~> pc[r] = "done" \/ r \in lost
=============================================================================
