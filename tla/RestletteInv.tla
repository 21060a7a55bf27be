---------------------------- MODULE RestletteInv ----------------------------
(***************************************************************************)
(* The inductive invariants behind the safety properties of Restlette.     *)
(***************************************************************************)
EXTENDS Restlette

\* Nothing carries a time that is still to come, and without a lag the two
\* clocks agree.
ClockInv ==
    /\ appNow <= now
    /\ MaxLag = 0 => appNow = now
    /\ \A q \in rows : q.at <= now
    /\ \A r \in Requests : at[r] <= now

\* What the control point of a request says of its handler, its answer and the
\* requests before it.
PhaseInv ==
    \A r \in Requests :
        /\ pc[r] \notin {"reply", "done"} => status[r] = 0
        /\ pc[r] = "idle" => kind[r] = "none"
        /\ pc[r] # "idle" => doc[r] \in Ids
        /\ pc[r] = "lookup" => kind[r] \in {"read", "update", "remove"}
        /\ pc[r] = "scan" => kind[r] \in {"list", "bulk_read"}
        /\ pc[r] \in {"stamp", "insert", "wait"} => IsWrite(r)
        /\ pc[r] = "mark" => kind[r] = "remove"
        /\ before[r] \subseteq Answered \ {r}

\* A version was stored by the one insert of the request it names, and the
\* constraint of the table holds.
RowsInv ==
    /\ \A q \in rows : q.by # Earlier => Landed(q.by) /\ doc[q.by] = q.id
    /\ Unique => \A p, q \in rows : p.id = q.id /\ p.at = q.at => p = q

\* A version under way is stamped no earlier than those answered before it.
StampInv ==
    \A r \in Requests : pc[r] = "insert" =>
        \A q \in rows : Precedes(q, r) => q.at <= at[r]

\* A write that got past its check although a removal was answered before it
\* arrived owes that to an earlier race.
RemovedInv ==
    \A w, d \in Requests :
        /\ pc[w] \in {"stamp", "insert", "wait"}
        /\ Removed(d) /\ d \in before[w] /\ doc[d] = doc[w]
        => WriteRacedRemoval(doc[d])

\* A query under way looks no further back than the versions answered before it.
BoundInv ==
    MaxLag = 0 => \A r \in Requests : pc[r] \in {"lookup", "scan"} =>
        \A q \in rows : Precedes(q, r) => q.at <= at[r]

IInv ==
    /\ TypeOK /\ ClockInv /\ PhaseInv /\ RowsInv
    /\ StampInv /\ StampsFollowAnswers
    /\ RemovedInv /\ RemovedStaysRemovedUnlessRaced
    /\ BoundInv

\* A query r that repo.read answered.
WasRead(r) == Queried(r) /\ kind[r] = "read"

\* What a read found was a stored version of its document, none of the future,
\* and a read that is under way looks no further back than those before it.
ReadInv ==
    /\ \A r \in Requests : pc[r] = "lookup" => at[r] <= appNow
    /\ \A r \in Requests : WasRead(r) => \A c \in found[r] :
          /\ c.id = doc[r] /\ ~c.deleted /\ c.at <= appNow
          /\ c.by # Earlier => Landed(c.by)
    /\ \A r1, r2 \in Requests :
          /\ WasRead(r1) /\ kind[r2] = "read" /\ pc[r2] = "lookup"
          /\ r1 \in before[r2] /\ doc[r1] = doc[r2]
          => \A c \in found[r1] : c.at <= at[r2]

\* The stamps of the versions of document i in table S that are older than t.
Times(S, i, t) == {q.at : q \in {p \in S : p.id = i /\ p.at < t}}

\* Every retry of a create met another version of its document, and the
\* process dies of the one after the last retry.
RetryInv ==
    /\ \A i \in Ids : IsFiniteSet({q \in rows : q.id = i})
    /\ \A r \in lost : pc[r] # "idle"
    /\ \A r \in Requests :
          /\ pc[r] \in {"idle", "lookup", "stamp"} => tries[r] = 0
          /\ pc[r] = "insert" => tries[r] <= Cardinality(Times(rows, doc[r], at[r]))
          /\ pc[r] = "wait" => tries[r] < Cardinality(Times(rows, doc[r], at[r] + 1))
    /\ lost # {} /\ failed = {} =>
          /\ MaxRetries # Unbounded
          /\ \E r \in lost : Cardinality(Times(rows, doc[r], now + 1)) > MaxRetries

=============================================================================
