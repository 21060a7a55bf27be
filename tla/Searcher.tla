------------------------------ MODULE Searcher ------------------------------
(***************************************************************************)
(* The searches of a graphlette over the table its restlette writes: find  *)
(* and findAll of the four searchers in repos/.  A search is one query, so *)
(* it is an operator on the rows it executes on.  A filter, the expanded   *)
(* template, is the set of the rows it matches: it looks at the payload,   *)
(* or at the id, and never at the removal mark.                            *)
(*                                                                         *)
(* The searchers differ in                                                 *)
(*   StrictSearch     created_at must be less than the time asked for      *)
(*                    (Mongo), else it may be equal                        *)
(*   FindSeesRemoved  find has no clause on deleted (SQLite, Mongo)        *)
(*   AllSeesRemoved   findAll has none (Mongo)                             *)
(***************************************************************************)
EXTENDS Restlette

CONSTANTS StrictSearch, FindSeesRemoved, AllSeesRemoved

ASSUME SearcherConstants ==
    StrictSearch \in BOOLEAN /\ FindSeesRemoved \in BOOLEAN /\ AllSeesRemoved \in BOOLEAN

\* Plausible bugs of InTime: no bound, and a strict one everywhere.
AnyTime(q, t) == q.at = q.at
StrictlyInTime(q, t) == q.at < t

\* The clause on created_at.
InTime(q, t) == IF StrictSearch THEN q.at < t ELSE q.at <= t

\* A plausible bug of AllSeen: the clause is missing.
AllSeenAlways(q) == q = q

\* The clauses on deleted.
FindSeen(q) == FindSeesRemoved \/ ~q.deleted
AllSeen(q) == AllSeesRemoved \/ ~q.deleted

\* The rows that match in find, and in findAll.
FindRows(F, t) == {q \in F : InTime(q, t) /\ FindSeen(q)}
AllRows(F, t) == {q \in F : InTime(q, t) /\ AllSeen(q)}

\* The row a find may return: the newest that matches, of whatever document.
Find(F, t) == Newest(FindRows(F, t))

\* Plausible bugs of OnePerDocument: no order, so any version may be first, and
\* the ascending one.
AnyPerDocument(S) == S
OldestPerDocument(S) == {q \in S : \A p \in S : p.id = q.id => q.at <= p.at}

\* One version of each document: GROUP BY, PARTITION BY or DISTINCT ON id, the
\* newest first.
OnePerDocument(S) == UNION {Newest({q \in S : q.id = i}) : i \in {q.id : q \in S}}

\* The rows findAll returns: one of them for each document.
FindAll(F, t) == OnePerDocument(AllRows(F, t))

-----------------------------------------------------------------------------
\* What a graphlette's answers have to do with the restlette's.

\* Where the clauses differ from those of repo.read: the bound is strict and a
\* version carries the very time, or removed versions are not left out.
Differs(F, t, seesRemoved) ==
    \/ StrictSearch /\ \E q \in F : q.at = t
    \/ seesRemoved /\ \E q \in F : q.deleted

\* A search by id and a read at the same moment return the same version,
\* except where Differs says (getById through singleton or vector, Crud.read).
GraphAgreesWithRest ==
    \A i \in Ids :
        LET F == {q \in rows : q.id = i}
        IN  /\ Find(F, appNow) = AsOf(rows, i, appNow) \/ Differs(F, appNow, FindSeesRemoved)
            /\ FindAll(F, appNow) = AsOf(rows, i, appNow) \/ Differs(F, appNow, AllSeesRemoved)

\* A search by id that is sent after a write was answered returns that version
\* or a newer one, unless it was removed; a strict bound misses a version of
\* the same millisecond (vector, getTimestamp).
SearchesFindAnsweredWrites ==
    \A q \in rows :
        /\ q.by \in Answered \cup {Earlier} /\ ~q.deleted
        /\ StrictSearch => q.at < appNow
        => \E c \in FindAll({p \in rows : p.id = q.id}, appNow) : c.at >= q.at

\* What a search of a settled time returns does not change except by a
\* removal, whatever it filters by ("Temporal queries via timestamp
\* arguments", README.md).
SearchesOfThePastRepeat ==
    [][\A t \in 0 .. now : Settled(t) /\ rows' # rows =>
          \/ \E i \in Ids : RemovalOf(i)
          \/ \A F \in SUBSET rows' :
                /\ Find(F, t) = Find(F \cap rows, t)
                /\ FindAll(F, t) = FindAll(F \cap rows, t)]_vars

\* The filter is applied before the newest version is chosen, so a search by a
\* property that changed returns a superseded version; it does so only when
\* the version that was current then does not match (findAll).
SupersededOnlyByMismatch ==
    \A t \in 0 .. now : \A F \in SUBSET rows : \A c \in FindAll(F, t) :
        ~c.deleted /\ c \notin AsOf(rows, c.id, t)
            => \A d \in AsOf(rows, c.id, t) : d \in F => ~InTime(d, t)
=============================================================================
