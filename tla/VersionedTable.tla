--------------------------- MODULE VersionedTable ---------------------------
(***************************************************************************)
(* A table of versioned envelopes, as the four repositories of meshobj     *)
(* query it.  A row is one version of one document: a record with at least *)
(* the fields id (the logical id), at (created_at) and deleted.  Rows are  *)
(* never overwritten: a new version is a new row, and a removal only marks *)
(* rows.  These are the WHERE / ORDER BY / LIMIT clauses of the queries.   *)
(***************************************************************************)
EXTENDS Integers

\* WHERE id = i AND deleted = 0
Live(rows, i) == {q \in rows : q.id = i /\ ~q.deleted}

\* ORDER BY created_at DESC, first row: one of these, and no clause says which
\* when two versions carry the same created_at.
Newest(S) == {q \in S : \A p \in S : p.at <= q.at}

\* Plausible bugs of AsOf: a strict comparison, and no ORDER BY.
AsOfStrict(rows, i, t) == Newest({q \in Live(rows, i) : q.at < t})
AsOfUnordered(rows, i, t) == {q \in Live(rows, i) : q.at <= t}

\* The version(s) a read at time t may return: read(id, tokens, at).
AsOf(rows, i, t) == Newest({q \in Live(rows, i) : q.at <= t})

\* The version(s) a listing may return for i: no clause on created_at.
Latest(rows, i) == Newest(Live(rows, i))

\* A plausible bug of MarkDeleted: only the current version is marked.
MarkNewestDeleted(rows, i) ==
    {IF q \in Latest(rows, i) THEN [q EXCEPT !.deleted = TRUE] ELSE q : q \in rows}

\* UPDATE ... SET deleted = 1 WHERE id = i: every version of the document.
MarkDeleted(rows, i) ==
    {IF q.id = i THEN [q EXCEPT !.deleted = TRUE] ELSE q : q \in rows}

\* A plausible bug: the constraint is missing from the CREATE TABLE.
NoConstraint(rows, i, t) == FALSE

\* Another version of i carries this created_at: what UNIQUE (id, created_at)
\* refuses.
Clash(rows, i, t) == \E q \in rows : q.id = i /\ q.at = t

\* What a driver that keeps the first row of a result returns: one of the
\* rows of S, as a set of one, or nothing when S is empty.
First(S) == IF S = {} THEN {{}} ELSE {{q} : q \in S}
=============================================================================
