---------------------------- MODULE RestletteStore ----------------------------
(***************************************************************************)
(* A restlette on a table with UNIQUE (id, created_at) and one clock is a  *)
(* DocumentStore: the register of a document holds its latest version.     *)
(* The history variable seen adds what the register held while a request   *)
(* waits for its query.                                                    *)
(***************************************************************************)
EXTENDS Restlette

CONSTANT Nobody

ASSUME NobodyIsNobody == Nobody \notin Requests \cup {Earlier}

VARIABLE seen

\* Whose version a set of rows of one created_at is.
Author(S) == IF S = {} THEN Nobody ELSE (CHOOSE q \in S : TRUE).by

Holder == [i \in Ids |-> Author(Latest(rows, i))]

\* Whose versions of i a step shows: the new one, and the latest after it.
Passing(i) == {q.by : q \in Live(rows', i) \ rows} \cup {Holder'[i]}

StoreInit == Init /\ seen = [r \in Requests |-> {}]

StoreNext ==
    /\ Next
    /\ seen' = [r \in Requests |->
                   IF pc'[r] \in {"lookup", "scan"} THEN seen[r] \cup Passing(doc'[r]) ELSE {}]

StoreSpec == StoreInit /\ [][StoreNext]_<<vars, seen>> /\ Fairness

CallAt(p) ==
    CASE p \in {"idle", "done"} -> p
      [] p \in {"lookup", "scan"} -> "open"
      [] p \in {"stamp", "insert", "wait", "mark"} -> "granted"
      [] p = "reply" -> "settled"

Answers(r) ==
    CASE status[r] = 0 -> "none"
      [] status[r] = 303 -> "stored"
      [] status[r] \in {400, 403} -> "refused"
      [] kind[r] = "remove" /\ status[r] = 200 -> "removed"
      [] OTHER -> Author(found[r])

Calls == [r \in Requests |-> CallAt(pc[r])]

Given == [r \in Requests |-> Answers(r)]

Store == INSTANCE DocumentStore WITH holder <- Holder, call <- Calls, answer <- Given

\* A restlette is a document store: whatever the interleaving of handlers,
\* statements, retries and failures, an answer says nothing but what the
\* document's register held between request and answer, and a write or a
\* removal takes effect once, after its look at the document (Crud, repo.read,
\* repo.readMany, repo.create, repo.remove).
IsDocumentStore == Store!Spec
=============================================================================
