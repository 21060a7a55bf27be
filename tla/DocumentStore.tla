---------------------------- MODULE DocumentStore ----------------------------
(***************************************************************************)
(* What the REST interface of a restlette promises its clients, without    *)
(* versions, clocks and statements: one register per document.  A request  *)
(* looks at its document and takes effect somewhere between its arrival    *)
(* and its answer.  What it sees is something the register held since it   *)
(* arrived.  A write that overlaps the present one may take effect just    *)
(* before it: it is superseded at once, and seen in passing at most.       *)
(*                                                                         *)
(* The store is weaker than a register that checks and writes in one step: *)
(* an update is granted for a document it saw, and stored later, also when *)
(* the document was removed in between.                                    *)
(***************************************************************************)
CONSTANTS
    Requests, Ids, Stored, Earlier, NoDoc,
    Nobody  \* what the register of a document that is not there holds

VARIABLES
    holder, \* holder[i]: whose version the register of document i holds
    kind,   \* kind[r]: which handler serves r
    doc,    \* doc[r]: the document r addresses
    call,   \* call[r]: idle, open, granted, settled or done
    seen,   \* seen[r]: what r's register held since r arrived, while r is open
    answer, \* answer[r]: what r is answered
    before, \* before[r]: the requests answered when r arrived
    lost    \* the requests that are never answered

store == <<holder, kind, doc, call, seen, answer, before, lost>>

Init ==
    /\ holder = [i \in Ids |-> IF i \in Stored THEN Earlier ELSE Nobody]
    /\ kind = [r \in Requests |-> "none"]
    /\ doc = [r \in Requests |-> NoDoc]
    /\ call = [r \in Requests |-> "idle"]
    /\ seen = [r \in Requests |-> {}]
    /\ answer = [r \in Requests |-> "none"]
    /\ before = [r \in Requests |-> {}]
    /\ lost = {}

Arrive(r, k, i, c) ==
    /\ call[r] = "idle"
    /\ kind' = [kind EXCEPT ![r] = k]
    /\ doc' = [doc EXCEPT ![r] = i]
    /\ call' = [call EXCEPT ![r] = c]
    /\ before' = [before EXCEPT ![r] = {q \in Requests : call[q] = "done"}]
    /\ UNCHANGED <<holder, lost>>

\* A request for a document starts to look at it.
Ask(r, k, i) ==
    /\ Arrive(r, k, i, "open")
    /\ seen' = [seen EXCEPT ![r] = {holder[i]}]
    /\ UNCHANGED answer

\* A document nobody can name yet is stored without a look.
New(r, i) ==
    /\ Arrive(r, "create", i, "granted")
    /\ holder[i] = Nobody
    /\ \A q \in Requests : doc[q] # i
    /\ UNCHANGED <<seen, answer>>

\* An invalid document is refused without a look.
Reject(r, k, i) ==
    /\ Arrive(r, k, i, "settled")
    /\ answer' = [answer EXCEPT ![r] = "refused"]
    /\ UNCHANGED seen

Look(r, c, a) ==
    /\ call[r] = "open"
    /\ r \notin lost
    /\ call' = [call EXCEPT ![r] = c]
    /\ seen' = [seen EXCEPT ![r] = {}]
    /\ answer' = [answer EXCEPT ![r] = a]
    /\ UNCHANGED <<holder, kind, doc, before, lost>>

\* r sees a version v its register held, or that there was none.
See(r) ==
    \E v \in seen[r] :
        \/ (v = Nobody \/ kind[r] \in {"read", "list", "bulk_read"}) /\ Look(r, "settled", v)
        \/ v # Nobody /\ Look(r, "settled", "refused")
        \/ v # Nobody /\ kind[r] \in {"update", "remove"} /\ Look(r, "granted", "none")

\* v passes through the register of r's document: all that look at it may see it.
Effect(r, v, a) ==
    /\ call[r] = "granted"
    /\ call' = [call EXCEPT ![r] = "settled"]
    /\ seen' = [q \in Requests |->
                   IF call[q] = "open" /\ doc[q] = doc[r] THEN seen[q] \cup {v} ELSE seen[q]]
    /\ answer' = [answer EXCEPT ![r] = a]
    /\ UNCHANGED <<kind, doc, before, lost>>

\* The register holds a version of a write that was not answered before r came.
Overlapped(r) == holder[doc[r]] \notin before[r] \cup {Earlier, Nobody}

Write(r) ==
    /\ kind[r] \in {"create", "update"}
    /\ Effect(r, r, "stored")
    /\ \/ holder' = [holder EXCEPT ![doc[r]] = r]
       \/ Overlapped(r) /\ UNCHANGED holder

Remove(r) ==
    /\ kind[r] = "remove"
    /\ Effect(r, Nobody, "removed")
    /\ holder' = [holder EXCEPT ![doc[r]] = Nobody]

Answer(r) ==
    /\ call[r] = "settled"
    /\ r \notin lost
    /\ call' = [call EXCEPT ![r] = "done"]
    /\ UNCHANGED <<holder, kind, doc, seen, answer, before, lost>>

\* All requests that are being served are lost.
Lose ==
    /\ lost' = lost \cup {r \in Requests : call[r] \notin {"idle", "done"}}
    /\ UNCHANGED <<holder, kind, doc, call, seen, answer, before>>

Next ==
    \/ Lose
    \/ \E r \in Requests :
          \/ See(r) \/ Write(r) \/ Remove(r) \/ Answer(r)
          \/ \E i \in Ids :
                \/ New(r, i)
                \/ \E k \in {"create", "update"} : Reject(r, k, i)
                \/ \E k \in {"read", "update", "remove", "list", "bulk_read"} : Ask(r, k, i)

Spec == Init /\ [][Next]_store
=============================================================================
