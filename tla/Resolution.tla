------------------------------ MODULE Resolution ------------------------------
(***************************************************************************)
(* What the resolver of a field promises.  It asks the sibling service for *)
(* a document, at a time and with the subfields selected, and the answer   *)
(* to that call is the value of the field.  A resolver without data        *)
(* loaders (assignResolver of dto.ts, callSubgraph of subgraph.ts) makes   *)
(* one such call per field.                                                *)
(***************************************************************************)
CONSTANTS
    Fields,     \* the occurrences of the field in an operation
    Calls,      \* what may be asked of the sibling
    Pending,    \* nothing was asked, or no answer is back
    Empty,      \* the sibling knows no such document
    Failed      \* an error

VARIABLES
    call,       \* call[f]: what the resolver of f asked for
    value       \* value[f]: what f has become

vars == <<call, value>>

Init ==
    /\ call = [f \in Fields |-> Pending]
    /\ value = [f \in Fields |-> Pending]

\* The resolver of f runs.  It fails when its object has nothing to refer to.
Ask(f) ==
    /\ call[f] = Pending
    /\ \/ /\ \E c \in Calls : call' = [call EXCEPT ![f] = c]
          /\ UNCHANGED value
       \/ /\ call' = [call EXCEPT ![f] = Failed]
          /\ value' = [value EXCEPT ![f] = Failed]

\* The answer to what f asked for: the document, nothing or an error.
Answer(f) ==
    /\ call[f] \in Calls
    /\ value[f] = Pending
    /\ \E v \in {call[f], Empty, Failed} : value' = [value EXCEPT ![f] = v]
    /\ UNCHANGED call

Next == \E f \in Fields : Ask(f) \/ Answer(f)

\* What may never happen.
Safety == Init /\ [][Next]_vars

\* A field that was asked for is answered.
Spec == Safety /\ \A f \in Fields : WF_vars(Answer(f))
=============================================================================
