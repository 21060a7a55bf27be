----------------------------- MODULE AtLeastOnce -----------------------------
(***************************************************************************)
(* What a pipeline promises that delivers at least once: it delivers only  *)
(* what was published, takes nothing back, and everything published is     *)
(* delivered or given up with an excuse.                                   *)
(***************************************************************************)
CONSTANT Events

VARIABLES published, delivered, excused

pipeline == <<published, delivered, excused>>

Init == published = {} /\ delivered = {} /\ excused = {}

Publish(e) ==
    /\ published' = published \cup {e}
    /\ UNCHANGED <<delivered, excused>>

Deliver(e) ==
    /\ e \in published
    /\ delivered' = delivered \cup {e}
    /\ UNCHANGED <<published, excused>>

Excuse(e) ==
    /\ e \in published
    /\ excused' = excused \cup {e}
    /\ UNCHANGED <<published, delivered>>

Next == \E e \in Events : Publish(e) \/ Deliver(e) \/ Excuse(e)

\* What is neither delivered nor excused will be one of the two.
Fairness == \A e \in Events : WF_pipeline(e \notin delivered \cup excused /\ (Deliver(e) \/ Excuse(e)))

Safety == Init /\ [][Next]_pipeline

Spec == Safety /\ Fairness
=============================================================================
