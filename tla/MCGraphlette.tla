----------------------------- MODULE MCGraphlette -----------------------------
(***************************************************************************)
(* Model checking of Graphlette: an operation of two top level fields, the *)
(* first with two objects and the second with one.                         *)
(***************************************************************************)
EXTENDS Graphlette, TLC

CONSTANTS r1, r2, f1, f2, f3

Below == (f1 :> r1) @@ (f2 :> r1) @@ (f3 :> r2)

\* { a: getById(id: .., at: 1) { .. }  b: getById(id: .., at: 1) { .. } }
OneTime == [r \in Roots |-> 1]

\* { a: getById(id: .., at: 1) { .. }  b: getById(id: ..) { .. } }
TwoTimes == (r1 :> 1) @@ (r2 :> NoAt)

OneSelection == [r \in Roots |-> "name"]
=============================================================================
