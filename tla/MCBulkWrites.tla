---------------------------- MODULE MCBulkWrites ----------------------------
(***************************************************************************)
(* Model checking of BulkWrites.                                           *)
(***************************************************************************)
EXTENDS BulkWrites, TLC

\* Requests are interchangeable.
Symmetry == Permutations(Requests)
=============================================================================
