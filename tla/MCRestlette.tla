----------------------------- MODULE MCRestlette -----------------------------
(***************************************************************************)
(* Model checking of Restlette and Searcher.  The configurations named     *)
(* after the four repositories give them the traits of each.               *)
(***************************************************************************)
EXTENDS RestletteInv, Searcher, TLC

\* Requests are interchangeable (not in the runs of liveness properties).
Symmetry == Permutations(Requests)
=============================================================================
