--------------------------- MODULE MCRestletteStore ---------------------------
(***************************************************************************)
(* Model checking of a restlette as a document store, with the searches    *)
(* over the same table.                                                    *)
(***************************************************************************)
EXTENDS MCRestlette, RestletteStore
=============================================================================
