--------------------------- MODULE MCLocalWindow ---------------------------
(***************************************************************************)
(* A small instance of LocalWindow: a two-dimensional window with a box of *)
(* one element and a box of two, and RMACXX_Subarray_t's constructed with  *)
(* and without a type.                                                     *)
(***************************************************************************)
EXTENDS LocalWindow

MCBoxes == {[at |-> 0, shape |-> <<1, 1>>], [at |-> 1, shape |-> <<1, 2>>]}
MCTypes == Shapes \cup {None}
=============================================================================
