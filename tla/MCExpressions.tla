--------------------------- MODULE MCExpressions ---------------------------
(***************************************************************************)
(* Expressions for TLC: one thread, one or two windows, and a buffer and a *)
(* store of a few places, so that statements share windows, flushes find   *)
(* several handles and both run out.                                       *)
(***************************************************************************)
EXTENDS Expressions

LocalShape == {[view |-> "LOCAL_VIEW", ndims |-> 2]}
AllShapes  == LocalShape \cup {[view |-> "GLOBAL_VIEW", ndims |-> d] : d \in 1 .. 2}
=============================================================================
