----------------------------- MODULE MCFutures -----------------------------
(***************************************************************************)
(* Futures for TLC: two windows, one to three expressions left to their    *)
(* flushes, one of which may be given up, and a buffer of a few places.    *)
(***************************************************************************)
EXTENDS Futures

LocalShape == {[view |-> "LOCAL_VIEW", ndims |-> 2]}
=============================================================================
