--------------------------- MODULE MCCollectives ---------------------------
(***************************************************************************)
(* Collectives for TLC: three processes, a local window and global ones in *)
(* slabs of either dimension, in rank order and not, and in blocks.        *)
(***************************************************************************)
EXTENDS Collectives

A(a, b, c) == [p \in Procs |-> CASE p = 0 -> a [] p = 1 -> b [] OTHER -> c]
Global(n, rlo) == [view |-> "GLOBAL_VIEW", ndims |-> n, rlo |-> rlo, same_wsize |-> TRUE, same_size_info |-> FALSE]
Local(n) == [view |-> "LOCAL_VIEW", ndims |-> n, rlo |-> [p \in Procs |-> [k \in 1 .. n |-> 0]],
             same_wsize |-> TRUE, same_size_info |-> TRUE]
Windows3 ==
  {Local(1), Local(2),
   Global(2, A(<<0, 0>>, <<0, 1>>, <<0, 2>>)),
   Global(2, A(<<0, 2>>, <<0, 1>>, <<0, 0>>)),
   Global(2, A(<<0, 0>>, <<2, 0>>, <<1, 0>>)),
   Global(2, A(<<0, 0>>, <<0, 1>>, <<1, 0>>)),
   [Global(1, A(<<0>>, <<1>>, <<3>>)) EXCEPT !.same_wsize = FALSE, !.same_size_info = TRUE]}
=============================================================================
