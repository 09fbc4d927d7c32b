---------------------------- MODULE MCCheckGaps ----------------------------
(***************************************************************************)
(* Small instances of CheckGaps: every way to place commSize boxes in a    *)
(* Rows x Cols array, disjoint or not.                                     *)
(***************************************************************************)
EXTENDS CheckGaps

CONSTANTS Rows, Cols    \* the shape of the array

MCBoxes == {[lo |-> <<r1, c1>>, hi |-> <<r2, c2>>] :
              r1 \in 0 .. Rows-1, r2 \in 0 .. Rows-1, c1 \in 0 .. Cols-1, c2 \in 0 .. Cols-1}
MCLayouts == [Procs -> {b \in MCBoxes : b.lo[1] <= b.hi[1] /\ b.lo[2] <= b.hi[2]}]

\* The whole array, and a window some processes reach beyond.
MCSizes == {<<Rows, Cols>>, <<Rows-1, Cols>>}
=============================================================================
