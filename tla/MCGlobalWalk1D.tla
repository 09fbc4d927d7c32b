--------------------------- MODULE MCGlobalWalk1D ---------------------------
(***************************************************************************)
(* Small instances of GlobalWalk1D: every way to cut 0..N-1, for N up to   *)
(* MaxCoord, into commSize ranges, in rank order and in reverse rank order.*)
(***************************************************************************)
EXTENDS GlobalWalk1D

CONSTANT MaxCoord     \* bound on the number of coordinates of a window

\* The last coordinates of commSize ranges tiling 0..n-1.
Cuts(n) == {c \in [Ranks -> 0 .. n-1] :
              /\ c[commSize-1] = n-1
              /\ \A p \in Ranks : p > 0 => c[p-1] < c[p]}

InOrder(c) == [rlo |-> [p \in Ranks |-> IF p = 0 THEN 0 ELSE c[p-1] + 1], rhi |-> c]
Reversed(L) == [rlo |-> [p \in Ranks |-> L.rlo[commSize-1-p]],
                rhi |-> [p \in Ranks |-> L.rhi[commSize-1-p]]]

MCLayouts == LET S == UNION {{InOrder(c) : c \in Cuts(n)} : n \in commSize .. MaxCoord}
             IN  S \cup {Reversed(L) : L \in S}
=============================================================================
