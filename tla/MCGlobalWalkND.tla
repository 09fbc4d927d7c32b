--------------------------- MODULE MCGlobalWalkND ---------------------------
(***************************************************************************)
(* Small instances of GlobalWalkND: four processes sharing a Rows x Cols   *)
(* array in the ways the tests of simple-gv share theirs.                  *)
(***************************************************************************)
EXTENDS GlobalWalkND

CONSTANTS Rows, Cols    \* the shape of the array

Box(b) == [rlo |-> [p \in Ranks |-> <<b[p+1][1], b[p+1][2]>>],
           rhi |-> [p \in Ranks |-> <<b[p+1][3], b[p+1][4]>>]]

\* Two columns of processes, cut at column c; the left one is cut at row a, the
\* right one at row b (a = b: a grid; a # b: simple_gv_bulk_nD_1).
Columns == {Box(<<<<0, 0, a-1, c-1>>, <<0, c, b-1, Cols-1>>,
                  <<a, 0, Rows-1, c-1>>, <<b, c, Rows-1, Cols-1>>>>) :
              a \in 1 .. Rows-1, b \in 1 .. Rows-1, c \in 1 .. Cols-1}
\* The same grid with the ranks in column-major order.
ColumnMajor == {Box(<<<<0, 0, a-1, c-1>>, <<a, 0, Rows-1, c-1>>,
                      <<0, c, a-1, Cols-1>>, <<a, c, Rows-1, Cols-1>>>>) :
                  a \in 1 .. Rows-1, c \in 1 .. Cols-1}
\* Bands of rows, the last one cut in two.
Bands == {Box(<<<<0, 0, Rows-3, Cols-1>>, <<Rows-2, 0, Rows-2, Cols-1>>,
                <<Rows-1, 0, Rows-1, Cols-2>>, <<Rows-1, Cols-1, Rows-1, Cols-1>>>>)}

MCLayouts == Columns \cup ColumnMajor \cup Bands
MCPoints  == (0 .. Rows-1) \X (0 .. Cols-1)
MCOrigins == {Contiguous, [starts |-> <<1, 0>>, sizes |-> <<Rows, Cols+1>>]}

\* Two bands of rows with row numbers beyond one byte.
TallLayouts == {Box(<<<<0, 0, 127, 9>>, <<128, 0, 299, 9>>>>)}
TallPoints  == {0, 100, 128, 200, 255, 256, 299} \X {0, 5, 9}
TallOrigins == {Contiguous}
=============================================================================
