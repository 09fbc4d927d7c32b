------------------------- MODULE GlobalWalkND_proofs -------------------------
(***************************************************************************)
(* GlobalWalkND for every number of processes, every layout, every set of  *)
(* points and origins, and, where memcmp lets it be right, two dimensions. *)
(***************************************************************************)
EXTENDS GlobalWalkND, FiniteSetTheorems, WellFoundedInduction, TLAPS

-----------------------------------------------------------------------------
(***************************************************************************)
(* A set of natural numbers has a least element, and a loop of n steps has *)
(* a result.                                                               *)
(***************************************************************************)

\* Every set of natural numbers that is not empty has a least element.
LEMMA NatMin ==
  ASSUME NEW S \in SUBSET Nat, S # {}
  PROVE  \E n \in S : \A m \in S : n <= m
<1>. DEFINE R == {d \in Nat \X Nat : d[1] < d[2]}
<1>1. IsWellFoundedOn(R, Nat)
  BY NatLessThanWellFounded, Zenon DEF OpToRel
<1>2. PICK n \in S : \A y \in S : <<y, n>> \notin R
  <2>. HIDE DEF R
  <2>. QED BY <1>1, WFMin, Zenon
<1>3. \A y \in S : ~(y < n)
  BY <1>2
<1>. QED
  BY <1>3

\* Min is that element.
LEMMA MinLeast ==
  ASSUME NEW S \in SUBSET Nat, S # {}
  PROVE  Min(S) \in S /\ \A m \in S : Min(S) <= m
BY NatMin DEF Min

\* A loop that starts with a and turns the number x into step[k][x] in its k-th round has a
\* value after every round.
LEMMA LoopExists ==
  ASSUME NEW n \in Nat, NEW a \in Nat, NEW step \in [1 .. n -> [Nat -> Nat]]
  PROVE  \E g \in [0 .. n -> Nat] : g[0] = a /\ \A k \in 1 .. n : g[k] = step[k][g[k-1]]
<1>. DEFINE Run(m) == \E g \in [0 .. m -> Nat] : g[0] = a /\ \A k \in 1 .. m : g[k] = step[k][g[k-1]]
            Bad == {m \in 0 .. n : ~Run(m)}
<1>1. SUFFICES ASSUME Bad # {} PROVE FALSE
  <2>1. n \in 0 .. n
    OBVIOUS
  <2>. QED BY <2>1
<1>2. PICK m \in Bad : \A k \in Bad : m <= k
  <2>1. Bad \in SUBSET Nat
    OBVIOUS
  <2>. HIDE DEF Bad
  <2>. QED BY <1>1, <2>1, NatMin
<1>3. m # 0
  <2>. DEFINE g == [k \in 0 .. 0 |-> a]
  <2>1. g \in [0 .. 0 -> Nat] /\ g[0] = a /\ \A k \in 1 .. 0 : g[k] = step[k][g[k-1]]
    OBVIOUS
  <2>2. Run(0)
    BY <2>1
  <2>. QED BY <2>2
<1>4. m \in Nat /\ m - 1 \in 0 .. n /\ m \in 1 .. n
  BY <1>3
<1>5. m - 1 \notin Bad
  <2>. HIDE DEF Bad
  <2>. QED BY <1>2, <1>4
<1>6. PICK g \in [0 .. m - 1 -> Nat] : g[0] = a /\ \A k \in 1 .. m - 1 : g[k] = step[k][g[k-1]]
  BY <1>4, <1>5
<1>. DEFINE h == [k \in 0 .. m |-> IF k = m THEN step[m][g[m-1]] ELSE g[k]]
<1>7. g[m-1] \in Nat /\ step[m][g[m-1]] \in Nat
  <2>1. m - 1 \in 0 .. m - 1
    BY <1>4
  <2>2. g[m-1] \in Nat
    BY <1>6, <2>1
  <2>3. step[m] \in [Nat -> Nat]
    BY <1>4
  <2>. QED BY <2>2, <2>3
<1>8. h \in [0 .. m -> Nat] /\ h[0] = a /\ \A k \in 1 .. m : h[k] = step[k][h[k-1]]
  <2>1. ASSUME NEW k \in 0 .. m PROVE h[k] \in Nat
    BY <1>4, <1>6, <1>7
  <2>2. ASSUME NEW k \in 1 .. m PROVE h[k] = step[k][h[k-1]]
    <3>1. h[k-1] = g[k-1] /\ k \in 0 .. m
      BY <1>4
    <3>2. CASE k = m
      BY <3>1, <3>2
    <3>3. CASE k # m
      <4>1. k \in 1 .. m - 1
        BY <1>4, <3>3
      <4>. QED BY <1>6, <3>1, <3>3, <4>1
    <3>. QED BY <3>2, <3>3
  <2>3. h[0] = a
    BY <1>3, <1>4, <1>6
  <2>. QED BY <2>1, <2>2, <2>3
<1>9. Run(m)
  BY <1>8
<1>. QED
  BY <1>9

\* A loop that multiplies by d[k], and one that adds d[k].
LEMMA ProductLoop ==
  ASSUME NEW n \in Nat, NEW a \in Nat, NEW d \in [1 .. n -> Nat]
  PROVE  \E g \in [0 .. n -> Nat] : g[0] = a /\ \A k \in 1 .. n : g[k] = g[k-1] * d[k]
<1>. DEFINE step == [k \in 1 .. n |-> [x \in Nat |-> x * d[k]]]
<1>1. \A x, y \in Nat : x * y \in Nat
  OBVIOUS
<1>2. \A k \in 1 .. n : step[k] = [x \in Nat |-> x * d[k]] /\ step[k] \in [Nat -> Nat]
  BY <1>1
<1>3. step \in [1 .. n -> [Nat -> Nat]]
  BY <1>2
<1>. HIDE DEF step
<1>4. PICK g \in [0 .. n -> Nat] : g[0] = a /\ \A k \in 1 .. n : g[k] = step[k][g[k-1]]
  BY <1>3, LoopExists
<1>5. ASSUME NEW k \in 1 .. n PROVE g[k] = g[k-1] * d[k]
  <2>1. k - 1 \in 0 .. n /\ g[k-1] \in Nat
    OBVIOUS
  <2>2. step[k][g[k-1]] = g[k-1] * d[k]
    BY <1>2, <2>1
  <2>. QED BY <1>4, <2>2
<1>. QED
  BY <1>4, <1>5

LEMMA SumLoop ==
  ASSUME NEW n \in Nat, NEW a \in Nat, NEW d \in [1 .. n -> Nat]
  PROVE  \E g \in [0 .. n -> Nat] : g[0] = a /\ \A k \in 1 .. n : g[k] = g[k-1] + d[k]
<1>. DEFINE step == [k \in 1 .. n |-> [x \in Nat |-> x + d[k]]]
<1>1. \A k \in 1 .. n : step[k] = [x \in Nat |-> x + d[k]] /\ step[k] \in [Nat -> Nat]
  OBVIOUS
<1>2. step \in [1 .. n -> [Nat -> Nat]]
  BY <1>1
<1>. HIDE DEF step
<1>3. PICK g \in [0 .. n -> Nat] : g[0] = a /\ \A k \in 1 .. n : g[k] = step[k][g[k-1]]
  BY <1>2, LoopExists
<1>4. ASSUME NEW k \in 1 .. n PROVE g[k] = g[k-1] + d[k]
  <2>1. k - 1 \in 0 .. n /\ g[k-1] \in Nat
    OBVIOUS
  <2>2. step[k][g[k-1]] = g[k-1] + d[k]
    BY <1>1, <2>1
  <2>. QED BY <1>3, <2>2
<1>. QED
  BY <1>3, <1>4

-----------------------------------------------------------------------------

\* The processes' boxes, which no action changes.
Grid ==
  /\ rlo \in [Ranks -> Vec] /\ rhi \in [Ranks -> Vec]
  /\ \A p \in Ranks, i \in Dims : rlo[p][i] <= rhi[p][i]

\* find_target finds an owner of a coordinate of the window.
LEMMA FindTargetOwns ==
  ASSUME NEW c \in Coords
  PROVE  FindTarget(c) \in Ranks /\ In(c, rlo[FindTarget(c)], rhi[FindTarget(c)])
<1>1. Owners(c) # {} /\ Owners(c) \in SUBSET Nat
  BY ShapeAssumption DEF Coords, Owners, Ranks
<1>2. Min(Owners(c)) \in Owners(c)
  BY <1>1, MinLeast
<1>. QED
  BY <1>1, <1>2 DEF FindTarget, Owners

LEMMA CoordsVec == Coords \subseteq Vec
BY AccessAssumption DEF Coords

-----------------------------------------------------------------------------
(***************************************************************************)
(* The inductive invariant: the pieces made so far are those of the        *)
(* processes that meet the patch and lie before target_.                   *)
(***************************************************************************)

\* A bulk call is under way, or was the last one made.
BulkCall ==
  /\ lo \in Coords /\ hi \in Coords /\ \A i \in Dims : lo[i] <= hi[i]
  /\ patch = [lo |-> lo, hi |-> hi]

\* The piece of the patch that process p owns.
HiIn(p) == [i \in Dims |-> IF hi[i] > rhi[p][i] THEN rhi[p][i] ELSE hi[i]]
PieceOf(p) ==
  [rank |-> p,
   starts   |-> [i \in Dims |-> NextLo(p)[i] - rlo[p][i]],
   subsizes |-> Extent(NextLo(p), HiIn(p)),
   lstarts  |-> [i \in Dims |-> NextLo(p)[i] - lo[i] + origin.starts[i]]]
PiecesOf(ps) == {PieceOf(p) : p \in ps}
Meeting == {p \in Ranks : Meets(p)}

\* The walk stands at a process that meets the patch, and has passed those before it.
PieceReady ==
  /\ target \in Meeting /\ target <= FindTarget(hi)
  /\ newlo = NextLo(target)
  /\ boxes = PiecesOf({p \in Meeting : p < target})

\* An element's owner and displacement have been found.
ElemReady ==
  /\ target \in Ranks /\ patch.lo \in Vec /\ In(patch.lo, rlo[target], rhi[target])
  /\ disp = Displacement(target, patch.lo)
  /\ boxes = {}

WalkInv ==
  /\ TypeOK /\ Grid
  /\ pc = "find" => BulkCall /\ boxes = {}
  /\ pc = "piece" => BulkCall /\ target \in Ranks /\ (Supported => PieceReady)
  /\ pc = "idle" /\ boxes # {} => BulkCall /\ (Supported => boxes = PiecesOf(Meeting))
  /\ pc = "elem" => ElemReady
  /\ pc \in {"failed", "lost"} => ~Supported

-----------------------------------------------------------------------------
(***************************************************************************)
(* The displacement of an element.                                         *)
(***************************************************************************)

LEMMA NatTimes == \A a, b \in Nat : a * b \in Nat
OBVIOUS

\* The coordinates of a vector are natural numbers.
LEMMA VecNat == \A v \in Vec, i \in Dims : v[i] \in Nat
<1>1. Coord \subseteq Nat
  BY DEF Coord
<1>. QED
  BY <1>1 DEF Vec

\* A coordinate's distance from the corner of its owner's box is not negative.
LEMMA Distances ==
  ASSUME Grid, NEW t \in Ranks, NEW c \in Vec, In(c, rlo[t], rhi[t])
  PROVE  /\ \A k \in Dims : c[k] - rlo[t][k] \in Nat
         /\ DimsPerPe(t) \in [Dims -> Nat]
<1>1. rlo[t] \in Vec /\ rhi[t] \in Vec
  BY DEF Grid
<1>2. \A k \in Dims : /\ c[k] \in Nat /\ rlo[t][k] \in Nat /\ rhi[t][k] \in Nat
                      /\ rlo[t][k] <= c[k] /\ rlo[t][k] <= rhi[t][k]
  <2>. TAKE k \in Dims
  <2>1. c[k] \in Nat /\ rlo[t][k] \in Nat /\ rhi[t][k] \in Nat
    BY <1>1, VecNat
  <2>2. rlo[t][k] <= c[k] /\ rlo[t][k] <= rhi[t][k]
    BY DEF Grid, In
  <2>. QED BY <2>1, <2>2
<1>3. \A k \in Dims : rhi[t][k] - rlo[t][k] + 1 \in Nat
  BY <1>2
<1>. QED
  BY <1>2, <1>3 DEF DimsPerPe, Extent

\* The inner loop of find_target_disp, unfolded.
LEMMA LocalValLoop ==
  ASSUME Grid, NEW t \in Ranks, NEW c \in Vec, In(c, rlo[t], rhi[t]), NEW k \in Dims
  PROVE  \E val \in [0 .. ndims - k -> Nat] :
           /\ val[0] = c[k] - rlo[t][k]
           /\ \A m \in 1 .. ndims - k : val[m] = val[m-1] * DimsPerPe(t)[ndims - m + 1]
           /\ LocalVal(t, c, k) = val[ndims - k]
<1>. DEFINE n == ndims - k
            D == DimsPerPe(t)
            a == c[k] - rlo[t][k]
            d == [m \in 1 .. n |-> D[ndims - m + 1]]
            Body(v) == [m \in 0 .. n |-> IF m = 0 THEN a ELSE v[m-1] * D[ndims - m + 1]]
            val == CHOOSE v : v = Body(v)
<1>1. n \in Nat /\ \A m \in 1 .. n : ndims - m + 1 \in Dims
  BY ShapeAssumption DEF Dims
<1>2. a \in Nat /\ D \in [Dims -> Nat]
  BY Distances
<1>3. LocalVal(t, c, k) = val[n]
  BY DEF LocalVal
<1>. HIDE DEF n, D, a
<1>4. d \in [1 .. n -> Nat]
  BY <1>1, <1>2
<1>5. PICK g \in [0 .. n -> Nat] : g[0] = a /\ \A m \in 1 .. n : g[m] = g[m-1] * d[m]
  <2>. HIDE DEF d
  <2>. QED BY <1>1, <1>2, <1>4, ProductLoop
<1>6. g = Body(g)
  BY <1>1, <1>5
<1>7. val = Body(val)
  <2>. HIDE DEF Body
  <2>. QED BY <1>6
<1>. HIDE DEF val
<1>8. val[0] = a /\ \A m \in 1 .. n : val[m] = val[m-1] * D[ndims - m + 1]
  <2>1. \A m \in 0 .. n : val[m] = IF m = 0 THEN a ELSE val[m-1] * D[ndims - m + 1]
    BY <1>7
  <2>. QED BY <1>1, <2>1
<1>9. \A m \in 0 .. n : val[m] \in Nat
  <2>. DEFINE Bad == {m \in 0 .. n : val[m] \notin Nat}
  <2>1. SUFFICES ASSUME Bad # {} PROVE FALSE
    OBVIOUS
  <2>2. PICK m \in Bad : \A j \in Bad : m <= j
    <3>1. Bad \in SUBSET Nat
      BY <1>1
    <3>. HIDE DEF Bad
    <3>. QED BY <2>1, <3>1, NatMin
  <2>3. m \in 1 .. n /\ m - 1 \in 0 .. n
    BY <1>1, <1>2, <1>8
  <2>4. val[m-1] \in Nat
    BY <2>2, <2>3
  <2>5. D[ndims - m + 1] \in Nat
    BY <1>1, <1>2, <2>3
  <2>6. val[m-1] * D[ndims - m + 1] \in Nat
    BY <2>4, <2>5, NatTimes
  <2>. QED BY <1>8, <2>3, <2>6
<1>10. val \in [0 .. n -> Nat]
  BY <1>7, <1>9
<1>. QED
  <2>. SUFFICES /\ val \in [0 .. n -> Nat] /\ val[0] = a
                /\ \A m \in 1 .. n : val[m] = val[m-1] * D[ndims - m + 1]
                /\ LocalVal(t, c, k) = val[n]
    BY DEF n, D, a
  <2>. QED BY <1>3, <1>8, <1>10

\* What it leaves in the last two dimensions.
LEMMA LastLocalVals ==
  ASSUME Grid, NEW t \in Ranks, NEW c \in Vec, In(c, rlo[t], rhi[t]), NEW k \in Dims
  PROVE  /\ LocalVal(t, c, k) \in Nat
         /\ k = ndims => LocalVal(t, c, k) = c[k] - rlo[t][k]
         /\ k = ndims - 1 => LocalVal(t, c, k) = (c[k] - rlo[t][k]) * DimsPerPe(t)[ndims]
<1>. DEFINE D == DimsPerPe(t)
            n == ndims - k
<1>. HIDE DEF D
<1>1. PICK val \in [0 .. n -> Nat] :
        /\ val[0] = c[k] - rlo[t][k]
        /\ \A m \in 1 .. n : val[m] = val[m-1] * D[ndims - m + 1]
        /\ LocalVal(t, c, k) = val[n]
  BY LocalValLoop DEF D
<1>2. ndims \in Nat /\ k \in Nat /\ k <= ndims
  BY ShapeAssumption DEF Dims
<1>3. n \in 0 .. n
  BY <1>2
<1>4. n = 1 => val[1] = val[1-1] * D[ndims - 1 + 1]
  BY <1>1
<1>5. 1 - 1 = 0 /\ ndims - 1 + 1 = ndims
  BY <1>2
<1>6. (k = ndims => n = 0) /\ (k = ndims - 1 => n = 1)
  BY <1>2
<1>. HIDE DEF n
<1>. QED
  BY <1>1, <1>3, <1>4, <1>5, <1>6 DEF D

\* The outer loop, unfolded.
LEMMA DisplacementLoop ==
  ASSUME Grid, NEW t \in Ranks, NEW c \in Vec, In(c, rlo[t], rhi[t])
  PROVE  \E sum \in [0 .. ndims -> Nat] :
           /\ sum[0] = 0
           /\ \A k \in 1 .. ndims : sum[k] = sum[k-1] + LocalVal(t, c, k)
           /\ Displacement(t, c) = sum[ndims]
<1>. DEFINE d == [k \in 1 .. ndims |-> LocalVal(t, c, k)]
            Body(v) == [k \in 0 .. ndims |-> IF k = 0 THEN 0 ELSE v[k-1] + LocalVal(t, c, k)]
            sum == CHOOSE v : v = Body(v)
<1>1. ndims \in Nat /\ \A k \in 1 .. ndims : k \in Dims
  BY ShapeAssumption DEF Dims
<1>2. \A k \in Dims : LocalVal(t, c, k) \in Nat
  <2>. TAKE k \in Dims
  <2>1. PICK val \in [0 .. ndims - k -> Nat] : LocalVal(t, c, k) = val[ndims - k]
    BY LocalValLoop
  <2>2. ndims - k \in 0 .. ndims - k
    BY <1>1 DEF Dims
  <2>. QED BY <2>1, <2>2
<1>3. d \in [1 .. ndims -> Nat]
  BY <1>1, <1>2
<1>4. PICK g \in [0 .. ndims -> Nat] : g[0] = 0 /\ \A k \in 1 .. ndims : g[k] = g[k-1] + d[k]
  <2>1. 0 \in Nat
    OBVIOUS
  <2>. HIDE DEF d
  <2>. QED BY <1>1, <1>3, <2>1, SumLoop
<1>5. g = Body(g)
  BY <1>1, <1>4
<1>6. sum = Body(sum)
  <2>. HIDE DEF Body
  <2>. QED BY <1>5
<1>7. Displacement(t, c) = sum[ndims]
  BY DEF Displacement
<1>. HIDE DEF sum
<1>8. sum[0] = 0 /\ \A k \in 1 .. ndims : sum[k] = sum[k-1] + LocalVal(t, c, k)
  <2>1. \A k \in 0 .. ndims : sum[k] = IF k = 0 THEN 0 ELSE sum[k-1] + LocalVal(t, c, k)
    BY <1>6
  <2>. QED BY <1>1, <2>1
<1>9. \A k \in 0 .. ndims : sum[k] \in Nat
  <2>. DEFINE Bad == {k \in 0 .. ndims : sum[k] \notin Nat}
  <2>1. SUFFICES ASSUME Bad # {} PROVE FALSE
    OBVIOUS
  <2>2. PICK k \in Bad : \A j \in Bad : k <= j
    <3>1. Bad \in SUBSET Nat
      BY <1>1
    <3>. HIDE DEF Bad
    <3>. QED BY <2>1, <3>1, NatMin
  <2>3. k \in 1 .. ndims /\ k - 1 \in 0 .. ndims
    BY <1>1, <1>8
  <2>4. sum[k-1] \in Nat /\ LocalVal(t, c, k) \in Nat
    BY <1>1, <1>2, <2>2, <2>3
  <2>. QED BY <1>8, <2>3, <2>4
<1>10. sum \in [0 .. ndims -> Nat]
  BY <1>6, <1>9
<1>. QED
  BY <1>7, <1>8, <1>10

LEMMA DisplacementNat ==
  ASSUME Grid, NEW t \in Ranks, NEW c \in Vec, In(c, rlo[t], rhi[t])
  PROVE  Displacement(t, c) \in Nat
<1>1. PICK sum \in [0 .. ndims -> Nat] : Displacement(t, c) = sum[ndims]
  BY DisplacementLoop
<1>2. ndims \in 0 .. ndims
  BY ShapeAssumption
<1>. QED
  BY <1>1, <1>2

\* In two dimensions, the displacement in row-major order.
LEMMA Displacement2 ==
  ASSUME Grid, NEW t \in Ranks, NEW c \in Vec, In(c, rlo[t], rhi[t]), ndims = 2
  PROVE  Displacement(t, c) = (c[1] - rlo[t][1]) * (rhi[t][2] - rlo[t][2] + 1) + (c[2] - rlo[t][2])
<1>. DEFINE D == DimsPerPe(t)
<1>1. 1 \in Dims /\ 2 \in Dims
  BY DEF Dims
<1>2. D[2] = rhi[t][2] - rlo[t][2] + 1
  BY <1>1 DEF DimsPerPe, Extent
<1>3. \A k \in Dims : c[k] - rlo[t][k] \in Nat
  BY Distances
<1>. HIDE DEF D
<1>4. LocalVal(t, c, 1) = (c[1] - rlo[t][1]) * D[2]
  BY <1>1, LastLocalVals DEF D
<1>5. LocalVal(t, c, 2) = c[2] - rlo[t][2]
  BY <1>1, LastLocalVals
<1>6. PICK sum \in [0 .. ndims -> Nat] :
           /\ sum[0] = 0
           /\ \A k \in 1 .. ndims : sum[k] = sum[k-1] + LocalVal(t, c, k)
           /\ Displacement(t, c) = sum[ndims]
  BY DisplacementLoop
<1>7. sum[1] = sum[1-1] + LocalVal(t, c, 1) /\ sum[2] = sum[2-1] + LocalVal(t, c, 2)
  BY <1>6
<1>8. sum[1] = LocalVal(t, c, 1) /\ sum[1] \in Nat
  <2>1. 1 - 1 = 0 /\ 1 \in 0 .. ndims
    OBVIOUS
  <2>2. sum[1] = 0 + LocalVal(t, c, 1) /\ sum[1] \in Nat
    BY <1>6, <1>7, <2>1
  <2>3. LocalVal(t, c, 1) \in Nat
    BY <1>1, LastLocalVals
  <2>. QED BY <2>2, <2>3
<1>9. Displacement(t, c) = LocalVal(t, c, 1) + LocalVal(t, c, 2)
  <2>1. 2 - 1 = 1
    OBVIOUS
  <2>. QED BY <1>6, <1>7, <1>8, <2>1
<1>. QED
  BY <1>2, <1>4, <1>5, <1>9

\* The elements of a box before one of its coordinates in row-major order.
LEMMA BeforeCount ==
  ASSUME Grid, NEW t \in Ranks, NEW c \in Vec, In(c, rlo[t], rhi[t]), ndims = 2
  PROVE  Cardinality({d \in BoxOf(t) : Before(d, c)}) = Displacement(t, c)
<1>. DEFINE r1 == rlo[t][1]
            r2 == rlo[t][2]
            h1 == rhi[t][1]
            h2 == rhi[t][2]
            x  == c[1]
            y  == c[2]
            Above == (r1 .. x - 1) \X (r2 .. h2)
            Left  == (x .. x) \X (r2 .. y - 1)
<1>1. 1 \in Dims /\ 2 \in Dims
  BY DEF Dims
<1>2. /\ r1 \in Nat /\ r2 \in Nat /\ h1 \in Nat /\ h2 \in Nat /\ x \in Nat /\ y \in Nat
      /\ r1 <= x /\ x <= h1 /\ r2 <= y /\ y <= h2
  <2>1. rlo[t] \in Vec /\ rhi[t] \in Vec
    BY DEF Grid
  <2>2. /\ r1 \in Nat /\ r2 \in Nat /\ h1 \in Nat
        /\ h2 \in Nat /\ x \in Nat /\ y \in Nat
    BY <1>1, <2>1, VecNat
  <2>3. r1 <= x /\ x <= h1 /\ r2 <= y /\ y <= h2
    BY <1>1 DEF In
  <2>. QED BY <2>2, <2>3
<1>3. Displacement(t, c) = (x - r1) * (h2 - r2 + 1) + (y - r2)
  BY Displacement2
<1>4. {d \in BoxOf(t) : Before(d, c)} = Above \cup Left
  <2>1. BoxOf(t) = (r1 .. h1) \X (r2 .. h2)
    BY DEF BoxOf
  <2>2. \A d : Before(d, c) <=> d[1] < x \/ (d[1] = x /\ d[2] < y)
    BY DEF Before
  <2>. HIDE DEF r1, r2, h1, h2, x, y
  <2>. QED BY <1>2, <2>1, <2>2
<1>. HIDE DEF r1, r2, h1, h2, x, y
<1>5. /\ IsFiniteSet(r1 .. x - 1) /\ Cardinality(r1 .. x - 1) = x - r1
      /\ IsFiniteSet(r2 .. h2)    /\ Cardinality(r2 .. h2) = h2 - r2 + 1
      /\ IsFiniteSet(r2 .. y - 1) /\ Cardinality(r2 .. y - 1) = y - r2
      /\ IsFiniteSet(x .. x)      /\ Cardinality(x .. x) = 1
  <2>1. x - 1 \in Int /\ y - 1 \in Int /\ {r1, r2, x, h2} \subseteq Int
    BY <1>2
  <2>2. IsFiniteSet(r1 .. x - 1) /\ Cardinality(r1 .. x - 1) = IF r1 > x - 1 THEN 0 ELSE (x - 1) - r1 + 1
    BY <2>1, FS_Interval
  <2>3. IsFiniteSet(r2 .. h2) /\ Cardinality(r2 .. h2) = IF r2 > h2 THEN 0 ELSE h2 - r2 + 1
    BY <2>1, FS_Interval
  <2>4. IsFiniteSet(r2 .. y - 1) /\ Cardinality(r2 .. y - 1) = IF r2 > y - 1 THEN 0 ELSE (y - 1) - r2 + 1
    BY <2>1, FS_Interval
  <2>5. IsFiniteSet(x .. x) /\ Cardinality(x .. x) = IF x > x THEN 0 ELSE x - x + 1
    BY <2>1, FS_Interval
  <2>. QED BY <1>2, <2>2, <2>3, <2>4, <2>5
<1>6. IsFiniteSet(Above) /\ Cardinality(Above) = (x - r1) * (h2 - r2 + 1)
  <2>1. IsFiniteSet(Above) /\ Cardinality(Above) = Cardinality(r1 .. x - 1) * Cardinality(r2 .. h2)
    BY <1>5, FS_Product, Zenon
  <2>. HIDE DEF Above
  <2>. QED BY <1>5, <2>1
<1>7. IsFiniteSet(Left) /\ Cardinality(Left) = 1 * (y - r2)
  <2>1. IsFiniteSet(Left) /\ Cardinality(Left) = Cardinality(x .. x) * Cardinality(r2 .. y - 1)
    BY <1>5, FS_Product, Zenon
  <2>. HIDE DEF Left
  <2>. QED BY <1>5, <2>1
<1>8. Above \cap Left = {}
  BY <1>2
<1>. HIDE DEF Above, Left
<1>9. Cardinality(Above \cup Left) = Cardinality(Above) + Cardinality(Left) - Cardinality({})
  BY <1>6, <1>7, <1>8, FS_Union
<1>10. Cardinality({}) = 0
  BY FS_EmptySet
<1>11. (x - r1) * (h2 - r2 + 1) \in Nat
  <2>1. x - r1 \in Nat /\ h2 - r2 + 1 \in Nat
    BY <1>2
  <2>. QED BY <2>1, NatTimes
<1>12. \A m \in Nat : m + 1 * (y - r2) - 0 = m + (y - r2)
  BY <1>2
<1>. QED
  BY <1>3, <1>4, <1>6, <1>7, <1>9, <1>10, <1>11, <1>12

-----------------------------------------------------------------------------
(***************************************************************************)
(* The patch, the processes that meet it and their pieces.                 *)
(***************************************************************************)

\* Coordinates of one byte are compared as they should be.
LEMMA SmallBytes ==
  ASSUME NEW a \in [Dims -> 0 .. 255], NEW b \in [Dims -> 0 .. 255], ndims = 2
  PROVE  /\ MemEqual(a, b) <=> a = b
         /\ MemGeq(a, b) <=> ~Before(a, b)
<1>1. Dims = {1, 2}
  BY DEF Dims
<1>2. \A x \in 0 .. 255 : x % 256 = x /\ x \div 256 = 0
  OBVIOUS
<1>3. a[1] \in 0 .. 255 /\ a[2] \in 0 .. 255 /\ b[1] \in 0 .. 255 /\ b[2] \in 0 .. 255
  BY <1>1
<1>4. Bytes(a) = <<a[1], 0, a[2], 0>> /\ Bytes(b) = <<b[1], 0, b[2], 0>>
  BY <1>2, <1>3 DEF Bytes
<1>5. a = b <=> a[1] = b[1] /\ a[2] = b[2]
  BY <1>1
<1>6. MemEqual(a, b) <=> a = b
  BY <1>4, <1>5 DEF MemEqual
<1>7. MemGeq(a, b) <=> ~Before(a, b)
  <2>. DEFINE x == <<a[1], 0, a[2], 0>>
              y == <<b[1], 0, b[2], 0>>
  <2>1. MemGeq(a, b) <=> x = y \/ \E i \in 1 .. 4 : x[i] > y[i] /\ \A j \in 1 .. i-1 : x[j] = y[j]
    BY <1>4 DEF MemGeq
  <2>2. (\E i \in 1 .. 4 : x[i] > y[i] /\ \A j \in 1 .. i-1 : x[j] = y[j])
          <=> a[1] > b[1] \/ (a[1] = b[1] /\ a[2] > b[2])
    BY <1>3
  <2>3. x = y <=> a[1] = b[1] /\ a[2] = b[2]
    OBVIOUS
  <2>4. Before(a, b) <=> a[1] < b[1] \/ (a[1] = b[1] /\ a[2] < b[2])
    BY DEF Before
  <2>. HIDE DEF x, y
  <2>5. MemGeq(a, b) <=> (a[1] = b[1] /\ a[2] = b[2]) \/ a[1] > b[1] \/ (a[1] = b[1] /\ a[2] > b[2])
    BY <2>1, <2>2, <2>3, Zenon
  <2>6. (a[1] = b[1] /\ a[2] = b[2]) \/ a[1] > b[1] \/ (a[1] = b[1] /\ a[2] > b[2])
          <=> ~(a[1] < b[1] \/ (a[1] = b[1] /\ a[2] < b[2]))
    <3>. DEFINE a1 == a[1]
                a2 == a[2]
                b1 == b[1]
                b2 == b[2]
    <3>1. a1 \in 0 .. 255 /\ a2 \in 0 .. 255 /\ b1 \in 0 .. 255 /\ b2 \in 0 .. 255
      BY <1>3
    <3>. HIDE DEF a1, a2, b1, b2
    <3>2. (a1 = b1 /\ a2 = b2) \/ a1 > b1 \/ (a1 = b1 /\ a2 > b2)
            <=> ~(a1 < b1 \/ (a1 = b1 /\ a2 < b2))
      BY <3>1
    <3>. QED BY <3>2 DEF a1, a2, b1, b2
  <2>. QED BY <2>4, <2>5, <2>6
<1>. QED
  BY <1>6, <1>7

\* No coordinate has two owners.
LEMMA OneOwner ==
  ASSUME Grid, NoOverlap, NEW p \in Ranks, NEW q \in Ranks, NEW c \in Vec,
         In(c, rlo[p], rhi[p]), In(c, rlo[q], rhi[q])
  PROVE  p = q
<1>1. SUFFICES ASSUME p # q PROVE FALSE
  OBVIOUS
<1>2. PICK i \in Dims : rhi[p][i] < rlo[q][i] \/ rhi[q][i] < rlo[p][i]
  BY <1>1 DEF NoOverlap
<1>3. rlo[p][i] <= c[i] /\ c[i] <= rhi[p][i] /\ rlo[q][i] <= c[i] /\ c[i] <= rhi[q][i]
  BY DEF In
<1>4. rlo[p] \in Vec /\ rhi[p] \in Vec /\ rlo[q] \in Vec /\ rhi[q] \in Vec
  BY DEF Grid
<1>5. /\ rlo[p][i] \in Nat /\ rhi[p][i] \in Nat /\ rlo[q][i] \in Nat
      /\ rhi[q][i] \in Nat /\ c[i] \in Nat
  BY <1>4, VecNat
<1>. QED
  BY <1>2, <1>3, <1>5

\* The piece of a process that meets the patch lies in the patch and in its box.
LEMMA PieceBounds ==
  ASSUME Grid, lo \in Vec, hi \in Vec, \A i \in Dims : lo[i] <= hi[i],
         NEW p \in Ranks, Meets(p)
  PROVE  /\ NextLo(p) \in Vec /\ HiIn(p) \in Vec
         /\ \A i \in Dims :
              /\ lo[i] <= NextLo(p)[i] /\ rlo[p][i] <= NextLo(p)[i]
              /\ NextLo(p)[i] <= HiIn(p)[i]
              /\ HiIn(p)[i] <= hi[i] /\ HiIn(p)[i] <= rhi[p][i]
<1>1. rlo[p] \in Vec /\ rhi[p] \in Vec
  BY DEF Grid
<1>2. NextLo(p) \in Vec /\ HiIn(p) \in Vec
  BY <1>1 DEF NextLo, HiIn, Vec
<1>3. ASSUME NEW i \in Dims
      PROVE  /\ lo[i] <= NextLo(p)[i] /\ rlo[p][i] <= NextLo(p)[i]
             /\ NextLo(p)[i] <= HiIn(p)[i]
             /\ HiIn(p)[i] <= hi[i] /\ HiIn(p)[i] <= rhi[p][i]
  <2>1. lo[i] \in Nat /\ hi[i] \in Nat /\ rlo[p][i] \in Nat /\ rhi[p][i] \in Nat
    BY <1>1, VecNat
  <2>2. lo[i] <= hi[i] /\ rlo[p][i] <= rhi[p][i] /\ rlo[p][i] <= hi[i] /\ rhi[p][i] >= lo[i]
    BY DEF Grid, Meets
  <2>3. /\ NextLo(p)[i] = IF lo[i] > rlo[p][i] THEN lo[i] ELSE rlo[p][i]
        /\ HiIn(p)[i] = IF hi[i] > rhi[p][i] THEN rhi[p][i] ELSE hi[i]
    BY DEF NextLo, HiIn
  <2>. QED BY <2>1, <2>2, <2>3
<1>. QED
  BY <1>2, <1>3

\* The global corners of a piece, and where it goes in the local buffer.
LEMMA PieceInPlace ==
  ASSUME TypeOK, Grid, BulkCall, NEW p \in Ranks, Meets(p)
  PROVE  /\ First(PieceOf(p)) = NextLo(p) /\ Last(PieceOf(p)) = HiIn(p)
         /\ InPlace(PieceOf(p))
<1>1. /\ NextLo(p) \in Vec /\ HiIn(p) \in Vec
      /\ \A i \in Dims : /\ lo[i] <= NextLo(p)[i] /\ rlo[p][i] <= NextLo(p)[i]
                         /\ NextLo(p)[i] <= HiIn(p)[i]
                         /\ HiIn(p)[i] <= hi[i] /\ HiIn(p)[i] <= rhi[p][i]
  BY PieceBounds DEF TypeOK, BulkCall
<1>2. rlo[p] \in Vec /\ rhi[p] \in Vec /\ lo \in Vec /\ hi \in Vec
  BY DEF Grid, TypeOK
<1>3. \A i \in Dims : /\ NextLo(p)[i] \in Nat /\ HiIn(p)[i] \in Nat /\ rlo[p][i] \in Nat
                      /\ rhi[p][i] \in Nat /\ lo[i] \in Nat /\ hi[i] \in Nat
  BY <1>1, <1>2, VecNat
<1>4. /\ PieceOf(p).rank = p
      /\ PieceOf(p).starts = [i \in Dims |-> NextLo(p)[i] - rlo[p][i]]
      /\ PieceOf(p).subsizes = [i \in Dims |-> HiIn(p)[i] - NextLo(p)[i] + 1]
      /\ PieceOf(p).lstarts = [i \in Dims |-> NextLo(p)[i] - lo[i] + origin.starts[i]]
  BY DEF PieceOf, Extent
<1>5. First(PieceOf(p)) = NextLo(p)
  <2>1. \A i \in Dims : rlo[p][i] + (NextLo(p)[i] - rlo[p][i]) = NextLo(p)[i]
    BY <1>3
  <2>2. First(PieceOf(p)) = [i \in Dims |-> NextLo(p)[i]]
    BY <1>4, <2>1 DEF First
  <2>. QED BY <1>1, <2>2 DEF Vec
<1>6. Last(PieceOf(p)) = HiIn(p)
  <2>1. \A i \in Dims : NextLo(p)[i] + (HiIn(p)[i] - NextLo(p)[i] + 1) - 1 = HiIn(p)[i]
    BY <1>3
  <2>2. Last(PieceOf(p)) = [i \in Dims |-> HiIn(p)[i]]
    BY <1>4, <1>5, <2>1 DEF Last
  <2>. QED BY <1>1, <2>2 DEF Vec
<1>7. In(HiIn(p), rlo[p], rhi[p]) /\ In(NextLo(p), rlo[p], rhi[p])
  BY <1>1, <1>3 DEF In
<1>8. In(HiIn(p), lo, hi) /\ In(NextLo(p), lo, hi)
  BY <1>1, <1>3 DEF In
<1>9. \A i \in Dims : PieceOf(p).lstarts[i] - origin.starts[i] = NextLo(p)[i] - lo[i]
  <2>. TAKE i \in Dims
  <2>1. origin.starts[i] \in Nat
    BY AccessAssumption DEF TypeOK, Contiguous
  <2>2. PieceOf(p).lstarts[i] = NextLo(p)[i] - lo[i] + origin.starts[i]
    BY <1>4
  <2>. QED BY <1>3, <2>1, <2>2
<1>10. InPlace(PieceOf(p))
  <2>1. patch.lo = lo /\ patch.hi = hi
    BY DEF BulkCall
  <2>. QED BY <1>4, <1>5, <1>6, <1>7, <1>8, <1>9, <2>1 DEF InPlace
<1>. QED
  BY <1>5, <1>6, <1>10

\* MPI accepts the subarrays of a piece.
LEMMA PieceAccepted ==
  ASSUME TypeOK, Grid, BulkCall, OriginFits, target \in Ranks, Meets(target),
         newlo = NextLo(target)
  PROVE  ThisBox = PieceOf(target) /\ Accepted(ThisBox)
<1>1. NewHi = HiIn(target)
  BY DEF NewHi, HiIn
<1>2. ThisBox = PieceOf(target)
  BY <1>1 DEF ThisBox, PieceOf, LStarts
<1>3. ASSUME NEW i \in Dims
      PROVE  LET b == PieceOf(target)
             IN  /\ b.subsizes[i] >= 1
                 /\ b.starts[i] >= 0 /\ b.starts[i] + b.subsizes[i] <= DimsPerPe(target)[i]
                 /\ b.lstarts[i] >= 0 /\ b.lstarts[i] + b.subsizes[i] <= lsizes[i]
  <2>. DEFINE n == NextLo(target)[i]
              h == HiIn(target)[i]
              r == rlo[target][i]
              q == rhi[target][i]
              s == origin.starts[i]
              z == lsizes[i]
              l == lo[i]
              u == hi[i]
  <2>1. /\ NextLo(target) \in Vec /\ HiIn(target) \in Vec
        /\ l <= n /\ r <= n /\ n <= h /\ h <= u /\ h <= q
    BY PieceBounds DEF TypeOK, BulkCall
  <2>2. rlo[target] \in Vec /\ rhi[target] \in Vec /\ lo \in Vec /\ hi \in Vec
    BY DEF Grid, TypeOK
  <2>3. /\ n \in Nat /\ h \in Nat /\ r \in Nat /\ q \in Nat /\ l \in Nat /\ u \in Nat
    BY <2>1, <2>2, VecNat
  <2>4. s \in Nat /\ z \in Nat
    BY AccessAssumption DEF TypeOK, Contiguous
  <2>5. s + u - l + 1 <= z
    BY DEF OriginFits
  <2>6. /\ PieceOf(target).starts[i] = n - r /\ PieceOf(target).subsizes[i] = h - n + 1
        /\ PieceOf(target).lstarts[i] = n - l + s
        /\ DimsPerPe(target)[i] = q - r + 1
    BY DEF PieceOf, Extent, DimsPerPe
  <2>. HIDE DEF n, h, r, q, s, z, l, u
  <2>7. /\ h - n + 1 >= 1 /\ n - r >= 0 /\ (n - r) + (h - n + 1) <= q - r + 1
        /\ n - l + s >= 0 /\ (n - l + s) + (h - n + 1) <= z
    BY <2>1, <2>3, <2>4, <2>5
  <2>. QED BY <2>6, <2>7 DEF z
<1>. QED
  BY <1>2, <1>3 DEF Accepted

\* The processes that meet the patch are those from its first corner's owner to its last
\* corner's, but for those whose box begins after the patch.
LEMMA MeetingEnds ==
  ASSUME TypeOK, Grid, BulkCall, InRankOrder
  PROVE  /\ FindTarget(lo) \in Meeting /\ FindTarget(hi) \in Meeting
         /\ \A p \in Meeting : /\ FindTarget(lo) <= p /\ p <= FindTarget(hi)
                               /\ ~Before(hi, rlo[p])
         /\ \A p \in Ranks : FindTarget(lo) <= p /\ p <= FindTarget(hi) /\ ~Before(hi, rlo[p])
                               => p \in Meeting
<1>. DEFINE s == FindTarget(lo)
            q == FindTarget(hi)
<1>1. s \in Ranks /\ In(lo, rlo[s], rhi[s]) /\ q \in Ranks /\ In(hi, rlo[q], rhi[q])
  BY FindTargetOwns DEF BulkCall
<1>2. rlo[s] \in Vec /\ rhi[s] \in Vec /\ rlo[q] \in Vec /\ rhi[q] \in Vec /\ lo \in Vec /\ hi \in Vec
  BY <1>1 DEF Grid, TypeOK
<1>. HIDE DEF s, q
<1>3. Meets(s) /\ Meets(q)
  <2>1. ASSUME NEW i \in Dims
        PROVE  rlo[s][i] <= hi[i] /\ rhi[s][i] >= lo[i] /\ rlo[q][i] <= hi[i] /\ rhi[q][i] >= lo[i]
    <3>1. /\ lo[i] <= hi[i]
          /\ rlo[s][i] <= lo[i] /\ lo[i] <= rhi[s][i] /\ rlo[q][i] <= hi[i] /\ hi[i] <= rhi[q][i]
      BY <1>1 DEF In, BulkCall
    <3>2. /\ rlo[s][i] \in Nat /\ rhi[s][i] \in Nat /\ rlo[q][i] \in Nat /\ rhi[q][i] \in Nat
          /\ lo[i] \in Nat /\ hi[i] \in Nat
      BY <1>2, VecNat
    <3>. QED BY <3>1, <3>2
  <2>. QED BY <2>1 DEF Meets
<1>4. Meeting = {p \in s .. q : ~Before(hi, rlo[p])}
  BY DEF InRankOrder, Meeting, s, q
<1>5. \A p \in Ranks : p \in Int
  BY DEF Ranks
<1>6. \A p \in Meeting : s <= p /\ p <= q /\ ~Before(hi, rlo[p])
  BY <1>4
<1>7. \A p \in Ranks : s <= p /\ p <= q /\ ~Before(hi, rlo[p]) => p \in Meeting
  BY <1>1, <1>4, <1>5
<1>. QED
  BY <1>1, <1>3, <1>6, <1>7 DEF Meeting, s, q

\* Under the assumption on the coordinates, memcmp compares them as numbers.
LEMMA MemRight ==
  ASSUME TypeOK, Grid, BulkCall, OneByteEach, NEW p \in Ranks
  PROVE  /\ MemGeq(hi, rlo[p]) <=> ~Before(hi, rlo[p])
         /\ MemEqual(HiIn(p), hi) <=> HiIn(p) = hi
<1>. DEFINE q == FindTarget(hi)
<1>1. q \in Ranks /\ In(hi, rlo[q], rhi[q])
  BY FindTargetOwns DEF BulkCall
<1>. HIDE DEF q
<1>2. rlo[p] \in Vec /\ rhi[p] \in Vec /\ rlo[q] \in Vec /\ rhi[q] \in Vec /\ hi \in Vec
  BY <1>1 DEF Grid, TypeOK
<1>3. ASSUME NEW i \in Dims
      PROVE  rlo[p][i] \in 0 .. 255 /\ rhi[p][i] \in 0 .. 255 /\ hi[i] \in 0 .. 255
  <2>1. rlo[p][i] \in Nat /\ rhi[p][i] \in Nat /\ rhi[q][i] \in Nat /\ hi[i] \in Nat
    BY <1>2, VecNat
  <2>2. rlo[p][i] <= rhi[p][i] /\ hi[i] <= rhi[q][i]
    BY <1>1 DEF Grid, In
  <2>3. rhi[p][i] < 256 /\ rhi[q][i] < 256
    BY <1>1 DEF OneByteEach
  <2>. QED BY <2>1, <2>2, <2>3
<1>4. rlo[p] \in [Dims -> 0 .. 255] /\ hi \in [Dims -> 0 .. 255]
  BY <1>2, <1>3 DEF Vec
<1>5. HiIn(p) \in [Dims -> 0 .. 255]
  BY <1>3 DEF HiIn
<1>. QED
  BY <1>4, <1>5, SmallBytes DEF OneByteEach

-----------------------------------------------------------------------------
(***************************************************************************)
(* The invariant holds at the start and is kept by every step.             *)
(***************************************************************************)

\* What depends on the boxes and the call alone does not change while they do not.
LEMMA SameWin ==
  ASSUME UNCHANGED win
  PROVE  (Grid' <=> Grid) /\ Coords' = Coords /\ \A c : FindTarget(c)' = FindTarget(c)
BY DEF win, Grid, Coords, Owners, In, FindTarget

LEMMA SameCall ==
  ASSUME UNCHANGED <<win, call>>
  PROVE  /\ (BulkCall' <=> BulkCall) /\ (Supported' <=> Supported) /\ Meeting' = Meeting
         /\ FindTarget(hi)' = FindTarget(hi)
         /\ \A p \in Ranks : NextLo(p)' = NextLo(p) /\ PieceOf(p)' = PieceOf(p)
<1>1. (Grid' <=> Grid) /\ Coords' = Coords /\ UNCHANGED <<rlo, rhi, lo, hi, lsizes, origin, patch>>
  BY SameWin DEF win, call
<1>2. BulkCall' <=> BulkCall
  BY <1>1 DEF BulkCall
<1>3. Supported' <=> Supported
  BY <1>1 DEF Supported, OneByteEach, NoOverlap, OriginFits, InRankOrder, Meets, FindTarget, Owners, In
<1>4. Meeting' = Meeting
  BY <1>1 DEF Meeting, Meets
<1>5. FindTarget(hi)' = FindTarget(hi)
  BY <1>1 DEF FindTarget, Owners, In
<1>6. \A p \in Ranks : NextLo(p)' = NextLo(p) /\ PieceOf(p)' = PieceOf(p)
  BY <1>1 DEF NextLo, PieceOf, HiIn, Extent
<1>. QED
  BY <1>2, <1>3, <1>4, <1>5, <1>6

\* The piece the walk is at, as TypeOK wants it.
LEMMA BoxType ==
  ASSUME TypeOK, target \in Ranks, Accepted(ThisBox), Grid
  PROVE  ThisBox.rank \in Ranks /\ {ThisBox.starts, ThisBox.subsizes, ThisBox.lstarts} \subseteq [Dims -> Nat]
<1>. DEFINE b == ThisBox
<1>1. /\ b.rank = target
      /\ b.starts = [i \in Dims |-> newlo[i] - rlo[target][i]]
      /\ b.subsizes = [i \in Dims |-> NewHi[i] - newlo[i] + 1]
      /\ b.lstarts = [i \in Dims |-> newlo[i] - lo[i] + origin.starts[i]]
  BY DEF ThisBox, Extent, LStarts
<1>2. rlo[target] \in Vec /\ rhi[target] \in Vec /\ newlo \in Vec /\ lo \in Vec /\ hi \in Vec
  BY DEF TypeOK, Grid
<1>. HIDE DEF b
<1>3. ASSUME NEW i \in Dims
      PROVE  b.starts[i] \in Nat /\ b.subsizes[i] \in Nat /\ b.lstarts[i] \in Nat
  <2>1. /\ newlo[i] \in Nat /\ rlo[target][i] \in Nat /\ rhi[target][i] \in Nat
        /\ lo[i] \in Nat /\ hi[i] \in Nat
    BY <1>2, VecNat
  <2>2. NewHi[i] \in Nat
    BY <2>1 DEF NewHi
  <2>3. origin.starts[i] \in Nat
    BY AccessAssumption DEF TypeOK, Contiguous
  <2>4. b.starts[i] \in Int /\ b.subsizes[i] \in Int /\ b.lstarts[i] \in Int
    BY <1>1, <2>1, <2>2, <2>3
  <2>5. b.subsizes[i] >= 1 /\ b.starts[i] >= 0 /\ b.lstarts[i] >= 0
    BY DEF Accepted, b
  <2>. QED BY <2>4, <2>5
<1>4. /\ b.starts = [i \in Dims |-> b.starts[i]] /\ b.subsizes = [i \in Dims |-> b.subsizes[i]]
      /\ b.lstarts = [i \in Dims |-> b.lstarts[i]]
  BY <1>1
<1>5. b.starts \in [Dims -> Nat] /\ b.subsizes \in [Dims -> Nat] /\ b.lstarts \in [Dims -> Nat]
  BY <1>3, <1>4
<1>. QED
  BY <1>1, <1>5 DEF b

LEMMA InitWalk == Init => WalkInv
<1>. SUFFICES ASSUME Init PROVE WalkInv
  OBVIOUS
<1>1. PICK L \in Layouts : rlo = L.rlo /\ rhi = L.rhi
  BY DEF Init
<1>2. Grid
  BY <1>1, ShapeAssumption DEF Grid
<1>3. PICK p \in Ranks : lo = rlo[p] /\ hi = rhi[p]
  BY DEF Init
<1>4. lo \in Vec /\ hi \in Vec
  BY <1>2, <1>3 DEF Grid
<1>5. lsizes \in [Dims -> Nat] /\ -1 \in Ranks \cup {-1} /\ 0 \in Nat
  BY DEF Init
<1>6. patch \in [lo : Vec, hi : Vec]
  BY <1>4 DEF Init
<1>7. TypeOK
  BY <1>2, <1>4, <1>5, <1>6 DEF Init, TypeOK, Grid
<1>. QED
  BY <1>2, <1>7 DEF Init, WalkInv

LEMMA AccessWalk ==
  ASSUME WalkInv, NEW l \in Coords, NEW h \in Coords, NEW o \in Origins, Access(l, h, o)
  PROVE  WalkInv'
<1>1. UNCHANGED win /\ Grid' /\ Coords' = Coords
  BY SameWin DEF Access, WalkInv
<1>2. l \in Vec /\ h \in Vec /\ \A i \in Dims : l[i] <= h[i]
  BY CoordsVec DEF Access
<1>3. lsizes' \in [Dims -> Nat]
  <2>1. CASE o = Contiguous
    <3>1. \A i \in Dims : h[i] - l[i] + 1 \in Nat
      <4>. TAKE i \in Dims
      <4>1. l[i] \in Nat /\ h[i] \in Nat /\ l[i] <= h[i]
        BY <1>2, VecNat
      <4>. QED BY <4>1
    <3>. QED BY <2>1, <3>1 DEF Access, Extent
  <2>2. CASE o # Contiguous
    BY <2>2, AccessAssumption DEF Access
  <2>. QED BY <2>1, <2>2
<1>4. TypeOK'
  BY <1>1, <1>2, <1>3 DEF WalkInv, TypeOK, Access, win
<1>5. BulkCall'
  BY <1>1, <1>2 DEF BulkCall, Access
<1>. QED
  BY <1>1, <1>4, <1>5 DEF WalkInv, Access

LEMMA ElemWalk ==
  ASSUME WalkInv, NEW c \in Coords, ElemAccess(c)
  PROVE  WalkInv'
<1>1. UNCHANGED win /\ Grid /\ Grid' /\ \A d : FindTarget(d)' = FindTarget(d)
  BY SameWin DEF ElemAccess, WalkInv
<1>. DEFINE t == FindTarget(c)
<1>2. t \in Ranks /\ In(c, rlo[t], rhi[t]) /\ c \in Vec
  BY FindTargetOwns, CoordsVec
<1>3. Displacement(t, c) \in Nat
  BY <1>1, <1>2, DisplacementNat
<1>4. target' = t /\ disp' = Displacement(t, c) /\ patch' = [lo |-> c, hi |-> c] /\ boxes' = {} /\ pc' = "elem"
  BY DEF ElemAccess
<1>. HIDE DEF t
<1>5. TypeOK'
  BY <1>1, <1>2, <1>3, <1>4 DEF WalkInv, TypeOK, ElemAccess, win
<1>6. Displacement(t, c)' = Displacement(t', c)
  BY <1>1 DEF Displacement, LocalVal, DimsPerPe, Extent, win
<1>7. ElemReady'
  <2>1. t' = t
    BY <1>1 DEF t
  <2>2. Displacement(target, patch.lo)' = Displacement(t, c)
    BY <1>1, <1>4 DEF Displacement, LocalVal, DimsPerPe, Extent, win
  <2>3. In(patch.lo, rlo[target], rhi[target])'
    BY <1>1, <1>2, <1>4 DEF In, win
  <2>. QED BY <1>2, <1>4, <2>2, <2>3 DEF ElemReady
<1>. QED
  BY <1>1, <1>4, <1>5, <1>7 DEF WalkInv

LEMMA FindWalk ==
  ASSUME WalkInv, Find
  PROVE  WalkInv'
<1>. DEFINE t == FindTarget(lo)
<1>1. /\ UNCHANGED <<win, call, boxes>> /\ pc' = "piece" /\ target' = t /\ newlo' = lo /\ disp' = 0
      /\ TypeOK /\ Grid /\ BulkCall /\ boxes = {}
  BY DEF Find, WalkInv
<1>2. t \in Ranks /\ In(lo, rlo[t], rhi[t])
  BY <1>1, FindTargetOwns DEF BulkCall
<1>3. Grid' /\ BulkCall'
  BY <1>1, SameWin, SameCall
<1>4. TypeOK'
  BY <1>1, <1>2 DEF TypeOK, win, call
<1>5. ASSUME Supported PROVE PieceReady'
  <2>1. /\ t \in Meeting /\ FindTarget(hi) \in Meeting
        /\ \A p \in Meeting : t <= p /\ p <= FindTarget(hi)
    BY <1>1, <1>5, MeetingEnds DEF Supported
  <2>2. NextLo(t) = lo
    <3>1. \A i \in Dims : lo[i] = IF lo[i] > rlo[t][i] THEN lo[i] ELSE rlo[t][i]
      <4>. TAKE i \in Dims
      <4>1. lo[i] \in Nat /\ rlo[t][i] \in Nat /\ rlo[t][i] <= lo[i]
        <5>1. rlo[t] \in Vec /\ lo \in Vec
          BY <1>1, <1>2 DEF Grid, TypeOK
        <5>. QED BY <1>2, <5>1, VecNat DEF In
      <4>. QED BY <4>1
    <3>2. NextLo(t) = [i \in Dims |-> lo[i]]
      BY <3>1 DEF NextLo
    <3>. QED BY <1>1, <3>2 DEF TypeOK, Vec
  <2>. HIDE DEF t
  <2>3. {p \in Meeting : p < t} = {}
    <3>1. \A p \in Meeting : p \in Int
      BY DEF Meeting, Ranks
    <3>2. t \in Int
      BY <1>2 DEF Ranks
    <3>3. \A p \in Meeting : ~(p < t)
      BY <2>1, <3>1, <3>2
    <3>. QED BY <3>3, Zenon
  <2>4. /\ Meeting' = Meeting /\ FindTarget(hi)' = FindTarget(hi)
        /\ \A p \in Ranks : NextLo(p)' = NextLo(p)
    BY <1>1, SameCall
  <2>5. NextLo(target)' = NextLo(t)
    BY <1>1, <1>2, <2>4 DEF NextLo, win, call
  <2>6. PiecesOf({p \in Meeting : p < target})' = {}
    <3>1. {p \in Meeting : p < target}' = {}
      BY <1>1, <2>3, <2>4
    <3>. QED BY <3>1 DEF PiecesOf
  <2>. QED BY <1>1, <2>1, <2>2, <2>4, <2>5, <2>6 DEF PieceReady
<1>6. Supported' => Supported
  BY <1>1, SameCall
<1>. HIDE DEF t
<1>. QED
  BY <1>1, <1>2, <1>3, <1>4, <1>5, <1>6 DEF WalkInv

\* At the process that holds the patch's last corner the walk has met everybody.
LEMMA LastPiece ==
  ASSUME TypeOK, Grid, BulkCall, Supported, PieceReady, MemEqual(HiIn(target), hi)
  PROVE  Meeting = {p \in Meeting : p < target} \cup {target}
<1>. DEFINE q == FindTarget(hi)
<1>1. target \in Ranks /\ Meets(target) /\ target \in Meeting
  BY DEF PieceReady, Meeting
<1>2. HiIn(target) = hi
  BY <1>1, MemRight DEF Supported
<1>3. In(hi, rlo[target], rhi[target])
  <2>1. ASSUME NEW i \in Dims PROVE rlo[target][i] <= hi[i] /\ hi[i] <= rhi[target][i]
    BY <1>1, <1>2, PieceBounds DEF TypeOK, BulkCall, Meets
  <2>. QED BY <2>1 DEF In
<1>4. q \in Ranks /\ In(hi, rlo[q], rhi[q])
  BY FindTargetOwns DEF BulkCall
<1>. HIDE DEF q
<1>5. target = q
  BY <1>1, <1>3, <1>4, OneOwner DEF TypeOK, Supported
<1>6. \A p \in Meeting : p \in Nat /\ p <= target
  BY <1>5, MeetingEnds DEF Supported, Meeting, Ranks, q
<1>. QED
  BY <1>1, <1>6

\* At any other process there is a next one, the next that meets the patch.
LEMMA NextPiece ==
  ASSUME TypeOK, Grid, BulkCall, Supported, PieceReady, ~MemEqual(HiIn(target), hi)
  PROVE  /\ Candidates # {}
         /\ LET t == Min(Candidates)
            IN  /\ t \in Meeting /\ t <= FindTarget(hi)
                /\ {p \in Meeting : p < t} = {p \in Meeting : p < target} \cup {target}
<1>. DEFINE q == FindTarget(hi)
            s == FindTarget(lo)
            t == Min(Candidates)
<1>1. target \in Ranks /\ Meets(target) /\ target \in Meeting /\ target <= q
  BY DEF PieceReady, Meeting
<1>2. q \in Ranks /\ In(hi, rlo[q], rhi[q])
  BY FindTargetOwns DEF BulkCall
<1>3. /\ q \in Meeting
      /\ \A p \in Meeting : s <= p /\ p <= q /\ ~Before(hi, rlo[p])
      /\ \A p \in Ranks : s <= p /\ p <= q /\ ~Before(hi, rlo[p]) => p \in Meeting
  BY MeetingEnds DEF Supported
<1>4. s \in Int /\ \A p \in Ranks : p \in Nat
  BY FindTargetOwns DEF BulkCall, Ranks
<1>5. Candidates = {p \in Ranks : p > target /\ ~Before(hi, rlo[p])}
  BY MemRight DEF Candidates, Supported
<1>. HIDE DEF q, s
<1>6. target # q
  <2>1. SUFFICES ASSUME target = q PROVE HiIn(target) = hi
    BY <1>1, MemRight DEF Supported
  <2>2. \A i \in Dims : hi[i] = HiIn(target)[i]
    <3>. TAKE i \in Dims
    <3>1. hi[i] <= rhi[target][i]
      BY <1>2, <2>1 DEF In
    <3>2. rhi[target] \in Vec /\ hi \in Vec
      BY <1>1 DEF TypeOK, Grid
    <3>3. rhi[target][i] \in Nat /\ hi[i] \in Nat
      BY <3>2, VecNat
    <3>. QED BY <3>1, <3>3 DEF HiIn
  <2>. QED BY <2>2 DEF TypeOK, Vec, HiIn
<1>7. q \in Candidates
  BY <1>1, <1>2, <1>3, <1>4, <1>5, <1>6
<1>8. Candidates \in SUBSET Nat /\ Candidates # {}
  BY <1>4, <1>7 DEF Candidates
<1>9. t \in Candidates /\ \A p \in Candidates : t <= p
  BY <1>8, MinLeast
<1>. HIDE DEF t
<1>10. t \in Ranks /\ t > target /\ ~Before(hi, rlo[t]) /\ t <= q
  BY <1>5, <1>7, <1>9
<1>11. t \in Meeting
  BY <1>1, <1>3, <1>4, <1>10
<1>12. ASSUME NEW p \in Meeting PROVE p < t <=> p < target \/ p = target
  <2>1. p \in Ranks /\ ~Before(hi, rlo[p])
    BY <1>3 DEF Meeting
  <2>2. p > target => t <= p
    BY <1>5, <1>9, <2>1
  <2>. QED BY <1>1, <1>4, <1>10, <2>1, <2>2
<1>13. {p \in Meeting : p < t} = {p \in Meeting : p < target} \cup {target}
  BY <1>1, <1>12
<1>. QED
  BY <1>8, <1>10, <1>11, <1>13 DEF t, q

LEMMA PieceWalk ==
  ASSUME WalkInv, Piece
  PROVE  WalkInv'
<1>1. /\ UNCHANGED <<win, call, disp>> /\ pc = "piece" /\ Accepted(ThisBox)
      /\ boxes' = boxes \cup {ThisBox}
      /\ TypeOK /\ Grid /\ BulkCall /\ target \in Ranks
      /\ Supported => PieceReady
  BY DEF Piece, WalkInv
<1>2. Grid' /\ BulkCall' /\ (Supported' <=> Supported) /\ Meeting' = Meeting
      /\ FindTarget(hi)' = FindTarget(hi)
      /\ \A p \in Ranks : NextLo(p)' = NextLo(p) /\ PieceOf(p)' = PieceOf(p)
  BY <1>1, SameWin, SameCall
<1>3. /\ \A b \in boxes' : b.rank \in Ranks /\ {b.starts, b.subsizes, b.lstarts} \subseteq [Dims -> Nat]
      /\ boxes' # {}
  <2>1. /\ ThisBox.rank \in Ranks
        /\ {ThisBox.starts, ThisBox.subsizes, ThisBox.lstarts} \subseteq [Dims -> Nat]
    BY <1>1, BoxType
  <2>2. \A b \in boxes : b.rank \in Ranks /\ {b.starts, b.subsizes, b.lstarts} \subseteq [Dims -> Nat]
    BY <1>1 DEF TypeOK
  <2>. QED BY <1>1, <2>1, <2>2
<1>4. NewHi = HiIn(target)
  BY DEF NewHi, HiIn
<1>5. ASSUME Supported PROVE ThisBox = PieceOf(target)
  BY <1>1, <1>5, PieceAccepted DEF Supported, PieceReady, Meeting
<1>6. ASSUME Supported, NEW ps \in SUBSET Meeting, ps = {p \in Meeting : p < target} \cup {target}
      PROVE  boxes' = PiecesOf(ps)'
  <2>1. boxes = PiecesOf({p \in Meeting : p < target}) /\ target \in Meeting
    BY <1>1, <1>6 DEF PieceReady
  <2>2. boxes' = PiecesOf(ps)
    BY <1>1, <1>5, <1>6, <2>1 DEF PiecesOf
  <2>3. \A p \in ps : PieceOf(p)' = PieceOf(p)
    BY <1>2 DEF Meeting
  <2>. QED BY <2>2, <2>3 DEF PiecesOf
<1>7. CASE MemEqual(NewHi, hi) /\ pc' = "idle" /\ UNCHANGED <<newlo, target>>
  <2>1. TypeOK'
    BY <1>1, <1>3, <1>7 DEF TypeOK, win, call
  <2>2. ASSUME Supported PROVE (boxes = PiecesOf(Meeting))'
    <3>1. Meeting = {p \in Meeting : p < target} \cup {target}
      BY <1>1, <1>4, <1>7, <2>2, LastPiece
    <3>2. Meeting \in SUBSET Meeting
      OBVIOUS
    <3>3. boxes' = PiecesOf(Meeting)'
      <4>1. \A ps \in SUBSET Meeting : ps = {p \in Meeting : p < target} \cup {target}
                                         => boxes' = {PieceOf(p)' : p \in ps}
        BY <1>6, <2>2 DEF PiecesOf
      <4>2. boxes' = {PieceOf(p)' : p \in Meeting}
        BY <3>1, <3>2, <4>1
      <4>. QED BY <1>2, <4>2 DEF PiecesOf
    <3>. QED BY <3>3
  <2>. QED BY <1>2, <1>7, <2>1, <2>2 DEF WalkInv
<1>8. CASE /\ ~MemEqual(NewHi, hi) /\ Candidates # {}
           /\ target' = Min(Candidates) /\ newlo' = NextLo(target') /\ pc' = "piece"
  <2>. DEFINE t == Min(Candidates)
  <2>1. t \in Ranks
    <3>1. Candidates \in SUBSET Nat
      BY DEF Candidates, Ranks
    <3>2. t \in Candidates
      BY <1>8, <3>1, MinLeast
    <3>. QED BY <3>2 DEF Candidates
  <2>. HIDE DEF t
  <2>2. target' = t /\ newlo' = NextLo(t)
    BY <1>8 DEF t
  <2>3. NextLo(t) \in Vec
    <3>1. rlo[t] \in Vec /\ lo \in Vec
      BY <1>1, <2>1 DEF Grid, TypeOK
    <3>. QED BY <3>1 DEF NextLo, Vec
  <2>4. TypeOK'
    BY <1>1, <1>3, <1>8, <2>1, <2>2, <2>3 DEF TypeOK, win, call
  <2>5. ASSUME Supported PROVE PieceReady'
    <3>1. /\ t \in Meeting /\ t <= FindTarget(hi)
          /\ {p \in Meeting : p < t} = {p \in Meeting : p < target} \cup {target}
      BY <1>1, <1>4, <1>8, <2>5, NextPiece DEF t
    <3>2. NextLo(target)' = NextLo(t)
      BY <1>1, <2>2 DEF NextLo, win, call
    <3>3. boxes' = PiecesOf({p \in Meeting : p < target})'
      <4>. DEFINE ps == {p \in Meeting : p < t}
      <4>1. ps \in SUBSET Meeting
        OBVIOUS
      <4>2. \A qs \in SUBSET Meeting : qs = {p \in Meeting : p < target} \cup {target}
                                         => boxes' = {PieceOf(p)' : p \in qs}
        BY <1>6, <2>5 DEF PiecesOf
      <4>3. boxes' = {PieceOf(p)' : p \in ps}
        BY <3>1, <4>1, <4>2
      <4>. QED BY <1>2, <2>2, <4>3 DEF PiecesOf
    <3>. QED BY <1>2, <2>2, <3>1, <3>2, <3>3 DEF PieceReady
  <2>. QED BY <1>2, <1>8, <2>1, <2>2, <2>4, <2>5 DEF WalkInv
<1>9. CASE ~MemEqual(NewHi, hi) /\ Candidates = {} /\ pc' = "lost" /\ UNCHANGED <<newlo, target>>
  <2>1. TypeOK'
    BY <1>1, <1>3, <1>9 DEF TypeOK, win, call
  <2>2. ~Supported
    BY <1>1, <1>4, <1>9, NextPiece
  <2>. QED BY <1>2, <1>9, <2>1, <2>2 DEF WalkInv
<1>. QED
  BY <1>7, <1>8, <1>9 DEF Piece

LEMMA BadBoxWalk ==
  ASSUME WalkInv, BadBox
  PROVE  WalkInv'
<1>1. /\ UNCHANGED <<win, call, newlo, target, disp, boxes>> /\ pc = "piece" /\ pc' = "failed"
      /\ ~Accepted(ThisBox)
      /\ TypeOK /\ Grid /\ BulkCall /\ target \in Ranks
      /\ Supported => PieceReady
  BY DEF BadBox, WalkInv
<1>2. ~Supported
  BY <1>1, PieceAccepted DEF Supported, PieceReady, Meeting
<1>3. Grid' /\ (Supported' <=> Supported)
  BY <1>1, SameWin, SameCall
<1>4. TypeOK'
  BY <1>1 DEF TypeOK, win, call
<1>. QED
  BY <1>1, <1>2, <1>3, <1>4 DEF WalkInv

LEMMA XferWalk ==
  ASSUME WalkInv, ElemXfer
  PROVE  WalkInv'
<1>1. /\ UNCHANGED <<win, call, newlo, target, disp, boxes>> /\ pc' = "idle"
      /\ TypeOK /\ Grid /\ boxes = {}
  BY DEF ElemXfer, WalkInv, ElemReady
<1>2. Grid'
  BY <1>1, SameWin
<1>3. TypeOK'
  BY <1>1 DEF TypeOK, win, call
<1>. QED
  BY <1>1, <1>2, <1>3 DEF WalkInv

LEMMA StutterWalk ==
  ASSUME WalkInv, UNCHANGED vars
  PROVE  WalkInv'
<1>1. UNCHANGED <<rlo, rhi, lo, hi, lsizes, origin, patch, newlo, target, disp, pc, boxes>>
  BY DEF vars, win, call
<1>2. /\ (Grid' <=> Grid) /\ (BulkCall' <=> BulkCall) /\ (Supported' <=> Supported)
      /\ Meeting' = Meeting /\ FindTarget(hi)' = FindTarget(hi)
      /\ \A p \in Ranks : NextLo(p)' = NextLo(p) /\ PieceOf(p)' = PieceOf(p)
  BY SameWin, SameCall DEF vars
<1>3. TypeOK' <=> TypeOK
  BY <1>1 DEF TypeOK
<1>4. PieceReady' <=> PieceReady
  BY <1>1 DEF PieceReady, Meeting, Meets, FindTarget, Owners, In, NextLo, PiecesOf, PieceOf, HiIn, Extent
<1>5. ElemReady' <=> ElemReady
  BY <1>1 DEF ElemReady, In, Displacement, LocalVal, DimsPerPe, Extent
<1>6. PiecesOf(Meeting)' = PiecesOf(Meeting)
  BY <1>1 DEF PiecesOf, Meeting, Meets, PieceOf, NextLo, HiIn, Extent
<1>. QED
  BY <1>1, <1>2, <1>3, <1>4, <1>5, <1>6 DEF WalkInv

LEMMA NextWalk == WalkInv /\ [Next]_vars => WalkInv'
BY AccessWalk, ElemWalk, FindWalk, PieceWalk, BadBoxWalk, XferWalk, StutterWalk
   DEF Next, BulkAccess, OneAccess, Walk

-----------------------------------------------------------------------------
(***************************************************************************)
(* What the invariant says of the runs' properties.                        *)
(***************************************************************************)

LEMMA AlwaysWalk == Spec => []WalkInv
<1>1. Init => WalkInv
  BY InitWalk
<1>2. WalkInv /\ [Next]_vars => WalkInv'
  BY NextWalk
<1>. QED
  BY <1>1, <1>2, PTL DEF Spec

\* Every variable keeps its type: in particular the displacement an element is read at
\* (disp_) and the fields of every subarray type made are never negative.
THEOREM TypeCorrect == Spec => []TypeOK
<1>1. WalkInv => TypeOK
  BY DEF WalkInv
<1>. QED
  BY <1>1, AlwaysWalk, PTL

\* With boxes that do not overlap, an origin that holds the patch and processes met in
\* rank order, MPI_Type_create_subarray is never given an ill-formed subarray and the search
\* of RMACXX_GLOBAL_CONTIG_BULK_XFER for the next target never runs past the last process.
THEOREM WalkNeverFails == Spec => []NeverFails
<1>1. WalkInv => NeverFails
  BY DEF WalkInv, NeverFails
<1>. QED
  BY <1>1, AlwaysWalk, PTL

\* In the same cases every piece lies in its owner's memory and in the patch, and its
\* elements at the patch's place for them in the local buffer.
THEOREM PiecesInPlace == Spec => []NothingStray
<1>1. ASSUME WalkInv, Supported, NEW b \in boxes PROVE InPlace(b)
  <2>1. \A p \in Ranks : TypeOK /\ Grid /\ BulkCall /\ Meets(p) => InPlace(PieceOf(p))
    BY PieceInPlace
  <2>2. BulkCall /\ \E p \in Meeting : b = PieceOf(p)
    <3>1. pc \in {"idle", "piece"}
      BY <1>1 DEF WalkInv, TypeOK, ElemReady
    <3>2. CASE pc = "idle"
      BY <1>1, <3>2 DEF WalkInv, PiecesOf
    <3>3. CASE pc = "piece"
      BY <1>1, <3>3 DEF WalkInv, PieceReady, PiecesOf
    <3>. QED BY <3>1, <3>2, <3>3
  <2>. QED BY <1>1, <2>1, <2>2 DEF WalkInv, Meeting
<1>2. WalkInv => NothingStray
  BY <1>1 DEF NothingStray
<1>. QED
  BY <1>2, AlwaysWalk, PTL

\* In the same cases, when the access returns its pieces tile the patch: no two meet, and
\* every coordinate of the patch that a process owns is in one of them.
THEOREM PatchDelivered == Spec => []Delivered
<1>1. ASSUME WalkInv, Supported, pc = "idle", boxes # {}
      PROVE  /\ \A b, d \in boxes : b # d => Apart(b, d)
             /\ \A c \in Coords : In(c, patch.lo, patch.hi) => \E b \in boxes : In(c, First(b), Last(b))
  <2>1. TypeOK /\ Grid /\ BulkCall /\ boxes = PiecesOf(Meeting) /\ lo \in Vec /\ hi \in Vec
    BY <1>1 DEF WalkInv, TypeOK
  <2>2. \A p \in Ranks : Meets(p) => First(PieceOf(p)) = NextLo(p) /\ Last(PieceOf(p)) = HiIn(p)
    BY <2>1, PieceInPlace
  <2>3. ASSUME NEW p \in Meeting, NEW q \in Meeting, p # q
        PROVE  Apart(PieceOf(p), PieceOf(q))
    <3>1. p \in Ranks /\ q \in Ranks /\ Meets(p) /\ Meets(q)
      BY DEF Meeting
    <3>2. PICK i \in Dims : rhi[p][i] < rlo[q][i] \/ rhi[q][i] < rlo[p][i]
      BY <1>1, <2>3, <3>1 DEF Supported, NoOverlap
    <3>3. /\ HiIn(p)[i] <= rhi[p][i] /\ HiIn(q)[i] <= rhi[q][i]
          /\ rlo[p][i] <= NextLo(p)[i] /\ rlo[q][i] <= NextLo(q)[i]
          /\ HiIn(p) \in Vec /\ HiIn(q) \in Vec /\ NextLo(p) \in Vec /\ NextLo(q) \in Vec
      BY <2>1, <3>1, PieceBounds DEF BulkCall
    <3>4. rlo[p] \in Vec /\ rhi[p] \in Vec /\ rlo[q] \in Vec /\ rhi[q] \in Vec
      BY <2>1, <3>1 DEF Grid
    <3>5. /\ HiIn(p)[i] \in Nat /\ rhi[p][i] \in Nat /\ HiIn(q)[i] \in Nat /\ rhi[q][i] \in Nat
          /\ rlo[p][i] \in Nat /\ NextLo(p)[i] \in Nat /\ rlo[q][i] \in Nat /\ NextLo(q)[i] \in Nat
      BY <3>3, <3>4, VecNat
    <3>6. HiIn(p)[i] < NextLo(q)[i] \/ HiIn(q)[i] < NextLo(p)[i]
      BY <3>2, <3>3, <3>5
    <3>. QED BY <2>2, <3>1, <3>6 DEF Apart
  <2>4. ASSUME NEW c \in Coords, In(c, patch.lo, patch.hi)
        PROVE  \E b \in boxes : In(c, First(b), Last(b))
    <3>. DEFINE p == FindTarget(c)
    <3>1. p \in Ranks /\ In(c, rlo[p], rhi[p]) /\ c \in Vec
      BY FindTargetOwns, CoordsVec
    <3>. HIDE DEF p
    <3>2. In(c, lo, hi) /\ \A i \in Dims : lo[i] <= hi[i]
      BY <2>1, <2>4 DEF BulkCall
    <3>3. rlo[p] \in Vec /\ rhi[p] \in Vec
      BY <2>1, <3>1 DEF Grid
    <3>4. ASSUME NEW i \in Dims
          PROVE  /\ rlo[p][i] <= hi[i] /\ rhi[p][i] >= lo[i]
                 /\ NextLo(p)[i] <= c[i] /\ c[i] <= HiIn(p)[i]
      <4>1. /\ c[i] \in Nat /\ lo[i] \in Nat /\ hi[i] \in Nat
            /\ rlo[p][i] \in Nat /\ rhi[p][i] \in Nat
        BY <2>1, <3>1, <3>3, VecNat
      <4>2. lo[i] <= c[i] /\ c[i] <= hi[i] /\ rlo[p][i] <= c[i] /\ c[i] <= rhi[p][i]
        BY <3>1, <3>2 DEF In
      <4>3. /\ NextLo(p)[i] = IF lo[i] > rlo[p][i] THEN lo[i] ELSE rlo[p][i]
            /\ HiIn(p)[i] = IF hi[i] > rhi[p][i] THEN rhi[p][i] ELSE hi[i]
        BY DEF NextLo, HiIn
      <4>. QED BY <4>1, <4>2, <4>3
    <3>5. Meets(p) /\ In(c, NextLo(p), HiIn(p))
      BY <3>4 DEF Meets, In
    <3>6. PieceOf(p) \in boxes
      BY <2>1, <3>1, <3>5 DEF PiecesOf, Meeting
    <3>. QED BY <2>2, <3>1, <3>5, <3>6
  <2>. QED BY <2>1, <2>3, <2>4 DEF PiecesOf
<1>2. WalkInv => Delivered
  BY <1>1 DEF Delivered
<1>. QED
  BY <1>2, AlwaysWalk, PTL

\* The displacement find_target_disp computes for an element of a two-dimensional window is
\* the number of elements of its owner's box before it in row-major order.
THEOREM ElementsInPlace == Spec => []ElemInPlace
<1>1. WalkInv => ElemInPlace
  BY BeforeCount DEF WalkInv, ElemReady, ElemInPlace
<1>. QED
  BY <1>1, AlwaysWalk, PTL
=============================================================================
