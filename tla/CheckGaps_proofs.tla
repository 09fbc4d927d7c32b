-------------------------- MODULE CheckGaps_proofs --------------------------
(***************************************************************************)
(* check_gaps is exact: proofs about CheckGaps for every number of         *)
(* processes and of dimensions, every layout and every window.             *)
(***************************************************************************)
EXTENDS CheckGaps, TLAPS

\* A box without a dimension of extent 0.
Solid(b) == b \in Boxes /\ \A i \in Dims : b.lo[i] <= b.hi[i]

LEMMA ProcSolid == TypeOK => \A q \in Procs : Solid(proc[q])
BY GapsAssumption DEF TypeOK, Solid

LEMMA CellsArePoints ==
  ASSUME TypeOK, NEW c \in Cells
  PROVE  c \in Point /\ \A i \in Dims : 0 <= c[i] /\ c[i] < wsize[i]
<1>1. \A i \in Dims : wsize[i] \in Int
  BY DEF TypeOK, Point
<1>2. \A i \in Dims : c[i] \in UNION {0 .. wsize[j] - 1 : j \in Dims}
  BY DEF Cells
<1>3. \A i \in Dims : c[i] \in Int /\ 0 <= c[i]
  BY <1>1, <1>2
<1>. QED
  BY <1>3 DEF Cells, Point

-----------------------------------------------------------------------------
(***************************************************************************)
(* What check_overlap returns.                                             *)
(***************************************************************************)
LEMMA OverlapNone ==
  ASSUME NEW b, Solid(b), NEW q, Solid(q), Overlap(b, q) = 0, NEW c \in Point
  PROVE  ~(In(c, b) /\ In(c, q))
<1>1. PICK i \in Dims : Relation1(b, q, i) = "apart"
  BY DEF Overlap
<1>2. /\ b.lo[i] \in Int /\ b.hi[i] \in Int /\ q.lo[i] \in Int /\ q.hi[i] \in Int
      /\ c[i] \in Int /\ b.lo[i] <= b.hi[i] /\ q.lo[i] <= q.hi[i]
  BY DEF Solid, Boxes, Point
<1>3. b.hi[i] < q.lo[i] \/ q.hi[i] < b.lo[i]
  BY <1>1, <1>2 DEF Relation1
<1>. QED
  BY <1>2, <1>3 DEF In

LEMMA OverlapAll ==
  ASSUME NEW b, Solid(b), NEW q, Solid(q), Overlap(b, q) = 2, NEW c \in Point, In(c, b)
  PROVE  In(c, q)
<1>1. \A i \in Dims : Relation1(b, q, i) = "inside"
  BY DEF Overlap
<1>2. \A i \in Dims : q.lo[i] <= b.lo[i] /\ b.hi[i] <= q.hi[i]
  BY <1>1 DEF Relation1
<1>. QED
  BY <1>2 DEF In, Solid, Boxes, Point

\* o is the box that b and q have in common, given dimension by dimension.
IsCommon(o, b, q) ==
  /\ o \in Boxes
  /\ \A i \in Dims :
       /\ b.lo[i] <= o.lo[i] /\ o.lo[i] <= o.hi[i] /\ o.hi[i] <= b.hi[i]
       /\ q.lo[i] <= o.lo[i] /\ o.hi[i] <= q.hi[i]
       /\ o.lo[i] <= b.lo[i] \/ o.lo[i] <= q.lo[i]
       /\ o.hi[i] >= b.hi[i] \/ o.hi[i] >= q.hi[i]

LEMMA OverlapSome ==
  ASSUME NEW b, Solid(b), NEW q, Solid(q), Overlap(b, q) = 1
  PROVE  IsCommon(Common(b, q), b, q)
<1> DEFINE o == Common(b, q)
<1>1. \A i \in Dims : Relation1(b, q, i) # "apart"
  BY DEF Overlap
<1>2. \A i \in Dims : /\ b.lo[i] \in Int /\ b.hi[i] \in Int /\ q.lo[i] \in Int /\ q.hi[i] \in Int
                      /\ b.lo[i] <= b.hi[i] /\ q.lo[i] <= q.hi[i]
  BY DEF Solid, Boxes, Point
<1>3. o \in Boxes
  BY <1>2 DEF Common, Boxes, Point
<1>4. ASSUME NEW i \in Dims
      PROVE  /\ b.lo[i] <= o.lo[i] /\ o.lo[i] <= o.hi[i] /\ o.hi[i] <= b.hi[i]
             /\ q.lo[i] <= o.lo[i] /\ o.hi[i] <= q.hi[i]
             /\ o.lo[i] <= b.lo[i] \/ o.lo[i] <= q.lo[i]
             /\ o.hi[i] >= b.hi[i] \/ o.hi[i] >= q.hi[i]
  <2>1. \/ q.lo[i] <= b.lo[i] /\ b.hi[i] <= q.hi[i]
        \/ b.lo[i] <= q.lo[i] /\ q.hi[i] <= b.hi[i]
        \/ b.lo[i] <= q.lo[i] /\ q.lo[i] <= b.hi[i]
        \/ b.lo[i] <= q.hi[i] /\ q.hi[i] <= b.hi[i]
    BY <1>1 DEF Relation1
  <2>. QED
    BY <1>2, <2>1 DEF Common
<1>. QED
  BY <1>3, <1>4 DEF IsCommon

-----------------------------------------------------------------------------
(***************************************************************************)
(* The inductive invariant.                                                *)
(***************************************************************************)
Disjoint(b, e) == \A c \in Cells : ~(In(c, b) /\ In(c, e))

\* The boxes at hand lie in the window and have a point.
InWindow == \A b \in AtHand : Solid(b) /\ \A i \in Dims : 0 <= b.lo[i] /\ b.hi[i] < wsize[i]

\* No two of them share a point, and the one being split is none of the others.
AllDisjoint ==
  /\ \A b, e \in todo : b # e => Disjoint(b, e)
  /\ \A b, e \in kept : b # e => Disjoint(b, e)
  /\ \A b \in todo, e \in kept : Disjoint(b, e)
  /\ pc = "split" => \A b \in todo \cup kept : Disjoint(b, cur)

\* The box being split is clipped to the common box in the dimensions before d.
Splitting ==
  /\ IsCommon(over, cur, proc[p])
  /\ \A i \in Dims : i < d => cur.lo[i] = over.lo[i] /\ cur.hi[i] = over.hi[i]

\* After the last process the boxes left hold the points nobody covers.
Answer ==
  /\ p = commSize - 1 /\ kept = {}
  /\ pc = "true" <=> todo = {}
  /\ \A c \in Cells : ~Covered(c, p) <=> \E b \in todo : In(c, b)

GapsInv ==
  WindowNotEmpty =>
    /\ Running => InWindow /\ AllDisjoint /\ Remaining
    /\ pc = "split" => Splitting
    /\ Returned => InWindow /\ Answer

-----------------------------------------------------------------------------
LEMMA WholeBox ==
  ASSUME TypeOK
  PROVE  Whole \in Boxes /\ \A c \in Cells : In(c, Whole)
<1>1. \A i \in Dims : wsize[i] \in Int
  BY DEF TypeOK, Point
<1>2. Whole \in Boxes
  BY <1>1 DEF Whole, Boxes, Point
<1>3. ASSUME NEW c \in Cells PROVE In(c, Whole)
  <2>1. \A i \in Dims : c[i] \in Int /\ 0 <= c[i] /\ c[i] <= wsize[i] - 1
    BY <1>1, CellsArePoints DEF Point
  <2>. QED
    BY <2>1 DEF In, Whole
<1>. QED
  BY <1>2, <1>3

LEMMA CoveredType ==
  ASSUME TypeOK, NEW c \in Cells
  PROVE  /\ ~Covered(c, -1)
         /\ Covered(c, p) <=> Covered(c, p - 1) \/ In(c, proc[p])
<1>. p \in Procs /\ \A q \in Procs : q \in Int /\ q >= 0
  BY GapsAssumption DEF TypeOK, Procs
<1>. QED
  BY DEF Covered

\* The boxes a splitting step makes of cur.
LEMMA SplitBoxes ==
  ASSUME TypeOK
  PROVE  Before \in Boxes /\ After \in Boxes /\ Clipped \in Boxes
BY DEF TypeOK, Before, After, Clipped, Boxes, Point

LEMMA TypeStep == TypeOK /\ [Next]_vars => TypeOK'
<1>. SUFFICES ASSUME TypeOK, [Next]_vars PROVE TypeOK'
  OBVIOUS
<1>1. CASE Ctor
  <2>1. proc[p] \in Boxes
    BY ProcSolid DEF Solid, TypeOK
  <2>2. dmin' \in Point /\ dmax' \in Point
    BY <1>1, <2>1 DEF Ctor, TypeOK, Point, Boxes
  <2>3. wsize' \in Point
    BY <1>1, <2>2 DEF Ctor, TypeOK, Point
  <2>. QED
    BY <1>1, <2>2, <2>3, GapsAssumption DEF Ctor, LastProcess, TypeOK, Procs
<1>2. CASE Call
  BY <1>2, WholeBox, GapsAssumption DEF Call, TypeOK, args, ends, Procs
<1>3. CASE Apart
  BY <1>3 DEF Apart, TypeOK, args, ends
<1>4. CASE Inside
  BY <1>4 DEF Inside, TypeOK, args, ends
<1>5. CASE Meets
  <2>1. \A b \in Boxes, q \in Boxes : Common(b, q) \in Boxes
    BY DEF Common, Boxes, Point
  <2>2. proc[p] \in Boxes
    BY ProcSolid DEF Solid, TypeOK
  <2>. QED
    BY <1>5, <2>1, <2>2, GapsAssumption DEF Meets, TypeOK, args, ends, Dims
<1>6. CASE Split
  <2>1. Pieces \subseteq Boxes
    BY SplitBoxes DEF Pieces
  <2>. QED
    BY <1>6, <2>1, SplitBoxes, GapsAssumption DEF Split, TypeOK, args, ends, Dims
<1>7. CASE NextProcess
  BY <1>7, GapsAssumption DEF NextProcess, LastProcess, TypeOK, args, ends, Procs
<1>8. CASE UNCHANGED vars
  BY <1>8 DEF vars, args, ends, TypeOK
<1>. QED
  BY <1>1, <1>2, <1>3, <1>4, <1>5, <1>6, <1>7, <1>8 DEF Next
-----------------------------------------------------------------------------
\* The question stays the same while it is answered.
LEMMA ArgsFixed ==
  ASSUME UNCHANGED args
  PROVE  /\ Cells' = Cells /\ WindowNotEmpty' = WindowNotEmpty /\ Whole' = Whole
         /\ \A c, n : Covered(c, n)' = Covered(c, n)
         /\ \A b, e : Disjoint(b, e)' = Disjoint(b, e)
BY DEF args, Cells, WindowNotEmpty, Whole, Covered, Disjoint

LEMMA CallStep ==
  ASSUME TypeOK, Call, WindowNotEmpty
  PROVE  InWindow' /\ AllDisjoint' /\ Remaining' /\ pc' = "box"
<1>1. /\ pc' = "box" /\ todo' = {Whole} /\ kept' = {} /\ p' = 0
      /\ UNCHANGED args /\ wsize' = wsize
  BY DEF Call, args
<1>2. AtHand' = {Whole}
  BY <1>1 DEF AtHand
<1>3. \A i \in Dims : wsize[i] \in Int /\ wsize[i] >= 1
  BY DEF TypeOK, Point, WindowNotEmpty
<1>4. Solid(Whole) /\ \A i \in Dims : 0 <= Whole.lo[i] /\ Whole.hi[i] < wsize[i]
  BY <1>3, WholeBox DEF Solid, Whole
<1>5. InWindow'
  BY <1>1, <1>2, <1>4 DEF InWindow
<1>6. AllDisjoint'
  BY <1>1 DEF AllDisjoint
<1>7. Remaining'
  <2>1. SUFFICES ASSUME NEW c \in Cells
                 PROVE  In(c, Whole) /\ ~Covered(c, p' - 1)
    BY <1>1, <1>2, ArgsFixed DEF Remaining
  <2>. QED
    BY <1>1, <2>1, WholeBox, CoveredType
<1>. QED
  BY <1>1, <1>5, <1>6, <1>7

\* Taking one box off the list: it is kept, dropped or split.
LEMMA BoxStep ==
  ASSUME TypeOK, TypeOK', GapsInv, WindowNotEmpty, Apart \/ Inside \/ Meets
  PROVE  InWindow' /\ AllDisjoint' /\ Remaining' /\ (pc' = "split" => Splitting')
<1>1. /\ pc = "box" /\ Running /\ InWindow /\ AllDisjoint /\ Remaining
      /\ UNCHANGED <<args, p>> /\ wsize' = wsize /\ proc' = proc /\ p' = p
      /\ AtHand = todo \cup kept
  BY DEF Apart, Inside, Meets, Running, GapsInv, args, AtHand
<1>2. \A c \in Cells : Covered(c, p) <=> Covered(c, p - 1) \/ In(c, proc[p])
  BY CoveredType
<1>3. proc[p] \in Boxes /\ Solid(proc[p])
  BY ProcSolid DEF TypeOK, Solid
<1>4. CASE Apart
  <2>1. PICK b \in todo : /\ Overlap(b, proc[p]) = 0
                          /\ todo' = todo \ {b} /\ kept' = kept \cup {b}
    BY <1>4 DEF Apart
  <2>2. pc' = "box" /\ AtHand' = AtHand
    BY <1>1, <1>4, <2>1 DEF Apart, AtHand
  <2>3. Solid(b)
    BY <1>1 DEF InWindow
  <2>4. \A c \in Cells : In(c, b) => ~In(c, proc[p])
    BY <1>3, <2>1, <2>3, OverlapNone, CellsArePoints
  <2>5. \A c \in Cells : In(c, b) => ~Covered(c, p)
    BY <1>1, <1>2, <2>4 DEF Remaining
  <2>6. Remaining'
    BY <1>1, <2>1, <2>2, <2>5, ArgsFixed DEF Remaining, Running
  <2>7. AllDisjoint'
    <3>1. \A x, y : Disjoint(x, y) => Disjoint(y, x)
      BY DEF Disjoint
    <3>. QED
      BY <1>1, <2>1, <2>2, <3>1, ArgsFixed DEF AllDisjoint
  <2>8. InWindow'
    BY <1>1, <2>2 DEF InWindow
  <2>. QED
    BY <2>2, <2>6, <2>7, <2>8
<1>5. CASE Inside
  <2>1. PICK b \in todo : Overlap(b, proc[p]) = 2 /\ todo' = todo \ {b}
    BY <1>5 DEF Inside
  <2>2. pc' = "box" /\ kept' = kept /\ AtHand' = todo' \cup kept
    BY <1>1, <1>5, <2>1 DEF Inside, AtHand
  <2>3. Solid(b)
    BY <1>1 DEF InWindow
  <2>4. \A c \in Cells : In(c, b) => Covered(c, p)
    BY <1>2, <1>3, <2>1, <2>3, OverlapAll, CellsArePoints
  <2>5. Remaining'
    BY <1>1, <2>1, <2>2, <2>4, ArgsFixed DEF Remaining, Running
  <2>6. AllDisjoint'
    BY <1>1, <2>1, <2>2, ArgsFixed DEF AllDisjoint
  <2>7. InWindow'
    BY <1>1, <2>1, <2>2 DEF InWindow
  <2>. QED
    BY <2>2, <2>5, <2>6, <2>7
<1>6. CASE Meets
  <2>1. PICK b \in todo : /\ Overlap(b, proc[p]) = 1 /\ todo' = todo \ {b}
                          /\ cur' = b /\ over' = Common(b, proc[p])
    BY <1>6 DEF Meets
  <2>2. pc' = "split" /\ kept' = kept /\ d' = 1 /\ AtHand' = AtHand
    BY <1>1, <1>6, <2>1 DEF Meets, AtHand
  <2>3. Solid(b)
    BY <1>1 DEF InWindow
  <2>4. Splitting'
    BY <1>1, <1>3, <2>1, <2>2, <2>3, OverlapSome DEF Splitting, Dims
  <2>5. Remaining'
    BY <1>1, <2>2, ArgsFixed DEF Remaining, Running
  <2>6. AllDisjoint'
    <3>1. \A x, y : Disjoint(x, y) => Disjoint(y, x)
      BY DEF Disjoint
    <3>. QED
      BY <1>1, <2>1, <2>2, <3>1, ArgsFixed DEF AllDisjoint
  <2>7. InWindow'
    BY <1>1, <2>2 DEF InWindow
  <2>. QED
    BY <2>4, <2>5, <2>6, <2>7
<1>. QED
  BY <1>4, <1>5, <1>6

\* What splitting in dimension d does to the points of the box being split.
LEMMA SplitPoints ==
  ASSUME TypeOK, Splitting, Solid(cur)
  PROVE  /\ \A b \in Pieces \cup {Clipped} :
              /\ Solid(b)
              /\ \A i \in Dims : cur.lo[i] <= b.lo[i] /\ b.hi[i] <= cur.hi[i]
         /\ \A c \in Point : In(c, cur) => \E b \in Pieces \cup {Clipped} : In(c, b)
         /\ \A c \in Point, b \in Pieces : In(c, b) => ~In(c, proc[p]) /\ ~In(c, Clipped)
         /\ \A c \in Point, b, e \in Pieces : b # e => ~(In(c, b) /\ In(c, e))
<1>1. d \in Dims /\ cur \in Boxes /\ over \in Boxes /\ proc[p] \in Boxes
  BY ProcSolid DEF TypeOK, Solid
<1>2. \A i \in Dims :
        /\ cur.lo[i] \in Int /\ cur.hi[i] \in Int /\ over.lo[i] \in Int /\ over.hi[i] \in Int
        /\ proc[p].lo[i] \in Int /\ proc[p].hi[i] \in Int
        /\ cur.lo[i] <= over.lo[i] /\ over.lo[i] <= over.hi[i] /\ over.hi[i] <= cur.hi[i]
        /\ over.lo[i] <= cur.lo[i] \/ over.lo[i] <= proc[p].lo[i]
        /\ over.hi[i] >= cur.hi[i] \/ over.hi[i] >= proc[p].hi[i]
  BY <1>1 DEF Boxes, Point, Splitting, IsCommon
<1>3. /\ Before.lo = cur.lo /\ Before.hi = [cur.hi EXCEPT ![d] = over.lo[d] - 1]
      /\ After.lo = [cur.lo EXCEPT ![d] = over.hi[d] + 1] /\ After.hi = cur.hi
      /\ Clipped.lo = [cur.lo EXCEPT ![d] = over.lo[d]]
      /\ Clipped.hi = [cur.hi EXCEPT ![d] = over.hi[d]]
  BY <1>1, <1>2 DEF Before, After, Clipped, Boxes, Point
<1>4. \A i \in Dims :
        /\ Before.hi[i] = IF i = d THEN over.lo[d] - 1 ELSE cur.hi[i]
        /\ After.lo[i] = IF i = d THEN over.hi[d] + 1 ELSE cur.lo[i]
        /\ Clipped.lo[i] = IF i = d THEN over.lo[d] ELSE cur.lo[i]
        /\ Clipped.hi[i] = IF i = d THEN over.hi[d] ELSE cur.hi[i]
  BY <1>1, <1>3 DEF Boxes, Point
<1>5. \A b \in Pieces :
        \/ b = Before /\ cur.lo[d] < over.lo[d]
        \/ b = After /\ cur.hi[d] > over.hi[d]
  BY DEF Pieces
<1>6. ASSUME NEW b \in Pieces \cup {Clipped}
      PROVE  Solid(b) /\ \A i \in Dims : cur.lo[i] <= b.lo[i] /\ b.hi[i] <= cur.hi[i]
  <2>1. b \in Boxes
    BY SplitBoxes DEF Pieces
  <2>2. \A i \in Dims : cur.lo[i] <= cur.hi[i]
    BY DEF Solid
  <2>3. \A i \in Dims : b.lo[i] <= b.hi[i] /\ cur.lo[i] <= b.lo[i] /\ b.hi[i] <= cur.hi[i]
    <3>0. SUFFICES ASSUME NEW i \in Dims
                   PROVE  b.lo[i] <= b.hi[i] /\ cur.lo[i] <= b.lo[i] /\ b.hi[i] <= cur.hi[i]
      OBVIOUS
    <3>1. CASE b = Before /\ cur.lo[d] < over.lo[d]
      <4>1. b.lo[i] = cur.lo[i] /\ b.hi[i] = IF i = d THEN over.lo[d] - 1 ELSE cur.hi[i]
        BY <1>3, <1>4, <3>1
      <4>. QED
        BY <1>1, <1>2, <2>2, <3>1, <4>1
    <3>2. CASE b = After /\ cur.hi[d] > over.hi[d]
      <4>1. b.hi[i] = cur.hi[i] /\ b.lo[i] = IF i = d THEN over.hi[d] + 1 ELSE cur.lo[i]
        BY <1>3, <1>4, <3>2
      <4>. QED
        BY <1>1, <1>2, <2>2, <3>2, <4>1
    <3>3. CASE b = Clipped
      BY <1>1, <1>2, <1>4, <2>2, <3>3
    <3>. QED
      BY <1>5, <3>1, <3>2, <3>3
  <2>. QED
    BY <2>1, <2>3 DEF Solid
<1>7. ASSUME NEW c \in Point, In(c, cur)
      PROVE  \E b \in Pieces \cup {Clipped} : In(c, b)
  <2>1. \A i \in Dims : c[i] \in Int
    BY DEF Point
  <2>2. CASE c[d] < over.lo[d]
    <3>1. Before \in Pieces
      BY <1>1, <1>2, <1>7, <2>1, <2>2 DEF Pieces, In
    <3>2. In(c, Before)
      BY <1>1, <1>2, <1>3, <1>4, <1>7, <2>1, <2>2 DEF In
    <3>. QED
      BY <3>1, <3>2
  <2>3. CASE c[d] > over.hi[d]
    <3>1. After \in Pieces
      BY <1>1, <1>2, <1>7, <2>1, <2>3 DEF Pieces, In
    <3>2. In(c, After)
      BY <1>1, <1>2, <1>3, <1>4, <1>7, <2>1, <2>3 DEF In
    <3>. QED
      BY <3>1, <3>2
  <2>4. CASE over.lo[d] <= c[d] /\ c[d] <= over.hi[d]
    <3>1. In(c, Clipped)
      BY <1>4, <1>7, <2>4 DEF In
    <3>. QED
      BY <3>1
  <2>. QED
    BY <1>1, <1>2, <2>1, <2>2, <2>3, <2>4
<1>8. ASSUME NEW c \in Point, NEW b \in Pieces, In(c, b)
      PROVE  ~In(c, proc[p]) /\ ~In(c, Clipped)
  <2>1. c[d] \in Int
    BY <1>1 DEF Point
  <2>2. cur.lo[d] <= c[d] /\ c[d] <= cur.hi[d]
    BY <1>1, <1>2, <1>4, <1>3, <1>5, <1>8, <2>1 DEF In
  <2>3. c[d] < over.lo[d] \/ over.hi[d] < c[d]
    BY <1>1, <1>2, <1>4, <1>5, <1>8, <2>1 DEF In
  <2>4. ~In(c, Clipped)
    BY <1>1, <1>2, <1>4, <2>1, <2>3 DEF In
  <2>5. ~In(c, proc[p])
    BY <1>1, <1>2, <2>1, <2>2, <2>3 DEF In
  <2>. QED
    BY <2>4, <2>5
<1>9. ASSUME NEW c \in Point, NEW b \in Pieces, NEW e \in Pieces, b # e
      PROVE  ~(In(c, b) /\ In(c, e))
  <2>1. c[d] \in Int
    BY <1>1 DEF Point
  <2>2. ~(In(c, Before) /\ In(c, After))
    BY <1>1, <1>2, <1>4, <2>1 DEF In
  <2>. QED
    BY <1>5, <1>9, <2>2
<1>. QED
  BY <1>6, <1>7, <1>8, <1>9

\* A splitting step: nothing of the box is lost but, after the last dimension, the
\* common box itself, which the process covers.
LEMMA SplitStep ==
  ASSUME TypeOK, TypeOK', GapsInv, WindowNotEmpty, Split
  PROVE  InWindow' /\ AllDisjoint' /\ Remaining' /\ (pc' = "split" => Splitting')
<1>1. /\ pc = "split" /\ Running /\ InWindow /\ AllDisjoint /\ Remaining /\ Splitting
      /\ UNCHANGED <<args, p, todo, over>> /\ wsize' = wsize /\ proc' = proc /\ p' = p
      /\ kept' = kept \cup Pieces /\ cur' = Clipped /\ over' = over /\ todo' = todo
      /\ AtHand = todo \cup kept \cup {cur}
  BY DEF Split, Running, GapsInv, args, AtHand
<1>2. Solid(cur) /\ cur \in AtHand
  BY <1>1 DEF InWindow
<1>3. /\ pc' \in {"split", "box"}
      /\ AtHand' \subseteq todo \cup kept \cup Pieces \cup {Clipped}
      /\ todo \cup kept \cup Pieces \subseteq AtHand'
      /\ pc' = "split" => Clipped \in AtHand'
  BY <1>1 DEF Split, AtHand
<1>4. InWindow'
  <2>1. \A i \in Dims : 0 <= cur.lo[i] /\ cur.hi[i] < wsize[i] /\ wsize[i] \in Int
    BY <1>1, <1>2 DEF InWindow, TypeOK, Point
  <2>2. ASSUME NEW b \in Pieces \cup {Clipped}
        PROVE  Solid(b) /\ \A i \in Dims : 0 <= b.lo[i] /\ b.hi[i] < wsize[i]
    <3>1. Solid(b) /\ \A i \in Dims : cur.lo[i] <= b.lo[i] /\ b.hi[i] <= cur.hi[i]
      BY <1>1, <1>2, SplitPoints
    <3>2. \A i \in Dims : /\ b.lo[i] \in Int /\ b.hi[i] \in Int
                          /\ cur.lo[i] \in Int /\ cur.hi[i] \in Int
      BY <1>2, <3>1 DEF Solid, Boxes, Point
    <3>. QED
      BY <2>1, <3>1, <3>2
  <2>. QED
    BY <1>1, <1>3, <2>2 DEF InWindow
<1>5. \A c \in Cells, b \in Pieces \cup {Clipped} : In(c, b) => In(c, cur)
  <2>1. SUFFICES ASSUME NEW c \in Cells, NEW b \in Pieces \cup {Clipped}, In(c, b)
                 PROVE  In(c, cur)
    OBVIOUS
  <2>2. Solid(b) /\ \A i \in Dims : cur.lo[i] <= b.lo[i] /\ b.hi[i] <= cur.hi[i]
    BY <1>1, <1>2, SplitPoints
  <2>3. \A i \in Dims : /\ b.lo[i] \in Int /\ b.hi[i] \in Int /\ c[i] \in Int
                        /\ cur.lo[i] \in Int /\ cur.hi[i] \in Int
    BY <1>2, <2>2, CellsArePoints DEF Solid, Boxes, Point
  <2>. QED
    BY <2>1, <2>2, <2>3 DEF In
<1>6. \A b \in todo \cup kept, e \in Pieces \cup {Clipped} : Disjoint(b, e) /\ Disjoint(e, b)
  BY <1>1, <1>5 DEF AllDisjoint, Disjoint
<1>7. \A b, e \in Pieces : b # e => Disjoint(b, e)
  BY <1>1, <1>2, SplitPoints, CellsArePoints DEF Disjoint
<1>8. \A b \in Pieces : Disjoint(b, Clipped)
  BY <1>1, <1>2, SplitPoints, CellsArePoints DEF Disjoint
<1>9. AllDisjoint'
  BY <1>1, <1>6, <1>7, <1>8, ArgsFixed DEF AllDisjoint
<1>10. pc' = "split" => Splitting'
  <2>1. SUFFICES ASSUME pc' = "split" PROVE Splitting'
    OBVIOUS
  <2>2. d # ndims /\ d' = d + 1 /\ d \in Dims /\ d \in Int
    BY <2>1 DEF Split, TypeOK, Dims
  <2>3. cur \in Boxes /\ over \in Boxes /\ proc[p] \in Boxes
    BY ProcSolid DEF TypeOK, Solid
  <2>4. \A i \in Dims :
          /\ cur.lo[i] \in Int /\ cur.hi[i] \in Int /\ over.lo[i] \in Int /\ over.hi[i] \in Int
          /\ cur.lo[i] <= over.lo[i] /\ over.lo[i] <= over.hi[i] /\ over.hi[i] <= cur.hi[i]
    BY <1>1, <2>3 DEF Splitting, IsCommon, Boxes, Point
  <2>5. \A i \in Dims : /\ Clipped.lo[i] = IF i = d THEN over.lo[d] ELSE cur.lo[i]
                        /\ Clipped.hi[i] = IF i = d THEN over.hi[d] ELSE cur.hi[i]
    BY <2>2, <2>3, <2>4 DEF Clipped, Boxes, Point
  <2>6. IsCommon(over, Clipped, proc[p])
    BY <1>1, <2>3, <2>4, <2>5 DEF Splitting, IsCommon
  <2>7. \A i \in Dims : i < d + 1 => Clipped.lo[i] = over.lo[i] /\ Clipped.hi[i] = over.hi[i]
    BY <1>1, <2>2, <2>5 DEF Splitting, Dims
  <2>. QED
    BY <1>1, <2>2, <2>6, <2>7 DEF Splitting
<1>11. \A c \in Cells : Covered(c, p) <=> Covered(c, p - 1) \/ In(c, proc[p])
  BY CoveredType
<1>12. ASSUME NEW c \in Cells, In(c, Clipped), pc' = "box" PROVE In(c, proc[p])
  <2>1. d = ndims /\ d \in Dims
    BY <1>12 DEF Split, TypeOK
  <2>2. cur \in Boxes /\ over \in Boxes /\ proc[p] \in Boxes /\ c \in Point
    BY ProcSolid, CellsArePoints DEF TypeOK, Solid
  <2>3. \A i \in Dims :
          /\ cur.lo[i] \in Int /\ cur.hi[i] \in Int /\ over.lo[i] \in Int /\ over.hi[i] \in Int
          /\ proc[p].lo[i] \in Int /\ proc[p].hi[i] \in Int /\ c[i] \in Int
          /\ cur.lo[i] <= over.lo[i] /\ over.hi[i] <= cur.hi[i]
          /\ proc[p].lo[i] <= over.lo[i] /\ over.hi[i] <= proc[p].hi[i]
    BY <1>1, <2>2 DEF Splitting, IsCommon, Boxes, Point
  <2>4. \A i \in Dims : /\ Clipped.lo[i] = IF i = d THEN over.lo[d] ELSE cur.lo[i]
                        /\ Clipped.hi[i] = IF i = d THEN over.hi[d] ELSE cur.hi[i]
    BY <2>1, <2>2, <2>3 DEF Clipped, Boxes, Point
  <2>5. \A i \in Dims : Clipped.lo[i] = over.lo[i] /\ Clipped.hi[i] = over.hi[i]
    BY <1>1, <2>1, <2>4, GapsAssumption DEF Splitting, Dims
  <2>. QED
    BY <1>12, <2>3, <2>5 DEF In
<1>13. Remaining'
  <2>1. SUFFICES ASSUME NEW c \in Cells
                 PROVE  /\ ~Covered(c, p) => \E b \in AtHand' : In(c, b)
                        /\ (\E b \in kept' : In(c, b)) => ~Covered(c, p)
                        /\ (\E b \in AtHand' : In(c, b)) => ~Covered(c, p - 1)
    BY <1>1, ArgsFixed DEF Remaining
  <2>2. c \in Point
    BY CellsArePoints
  <2>3. ASSUME ~Covered(c, p) PROVE \E b \in AtHand' : In(c, b)
    <3>1. PICK b \in AtHand : In(c, b)
      BY <1>1, <2>3 DEF Remaining
    <3>2. CASE b \in todo \cup kept
      BY <1>3, <3>1, <3>2
    <3>3. CASE b = cur
      <4>1. PICK e \in Pieces \cup {Clipped} : In(c, e)
        BY <1>1, <1>2, <2>2, <3>1, <3>3, SplitPoints
      <4>2. CASE e \in Pieces
        BY <1>3, <4>1, <4>2
      <4>3. CASE e = Clipped
        <5>1. pc' = "split"
          BY <1>3, <1>11, <1>12, <2>3, <4>1, <4>3
        <5>. QED
          BY <1>3, <4>1, <4>3, <5>1
      <4>. QED
        BY <4>2, <4>3
    <3>. QED
      BY <1>1, <3>2, <3>3
  <2>4. ASSUME NEW b \in kept', In(c, b) PROVE ~Covered(c, p)
    <3>1. CASE b \in kept
      BY <1>1, <2>4, <3>1 DEF Remaining
    <3>2. CASE b \in Pieces
      <4>1. ~In(c, proc[p])
        BY <1>1, <1>2, <2>2, <2>4, <3>2, SplitPoints
      <4>2. ~Covered(c, p - 1)
        BY <1>1, <1>2, <1>5, <2>4, <3>2 DEF Remaining
      <4>. QED
        BY <1>11, <4>1, <4>2
    <3>. QED
      BY <1>1, <3>1, <3>2
  <2>5. ASSUME NEW b \in AtHand', In(c, b) PROVE ~Covered(c, p - 1)
    BY <1>1, <1>2, <1>3, <1>5, <2>5 DEF Remaining
  <2>. QED
    BY <2>3, <2>4, <2>5
<1>. QED
  BY <1>4, <1>9, <1>10, <1>13

LEMMA NextProcessStep ==
  ASSUME TypeOK, TypeOK', GapsInv, WindowNotEmpty, NextProcess
  PROVE  InWindow' /\ (Running' => AllDisjoint' /\ Remaining' /\ pc' = "box")
                   /\ (Returned' => Answer')
<1>1. /\ pc = "box" /\ InWindow /\ AllDisjoint /\ Remaining /\ Running
      /\ UNCHANGED args /\ wsize' = wsize /\ proc' = proc
      /\ todo = {} /\ todo' = kept /\ kept' = {} /\ AtHand = kept
  BY DEF NextProcess, Running, GapsInv, args, AtHand
<1>2. p \in Int /\ \A c \in Cells : (~Covered(c, p) <=> \E b \in kept : In(c, b))
  BY <1>1 DEF Remaining, TypeOK, Procs
<1>3. CASE LastProcess
  <2>1. p = commSize - 1 /\ p' = p /\ pc' \in {"true", "false"}
        /\ (pc' = "true" <=> kept = {}) /\ AtHand' = kept
    BY <1>1, <1>2, <1>3, GapsAssumption DEF LastProcess, NextProcess, AtHand
  <2>2. Answer'
    BY <1>1, <1>2, <2>1, ArgsFixed DEF Answer
  <2>3. InWindow' /\ ~Running'
    BY <1>1, <2>1 DEF InWindow, Running
  <2>. QED
    BY <2>2, <2>3
<1>4. CASE ~LastProcess
  <2>1. p' = p + 1 /\ pc' = "box" /\ AtHand' = kept
    BY <1>1, <1>4 DEF NextProcess, AtHand
  <2>2. \A c \in Cells : Covered(c, p) => Covered(c, p + 1)
    BY <1>2, GapsAssumption DEF Covered, Procs
  <2>3. Remaining'
    BY <1>1, <1>2, <2>1, <2>2, ArgsFixed DEF Remaining
  <2>4. InWindow' /\ AllDisjoint'
    BY <1>1, <2>1, ArgsFixed DEF InWindow, AllDisjoint
  <2>. QED
    BY <2>1, <2>3, <2>4 DEF Returned
<1>. QED
  BY <1>3, <1>4

LEMMA InvStep == TypeOK /\ TypeOK' /\ GapsInv /\ [Next]_vars => GapsInv'
<1>. SUFFICES ASSUME TypeOK, TypeOK', GapsInv, [Next]_vars, WindowNotEmpty' PROVE GapsInv'
  BY DEF GapsInv
<1>1. CASE Ctor
  <2>1. pc' \in {"ctor", "call"}
    BY <1>1 DEF Ctor
  <2>. QED
    BY <2>1 DEF GapsInv, Running, Returned
<1>2. CASE Call
  <2>1. WindowNotEmpty
    BY <1>2, ArgsFixed DEF Call
  <2>. QED
    BY <1>2, <2>1, CallStep DEF GapsInv, Running, Returned
<1>3. CASE Apart \/ Inside \/ Meets
  <2>1. WindowNotEmpty /\ pc' \in {"box", "split"}
    BY <1>3, ArgsFixed DEF Apart, Inside, Meets
  <2>. QED
    BY <1>3, <2>1, BoxStep DEF GapsInv, Running, Returned
<1>4. CASE Split
  <2>1. WindowNotEmpty /\ pc' \in {"box", "split"}
    BY <1>4, ArgsFixed DEF Split
  <2>. QED
    BY <1>4, <2>1, SplitStep DEF GapsInv, Running, Returned
<1>5. CASE NextProcess
  <2>1. WindowNotEmpty
    BY <1>5, ArgsFixed DEF NextProcess
  <2>. QED
    BY <1>5, <2>1, NextProcessStep DEF GapsInv, Running, Returned
<1>6. CASE UNCHANGED vars
  <2>1. UNCHANGED <<args, p, todo, kept, cur, over, d, pc>> /\ wsize' = wsize /\ proc' = proc
    BY <1>6 DEF vars, args
  <2>2. WindowNotEmpty /\ AtHand' = AtHand
    BY <2>1, ArgsFixed DEF AtHand
  <2>3. /\ InWindow' = InWindow /\ AllDisjoint' = AllDisjoint /\ Remaining' = Remaining
        /\ Splitting' = Splitting /\ Answer' = Answer
    BY <2>1, <2>2, ArgsFixed DEF InWindow, AllDisjoint, Remaining, Running, Splitting, Answer
  <2>. QED
    BY <2>1, <2>2, <2>3 DEF GapsInv, Running, Returned
<1>. QED
  BY <1>1, <1>2, <1>3, <1>4, <1>5, <1>6 DEF Next

-----------------------------------------------------------------------------
LEMMA InitInv == Init => TypeOK /\ GapsInv
<1>. SUFFICES ASSUME Init PROVE TypeOK /\ GapsInv
  OBVIOUS
<1>1. 0 \in Procs /\ 1 \in Dims
  BY GapsAssumption DEF Procs, Dims
<1>2. TypeOK
  BY <1>1, GapsAssumption DEF Init, TypeOK, Point, INT32_MAX
<1>3. GapsInv
  BY DEF Init, GapsInv, Running, Returned
<1>. QED
  BY <1>2, <1>3

LEMMA SpecInv == Spec => [](TypeOK /\ GapsInv)
BY InitInv, TypeStep, InvStep, PTL DEF Spec

\* Every variable keeps its type: the loop over the processes stays within them and
\* the splitting loop within the dimensions.
THEOREM TypeCorrect == Spec => []TypeOK
BY SpecInv, PTL

\* While check_gaps runs no point of the window is lost and none survives its
\* process, and the boxes at hand never share a point.
THEOREM SplittingCorrect == Spec => [](Remaining /\ BoxesApart)
<1>1. TypeOK /\ GapsInv /\ WindowNotEmpty => Remaining /\ BoxesApart
  <2>1. GapsInv /\ WindowNotEmpty => Remaining
    BY DEF GapsInv, Remaining
  <2>2. AllDisjoint => BoxesApart
    BY DEF AllDisjoint, BoxesApart, AtHand, Disjoint
  <2>. QED
    BY <2>1, <2>2 DEF GapsInv, BoxesApart
<1>2. TypeOK /\ ~WindowNotEmpty => Remaining /\ BoxesApart
  <2>1. SUFFICES ASSUME TypeOK, ~WindowNotEmpty PROVE Cells = {}
    BY DEF Remaining, BoxesApart
  <2>2. PICK i \in Dims : ~(wsize[i] >= 1)
    BY <2>1 DEF WindowNotEmpty
  <2>3. wsize[i] \in Int
    BY <2>1 DEF TypeOK, Point
  <2>. QED
    BY <2>1, <2>2, <2>3, CellsArePoints DEF Point
<1>. QED
  BY <1>1, <1>2, SpecInv, PTL

\* No point of the window is in two of the boxes check_gaps has at hand, so that
\* none is split off, or deleted, twice.
THEOREM ApartCorrect == Spec => []BoxesApart
BY SplittingCorrect, PTL

\* check_gaps is exact: it returns true when, and only when, every point of the
\* window belongs to some process.
THEOREM ExactCorrect == Spec => []CheckExact
<1>1. TypeOK /\ GapsInv => CheckExact
  <2>1. SUFFICES ASSUME TypeOK, GapsInv, Returned, WindowNotEmpty
                 PROVE  (pc = "true") <=> \A c \in Cells : Covered(c, commSize - 1)
    BY DEF CheckExact
  <2>2. InWindow /\ Answer
    BY <2>1 DEF GapsInv
  <2>3. ASSUME NEW b \in todo PROVE b.lo \in Cells /\ In(b.lo, b)
    <3>1. Solid(b) /\ \A i \in Dims : 0 <= b.lo[i] /\ b.hi[i] < wsize[i]
      BY <2>2 DEF InWindow, AtHand
    <3>2. b.lo \in Point /\ \A i \in Dims : /\ b.lo[i] \in Int /\ b.hi[i] \in Int /\ wsize[i] \in Int
                                           /\ b.lo[i] <= b.hi[i]
      BY <2>1, <3>1 DEF Solid, Boxes, Point, TypeOK
    <3>3. \A i \in Dims : b.lo[i] < wsize[i] /\ b.lo[i] \in 0 .. wsize[i] - 1
      BY <3>1, <3>2
    <3>4. b.lo \in [Dims -> UNION {0 .. wsize[i] - 1 : i \in Dims}]
      BY <3>2, <3>3 DEF Point
    <3>. QED
      BY <3>2, <3>3, <3>4 DEF Cells, In
  <2>. QED
    BY <2>2, <2>3 DEF Answer
<1>. QED
  BY <1>1, SpecInv, PTL
=============================================================================
