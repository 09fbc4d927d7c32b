------------------------ MODULE GlobalWalk1D_proofs ------------------------
(***************************************************************************)
(* Proofs about GlobalWalk1D for every number of processes, every layout   *)
(* and every patch.                                                        *)
(***************************************************************************)
EXTENDS GlobalWalk1D, TLAPS

\* What LayoutAssumption says of the ranges gathered by the constructor.
Ranges ==
  /\ rlo \in [Ranks -> Int] /\ rhi \in [Ranks -> Int]
  /\ \A p \in Ranks : rlo[p] <= rhi[p]
  /\ \A p, q \in Ranks : p # q => rhi[p] < rlo[q] \/ rhi[q] < rlo[p]

LEMMA TypeRanges == TypeOK => Ranges
BY LayoutAssumption DEF TypeOK, Ranges

\* find_target returns the process that owns its argument, a coordinate of the window.
LEMMA FindTargetOwns ==
  ASSUME Ranges, NEW c \in Coords
  PROVE  c \in Int /\ FindTarget(c) \in Ranks /\ Owns(FindTarget(c), c)
<1>1. PICK p \in Ranks : c \in rlo[p] .. rhi[p]
  BY DEF Coords
<1>2. Owns(p, c) /\ c \in Int
  BY <1>1 DEF Owns, Ranges
<1>3. Owners(c) = {p}
  BY <1>1 DEF Ranges, Owners, Owns
<1>4. Min({p}) = p
  BY CommAssumption DEF Min, Ranks
<1>. QED
  BY <1>2, <1>3, <1>4 DEF FindTarget

-----------------------------------------------------------------------------
(***************************************************************************)
(* The inductive invariant: how far the walk is at each value of pc.       *)
(***************************************************************************)

\* A bulk call is under way and lo_, hi_ and lsizes_ describe its patch.
BulkCall ==
  /\ op \in Ops /\ lo \in Coords /\ hi \in Coords /\ lo <= hi
  /\ lsize = hi - lo + 1
  /\ patch = [lo |-> lo, hi |-> hi]

Covers(c) == \E r \in moved : CoordOf(r) = c

\* The coordinates before lo + current are in place and the piece about to be
\* issued starts there, in its owner's memory, and ends at the owner's last
\* coordinate or the patch's, whichever comes first.
PieceReady ==
  LET end == lo + current + count - 1 IN
  /\ target \in Ranks
  /\ current >= 0 /\ count >= 1 /\ disp >= 0
  /\ rlo[target] + disp = lo + current
  /\ end <= hi /\ end <= rhi[target] /\ (end = hi \/ end = rhi[target])
  /\ OneOwner => current = 0
  /\ \A r \in moved : InPlace(r) /\ CoordOf(r) < lo + current
  /\ \A c \in lo .. lo + current - 1 : Covers(c)

\* The element-wise call is under way with the right target and displacement.
ElemReady ==
  /\ op = "elem" /\ starts = -1 /\ patch.lo = patch.hi
  /\ target \in Ranks /\ Owns(target, patch.lo)
  /\ disp = patch.lo - rlo[target]

AllInPlace == \A r \in moved : InPlace(r)
AllCovered == \A c \in patch.lo .. patch.hi : Covers(c)

WalkInv ==
  /\ pc = "find" => BulkCall /\ moved = {}
  /\ pc = "piece" => BulkCall /\ target \in Ranks /\ (Supported => PieceReady)
  /\ pc = "elem" => ElemReady /\ moved = {}
  /\ pc \in {"flush", "eflush"} => (Supported => AllInPlace /\ AllCovered)
  /\ pc = "idle" => (Supported => AllInPlace /\ (moved # {} => AllCovered))
  /\ pc = "failed" => ~Supported

-----------------------------------------------------------------------------
LEMMA TimesOne == \A n \in Int : n * 1 = n /\ 0 * n = 0
OBVIOUS

\* The buffer element of the piece's first coordinate.
LEMMA OriginInStep ==
  ASSUME TypeOK, BulkCall, Supported, PieceReady
  PROVE  /\ Origin(current) \in Int
         /\ Origin(current) = current + (IF starts = -1 THEN 0 ELSE starts)
         /\ op = "gacc" => Input(current) = current
         /\ Input(current) \in Int
<1>. current \in Int /\ starts \in Int /\ sizeofT \in Int
  BY OriginAssumption DEF TypeOK
<1>1. Origin(current) = current + (IF starts = -1 THEN 0 ELSE starts)
  <2>1. CASE starts = -1
    BY <2>1 DEF Origin
  <2>2. CASE starts # -1 /\ sizeofT = 1
    <3>1. (starts + current) * 1 = starts + current
      BY TimesOne
    <3>. QED
      BY <2>2, <3>1 DEF Origin
  <2>3. CASE starts # -1 /\ starts = 0 /\ current = 0
    <3>1. (starts + current) * sizeofT = 0
      BY <2>3, TimesOne
    <3>. QED
      BY <2>3, <3>1 DEF Origin
  <2>. QED
    BY <2>1, <2>2, <2>3 DEF Supported, BulkCall, PieceReady
<1>2. op = "gacc" => current = 0
  BY DEF Supported, BulkCall, PieceReady
<1>. QED
  BY <1>1, <1>2 DEF Input

\* A piece puts its elements in place and covers the coordinates up to its end.
LEMMA PieceInPlace ==
  ASSUME TypeOK, BulkCall, Supported, PieceReady
  PROVE  /\ \A r \in PieceMoves : /\ InPlace(r)
                                  /\ CoordOf(r) \in lo + current .. lo + current + count - 1
         /\ \A c \in lo + current .. lo + current + count - 1 :
               \E r \in PieceMoves : CoordOf(r) = c
         /\ PieceMoves \subseteq [elem : Int, input : Int, rank : Ranks, cell : Int]
         /\ PieceMoves # {}
<1>. USE OriginInStep, TypeRanges
<1>. /\ current \in Int /\ count \in Int /\ disp \in Int /\ lo \in Int /\ hi \in Int
     /\ target \in Ranks /\ rlo[target] \in Int /\ rhi[target] \in Int
  BY DEF TypeOK, PieceReady, Ranges
<1>1. ASSUME NEW i \in 0 .. count - 1,
             NEW r, r = [elem |-> Origin(current) + i, input |-> Input(current) + i,
                         rank |-> target, cell |-> disp + i]
      PROVE  /\ InPlace(r)
             /\ CoordOf(r) = lo + current + i
             /\ r \in [elem : Int, input : Int, rank : Ranks, cell : Int]
  <2>1. r.elem = Origin(current) + i /\ r.input = Input(current) + i
        /\ r.rank = target /\ r.cell = disp + i
    BY <1>1
  <2>2. CoordOf(r) = lo + current + i
    BY <2>1 DEF CoordOf, PieceReady
  <2>3. r.cell \in 0 .. rhi[target] - rlo[target]
    BY <2>1 DEF PieceReady
  <2>4. patch.lo = lo /\ patch.hi = hi
    BY DEF BulkCall
  <2>5. CoordOf(r) \in patch.lo .. patch.hi
    BY <2>2, <2>4 DEF PieceReady
  <2>6. r.elem = OriginOf(CoordOf(r))
    BY <2>1, <2>2, <2>4 DEF OriginOf, TypeOK
  <2>7. op = "gacc" => r.input = CoordOf(r) - patch.lo
    BY <2>1, <2>2, <2>4
  <2>8. InPlace(r)
    BY <2>1, <2>3, <2>5, <2>6, <2>7 DEF InPlace
  <2>9. r \in [elem : Int, input : Int, rank : Ranks, cell : Int]
    BY <1>1
  <2>. QED
    BY <2>2, <2>8, <2>9
<1>2. \A r \in PieceMoves : /\ InPlace(r)
                            /\ CoordOf(r) \in lo + current .. lo + current + count - 1
                            /\ r \in [elem : Int, input : Int, rank : Ranks, cell : Int]
  <2>1. SUFFICES ASSUME NEW r \in PieceMoves
                 PROVE  /\ InPlace(r)
                        /\ CoordOf(r) \in lo + current .. lo + current + count - 1
                        /\ r \in [elem : Int, input : Int, rank : Ranks, cell : Int]
    OBVIOUS
  <2>2. PICK i \in 0 .. count - 1 :
          r = [elem |-> Origin(current) + i, input |-> Input(current) + i,
               rank |-> target, cell |-> disp + i]
    BY DEF PieceMoves
  <2>. QED
    BY <1>1, <2>2
<1>3. \A c \in lo + current .. lo + current + count - 1 :
        \E r \in PieceMoves : CoordOf(r) = c
  <2>1. SUFFICES ASSUME NEW c \in lo + current .. lo + current + count - 1
                 PROVE  \E r \in PieceMoves : CoordOf(r) = c
    OBVIOUS
  <2> DEFINE i == c - (lo + current)
             r == [elem |-> Origin(current) + i, input |-> Input(current) + i,
                   rank |-> target, cell |-> disp + i]
  <2>2. i \in 0 .. count - 1 /\ lo + current + i = c
    OBVIOUS
  <2>3. r \in PieceMoves
    BY <2>2 DEF PieceMoves
  <2>4. CoordOf(r) = c
    BY <1>1, <2>2
  <2>. QED
    BY <2>3, <2>4
<1>4. PieceMoves # {}
  <2>1. 0 \in 0 .. count - 1
    BY DEF PieceReady
  <2>. QED
    BY <2>1 DEF PieceMoves
<1>. QED
  BY <1>2, <1>3, <1>4

-----------------------------------------------------------------------------
LEMMA CoordsInt == Ranges => \A c \in Coords : c \in Int
BY DEF Ranges, Coords

\* Every variable keeps its type: in particular target_ never names a process that
\* does not exist, whatever the patch.
LEMMA TypeStep == TypeOK /\ WalkInv /\ [Next]_vars => TypeOK'
<1>. SUFFICES ASSUME TypeOK, WalkInv, [Next]_vars PROVE TypeOK'
  OBVIOUS
<1>. USE TypeRanges
<1>1. ASSUME NEW l \in Coords, NEW h \in Coords, NEW o \in Ops, NEW s \in -1 .. MaxStart,
             Access(l, h, o, s)
      PROVE  TypeOK'
  <2>1. l \in Int /\ h \in Int
    BY CoordsInt
  <2>2. Extent(l, h) \in Nat
    BY <1>1, <2>1 DEF Access, Extent
  <2>. QED
    BY <1>1, <2>1, <2>2 DEF Access, TypeOK, win, Ops
<1>2. CASE Find
  <2>1. FindTarget(lo) \in Ranks /\ lo \in Int
    BY <1>2, FindTargetOwns DEF Find, WalkInv, BulkCall
  <2>2. rlo[FindTarget(lo)] \in Int /\ rhi[FindTarget(lo)] \in Int
    BY <2>1 DEF Ranges
  <2>. QED
    BY <1>2, <2>1, <2>2 DEF Find, TypeOK, win, call
<1>3. CASE Piece
  <2>0. BulkCall /\ target \in Ranks
    BY <1>3 DEF Piece, WalkInv
  <2>1. PieceMoves \subseteq [elem : Int, input : Int, rank : Ranks, cell : Int]
    <3>1. Origin(current) \in Int /\ Input(current) \in Int
      BY OriginAssumption DEF Origin, Input, TypeOK
    <3>. QED
      BY <2>0, <3>1 DEF PieceMoves, TypeOK
  <2>2. current' \in Int
    BY <1>3 DEF Piece, TypeOK
  <2>3. CASE UNCHANGED <<target, disp, count>>
    BY <1>3, <2>0, <2>1, <2>2, <2>3 DEF Piece, TypeOK, win, call
  <2>4. CASE target + 1 \in Ranks /\ StepTarget
    <3>1. rlo[target+1] \in Int /\ rhi[target+1] \in Int
      BY <2>4 DEF Ranges
    <3>2. target' \in Ranks /\ disp' \in Int /\ count' \in Int
      BY <2>4, <3>1 DEF StepTarget, TypeOK
    <3>. QED
      BY <1>3, <2>0, <2>1, <2>2, <3>2 DEF Piece, TypeOK, win, call
  <2>. QED
    BY <1>3, <2>3, <2>4 DEF Piece
<1>4. CASE BadCount
  BY <1>4 DEF BadCount, TypeOK, win, walk, call
<1>5. CASE FlushBulk
  BY <1>5 DEF FlushBulk, TypeOK, win, walk, call
<1>6. ASSUME NEW l \in Coords, ElemAccess(l) PROVE TypeOK'
  <2>1. FindTarget(l) \in Ranks /\ l \in Int
    BY FindTargetOwns
  <2>2. rlo[FindTarget(l)] \in Int
    BY <2>1 DEF Ranges
  <2>. QED
    BY <1>6, <2>1, <2>2, OriginAssumption DEF ElemAccess, TypeOK, win
<1>7. CASE ElemXfer
  <2>1. target \in Ranks
    BY <1>7 DEF ElemXfer, WalkInv, ElemReady
  <2>. QED
    BY <1>7, <2>1 DEF ElemXfer, TypeOK, win, walk, call
<1>8. CASE FlushElem
  BY <1>8 DEF FlushElem, TypeOK, win, walk, call
<1>9. CASE Flush
  BY <1>9 DEF Flush, TypeOK, win, walk, call
<1>10. CASE UNCHANGED vars
  BY <1>10 DEF vars, TypeOK, win, walk, call
<1>. QED
  BY <1>1, <1>2, <1>3, <1>4, <1>5, <1>6, <1>7, <1>8, <1>9, <1>10
     DEF Next, BulkAccess, OneAccess, Walk, Elem

-----------------------------------------------------------------------------
\* Within one access the ranges, the patch and what is supported stay put.
LEMMA CallFixed ==
  ASSUME UNCHANGED <<win, call, lo, hi>>
  PROVE  /\ Supported' = Supported /\ OneOwner' = OneOwner
         /\ \A r : CoordOf(r)' = CoordOf(r) /\ InPlace(r)' = InPlace(r)
BY DEF win, call, Supported, RankOrdered, ReachesEnd, OneOwner, FindTarget, Owners, Owns,
       InPlace, CoordOf, OriginOf

LEMMA BulkCallFixed ==
  ASSUME UNCHANGED <<win, call, lo, hi, lsize>>, BulkCall
  PROVE  BulkCall'
BY DEF win, call, BulkCall, Coords

\* The start of the walk: the first piece is ready.
LEMMA FindStep ==
  ASSUME TypeOK, WalkInv, Find
  PROVE  WalkInv'
<1>1. pc' = "piece" /\ BulkCall /\ moved = {} /\ moved' = {}
  BY DEF Find, WalkInv
<1>2. BulkCall'
  BY <1>1, BulkCallFixed DEF Find
<1> DEFINE t == FindTarget(lo)
<1>3. /\ t \in Ranks /\ Owns(t, lo) /\ lo \in Int /\ hi \in Int
      /\ rlo[t] \in Int /\ rhi[t] \in Int
  BY <1>1, FindTargetOwns, CoordsInt, TypeRanges DEF BulkCall, Ranges
<1>4. /\ target' = t /\ disp' = lo - rlo[t] /\ count' = rhi[t] - lo + 1 /\ current' = 0
      /\ lo' = lo /\ hi' = hi /\ rlo' = rlo /\ rhi' = rhi
  BY DEF Find, win
<1>5. ASSUME Supported' PROVE PieceReady'
  <2>1. Supported
    BY <1>5, CallFixed DEF Find
  <2>2. hi >= rhi[t]
    BY <1>1, <2>1 DEF Supported, BulkCall, ReachesEnd
  <2>. QED
    BY <1>1, <1>3, <1>4, <2>2 DEF PieceReady, Owns
<1>. QED
  BY <1>1, <1>2, <1>3, <1>4, <1>5 DEF WalkInv

\* A coordinate of the window beyond a process's range belongs to a later process.
LEMMA NotLast ==
  ASSUME Ranges, RankOrdered, NEW p \in Ranks, NEW c \in Coords, rhi[p] < c
  PROVE  p + 1 \in Ranks
<1>1. PICK q \in Ranks : c \in rlo[q] .. rhi[q]
  BY DEF Coords
<1>2. ~(q < p) /\ q # p
  BY <1>1 DEF Ranges, RankOrdered
<1>. QED
  BY <1>2, CommAssumption DEF Ranks

\* One iteration of the walk on a supported patch: the pieces so far and this one
\* cover the coordinates up to the new current, and the next piece is ready.
LEMMA PieceStep ==
  ASSUME TypeOK, WalkInv, Piece, Supported
  PROVE  /\ \A r \in moved' : InPlace(r) /\ CoordOf(r) < lo + current'
         /\ \A c \in lo .. lo + current' - 1 : \E r \in moved' : CoordOf(r) = c
         /\ current' # lsize => target + 1 \in Ranks /\ StepTarget /\ PieceReady'
<1>1. BulkCall /\ PieceReady /\ target \in Ranks
  BY DEF Piece, WalkInv
<1>2. /\ current' = current + count /\ moved' = moved \cup PieceMoves
      /\ lo' = lo /\ hi' = hi /\ UNCHANGED <<win, call, lo, hi>>
  BY DEF Piece
<1>3. /\ current \in Int /\ count \in Int /\ lo \in Int /\ hi \in Int /\ disp \in Int
      /\ rlo[target] \in Int /\ rhi[target] \in Int
  BY <1>1, TypeRanges DEF TypeOK, Ranges
<1>4. \A r \in moved' : InPlace(r) /\ CoordOf(r) < lo + current'
  <2>1. ASSUME NEW r \in moved PROVE InPlace(r) /\ CoordOf(r) < lo + current'
    <3>1. InPlace(r) /\ CoordOf(r) < lo + current
      BY <1>1 DEF PieceReady
    <3>2. CoordOf(r) \in Int
      BY TypeRanges DEF TypeOK, CoordOf, Ranges
    <3>. QED
      BY <1>1, <1>2, <1>3, <3>1, <3>2 DEF PieceReady
  <2>2. ASSUME NEW r \in PieceMoves PROVE InPlace(r) /\ CoordOf(r) < lo + current'
    BY <1>1, <1>2, <1>3, PieceInPlace
  <2>. QED
    BY <1>2, <2>1, <2>2
<1>5. ASSUME NEW c \in lo .. lo + current' - 1
      PROVE  \E r \in moved' : CoordOf(r) = c
  <2>1. CASE c < lo + current
    BY <1>1, <1>2, <1>3, <2>1 DEF PieceReady, Covers
  <2>2. CASE ~(c < lo + current)
    <3>1. c \in lo + current .. lo + current + count - 1
      BY <1>2, <1>3, <2>2
    <3>2. \E r \in PieceMoves : CoordOf(r) = c
      BY <1>1, <3>1, PieceInPlace
    <3>. QED
      BY <1>2, <3>2
  <2>. QED
    BY <2>1, <2>2
<1>6. ASSUME current' # lsize
      PROVE  target + 1 \in Ranks /\ StepTarget /\ PieceReady'
  <2> DEFINE t == target + 1
  <2>1. lo + current + count - 1 = rhi[target] /\ rhi[target] < hi
    BY <1>1, <1>2, <1>3, <1>6 DEF BulkCall, PieceReady
  <2>2. t \in Ranks
    BY <1>1, <2>1, NotLast, TypeRanges DEF Supported, BulkCall
  <2>3. StepTarget
    BY <1>6, <2>2 DEF Piece
  <2>4. rlo[t] = rhi[target] + 1 /\ rlo[t] \in Int /\ rhi[t] \in Int /\ rlo[t] <= rhi[t]
    BY <1>1, <2>2, TypeRanges DEF Supported, RankOrdered, Ranges
  <2>5. /\ target' = t /\ disp' = 0 /\ rlo' = rlo /\ rhi' = rhi
        /\ count' = IF rhi[t] > hi THEN hi - rlo[t] + 1 ELSE rhi[t] - rlo[t] + 1
    BY <1>2, <2>3 DEF StepTarget, win
  <2>6. ~OneOwner
    <3>1. FindTarget(lo) \in Ranks /\ Owns(FindTarget(lo), lo)
      BY <1>1, FindTargetOwns, TypeRanges DEF BulkCall
    <3>2. target \in Ranks /\ rlo[target] + disp = lo + current /\ current >= 0
      BY <1>1 DEF PieceReady
    <3>3. CASE FindTarget(lo) = target
      BY <1>3, <2>1, <3>3 DEF OneOwner
    <3>4. CASE FindTarget(lo) # target
      <4>1. rhi[FindTarget(lo)] < rlo[target] \/ rhi[target] < rlo[FindTarget(lo)]
        BY <3>1, <3>2, <3>4, TypeRanges DEF Ranges
      <4>2. rlo[FindTarget(lo)] <= lo /\ lo <= rhi[target]
        BY <1>1, <1>3, <2>1, <3>1 DEF Owns, PieceReady
      <4>3. rhi[FindTarget(lo)] < rlo[target]
        BY <1>3, <3>1, <4>1, <4>2, TypeRanges DEF Ranges
      <4>4. rlo[target] <= rhi[target]
        BY <3>2, TypeRanges DEF Ranges
      <4>. QED
        BY <1>3, <2>1, <3>1, <4>3, <4>4, TypeRanges DEF OneOwner, Ranges
    <3>. QED
      BY <3>3, <3>4
  <2>7. ~OneOwner'
    BY <1>2, <2>6, CallFixed
  <2>8. \A r \in moved' : InPlace(r)' /\ CoordOf(r)' < lo' + current'
    BY <1>2, <1>4, CallFixed
  <2>9. \A c \in lo' .. lo' + current' - 1 : Covers(c)'
    BY <1>2, <1>5, CallFixed DEF Covers
  <2>. QED
    BY <1>1, <1>2, <1>3, <2>1, <2>2, <2>3, <2>4, <2>5, <2>7, <2>8, <2>9
       DEF PieceReady
<1>. QED
  BY <1>4, <1>5, <1>6

-----------------------------------------------------------------------------
\* The whole of an iteration, on a supported patch or not.
LEMMA PieceInv ==
  ASSUME TypeOK, WalkInv, Piece
  PROVE  WalkInv'
<1>1. BulkCall /\ pc' \in {"flush", "piece", "failed"}
  BY DEF Piece, WalkInv
<1>2. UNCHANGED <<win, call, lo, hi, lsize>>
  BY DEF Piece
<1>3. Supported' = Supported /\ BulkCall'
  BY <1>1, <1>2, CallFixed, BulkCallFixed
<1>4. CASE pc' = "flush"
  <2>1. current' = lsize
    BY <1>4 DEF Piece
  <2>2. ASSUME Supported PROVE AllInPlace' /\ AllCovered'
    <3>1. AllInPlace'
      BY <1>2, <2>2, PieceStep, CallFixed DEF AllInPlace
    <3>2. patch'.lo = lo /\ patch'.hi = hi /\ lo + lsize - 1 = hi
      BY <1>1, <1>2 DEF BulkCall, call, TypeOK
    <3>3. \A c \in lo .. hi : \E r \in moved' : CoordOf(r) = c
      BY <2>1, <2>2, <3>2, PieceStep
    <3>. QED
      BY <1>2, <3>1, <3>2, <3>3, CallFixed DEF AllCovered, Covers
  <2>. QED
    BY <1>3, <1>4, <2>2 DEF WalkInv
<1>5. CASE pc' = "piece"
  <2>1. current' # lsize /\ target + 1 \in Ranks /\ StepTarget
    BY <1>5 DEF Piece
  <2>2. target' \in Ranks
    BY <2>1 DEF StepTarget
  <2>3. Supported => PieceReady'
    BY <2>1, PieceStep
  <2>. QED
    BY <1>3, <1>5, <2>2, <2>3 DEF WalkInv
<1>6. CASE pc' = "failed"
  <2>1. current' # lsize /\ target + 1 \notin Ranks
    BY <1>6 DEF Piece
  <2>2. ~Supported
    BY <2>1, PieceStep
  <2>. QED
    BY <1>3, <1>6, <2>2 DEF WalkInv
<1>. QED
  BY <1>1, <1>4, <1>5, <1>6

\* Steps that end a call, or do not touch it, keep what it moved.
LEMMA MovedFixed ==
  ASSUME UNCHANGED <<win, call, lo, hi, moved>>
  PROVE  AllInPlace' = AllInPlace /\ AllCovered' = AllCovered
BY CallFixed DEF AllInPlace, AllCovered, Covers, call

\* The element-wise transfer puts its one element in place.
LEMMA ElemXferStep ==
  ASSUME TypeOK, WalkInv, ElemXfer
  PROVE  WalkInv'
<1>1. ElemReady /\ pc' = "eflush" /\ UNCHANGED <<win, call, lo, hi>>
  BY DEF ElemXfer, WalkInv, walk
<1> DEFINE r == [elem |-> 0, input |-> 0, rank |-> target, cell |-> disp]
<1>2. moved' = {r}
  BY DEF ElemXfer
<1>3. /\ target \in Ranks /\ patch.lo \in Int /\ patch.hi = patch.lo
      /\ rlo[target] \in Int /\ rhi[target] \in Int /\ disp \in Int
      /\ rlo[target] <= patch.lo /\ patch.lo <= rhi[target]
      /\ disp = patch.lo - rlo[target]
  BY <1>1, TypeRanges DEF ElemReady, Owns, TypeOK, Ranges
<1>4. CoordOf(r) = patch.lo
  BY <1>3 DEF CoordOf
<1>5. InPlace(r)
  BY <1>1, <1>3, <1>4 DEF InPlace, OriginOf, ElemReady, Ops
<1>6. AllInPlace'
  BY <1>1, <1>2, <1>5, CallFixed DEF AllInPlace
<1>7. \A c \in patch.lo .. patch.hi : CoordOf(r) = c
  BY <1>3, <1>4
<1>8. AllCovered'
  BY <1>1, <1>2, <1>7, CallFixed DEF AllCovered, Covers, call
<1>. QED
  BY <1>1, <1>6, <1>8 DEF WalkInv

LEMMA InvStep == TypeOK /\ WalkInv /\ [Next]_vars => WalkInv'
<1>. SUFFICES ASSUME TypeOK, WalkInv, [Next]_vars PROVE WalkInv'
  OBVIOUS
<1>1. ASSUME NEW l \in Coords, NEW h \in Coords, NEW o \in Ops, NEW s \in -1 .. MaxStart,
             Access(l, h, o, s)
      PROVE  WalkInv'
  <2>1. Coords' = Coords
    BY <1>1 DEF Access, win, Coords
  <2>2. BulkCall' /\ moved' = {} /\ pc' = "find"
    BY <1>1, <2>1 DEF Access, BulkCall, Extent
  <2>. QED
    BY <2>2 DEF WalkInv
<1>2. CASE Find
  BY <1>2, FindStep
<1>3. CASE Piece
  BY <1>3, PieceInv
<1>4. CASE BadCount
  <2>1. ~Supported
    BY <1>4 DEF BadCount, WalkInv, PieceReady, TypeOK
  <2>. QED
    BY <1>4, <2>1, CallFixed DEF BadCount, WalkInv, walk
<1>5. CASE FlushBulk
  BY <1>5, CallFixed, MovedFixed DEF FlushBulk, WalkInv, walk
<1>6. ASSUME NEW l \in Coords, ElemAccess(l) PROVE WalkInv'
  <2>1. FindTarget(l) \in Ranks /\ Owns(FindTarget(l), l) /\ l \in Int
    BY FindTargetOwns, TypeRanges
  <2>2. /\ target' = FindTarget(l) /\ disp' = l - rlo[FindTarget(l)] /\ rlo' = rlo
        /\ rhi' = rhi /\ op' = "elem" /\ starts' = -1 /\ patch' = [lo |-> l, hi |-> l]
        /\ moved' = {} /\ pc' = "elem"
    BY <1>6 DEF ElemAccess, win
  <2>3. ElemReady'
    BY <2>1, <2>2 DEF ElemReady, Owns
  <2>. QED
    BY <2>2, <2>3 DEF WalkInv
<1>7. CASE ElemXfer
  BY <1>7, ElemXferStep
<1>8. CASE FlushElem
  BY <1>8, CallFixed, MovedFixed DEF FlushElem, WalkInv, walk
<1>9. CASE Flush
  BY <1>9, CallFixed, MovedFixed DEF Flush, WalkInv, walk
<1>10. CASE UNCHANGED vars
  <2>1. UNCHANGED <<win, call, lo, hi, lsize, moved, pc>>
    BY <1>10 DEF vars, walk
  <2>2. BulkCall => BulkCall'
    BY <2>1, BulkCallFixed
  <2>3. PieceReady' = PieceReady /\ ElemReady' = ElemReady /\ target' = target
    BY <1>10 DEF vars, walk, win, call, PieceReady, ElemReady, Owns, Covers, CoordOf, InPlace,
                OriginOf, OneOwner, FindTarget, Owners
  <2>. QED
    BY <2>1, <2>2, <2>3, CallFixed, MovedFixed DEF WalkInv
<1>. QED
  BY <1>1, <1>2, <1>3, <1>4, <1>5, <1>6, <1>7, <1>8, <1>9, <1>10
     DEF Next, BulkAccess, OneAccess, Walk, Elem

-----------------------------------------------------------------------------
LEMMA InitInv == Init => TypeOK /\ WalkInv
<1>. SUFFICES ASSUME Init PROVE TypeOK /\ WalkInv
  OBVIOUS
<1>1. PICK p \in Ranks : lo = rlo[p] /\ hi = rhi[p]
  BY DEF Init
<1>2. PICK L \in Layouts : rlo = L.rlo /\ rhi = L.rhi
  BY DEF Init
<1>3. lo \in Int /\ hi \in Int
  BY <1>1, <1>2, LayoutAssumption
<1>4. TypeOK
  BY <1>2, <1>3, OriginAssumption DEF Init, TypeOK, Ops
<1>5. WalkInv
  BY DEF Init, WalkInv, AllInPlace
<1>. QED
  BY <1>4, <1>5

\* Every variable of the walk keeps its type, for every number of processes, every
\* layout without overlaps and every patch: target_ in particular never names a
\* process that does not exist, supported access or not.
THEOREM TypeCorrect == Spec => []TypeOK
<1>1. Spec => [](TypeOK /\ WalkInv)
  BY InitInv, TypeStep, InvStep, PTL DEF Spec
<1>. QED
  BY <1>1, PTL

\* What the global walk promises on a supported access: nothing strays, the whole
\* patch is transferred when it ends, and it neither runs past the last process
\* nor hands MPI a negative count.
THEOREM WalkCorrect == Spec => [](NothingStray /\ WholePatch /\ NeverFails)
<1>1. Spec => [](TypeOK /\ WalkInv)
  BY InitInv, TypeStep, InvStep, PTL DEF Spec
<1>2. TypeOK /\ WalkInv => NothingStray
  BY DEF TypeOK, WalkInv, NothingStray, AllInPlace, PieceReady
<1>3. TypeOK /\ WalkInv => WholePatch
  BY DEF TypeOK, WalkInv, WholePatch, Finished, AllCovered, Covers
<1>4. WalkInv => NeverFails
  BY DEF WalkInv, NeverFails
<1>. QED
  BY <1>1, <1>2, <1>3, <1>4, PTL

\* No piece of a supported access takes an element from, or puts one into, a place
\* the call did not name: StepTarget's counts and displacements, on any layout.
THEOREM StrayCorrect == Spec => []NothingStray
BY WalkCorrect, PTL

\* A supported access never hands MPI a negative count nor passes the last process.
THEOREM FailCorrect == Spec => []NeverFails
BY WalkCorrect, PTL
-----------------------------------------------------------------------------
(***************************************************************************)
(* Completion.  What is unfinished in a blocking window, by pc.            *)
(***************************************************************************)
FlushInv ==
  wcmpl = "REMOTE_FLUSH" =>
    /\ pc \in {"idle", "find", "elem"} => unfinished = {}
    /\ pc = "eflush" => unfinished \subseteq {target}

LEMMA FlushStep == FlushInv /\ [Next]_vars => FlushInv'
<1>. SUFFICES ASSUME FlushInv, [Next]_vars PROVE FlushInv'
  OBVIOUS
<1>1. ASSUME NEW l, NEW h, NEW o, NEW s, Access(l, h, o, s) PROVE FlushInv'
  BY <1>1 DEF Access, FlushInv, win
<1>2. CASE Find
  BY <1>2 DEF Find, FlushInv, win
<1>3. CASE Piece
  BY <1>3 DEF Piece, FlushInv, win
<1>4. CASE BadCount
  BY <1>4 DEF BadCount, FlushInv, win, walk
<1>5. CASE FlushBulk
  BY <1>5 DEF FlushBulk, FlushInv, win, walk
<1>6. ASSUME NEW l, ElemAccess(l) PROVE FlushInv'
  BY <1>6 DEF ElemAccess, FlushInv, win
<1>7. CASE ElemXfer
  BY <1>7 DEF ElemXfer, FlushInv, win, walk
<1>8. CASE FlushElem
  BY <1>8 DEF FlushElem, FlushInv, win, walk
<1>9. CASE Flush
  BY <1>9 DEF Flush, FlushInv, win, walk
<1>10. CASE UNCHANGED vars
  BY <1>10 DEF vars, FlushInv, win, walk
<1>. QED
  BY <1>1, <1>2, <1>3, <1>4, <1>5, <1>6, <1>7, <1>8, <1>9, <1>10
     DEF Next, BulkAccess, OneAccess, Walk, Elem

\* A blocking access returns with nothing outstanding: flush(target_) is enough
\* after one element because the access before it left nothing behind either.
THEOREM CompletionCorrect == Spec => []BlockingCompletes
<1>1. Init => FlushInv
  BY DEF Init, FlushInv
<1>2. FlushInv => BlockingCompletes
  BY DEF FlushInv, BlockingCompletes
<1>. QED
  BY <1>1, <1>2, FlushStep, PTL DEF Spec

-----------------------------------------------------------------------------
\* The piece about to be issued meets none of those before it.
LEMMA PieceIsNew ==
  ASSUME TypeOK, BulkCall, Supported, PieceReady,
         NEW r \in PieceMoves, NEW m \in moved
  PROVE  CoordOf(r) # CoordOf(m)
<1>1. CoordOf(r) \in lo + current .. lo + current + count - 1
  BY PieceInPlace
<1>2. CoordOf(m) < lo + current
  BY DEF PieceReady
<1>. QED
  BY <1>1, <1>2 DEF TypeOK

\* No array element is transferred by two pieces of one access.
THEOREM OnceCorrect == Spec => EachCellOnce
<1>1. ASSUME TypeOK, WalkInv, Supported, pc = "piece"
      PROVE  Cells(PieceMoves) \cap Cells(moved) = {}
  <2>1. BulkCall /\ PieceReady
    BY <1>1 DEF WalkInv
  <2>2. \A r \in PieceMoves, m \in moved : CoordOf(r) # CoordOf(m)
    BY <1>1, <2>1, PieceIsNew
  <2>3. \A r, m : <<r.rank, r.cell>> = <<m.rank, m.cell>> => CoordOf(r) = CoordOf(m)
    BY DEF CoordOf
  <2>. QED
    BY <2>2, <2>3 DEF Cells
<1>2. TypeOK /\ WalkInv /\ [Next]_vars =>
        [Supported /\ pc = "piece" /\ count > 0 => Cells(PieceMoves) \cap Cells(moved) = {}]_vars
  BY <1>1
<1>. QED
  BY <1>2, InitInv, TypeStep, InvStep, PTL DEF Spec, EachCellOnce

-----------------------------------------------------------------------------
(***************************************************************************)
(* The refinement of GlobalArray.                                          *)
(***************************************************************************)
LEMMA CoordsAll == TypeOK => Coords \subseteq AllCoords
BY DEF TypeOK, Coords, AllCoords

\* The pair of an element in place belongs to the patch.
LEMMA InPlacePair ==
  ASSUME TypeOK, NEW r, InPlace(r)
  PROVE  <<r.elem - (IF starts = -1 THEN 0 ELSE starts), CoordOf(r)>>
           = <<CoordOf(r) - patch.lo, CoordOf(r)>>
<1>1. CoordOf(r) \in Int /\ patch.lo \in Int /\ starts \in Int
  BY DEF TypeOK, InPlace
<1>2. r.elem = CoordOf(r) - patch.lo + (IF starts = -1 THEN 0 ELSE starts)
  BY DEF InPlace, OriginOf
<1>. QED
  BY <1>1, <1>2

LEMMA InPlaceDone ==
  ASSUME TypeOK, AllInPlace
  PROVE  ArrayDone = {<<CoordOf(r) - patch.lo, CoordOf(r)>> : r \in moved}
<1>. \A r \in moved : <<r.elem - (IF starts = -1 THEN 0 ELSE starts), CoordOf(r)>>
                        = <<CoordOf(r) - patch.lo, CoordOf(r)>>
  BY InPlacePair DEF AllInPlace
<1>. QED
  BY DEF ArrayDone

LEMMA DoneInPatch ==
  ASSUME TypeOK, AllInPlace
  PROVE  ArrayDone \subseteq Array!Pairs(patch)
BY InPlaceDone DEF AllInPlace, InPlace, Array!Pairs

LEMMA DoneIsPatch ==
  ASSUME TypeOK, AllInPlace, AllCovered
  PROVE  ArrayDone = Array!Pairs(patch)
<1>1. Array!Pairs(patch) \subseteq ArrayDone
  BY InPlaceDone DEF AllCovered, Covers, Array!Pairs
<1>. QED
  BY <1>1, DoneInPatch

\* New elements, in place, are a move of the array.
LEMMA MoveStep ==
  ASSUME TypeOK, TypeOK', Supported, pc # "idle", pc' # "idle",
         UNCHANGED <<win, call, lo, hi>>,
         moved \subseteq moved', AllInPlace, AllInPlace',
         \E r \in moved' : \A m \in moved : CoordOf(r) # CoordOf(m)
  PROVE  Array!Move
<1>1. Supported' /\ patch' = patch
  BY CallFixed DEF call
<1>2. ArraySt = "busy" /\ ArraySt' = "busy"
  BY <1>1 DEF ArraySt
<1>3. ArrayDone' = {<<CoordOf(r) - patch.lo, CoordOf(r)>> : r \in moved'}
  <2>1. ArrayDone' = {<<CoordOf(r)' - patch'.lo, CoordOf(r)'>> : r \in moved'}
    <3>1. \A r \in moved' : /\ r.elem = OriginOf(CoordOf(r))'
                             /\ CoordOf(r)' \in Int /\ patch'.lo \in Int /\ starts' \in Int
      BY DEF AllInPlace, InPlace, OriginOf, TypeOK
    <3>2. \A r \in moved' :
            <<r.elem - (IF starts' = -1 THEN 0 ELSE starts'), CoordOf(r)'>>
              = <<CoordOf(r)' - patch'.lo, CoordOf(r)'>>
      BY <3>1 DEF OriginOf
    <3>. QED
      BY <3>2 DEF ArrayDone
  <2>. QED
    BY <1>1, <2>1, CallFixed
<1>4. ArrayDone = {<<CoordOf(r) - patch.lo, CoordOf(r)>> : r \in moved}
  BY InPlaceDone
<1>5. ArrayDone \subseteq ArrayDone'
  BY <1>3, <1>4
<1>6. ArrayDone # ArrayDone'
  <2>1. PICK r \in moved' : \A m \in moved : CoordOf(r) # CoordOf(m)
    OBVIOUS
  <2> DEFINE x == <<CoordOf(r) - patch.lo, CoordOf(r)>>
  <2>2. x \in ArrayDone'
    BY <1>3
  <2>3. ASSUME NEW m \in moved PROVE x # <<CoordOf(m) - patch.lo, CoordOf(m)>>
    BY <2>1
  <2>4. x \notin ArrayDone
    BY <1>4, <2>3
  <2>. QED
    BY <2>2, <2>4
<1>7. ArrayDone' \subseteq Array!Pairs(patch)
  <2>1. \A r \in moved' : CoordOf(r) \in patch.lo .. patch.hi
    BY <1>1, CallFixed DEF AllInPlace, InPlace
  <2>. QED
    BY <1>3, <2>1 DEF Array!Pairs
<1>. QED
  BY <1>1, <1>2, <1>5, <1>6, <1>7 DEF Array!Move

\* A step of an access outside the contract, or a step of none.
LEMMA SameStep ==
  ASSUME UNCHANGED <<win, call, lo, hi, moved>>, ArraySt' = ArraySt
  PROVE  UNCHANGED Array!vars
<1>1. ArrayDone' = ArrayDone
  BY CallFixed DEF ArrayDone, call
<1>. QED
  BY <1>1 DEF Array!vars, call

LEMMA ReturnStep ==
  ASSUME TypeOK, WalkInv, pc \in {"flush", "eflush"}, pc' = "idle",
         UNCHANGED <<win, call, lo, hi, moved>>
  PROVE  Array!Next
<1>1. ArraySt' = "idle"
  BY DEF ArraySt
<1>2. CASE Supported
  <2>1. ArraySt = "busy" /\ ArrayDone = Array!Pairs(patch)
    BY <1>2, DoneIsPatch DEF ArraySt, WalkInv
  <2>2. ArrayDone' = ArrayDone /\ patch' = patch
    BY CallFixed DEF ArrayDone, call
  <2>. QED
    BY <1>1, <2>1, <2>2 DEF Array!Return, Array!Next
<1>3. CASE ~Supported
  BY <1>1, <1>3 DEF ArraySt, Array!Chaos, Array!Next
<1>. QED
  BY <1>2, <1>3

LEMMA ArrayStep == TypeOK /\ WalkInv /\ TypeOK' /\ WalkInv' /\ [Next]_vars => [Array!Next]_(Array!vars)
<1>. SUFFICES ASSUME TypeOK, WalkInv, TypeOK', WalkInv', [Next]_vars
              PROVE  Array!Next \/ UNCHANGED Array!vars
  OBVIOUS
<1>1. ASSUME NEW l \in Coords, NEW h \in Coords, pc = "idle", pc' # "idle",
             patch' = [lo |-> l, hi |-> h], moved' = {}
      PROVE  Array!Next
  <2>1. ArraySt = "idle" /\ ArraySt' \in {"busy", "chaos"} /\ ArrayDone' = {}
    BY <1>1 DEF ArraySt, ArrayDone
  <2>2. patch' \in Array!Patches
    BY <1>1, CoordsAll DEF Array!Patches
  <2>. QED
    BY <2>1, <2>2 DEF Array!Request, Array!Next
<1>2. CASE BulkAccess
  BY <1>1, <1>2 DEF BulkAccess, Access
<1>3. CASE Find
  <2>1. UNCHANGED <<win, call, lo, hi, moved>> /\ pc # "idle" /\ pc' # "idle"
    BY <1>3 DEF Find
  <2>2. ArraySt' = ArraySt
    BY <2>1, CallFixed DEF ArraySt
  <2>. QED
    BY <2>1, <2>2, SameStep
<1>4. CASE Piece
  <2>1. UNCHANGED <<win, call, lo, hi>> /\ pc = "piece" /\ pc' # "idle" /\ BulkCall
    BY <1>4 DEF Piece, WalkInv
  <2>2. CASE ~Supported
    BY <2>1, <2>2, CallFixed DEF ArraySt, Array!Chaos, Array!Next
  <2>3. CASE Supported
    <3>1. PieceReady /\ moved' = moved \cup PieceMoves
      BY <1>4, <2>1, <2>3 DEF WalkInv, Piece
    <3>2. AllInPlace /\ AllInPlace'
      BY <1>4, <2>1, <2>3, <3>1, PieceStep, CallFixed DEF AllInPlace, PieceReady
    <3>3. \E r \in moved' : \A m \in moved : CoordOf(r) # CoordOf(m)
      BY <2>1, <2>3, <3>1, PieceInPlace, PieceIsNew
    <3>. QED
      BY <2>1, <2>3, <3>1, <3>2, <3>3, MoveStep DEF Array!Next
  <2>. QED
    BY <2>2, <2>3
<1>5. CASE BadCount
  <2>1. ~Supported /\ UNCHANGED <<win, call, lo, hi>> /\ pc # "idle" /\ pc' # "idle"
    BY <1>5 DEF BadCount, walk, WalkInv, PieceReady, TypeOK
  <2>. QED
    BY <2>1, CallFixed DEF ArraySt, Array!Chaos, Array!Next
<1>6. CASE FlushBulk \/ FlushElem
  BY <1>6, ReturnStep DEF FlushBulk, FlushElem, walk
<1>7. CASE OneAccess
  BY <1>1, <1>7 DEF OneAccess, ElemAccess
<1>8. CASE ElemXfer
  <2>1. /\ UNCHANGED <<win, call, lo, hi>> /\ pc = "elem" /\ pc' = "eflush"
        /\ moved = {} /\ moved' # {}
    BY <1>8 DEF ElemXfer, walk, WalkInv
  <2>2. CASE ~Supported
    BY <2>1, <2>2, CallFixed DEF ArraySt, Array!Chaos, Array!Next
  <2>3. CASE Supported
    <3>1. AllInPlace /\ AllInPlace'
      BY <2>1, <2>3, CallFixed DEF AllInPlace, WalkInv
    <3>. QED
      BY <2>1, <2>3, <3>1, MoveStep DEF Array!Next
  <2>. QED
    BY <2>2, <2>3
<1>9. CASE Flush
  BY <1>9, SameStep DEF Flush, walk, ArraySt
<1>10. CASE UNCHANGED vars
  <2>1. UNCHANGED <<win, call, lo, hi, moved, pc>>
    BY <1>10 DEF vars, walk
  <2>. QED
    BY <2>1, CallFixed, SameStep DEF ArraySt
<1>. QED
  BY <1>2, <1>3, <1>4, <1>5, <1>6, <1>7, <1>8, <1>9, <1>10 DEF Next, Walk, Elem

\* The walk implements the array of GlobalArray: seen without its processes, a
\* supported access moves every element of the patch once, to its place, and
\* returns only then.
THEOREM WalkImplementsArray == Spec => ImplementsArray
<1>1. Init => Array!Init
  <2>. SUFFICES ASSUME Init PROVE Array!Init
    OBVIOUS
  <2>1. TypeOK
    BY InitInv
  <2>2. PICK p \in Ranks : lo = rlo[p] /\ hi = rhi[p]
    BY DEF Init
  <2>3. lo \in Coords /\ hi \in Coords
    BY <2>1, <2>2, TypeRanges DEF Coords, Ranges
  <2>4. patch \in Array!Patches
    BY <2>1, <2>3, CoordsAll DEF Init, Array!Patches
  <2>. QED
    BY <2>4 DEF Init, ArraySt, ArrayDone, Array!Init
<1>. QED
  BY <1>1, InitInv, TypeStep, InvStep, ArrayStep, PTL DEF Spec, ImplementsArray, Array!Spec
=============================================================================
