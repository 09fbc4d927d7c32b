------------------------------ MODULE CheckGaps ------------------------------
(***************************************************************************)
(* check_gaps of functions.hpp: do the processes' boxes leave a gap in a   *)
(* window?  It keeps the boxes of the window no process seen so far        *)
(* covers, and for every process drops or splits those it meets, one       *)
(* dimension at a time.  The module also models the call a global-view     *)
(* window's constructor makes of it under DEBUG_CHECK_GAPS.                *)
(* The vectors wlos/whis of boxes are sets here: their order is not used.  *)
(***************************************************************************)
EXTENDS Integers, FiniteSetsExt

CONSTANTS
  commSize,    \* number of processes
  ndims,       \* number of dimensions
  Layouts,     \* the boxes the processes may have
  Sizes        \* the window sizes check_gaps may be asked about directly

Procs == 0 .. commSize-1
Dims  == 1 .. ndims
Point == [Dims -> Int]
Boxes == [lo : Point, hi : Point]

ASSUME GapsAssumption ==
  /\ commSize \in Nat \ {0} /\ ndims \in Nat \ {0}
  /\ Layouts \subseteq [Procs -> {b \in Boxes : \A i \in Dims : b.lo[i] <= b.hi[i]}]
  /\ Sizes \subseteq Point

\* The definitions named "..._slip" are never used by Spec: each is the definition
\* below it with one slip a programmer could make.

VARIABLES
  proc,        \* plos and phis: the box of every process
  wsize,       \* wsize
  dmin, dmax,  \* the constructor's least and greatest coordinates so far
  p,           \* the outer loop's index
  todo,        \* the boxes of wlos/whis from the inner loop's index on
  kept,        \* nwlos/nwhis
  cur, over,   \* curlo/curhi, and plo/phi as check_overlap returned them
  d,           \* the splitting loop's index
  caller,      \* who calls check_gaps, for ever: "ctor" or "user"
  pc           \* "ctor", "call", "box", "split"; "true" or "false" when it returned

args == <<proc, wsize, caller>>
ends == <<dmin, dmax>>
vars == <<args, ends, p, todo, kept, cur, over, d, pc>>

In(c, b) == \A i \in Dims : b.lo[i] <= c[i] /\ c[i] <= b.hi[i]

\* What check_overlap says of the window b and the process q in dimension i:
\* "inside" (the process encloses the window), "meets" or "apart".
Relation1(b, q, i) ==
  IF q.lo[i] <= b.lo[i] /\ b.hi[i] <= q.hi[i] THEN "inside"
  ELSE IF \/ b.lo[i] <= q.lo[i] /\ q.hi[i] <= b.hi[i]
          \/ b.lo[i] <= q.lo[i] /\ q.lo[i] <= b.hi[i]
          \/ b.lo[i] <= q.hi[i] /\ q.hi[i] <= b.hi[i] THEN "meets"
  ELSE "apart"

\* Its result: 0 = no overlap, 1 = partial overlap, 2 = fully contained.
Overlap(b, q) ==
  IF \E i \in Dims : Relation1(b, q, i) = "apart" THEN 0
  ELSE IF \A i \in Dims : Relation1(b, q, i) = "inside" THEN 2
  ELSE 1

\* starts and ends, dimension by dimension in the order of its four tests.
Common(b, q) ==
  [lo |-> [i \in Dims |->
      IF q.lo[i] <= b.lo[i] /\ b.hi[i] <= q.hi[i] THEN b.lo[i]
      ELSE IF b.lo[i] <= q.lo[i] /\ q.hi[i] <= b.hi[i] THEN q.lo[i]
      ELSE IF b.lo[i] <= q.lo[i] /\ q.lo[i] <= b.hi[i] THEN q.lo[i]
      ELSE b.lo[i]],
   hi |-> [i \in Dims |->
      IF q.lo[i] <= b.lo[i] /\ b.hi[i] <= q.hi[i] THEN b.hi[i]
      ELSE IF b.lo[i] <= q.lo[i] /\ q.hi[i] <= b.hi[i] THEN q.hi[i]
      ELSE IF b.lo[i] <= q.lo[i] /\ q.lo[i] <= b.hi[i] THEN b.hi[i]
      ELSE q.hi[i]]]

INT32_MAX == 2147483647
Whole == [lo |-> [i \in Dims |-> 0], hi |-> [i \in Dims |-> wsize[i] - 1]]

Init ==
  /\ proc \in Layouts
  /\ wsize \in Sizes
  /\ dmin = [i \in Dims |-> INT32_MAX] /\ dmax = [i \in Dims |-> 0]
  /\ p = 0 /\ todo = {} /\ kept = {} /\ d = 1
  /\ cur = proc[0] /\ over = proc[0]
  /\ caller \in {"ctor", "user"}
  /\ pc = IF caller = "ctor" THEN "ctor" ELSE "call"

LastProcess_slip == p = commSize
LastProcess == p + 1 = commSize

\* One process's turn in the constructor's loop over rlo_ and rhi_, and wsize at
\* its end.
Ctor ==
  /\ pc = "ctor"
  /\ dmin' = [i \in Dims |-> IF proc[p].lo[i] < dmin[i] THEN proc[p].lo[i] ELSE dmin[i]]
  /\ dmax' = [i \in Dims |-> IF proc[p].hi[i] > dmax[i] THEN proc[p].hi[i] ELSE dmax[i]]
  /\ IF LastProcess
       THEN /\ wsize' = [i \in Dims |-> dmax'[i] - dmin'[i]]
            /\ pc' = "call"
            /\ UNCHANGED p
       ELSE /\ p' = p + 1
            /\ UNCHANGED <<wsize, pc>>
  /\ UNCHANGED <<proc, caller, todo, kept, cur, over, d>>

Call ==
  /\ pc = "call"
  /\ todo' = {Whole} /\ kept' = {} /\ p' = 0
  /\ pc' = "box"
  /\ UNCHANGED <<args, ends, cur, over, d>>

Apart_keep_slip ==
  /\ pc = "box"
  /\ \E b \in todo : /\ Overlap(b, proc[p]) = 0
                     /\ kept' = kept \cup {b}
  /\ UNCHANGED <<args, ends, p, todo, cur, over, d, pc>>
\* The inner loop: one box of the list against the process p.
Apart ==
  /\ pc = "box"
  /\ \E b \in todo : /\ Overlap(b, proc[p]) = 0
                     /\ todo' = todo \ {b}
                     /\ kept' = kept \cup {b}
  /\ UNCHANGED <<args, ends, p, cur, over, d, pc>>

Inside ==
  /\ pc = "box"
  /\ \E b \in todo : /\ Overlap(b, proc[p]) = 2
                     /\ todo' = todo \ {b}
  /\ UNCHANGED <<args, ends, p, kept, cur, over, d, pc>>

Meets ==
  /\ pc = "box"
  /\ \E b \in todo : /\ Overlap(b, proc[p]) = 1
                     /\ todo' = todo \ {b}
                     /\ cur' = b
                     /\ over' = Common(b, proc[p])
  /\ d' = 1
  /\ pc' = "split"
  /\ UNCHANGED <<args, ends, p, kept>>

\* The splitting loop: what cur has before and after over in dimension d is
\* kept, and cur is clipped to over.
Before == [cur EXCEPT !.hi[d] = over.lo[d] - 1]
After_shift_slip == [cur EXCEPT !.lo[d] = over.hi[d]]
After  == [cur EXCEPT !.lo[d] = over.hi[d] + 1]

Pieces_after_slip == {b \in {Before} : cur.lo[d] < over.lo[d]}
Pieces == {b \in {Before} : cur.lo[d] < over.lo[d]} \cup {b \in {After} : cur.hi[d] > over.hi[d]}

Clipped_slip == cur
Clipped == [lo |-> [cur.lo EXCEPT ![d] = IF cur.lo[d] < over.lo[d] THEN over.lo[d] ELSE @],
            hi |-> [cur.hi EXCEPT ![d] = IF cur.hi[d] > over.hi[d] THEN over.hi[d] ELSE @]]

Split ==
  /\ pc = "split"
  /\ kept' = kept \cup Pieces
  /\ cur' = Clipped
  /\ d' = IF d = ndims THEN 1 ELSE d + 1
  /\ pc' = IF d = ndims THEN "box" ELSE "split"
  /\ UNCHANGED <<args, ends, p, todo, over>>

\* The end of the outer loop's body, and of check_gaps after the last process.
NextProcess ==
  /\ pc = "box" /\ todo = {}
  /\ todo' = kept /\ kept' = {}
  /\ IF LastProcess
       THEN /\ pc' = IF kept = {} THEN "true" ELSE "false"
            /\ UNCHANGED p
       ELSE /\ p' = p + 1
            /\ UNCHANGED pc
  /\ UNCHANGED <<args, ends, cur, over, d>>

Next == Ctor \/ Call \/ Apart \/ Inside \/ Meets \/ Split \/ NextProcess

\* Nothing suspends the thread in check_gaps for ever.
Spec == Init /\ [][Next]_vars /\ WF_vars(Next)
-----------------------------------------------------------------------------
TypeOK ==
  /\ proc \in Layouts
  /\ wsize \in Point /\ dmin \in Point /\ dmax \in Point
  /\ caller \in {"ctor", "user"}
  /\ p \in Procs
  /\ todo \subseteq Boxes /\ kept \subseteq Boxes
  /\ cur \in Boxes /\ over \in Boxes
  /\ d \in Dims
  /\ pc \in {"ctor", "call", "box", "split", "true", "false"}

Running  == pc \in {"box", "split"}
Returned == pc \in {"true", "false"}

\* The points of the window, and who covers them.
Cells == {c \in [Dims -> UNION {0 .. wsize[i] - 1 : i \in Dims}] : \A i \in Dims : c[i] < wsize[i]}
Covered(c, n) == \E q \in Procs : q <= n /\ In(c, proc[q])

\* The boxes at hand: those to come, those kept and the one being split.
AtHand == todo \cup kept \cup (IF pc = "split" THEN {cur} ELSE {})

\* While check_gaps runs no point is lost and none survives its process: a point no
\* process up to p covers is in a box at hand, a kept box holds only such points, and
\* the others only points that no process before p covers; splitting included.
Remaining ==
  Running => \A c \in Cells :
    /\ ~Covered(c, p) => \E b \in AtHand : In(c, b)
    /\ (\E b \in kept : In(c, b)) => ~Covered(c, p)
    /\ (\E b \in AtHand : In(c, b)) => ~Covered(c, p - 1)

\* The boxes at hand never share a point, so that splitting cannot multiply them.
BoxesApart ==
  Running => \A b, e \in AtHand : b # e => \A c \in Cells : ~(In(c, b) /\ In(c, e))

\* check_gaps returns true exactly when the processes' boxes leave no gap.
WindowNotEmpty == \A i \in Dims : wsize[i] >= 1
CheckExact ==
  Returned /\ WindowNotEmpty =>
    ((pc = "true") <=> \A c \in Cells : Covered(c, commSize - 1))

\* check_gaps returns, however the processes' boxes lie.
Terminates == <>Returned

\* rmacxx-global-view.hpp:241 says of the constructor's check that "all spaces should
\* be allocated to a process": it does not let a gap pass between the least and the
\* greatest coordinates of the processes.
Least(i)    == Min({proc[q].lo[i] : q \in Procs})
Greatest(i) == Max({proc[q].hi[i] : q \in Procs})
Space == {c \in [Dims -> UNION {Least(i) .. Greatest(i) : i \in Dims}] :
            \A i \in Dims : c[i] \in Least(i) .. Greatest(i)}
GapsRejected == caller = "ctor" /\ pc = "true" => \A c \in Space : Covered(c, commSize - 1)
=============================================================================
