----------------------------- MODULE ExprWindow -----------------------------
(***************************************************************************)
(* The members of an EXPR window and its methods, each a function of the   *)
(* members v: what win(...) records, what the gets posted and the          *)
(* evaluations take from it, and what a flush clears.  Nothing but         *)
(* counters ties an operand to its record, to its get and to its data.  A  *)
(* global window is used element by element only.  Its puts and gets are   *)
(* those of ATOMIC_NONE.                                                   *)
(***************************************************************************)
EXTENDS Integers, Sequences

CONSTANTS
  Shapes,       \* the shapes of windows considered: view and ndims_
  PREALLOC,     \* PREALLOC_BUF_SZ
  MaxAccesses   \* bound on the number of accesses made

ASSUME ShapeAssumption ==
  \A s \in Shapes : s.view \in {"LOCAL_VIEW", "GLOBAL_VIEW"} /\ s.ndims \in Nat \ {0}
ASSUME SizeAssumption == PREALLOC \in Nat \ {0}
ASSUME AccessAssumption == MaxAccesses \in Nat

\* An access is named by its number; 0 is none, -1 memory nothing was stored in.
Accesses == 1 .. MaxAccesses
\* What win(...) records of one: how many elements it is to.
Record == [id : Accesses, count : Nat]

Kinds == {"elem", "bulk"}
Lists == {"1D", "nD"}      \* expr_info_1D_ and defer_xfer_nD_, with their counters
ListOf(v, k) == IF k = "bulk" /\ v.shape.ndims > 1 THEN "nD" ELSE "1D"

\* The members of a new window of shape s: the records of its gets (info) and puts,
\* and how many gets were posted (gets), evaluations made (xfers), puts made (putc),
\* places of the buffer given to gets (bufc) and read (size).  buf names the access
\* whose data a place holds; unfinished, the puts not known to be complete.
New(s) == [shape |-> s, info |-> [q \in Lists |-> <<>>], puts |-> [q \in Lists |-> <<>>],
           gets |-> [q \in Lists |-> 0], xfers |-> [q \in Lists |-> 0], putc |-> 0,
           bufc |-> 0, size |-> 0, buf |-> [i \in 0 .. PREALLOC-1 |-> 0],
           isElem |-> FALSE, isBulk |-> FALSE, unfinished |-> {}]
-----------------------------------------------------------------------------
\* A definition named "..._slip" is never used: it is the definition below it with
\* one slip a programmer could make.

\* operator()(target, lo, Y) and operator()(target, lo, hi, Y)
Opened(v, k, r) ==
  [v EXCEPT !.info[ListOf(v, k)] = Append(@, r),
            !.isElem = @ \/ k = "elem", !.isBulk = @ \/ k = "bulk"]

\* The list expr_ignore_last_get() takes the last access from; a global window's
\* does not ask whether that access was to an element.
IgnoredList_slip(v) == IF v.shape.ndims = 1 THEN "1D" ELSE "nD"
IgnoredList(v) == IF v.isElem \/ v.shape.ndims = 1 THEN "1D" ELSE "nD"
GlobalIgnoredList(v) == IF v.shape.ndims = 1 THEN "1D" ELSE "nD"
LastList(v) == IF v.shape.view = "LOCAL_VIEW" THEN IgnoredList(v) ELSE GlobalIgnoredList(v)

Ignored_slip(v) ==
  LET q == LastList(v)
      m == Len(v.info[q]) IN
  [v EXCEPT !.puts[q] = Append(@, v.info[q][m].id)]
\* expr_ignore_last_get(): the last access recorded becomes a put.
Ignored(v) ==
  LET q == LastList(v)
      m == Len(v.info[q]) IN
  [v EXCEPT !.info[q] = SubSeq(@, 1, m - 1), !.puts[q] = Append(@, v.info[q][m].id)]

NextGet(v, k) == v.info[ListOf(v, k)][v.gets[ListOf(v, k)] + 1]
SizeOf(k, r)  == IF k = "elem" THEN 1 ELSE r.count

\* Whether a get is posted: the very first one only if it fits, the others while
\* there is room left, however little.
Posts(v, k) ==
  v.bufc < PREALLOC /\ (k = "bulk" /\ v.bufc = 0 => NextGet(v, k).count < PREALLOC)

Posted_slip(v, k) ==
  IF ~Posts(v, k) THEN v
  ELSE LET r == NextGet(v, k) IN
    [v EXCEPT !.buf = [i \in DOMAIN @ |->
                         IF v.bufc <= i /\ i < v.bufc + SizeOf(k, r) THEN r.id ELSE @[i]],
              !.gets[ListOf(v, k)] = @ + 1]
\* eexpr_outstanding_gets() and bexpr_outstanding_gets()
Posted(v, k) ==
  IF ~Posts(v, k) THEN v
  ELSE LET r == NextGet(v, k) IN
    [v EXCEPT !.buf = [i \in DOMAIN @ |->
                         IF v.bufc <= i /\ i < v.bufc + SizeOf(k, r) THEN r.id ELSE @[i]],
              !.bufc = @ + SizeOf(k, r),
              !.gets[ListOf(v, k)] = @ + 1]
\* It reads a record that is not there, or the get goes beyond the buffer.
PostWild(v, k) ==
  v.bufc < PREALLOC /\ (\/ v.gets[ListOf(v, k)] >= Len(v.info[ListOf(v, k)])
                        \/ Posts(v, k) /\ v.bufc + SizeOf(k, NextGet(v, k)) > PREALLOC)

\* m gets of c elements fit the room left in the buffer, if there is any, and the
\* very first leaves some.
Room(v, m, c) ==
  \A j \in 1 .. m :
    LET b == v.bufc + (j - 1) * c IN
    b >= PREALLOC \/ (b + c <= PREALLOC /\ (b = 0 => c < PREALLOC))

NextXfer(v, k) == v.info[ListOf(v, k)][v.xfers[ListOf(v, k)] + 1]

\* The accesses whose data eval() or fillInto() uses: it completes the get of the
\* next record's target and reads the buffer, or it gets the data itself.
Data(v, k) ==
  LET r == NextXfer(v, k) IN
  {r.id} \cup (IF v.size >= PREALLOC THEN {}
               ELSE {IF i < PREALLOC THEN v.buf[i] ELSE -1 :
                       i \in v.size .. v.size + SizeOf(k, r) - 1})
Evaluated(v, k) ==
  [v EXCEPT !.xfers[ListOf(v, k)] = @ + 1,
            !.size = IF k = "elem" \/ @ < PREALLOC THEN @ + SizeOf(k, NextXfer(v, k)) ELSE @]
EvalWild(v, k) == v.xfers[ListOf(v, k)] >= Len(v.info[ListOf(v, k)])

\* eexpr_outstanding_put() and bexpr_outstanding_put(): the record they use, and
\* the flush_local of its target, which leaves the put unfinished there.
NextPut(v, k) == v.puts[ListOf(v, k)][v.putc + 1]
PutMade_slip(v, k) == [v EXCEPT !.unfinished = @ \cup {NextPut(v, k)}]
PutMade(v, k) == [v EXCEPT !.putc = @ + 1, !.unfinished = @ \cup {NextPut(v, k)}]
\* (An atomic bulk put of several dimensions reads the other list too, which is
\* empty: not modelled.)
PutWild(v, k) == v.putc >= Len(v.puts[ListOf(v, k)])

\* flush_expr().  What the buffer still holds is nobody's.
Cleared_slip(v) == [New(v.shape) EXCEPT !.unfinished = v.unfinished, !.gets = v.gets]
Cleared(v) == [New(v.shape) EXCEPT !.unfinished = v.unfinished]
=============================================================================
