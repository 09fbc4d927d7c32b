---------------------------- MODULE GlobalWalk1D ----------------------------
(***************************************************************************)
(* A one-dimensional global-view window as one process uses it: the        *)
(* element-wise and bulk access operators, and the walk that cuts a patch  *)
(* of global coordinates into one MPI call per owning process              *)
(* (RMACXX_GLOBAL_CONTIG_BULK_XFER and RMACXX_GLOBAL_BULK_XFER_NC).        *)
(* Every iteration of the walk is one step.                                *)
(***************************************************************************)
EXTENDS Integers, FiniteSetsExt

CONSTANTS
  commSize,    \* number of processes of the window's communicator
  Layouts,     \* the ranges the processes may pass to the constructor
  Completions, \* the values of the template parameter wcmpl_ considered
  sizeofT,     \* sizeof(T)
  MaxStart     \* bound on starts_[0] of an RMACXX_Subarray_t origin

Ranks == 0 .. commSize-1

ASSUME CommAssumption == commSize \in Nat \ {0}
\* No process has an empty range, and no two ranges overlap.
ASSUME LayoutAssumption ==
  \A L \in Layouts :
     /\ L.rlo \in [Ranks -> Int] /\ L.rhi \in [Ranks -> Int]
     /\ \A p \in Ranks : L.rlo[p] <= L.rhi[p]
     /\ \A p, q \in Ranks : p # q => L.rhi[p] < L.rlo[q] \/ L.rhi[q] < L.rlo[p]
ASSUME OriginAssumption == sizeofT \in Nat \ {0} /\ MaxStart \in Nat

VARIABLES
  wcmpl,       \* wcmpl_: "NO_FLUSH", "LOCAL_FLUSH" or "REMOTE_FLUSH", for ever
  rlo, rhi,    \* rlo_, rhi_: every process's range, gathered by the constructor
  lo, hi,      \* lo_, hi_: the patch of the latest bulk access
  lsize,       \* lsizes_[0]
  target,      \* target_
  disp,        \* disp_
  count,       \* count_dimn_
  current,     \* current_index (contiguous) or current_count (strided)
  unfinished,  \* ranks with an operation not known to be complete there
  pc,          \* where the calling thread is
  op,          \* the operation of the access under way
  starts,      \* origin.starts_[0] of a strided access, -1 if contiguous
  patch,       \* history: the coordinates asked for
  moved        \* history: the element transfers issued for this access

walk  == <<lo, hi, lsize, target, disp, count, current>>
call  == <<op, starts, patch>>
win   == <<wcmpl, rlo, rhi>>
vars  == <<win, walk, unfinished, pc, call, moved>>

Owns(p, c)    == rlo[p] <= c /\ c <= rhi[p]
Owners(c)     == {p \in Ranks : Owns(p, c)}
FindTarget(c) == IF Owners(c) = {} THEN -1 ELSE Min(Owners(c))

\* The coordinates of the window: operator() is not meant to be called with
\* others (its check of the bounds is commented out in the source).
Coords == UNION {rlo[p] .. rhi[p] : p \in Ranks}

\* Bulk put, get and accumulate walk alike ("xfer"); a get-accumulate also has
\* an input buffer.  The element-wise operations are alike too ("elem").
Ops == {"xfer", "gacc"}

Init ==
  /\ wcmpl \in Completions
  /\ \E L \in Layouts : rlo = L.rlo /\ rhi = L.rhi
  /\ \E p \in Ranks : lo = rlo[p] /\ hi = rhi[p]   \* this process's own range
  /\ lsize = 0 /\ target = -1 /\ disp = 0 /\ count = 0 /\ current = 0
  /\ unfinished = {}
  /\ pc = "idle"
  /\ op = "xfer" /\ starts = -1 /\ patch = [lo |-> lo, hi |-> hi]
  /\ moved = {}

-----------------------------------------------------------------------------
(***************************************************************************)
(* The definitions named "..._slip" are never used by Spec.  Each is the   *)
(* definition below it with one slip a programmer could make; the project  *)
(* checks that its properties tell the two apart.                          *)
(***************************************************************************)

Extent_sign_slip(l, h) == l - h + 1
Extent_end_slip(l, h)  == h - l
\* lsizes_[0]: the patch's number of elements, both ends included.
Extent(l, h) == h - l + 1

\* win({l},{h}) followed by << or >>: the call's own part, up to the walk.
Access(l, h, o, s) ==
  /\ pc = "idle" /\ l <= h
  /\ lo' = l /\ hi' = h /\ lsize' = Extent(l, h)
  /\ op' = o /\ starts' = s /\ patch' = [lo |-> l, hi |-> h]
  /\ moved' = {}
  /\ pc' = "find"
  /\ UNCHANGED <<win, target, disp, count, current, unfinished>>

\* The walk's first lines: the owner of lo_[0], its displacement, the start count.
Find ==
  /\ pc = "find"
  /\ LET t == FindTarget(lo) IN
       /\ target' = t
       /\ disp' = lo - rlo[t]
       /\ count' = rhi[t] - lo + 1
  /\ current' = 0
  /\ pc' = "piece"
  /\ UNCHANGED <<win, lo, hi, lsize, unfinished, call, moved>>

\* The element transfers of the MPI call for the current piece.  A strided
\* origin is addressed at (starts_[0] + current) * sizeof(T) elements; the
\* input of a get-accumulate is not advanced with the pieces.
Origin_base_slip(cur) == IF starts = -1 THEN 0 ELSE starts * sizeofT
Origin(cur)  == IF starts = -1 THEN cur ELSE (starts + cur) * sizeofT
Input(cur)   == IF op = "gacc" THEN 0 ELSE Origin(cur)
PieceMoves ==
  {[elem |-> Origin(current) + i, input |-> Input(current) + i,
    rank |-> target, cell |-> disp + i] : i \in 0 .. count-1}

StepTarget_disp_slip ==
  LET t == target + 1 IN
    /\ target' = t
    /\ count' = IF rhi[t] > hi THEN hi - rlo[t] + 1 ELSE rhi[t] - rlo[t] + 1
    /\ UNCHANGED disp
StepTarget_clip_slip ==
  target' = target + 1 /\ count' = rhi[target'] - rlo[target'] + 1 /\ disp' = 0
StepTarget_end_slip ==
  LET t == target + 1 IN
    /\ target' = t
    /\ count' = IF rhi[t] > hi THEN hi - rlo[t] ELSE rhi[t] - rlo[t] + 1
    /\ disp' = 0
StepTarget_same_slip ==
  /\ count' = IF rhi[target] > hi THEN hi - rlo[target] + 1 ELSE rhi[target] - rlo[target] + 1
  /\ disp' = 0
  /\ UNCHANGED target
\* What the walk does between two MPI calls.
StepTarget ==
  LET t == target + 1 IN
    /\ target' = t
    /\ count' = IF rhi[t] > hi THEN hi - rlo[t] + 1 ELSE rhi[t] - rlo[t] + 1
    /\ disp' = 0

\* One iteration of the walk: the MPI call, then the exit test.  Past the last
\* process the code reads rlo_ and rhi_ out of bounds and then names the rank
\* commSize_ to MPI, which aborts the job whatever was read.
Piece ==
  /\ pc = "piece" /\ count >= 0
  /\ moved' = moved \cup PieceMoves
  /\ unfinished' = unfinished \cup {target}
  /\ current' = current + count
  /\ \/ /\ current' = lsize
        /\ pc' = "flush"
        /\ UNCHANGED <<target, disp, count>>
     \/ /\ current' # lsize /\ target + 1 \in Ranks
        /\ StepTarget
        /\ pc' = "piece"
     \/ /\ current' # lsize /\ target + 1 \notin Ranks
        /\ pc' = "failed"
        /\ UNCHANGED <<target, disp, count>>
  /\ UNCHANGED <<win, lo, hi, lsize, call>>

\* MPI rejects a negative count and, by its default handler, aborts the job.
BadCount ==
  /\ pc = "piece" /\ count < 0
  /\ pc' = "failed"
  /\ UNCHANGED <<win, walk, unfinished, call, moved>>

FlushBulk_target_slip ==
  /\ pc = "flush"
  /\ unfinished' = IF wcmpl = "REMOTE_FLUSH" THEN unfinished \ {target} ELSE unfinished
  /\ pc' = "idle"
  /\ UNCHANGED <<win, walk, call, moved>>
\* The end of the bulk operators: flush_all when the window is blocking.
FlushBulk ==
  /\ pc = "flush"
  /\ unfinished' = IF wcmpl = "REMOTE_FLUSH" THEN {} ELSE unfinished
  /\ pc' = "idle"
  /\ UNCHANGED <<win, walk, call, moved>>

-----------------------------------------------------------------------------
\* win({l}): find_target_disp.  l is a coordinate of the window, as for the bulk
\* operators: find_target_disp would leave target_ stale for any other.
ElemAccess(l) ==
  /\ pc = "idle"
  /\ target' = FindTarget(l)
  /\ disp' = l - rlo[target']
  /\ op' = "elem" /\ starts' = -1 /\ patch' = [lo |-> l, hi |-> l]
  /\ moved' = {}
  /\ pc' = "elem"
  /\ UNCHANGED <<win, lo, hi, lsize, count, current, unfinished>>

\* The element-wise << and >>: one MPI call ...
ElemXfer ==
  /\ pc = "elem"
  /\ moved' = {[elem |-> 0, input |-> 0, rank |-> target, cell |-> disp]}
  /\ unfinished' = unfinished \cup {target}
  /\ pc' = "eflush"
  /\ UNCHANGED <<win, walk, call>>

\* ... then a flush of its target alone, when the window is blocking.
FlushElem ==
  /\ pc = "eflush"
  /\ unfinished' = IF wcmpl = "REMOTE_FLUSH" THEN unfinished \ {target} ELSE unfinished
  /\ pc' = "idle"
  /\ UNCHANGED <<win, walk, call, moved>>

\* win.flush()
Flush ==
  /\ pc = "idle" /\ unfinished # {}
  /\ unfinished' = {}
  /\ UNCHANGED <<win, walk, pc, call, moved>>

-----------------------------------------------------------------------------
BulkAccess == \E l, h \in Coords, o \in Ops, s \in -1 .. MaxStart : Access(l, h, o, s)
OneAccess  == \E l \in Coords : ElemAccess(l)

Walk == Find \/ Piece \/ BadCount \/ FlushBulk
Elem == ElemXfer \/ FlushElem

Next == BulkAccess \/ OneAccess \/ Walk \/ Elem \/ Flush

\* A call that was made runs to its end: the thread is not suspended for ever.
Fairness == WF_vars(Walk) /\ WF_vars(Elem)

Spec == Init /\ [][Next]_vars /\ Fairness
-----------------------------------------------------------------------------
TypeOK ==
  /\ wcmpl \in Completions
  /\ \E L \in Layouts : rlo = L.rlo /\ rhi = L.rhi
  /\ lo \in Int /\ hi \in Int /\ lsize \in Nat
  /\ target \in Ranks \cup {-1}
  /\ disp \in Int /\ count \in Int /\ current \in Int
  /\ unfinished \subseteq Ranks
  /\ pc \in {"idle", "find", "piece", "flush", "elem", "eflush", "failed"}
  /\ op \in Ops \cup {"elem"}
  /\ starts \in -1 .. MaxStart
  /\ patch \in [lo : Int, hi : Int]
  /\ moved \subseteq [elem : Int, input : Int, rank : Ranks, cell : Int]

\* The layouts the walk is written for: rank order is coordinate order and no
\* coordinate between two ranges is missing.
RankOrdered ==
  /\ \A p, q \in Ranks : p < q => rhi[p] < rlo[q]
  /\ \A p \in Ranks : p + 1 \in Ranks => rlo[p+1] = rhi[p] + 1

\* The bulk accesses the code gets right, which nothing in it states or checks:
\* the patch extends to the end of its first owner's range (the start count is
\* never clipped to hi_), a get-accumulate and a strided origin stay within one
\* process (neither the input nor, unless sizeof(T) is 1, the origin follows).
ReachesEnd == hi >= rhi[FindTarget(lo)]
OneOwner   == hi <= rhi[FindTarget(lo)]
Supported ==
  /\ RankOrdered
  /\ op \in Ops =>
       /\ ReachesEnd
       /\ op = "gacc" => OneOwner
       /\ starts # -1 => sizeofT = 1 \/ (starts = 0 /\ OneOwner)

\* The buffer element that belongs to coordinate c, and the coordinate of r.
OriginOf(c) == c - patch.lo + (IF starts = -1 THEN 0 ELSE starts)
CoordOf(r)  == rlo[r.rank] + r.cell

InPlace(r) ==
  /\ r.cell \in 0 .. rhi[r.rank] - rlo[r.rank]
  /\ CoordOf(r) \in patch.lo .. patch.hi
  /\ r.elem = OriginOf(CoordOf(r))
  /\ op = "gacc" => r.input = CoordOf(r) - patch.lo

\* No element lands outside the patch, outside its owner's memory, or in a place
\* of the patch that belongs to another buffer element (the walk's target_,
\* disp_, count_dimn_ and current_index stay in step across owners).
NothingStray == Supported => \A r \in moved : InPlace(r)

\* When the walk ends, every coordinate of the patch has been transferred: the
\* exit test current_index == lsizes_[0] does not end it early.
Finished == pc = "flush" \/ (pc = "idle" /\ moved # {})
WholePatch ==
  Supported /\ Finished => \A c \in patch.lo .. patch.hi : \E r \in moved : CoordOf(r) = c

\* The walk neither runs past the last process nor hands MPI a negative count.
NeverFails == Supported => pc # "failed"

\* A blocking access returns with nothing outstanding at any process it touched:
\* flush_all after a walk, flush(target_) after one element.
BlockingCompletes == wcmpl = "REMOTE_FLUSH" /\ pc = "idle" => unfinished = {}

\* No array element is transferred by two pieces of one access, which would apply
\* an accumulate twice.
Cells(m) == {<<r.rank, r.cell>> : r \in m}
EachCellOnce ==
  [][Supported /\ pc = "piece" /\ count > 0 => Cells(PieceMoves) \cap Cells(moved) = {}]_vars

\* Every access returns: the walk's loop has no other exit than its test.
AccessReturns == (Supported /\ pc # "idle") ~> (pc = "idle")

\* The walk implements the array: pieces are moves, the flush is the return.
AllCoords == UNION {UNION {L.rlo[p] .. L.rhi[p] : p \in Ranks} : L \in Layouts}
ArraySt   == IF pc = "idle" THEN "idle" ELSE IF Supported THEN "busy" ELSE "chaos"
ArrayDone == {<<r.elem - (IF starts = -1 THEN 0 ELSE starts), CoordOf(r)>> : r \in moved}
Array == INSTANCE GlobalArray WITH
  Coord <- AllCoords, st <- ArraySt, patch <- patch, done <- ArrayDone
ImplementsArray == Array!Spec

\* tests/simple-gv/simple_gv_bulk_1D_strided.4.cpp:57 draws the origin box of
\* RMACXX_Subarray_t({1},{4}) as the elements 1..4 of the buffer: the element for
\* the k-th coordinate of the patch is starts_[0] + k, whatever sizeof(T) is.
StridedOrigin ==
  RankOrdered /\ op \in Ops /\ ReachesEnd /\ starts # -1
    => \A r \in moved : r.elem = OriginOf(CoordOf(r))
=============================================================================
