---------------------------- MODULE GlobalWalkND ----------------------------
(***************************************************************************)
(* A global-view window of two or more dimensions as one process uses it:  *)
(* the walk that cuts a box of global coordinates into one MPI call per    *)
(* owning process (the ndims_ > 1 halves of RMACXX_GLOBAL_CONTIG_BULK_XFER *)
(* and RMACXX_GLOBAL_BULK_XFER_NC) and the element-wise find_target_disp.  *)
(* A piece is kept as the boxes its two MPI subarray types describe, so    *)
(* that no coordinate has to be enumerated.  When the operations complete  *)
(* is the same as in one dimension and modelled in GlobalWalk1D only.      *)
(***************************************************************************)
EXTENDS Integers, FiniteSetsExt

CONSTANTS
  commSize,    \* number of processes of the window's communicator
  ndims,       \* ndims_
  Layouts,     \* the boxes the processes may pass to the constructor
  Points,      \* bound: the coordinates the accesses are made of
  Origins      \* the RMACXX_Subarray_t<T,GLOBAL_VIEW> origins, or Contiguous

Ranks == 0 .. commSize-1
Dims  == 1 .. ndims

\* Origin of a contiguous access: a plain pointer.
Contiguous == [starts |-> [i \in Dims |-> 0], sizes |-> [i \in Dims |-> 0]]

\* Coordinates are compared with memcmp: here they are not negative and fit in
\* the two low bytes of an int.
Coord == 0 .. 65535
Vec   == [Dims -> Coord]
ASSUME ShapeAssumption ==
  /\ commSize \in Nat \ {0} /\ ndims \in Nat \ {0, 1}
  /\ \A L \in Layouts : /\ L.rlo \in [Ranks -> Vec] /\ L.rhi \in [Ranks -> Vec]
                        /\ \A p \in Ranks, i \in Dims : L.rlo[p][i] <= L.rhi[p][i]
ASSUME AccessAssumption ==
  Points \subseteq Vec /\ \A o \in Origins : {o.starts, o.sizes} \subseteq [Dims -> Nat]

VARIABLES
  rlo, rhi,    \* rlo_, rhi_: every process's box, gathered by the constructor
  lo, hi,      \* lo_, hi_: the box of the latest bulk access
  lsizes,      \* lsizes_: the shape of the local buffer
  origin,      \* the origin of the access under way
  newlo,       \* new_lo: the corner of the next piece
  target,      \* target_
  disp,        \* disp_
  pc,          \* where the calling thread is
  patch,       \* history: the box of coordinates asked for
  boxes        \* history: the MPI calls of this bulk access

win  == <<rlo, rhi>>
call == <<lo, hi, lsizes, origin, patch>>
vars == <<win, call, newlo, target, disp, pc, boxes>>

In(c, l, h) == \A i \in Dims : l[i] <= c[i] /\ c[i] <= h[i]
Owners(c)   == {p \in Ranks : In(c, rlo[p], rhi[p])}
FindTarget(c) == IF Owners(c) = {} THEN -1 ELSE Min(Owners(c))

\* Operator() is not meant to be called with coordinates outside the window.
Coords == {c \in Points : Owners(c) # {}}

Extent(l, h) == [i \in Dims |-> h[i] - l[i] + 1]
DimsPerPe(p) == Extent(rlo[p], rhi[p])

Init ==
  /\ \E L \in Layouts : rlo = L.rlo /\ rhi = L.rhi
  /\ \E p \in Ranks : lo = rlo[p] /\ hi = rhi[p]   \* this process's own box
  /\ lsizes = [i \in Dims |-> 0]
  /\ origin = Contiguous /\ newlo = lo
  /\ target = -1 /\ disp = 0
  /\ pc = "idle"
  /\ patch = [lo |-> lo, hi |-> hi] /\ boxes = {}

-----------------------------------------------------------------------------
\* The definitions named "..._slip" are never used by Spec: each is the
\* definition below it with one slip a programmer could make.

\* memcmp over sizeof(v.data()), the size of a pointer: the first two ints, byte
\* by byte, the low byte first (a little-endian machine).
Bytes(v) == <<v[1] % 256, v[1] \div 256, v[2] % 256, v[2] \div 256>>
MemEqual(a, b) == Bytes(a) = Bytes(b)
MemGeq(a, b) ==
  LET x == Bytes(a)
      y == Bytes(b)
  IN  x = y \/ \E i \in DOMAIN x : x[i] > y[i] /\ \A j \in 1 .. i-1 : x[j] = y[j]

\* win(l, h) followed by << or >> of o: the call's own part, up to the walk.
Access(l, h, o) ==
  /\ pc = "idle" /\ \A i \in Dims : l[i] <= h[i]
  /\ lo' = l /\ hi' = h /\ patch' = [lo |-> l, hi |-> h]
  /\ origin' = o
  /\ lsizes' = IF o = Contiguous THEN Extent(l, h) ELSE o.sizes
  /\ boxes' = {}
  /\ pc' = "find"
  /\ UNCHANGED <<win, newlo, target, disp>>

Find ==
  /\ pc = "find"
  /\ newlo' = lo
  /\ target' = FindTarget(lo)
  /\ disp' = 0
  /\ pc' = "piece"
  /\ UNCHANGED <<win, call, boxes>>

\* new_hi: the corner of the piece, the patch's or the target's.
NewHi == [i \in Dims |-> IF hi[i] > rhi[target][i] THEN rhi[target][i] ELSE hi[i]]

LStarts_origin_slip == [i \in Dims |-> newlo[i] - rlo[target][i] + origin.starts[i]]
LStarts == [i \in Dims |-> newlo[i] - lo[i] + origin.starts[i]]

\* The boxes of the target's and of the local buffer's MPI subarray type.
ThisBox ==
  [rank |-> target,
   starts   |-> [i \in Dims |-> newlo[i] - rlo[target][i]],
   subsizes |-> Extent(newlo, NewHi),
   lstarts  |-> LStarts]

\* What MPI_Type_create_subarray accepts; it aborts the job otherwise.
Accepted(b) ==
  \A i \in Dims :
    /\ b.subsizes[i] >= 1
    /\ b.starts[i] >= 0 /\ b.starts[i] + b.subsizes[i] <= DimsPerPe(target)[i]
    /\ b.lstarts[i] >= 0 /\ b.lstarts[i] + b.subsizes[i] <= lsizes[i]

\* The processes the search for the next target stops at.  With none it reads
\* rlo_ past its end and names a rank beyond commSize_ to MPI, or crashes.
Candidates_memcmp_slip == {p \in Ranks : p > target /\ \A i \in Dims : hi[i] > rlo[p][i]}
Candidates_same_slip   == {p \in Ranks : p >= target /\ MemGeq(hi, rlo[p])}
Candidates_start_slip  == {p \in Ranks : p > target + 1 /\ MemGeq(hi, rlo[p])}
Candidates == {p \in Ranks : p > target /\ MemGeq(hi, rlo[p])}

\* The patch's corner in the next target.
NextLo_relative_slip(t) == [i \in Dims |-> lo[i] - rlo[t][i]]
NextLo(t) == [i \in Dims |-> IF lo[i] > rlo[t][i] THEN lo[i] ELSE rlo[t][i]]

\* One iteration of the walk: the MPI call, the exit test, the next target.
Piece ==
  /\ pc = "piece" /\ Accepted(ThisBox)
  /\ boxes' = boxes \cup {ThisBox}
  /\ \/ /\ MemEqual(NewHi, hi)
        /\ pc' = "idle"
        /\ UNCHANGED <<newlo, target>>
     \/ /\ ~MemEqual(NewHi, hi) /\ Candidates # {}
        /\ target' = Min(Candidates)
        /\ newlo' = NextLo(target')
        /\ pc' = "piece"
     \/ /\ ~MemEqual(NewHi, hi) /\ Candidates = {}
        /\ pc' = "lost"
        /\ UNCHANGED <<newlo, target>>
  /\ UNCHANGED <<win, call, disp>>

BadBox ==
  /\ pc = "piece" /\ ~Accepted(ThisBox)
  /\ pc' = "failed"
  /\ UNCHANGED <<win, call, newlo, target, disp, boxes>>

\* The two loops of find_target_disp: val[m], the distance from the owner's corner
\* in dimension k times the extents of the last m dimensions; and the sum of such.
LocalVal_dims_slip(t, c, k) ==
  LET val[m \in 0 .. k - 1] == IF m = 0 THEN c[k] - rlo[t][k] ELSE val[m-1] * DimsPerPe(t)[m]
  IN  val[k - 1]
LocalVal(t, c, k) ==
  LET val[m \in 0 .. ndims - k] ==
        IF m = 0 THEN c[k] - rlo[t][k] ELSE val[m-1] * DimsPerPe(t)[ndims - m + 1]
  IN  val[ndims - k]
Displacement(t, c) ==
  LET sum[k \in 0 .. ndims] == IF k = 0 THEN 0 ELSE sum[k-1] + LocalVal(t, c, k)
  IN  sum[ndims]

\* win(c) followed by << or >>: one MPI call to target_ at disp_.
ElemAccess(c) ==
  /\ pc = "idle"
  /\ target' = FindTarget(c)
  /\ disp' = Displacement(target', c)
  /\ patch' = [lo |-> c, hi |-> c] /\ boxes' = {}
  /\ pc' = "elem"
  /\ UNCHANGED <<win, lo, hi, lsizes, origin, newlo>>

ElemXfer ==
  /\ pc = "elem"
  /\ pc' = "idle"
  /\ UNCHANGED <<win, call, newlo, target, disp, boxes>>

-----------------------------------------------------------------------------
BulkAccess == \E l, h \in Coords, o \in Origins : Access(l, h, o)
OneAccess  == \E c \in Coords : ElemAccess(c)

Walk == Find \/ Piece \/ BadBox \/ ElemXfer

Next == BulkAccess \/ OneAccess \/ Walk

\* A call that was made runs to its end: the thread is not suspended for ever.
Spec == Init /\ [][Next]_vars /\ WF_vars(Walk)
-----------------------------------------------------------------------------
TypeOK ==
  /\ rlo \in [Ranks -> Vec] /\ rhi \in [Ranks -> Vec]
  /\ lo \in Vec /\ hi \in Vec /\ newlo \in Vec /\ lsizes \in [Dims -> Nat]
  /\ origin \in Origins \cup {Contiguous}
  /\ target \in Ranks \cup {-1}
  /\ disp \in Nat
  /\ pc \in {"idle", "find", "piece", "elem", "failed", "lost"}
  /\ patch \in [lo : Vec, hi : Vec]
  /\ \A b \in boxes : b.rank \in Ranks /\ {b.starts, b.subsizes, b.lstarts} \subseteq [Dims -> Nat]

\* The accesses the walk is written for, which nothing in the code states: two
\* dimensions and coordinates below 256 (memcmp), processes that do not overlap,
\* an origin that holds the patch, and processes met in rank order: those that
\* meet the patch are all the processes from its first corner's owner to its last
\* corner's, but for those whose box begins after it in row-major order.
Meets(p)    == \A i \in Dims : rlo[p][i] <= hi[i] /\ rhi[p][i] >= lo[i]
Before(a, b) == a[1] < b[1] \/ (a[1] = b[1] /\ a[2] < b[2])
OneByteEach == ndims = 2 /\ \A p \in Ranks, i \in Dims : rhi[p][i] < 256
NoOverlap   == \A p, q \in Ranks : p # q =>
                 \E i \in Dims : rhi[p][i] < rlo[q][i] \/ rhi[q][i] < rlo[p][i]
OriginFits  == \A i \in Dims : origin.starts[i] + hi[i] - lo[i] + 1 <= lsizes[i]
InRankOrder ==
  {p \in Ranks : Meets(p)} =
    {p \in FindTarget(lo) .. FindTarget(hi) : ~Before(hi, rlo[p])}
Supported == OneByteEach /\ NoOverlap /\ OriginFits /\ InRankOrder

\* The global coordinates of the corners of a piece.
First(b) == [i \in Dims |-> rlo[b.rank][i] + b.starts[i]]
Last(b)  == [i \in Dims |-> First(b)[i] + b.subsizes[i] - 1]

\* Every piece lies in its owner's memory and in the patch, and its elements are
\* at the patch's place for them in the local buffer: starts_, subsizes_ and
\* lstarts_ stay in step although the walk recomputes them from new_lo, the
\* target's box and the patch at every process.
InPlace(b) ==
  /\ In(Last(b), rlo[b.rank], rhi[b.rank]) /\ In(First(b), rlo[b.rank], rhi[b.rank])
  /\ In(First(b), patch.lo, patch.hi) /\ In(Last(b), patch.lo, patch.hi)
  /\ \A i \in Dims : b.lstarts[i] - origin.starts[i] = First(b)[i] - patch.lo[i]
NothingStray == Supported => \A b \in boxes : InPlace(b)

\* When a bulk access returns, its pieces tile the patch: no two meet, and every
\* coordinate of it that a process owns is in one, so that the search for the next
\* target skipped nobody and visited nobody twice.
Apart(b, d) == \E i \in Dims : Last(b)[i] < First(d)[i] \/ Last(d)[i] < First(b)[i]
Delivered ==
  Supported /\ pc = "idle" /\ boxes # {} =>
    /\ \A b, d \in boxes : b # d => Apart(b, d)
    /\ \A c \in Coords : In(c, patch.lo, patch.hi) => \E b \in boxes : In(c, First(b), Last(b))

\* No subarray type is ill-formed and the next target always exists.
NeverFails == Supported => pc \notin {"failed", "lost"}

\* An element's displacement is its number in the row-major order of its owner's
\* box, whatever the shapes of the boxes.
BoxOf(p) == (rlo[p][1] .. rhi[p][1]) \X (rlo[p][2] .. rhi[p][2])
ElemInPlace ==
  pc = "elem" /\ ndims = 2 => disp = Cardinality({c \in BoxOf(target) : Before(c, patch.lo)})

\* Every bulk access returns.
AccessReturns == (Supported /\ pc # "idle") ~> (pc = "idle")

\* rmacxx-mpi-rma.hpp:658 says of next_target that "this can never be equal to
\* commSize_": the search for the next process always finds one.
NextTargetExists == NoOverlap /\ OriginFits => pc # "lost"
=============================================================================
