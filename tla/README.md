# A TLA+ model of rmacxx

rmacxx is a header-only C++ layer over MPI-3 one-sided communication. A program
creates a *window* over memory that every process of a communicator contributes,
names a box of it with `win(...)`, and moves data with `<<` and `>>`; the library
turns that into MPI calls and flushes. This directory holds TLA+ modules
translated from the headers in `src/include/`, the TLC configurations that check
them and proofs that TLAPS checks. `PROJECT.json` lists the runs, the mutants, the
findings, the hazards, the theorems and, definition by definition, the lines of
the source each definition stands for.

## The system

| Part | Source | State it keeps | Operations |
|---|---|---|---|
| Global-view window | `rmacxx-global-view.hpp`, the `GLOBAL` macros of `rmacxx-mpi-rma.hpp` | `rlo_`, `rhi_` (every process's box), the cursor `lo_ hi_ lsizes_ target_ disp_ count_dimn_` and its nD counterparts, `winop_`, `is_fop_`, `is_cas_` | `win({lo},{hi})`, `win({lo})`, each with an operation or operands; `<<`, `>>` of a value, a buffer, an `RMACXX_Subarray_t`; `flush` |
| Gap checker | `functions.hpp`, the `DEBUG_CHECK_GAPS` block of the constructors | lists of boxes not yet covered | `check_overlap`, `check_gaps` |
| Local-view window | `rmacxx-local-view.hpp`, the other macros | the cursor `target_ disp_ count_dimn_ starts_ subsizes_`, the flags, the mutex | the same, with an explicit target |
| Expression windows | both views, `wuse_ = EXPR` | records of deferred gets and puts, nine counters, a preallocated buffer | `win(...)` yields an expression; `outstanding_gets`, `eval`, `fillInto`, `outstanding_put`, `flush_expr` |
| Expression objects | `rmacxx-expr-elem.hpp`, `rmacxx-expr-bulk.hpp` | the operand tree, the singleton `Handles` and its two stores | `+ - * /`, `>>`, `flush` |
| Futures manager | `rmacxx.hpp` (without `RMACXX_USE_CLASSIC_HANDLES`) | per expression: alive, number of windows blocking it, its future | `new_expr`, `block_expr`, `unblock_expr`, `forget_all` |
| Construction, collective calls, `wfree` | both views | the process grid, `winfo_`, `iswinlocked_`, the memory | the constructors, `fill`, `symmetrize`, `print`, `print_ranges`, `wlock`, `wunlock`, `wfree` |
| Subarrays, concepts, utilities | `rmacxx-local-types.hpp`, `concepts.hpp`, `util.hpp` | a cached MPI datatype | conversions |
| MPI | external | operations in flight, epochs | put, get, accumulate, flush |

Parts interact by calls only: the two halves of an access, `win(...)` and `<<` or
`>>`, talk through members of the window object; an expression talks to its
windows through their counters; a window's `flush` runs the expressions that
wait on it, through `Handles` or the futures manager (a build has one of the two).
The remote side takes no part in an access (passive target, one `lock_all` epoch from
construction to `wfree`); all processes take part in what makes, fills, prints and
frees a window.

What is hard here:

* a walk over the owners of a patch keeps a cursor of seven members in step,
  with an exit test of its own in each of its four variants;
* an access is one C++ statement but two calls, and the members between them are
  shared by threads and survive from one access to the next;
* operations complete at flushes: which rank is flushed, and when, decides
  whether a blocking window blocks;
* expressions pair gets posted early with evaluations made late, by counters;
* an expression left to the flushes of several windows must run once, in the last
  of them, whatever was cleared, freed or destroyed before;
* a collective call is one in all processes only if each makes the same
  collectives in it, under conditions on its rank and on its lock.

## Modules

| Module | Models | Checked | Proved |
|---|---|---|---|
| `GlobalArray` | what a global window promises, without processes | as `ImplementsArray` | as a refinement |
| `GlobalWalk1D` | the accesses of a one-dimensional global window and their completion | `walk1d`, `walk1d_strided` | `GlobalWalk1D_proofs` |
| `GlobalWalkND` | placement of an access to a two-dimensional global window | `walknd`, `walknd_tall` | `GlobalWalkND_proofs` |
| `CheckGaps` | `check_overlap`, `check_gaps` and the constructor's use | `gaps`, `gaps_ctor` | `CheckGaps_proofs` |
| `LocalWindow` | a local window's standard interface, shared by threads | `local` | `LocalWindow_proofs` |
| `ExprWindow` | the members of an expression window, local or global, and its methods, as functions of them | by `Expressions` and `Futures` | `ExprWindow_proofs`: lemmas both proofs rest on |
| `Expressions` | expressions over such windows, with the classic handles | `exprs`, `exprs_flush` | `Expressions_proofs`, for one thread |
| `Deferred` | what is promised of statements left to flushes | as `ImplementsDeferred` | as a refinement |
| `Futures` | expressions over such windows, with the futures manager; `wfree` and destruction | `futures`, `futures_two` | `Futures_proofs` |
| `Collectives` | construction, `fill`, `print`, locks and `wfree`, in all processes | `collectives` | `Collectives_proofs` |

The `MC...` modules give the constants small values. Definitions whose name ends
in `_slip` are never used by a specification: each is the definition below it
with one slip a programmer could make, and every property listed in
`PROJECT.json` is violated when its slip takes the definition's place.

### GlobalWalk1D

One process's use of the window; the others only own memory. `Access` is
`operator()(lo, hi)` followed by `<<` or `>>`; `Find` is what
`RMACXX_GLOBAL_CONTIG_BULK_XFER` and `RMACXX_GLOBAL_BULK_XFER_NC` do before their
loop; each `Piece` is one iteration: the MPI call for the current owner, then the
exit test and the next owner's count (`StepTarget`); `FlushBulk` is the
completion `<<` ends with. `BadCount` is MPI's abort on a negative count.
`ElemAccess`, `ElemXfer` and `FlushElem` are the element-wise operations,
fetch-and-op and compare-and-swap, `Flush` the user's flush. `moved` is history:
every element transfer, as buffer element, input element, rank and cell.

What the code gets right depends on the call, and nothing in the code says so.
`Supported` spells it out:

* `RankOrdered`: the owners' ranges follow each other in rank order without a
  hole (the walk goes to `target_ + 1`);
* `ReachesEnd`: the patch is not strictly inside the first owner's range short
  of its end (`mpi-rma.hpp:684`: the first count is never clipped);
* a get-accumulate stays in one owner (the input pointer does not advance), and
  so does a strided origin unless `sizeof(T) = 1`.

`NothingStray`, `WholePatch`, `NeverFails`, `EachCellOnce` and `AccessReturns` are
about supported accesses; `BlockingCompletes` and `TypeOK` about all. Supported
accesses are made in states that unsupported ones leave behind: the run and the
proofs cover sequences of both. `ImplementsArray` maps the walk to `GlobalArray`:
pieces become moves, flushes returns, and an unsupported access `chaos`.

Run `walk1d`: three processes, every tiling of up to five coordinates in rank
order and in reverse, two completion modes, contiguous and strided origins. Three
processes are enough for a walk with a first, a middle and a last owner; five
coordinates give ranges of one, two and three. Run `walk1d_strided` takes the
origin of a strided put as the test `simple_gv_bulk_1D_strided.4.cpp` draws it:
violated, see the findings.

### GlobalWalkND

The n-dimensional branches of the same macros. A piece is a box: `starts_` and
`subsizes_` at the owner, `lstarts_` in the local buffer. `Candidates` is the
search for the next owner with its `memcmp`, which compares coordinates as eight
little-endian bytes (`MemEqual`, `MemGeq`). `lost` stands for a search past the
last process, an out-of-bounds read in the code; `failed` for an ill-formed
subarray, on which MPI aborts.

`Displacement` is the two nested loops of `find_target_disp`: for every dimension a product
over the earlier ones (`LocalVal`), and their sum. Both are recursive functions.

`Supported` again: two dimensions and coordinates below 256 (`OneByteEach`),
`NoOverlap`, `OriginFits`, and `InRankOrder`: the owners the patch meets are those
from its first corner's owner to its last corner's, except boxes that begin after
the patch in row-major order. A one-column patch of a 2 x 2 grid does not
qualify; the code hands MPI a negative extent for it.

`NothingStray` is about every piece, `Delivered` about all of them when the access returns:
no two share a coordinate, and every coordinate of the patch that a process owns is in
one. `ElemInPlace` compares an element's displacement with the number of elements of its
owner's box before it in row-major order.

Run `walknd`: all patches of a 3 x 3 array in 13 layouts over four processes (two
columns cut alike or apart, the grid in column-major order, bands), which include
the shapes of the tests; `ElemInPlace` holds in all layouts that cover the array.
`walknd_tall` uses rows beyond 255: violated, see the findings.

### CheckGaps

The steps are the iterations of the three loops of `check_gaps`, with
the constructor's computation of the window's size (`Ctor`) before them when the
constructor calls it. The list of boxes is a set: the code visits it in order,
the model in any order, which allows more behaviours and the same answers.
`Remaining` says what is left after part of the work, during a splitting too;
`CheckExact` that the answer is right for every window of positive size, whether
boxes overlap, stick out or lie outside.

Run `gaps`: every placement of three boxes in a 3 x 2 array, with a window of
3 x 2 or 2 x 2. Three boxes split a window into pieces that are split again
and deleted later; two dimensions suffice for the order of the splitting
dimensions to matter. `gaps_ctor` is the constructor's call: violated, see the findings.

### LocalWindow

Threads share one window. `Open` is `operator()`: it takes the mutex if the
window is `CONCURRENT`, and stores the access. `Issue` is the macro up to its MPI
call; `Chosen` is how `<<` and `>>` pick the macro from the members. `Complete` is
the macro's flush of `target_`, `Return` its last lines: the flags it resets, and
the unlock. `UserFlush` is `win.flush(...)`, which takes no mutex, and `Progress`
is MPI completing operations at will. `Abort` is MPI's reaction to a get of an
`ATOMIC_PUT_GET` window, which passes `MPI_DATATYPE_NULL` for its origin's type.

A window that is not `CONCURRENT` belongs to one thread (`ThreadAssumption`).
`AsAsked` excepts a put after an element-wise fetch-and-op: that macro leaves
`winop_` set (`mpi-rma.hpp:590`), and `<<` makes an accumulate. `dtype[t]` is the type
that thread t's `RMACXX_Subarray_t` has; the macros make it from the window's `subsizes_`
if it has none yet. `KeepsFirstType` says that what it gets is the box of its own thread's
access, whatever others store in the window in between, and that it keeps it. It is then
wrong for later boxes of another shape, whose `lo` and `hi` count at the target only, though
the comment at `rmacxx-local-types.hpp:6` has the subsizes come from what is passed to the window.
How often a put moves the box (`Origin`, `Moved`) is modelled and no property
judges it: in several dimensions the code repeats a box of n elements n times. A box's
position in `at` stands for its displacement, `disp_`, which the code computes row-major.

Run `local`: two threads, two targets, boxes of one and two elements of a
two-dimensional window, the two blocking completions, both atomicities, and
`RMACXX_Subarray_t`'s constructed with a type and without one. It sets
`CHECK_DEADLOCK FALSE` since an abort ends the program. `NO_FLUSH` is left to the
proofs, which cover it.

### ExprWindow

Nothing but counters in a window ties an operand to its record, to the get posted
for it and to the data in the window's buffer. `ExprWindow` has these members as a
record (`New` is a new window's, of a given `shape`: view and dimensions), and the
window's methods as functions of it: `Opened` (`operator()`), `Ignored` (`expr_ignore_last_get`), `Posted` (`eexpr_` and
`bexpr_outstanding_gets`), `Data` and `Evaluated` (`eval`, `fillInto`), `PutMade` (the
two `outstanding_put`), `Cleared` (`flush_expr`). `...Wild` says that a method would
leave a list or the buffer. An access is known by its number: a record, a place of
the buffer and an operand's data are the number of the access they belong to.
`Expressions` and `Futures` both extend it. Element by element a global window does what
a local one does, with a target from `find_target` and the counters all the same, but
for `LastList`: its `expr_ignore_last_get` asks for the dimensions only
(`GlobalIgnoredList`), the local one's also whether elements were accessed
(`IgnoredList`).

### Expressions

The build with handles. A statement `win(...) + win(...) >> x` is a dozen calls. A
thread takes them one at a time: `Begin` (the program writes it), `Open` for every
operand in any order (C++ fixes none), `OpenSink` and `Ignore` for the window right of
`>>`, `Post` for every operand, then `Eval` for every operand and `Store` and `Put`, or
`Defer`, which queues the expression and, after it, the window it goes to. `Flush`
(`LWFLUSH`) runs the queued handles of all windows, elements before bulks
(`RunExpr`, `RunPut`, `EndRun`), and clears the records of the flushed window alone
(`EndFlush`). `next` is how much of the handles' store is taken: results and
expression objects go there while there is room (`Placed`), to the heap otherwise.
`Undefined` stands for a read or a write outside a list or the buffer, and for a
`delete` of memory inside the store.

What the code gets right is spelled out in `Supported`: the windows of a statement
all block or none does; a blocking window is not put into (it would be put into
again, and by a flush, `expr-bulk.hpp:273`); a window that defers is used by
elements or in bulk but not both between flushes; bulk gets fit the buffer (`Fits`);
no element is put into a global window of several dimensions (its access is sought
among the bulk ones, `global-view.hpp:1302`); and an expression that is put into a window and whose result fits the store fits
too. The last is needed since the flush frees the result as `is_placed_` says
(`expr-elem.hpp:73`), which is about the object. The run makes every other statement
too, and no more statements after it (`sane`): the actions that only those reach are
checked for type only.

* `OwnData`: each operand is evaluated with the data of an access of its own
  statement, no two with the same, and each with its own if operands are
  evaluated in the order they were opened in. The last condition is needed: the
  order of `win(1,..) - win(2,..)` is the compiler's, twice, and choosing
  differently swaps them.
* `RecordsKept`: a window's records not evaluated are those of the expressions
  that wait, through puts that withdraw the last record, evaluations, and
  flushes of this window and of others.
* `PutsOwn`: a put left to a flush takes value and place of its own statement.
* `NeverUndefined`, `FlushReturns`.

Run `exprs`: one thread, two windows with every pair of completions and of shapes (local
of two dimensions, global of one and of two), up to four accesses (two statements of two operands, or three with a put), with flushes
anywhere, a buffer of three places, so that it fills up and later operands
fetch their data at evaluation, and a store of six, which two deferred puts use up. Two
windows suffice for a flush to run another window's handles; four accesses for a put
between two statements that read. `CHECK_DEADLOCK FALSE`: the accesses run out, and
nothing follows an undefined step. Several threads are allowed for by the module and
not by the run: the lock is taken call by call, and `OwnData` fails for two threads
on one window. `exprs_flush` is violated, see the findings.

### Deferred and Futures

The build with `RMACXX_USE_FUTURES`. There are no handles: `>>` wraps what it leaves in a
deferred `std::future`, whose number the `FuturesManager` gives (`NewExpr`), and every
operand's window notes the number in its `expressions_` and adds one to the number's
blocking count (`Blocked`). A flush goes through the window's list: `Unblock` is
`unblock_expr` of an expression that has others to wait for or is forgotten, `RunExpr`
the one that brings the count to zero and runs the closure, `EndFlush` clears the
window. `WFree` and `Destroy` are `wfree` and `~Window`, with `forget_all`. A statement
is one step, as one thread runs it and it waits for nothing; a flush takes one step for every number.

`Deferred` is the promise: a statement waits for the windows it reads, runs once, in
the flush that is the last of theirs to reach it, and is forgotten when a window it
still waits for is given up. `ImplementsDeferred` maps to it what the code keeps in
three places (count, liveness, lists); it holds of all statements, supported or not.
It is what the unflushed tests of `tests/futures` say: an expression whose window has
gone is never run, and the others can be flushed without it. `TypeOK` includes `Counted`, which
says what a count is: the operands whose windows' flushes have still to reach the
expression, or more if one was freed. `Ahead(e)` is the set of places of the windows'
`expressions_` that hold e and that no flush has passed (`Left`), `Waits(e)` the windows
they are in, `Occurrences(e)` how many they are.

`OwnData` and `NeverUndefined` are those of `Expressions`, through runs, forgetting and
freeing. `Supported` differs in that a statement reads one window (with two, the
first flush clears the records the second needs: `futures_two`, violated); that a
window right of `>>` is not `REMOTE_FLUSH` (put into twice: `Again` leaves its list)
and blocks as the operands' does; that no other window's flush has still to put into it
(`Undisturbed`); and that numbers are left. A window is flushed, freed or destroyed
only when the place of a waiting put is not lost, or left over, by it (`Undisturbed`,
`Unneeded`).

Run `futures`: two windows, every pair of completions, four accesses, two numbers (so
that they run out), a buffer of three places, wfree, destruction and flushes
anywhere. Element-wise operands are evaluated in either order. In one dimension the
records are a raw array, whose old entries a flush does not erase: `EvalWild` counts
reading one as leaving the list, and `FindsRecords` is stated for bulk expressions,
whose lists are vectors that are really cleared. `CHECK_DEADLOCK FALSE`: the accesses
run out and windows are gone.

### Collectives

All processes make the same calls on a window, in the same order (`Call` is the first
process to make one, `Follow` the others). A call is a sequence of steps in each
process, computed from the code's conditions on rank, dimension, view and lock: `Constructor`,
`Fill`, `PrintOf`, `PrintRanges`, `WFree`, `Steps`. Allgathers, barriers and `MPI_Win_free`
wait until all have joined (`Join`, `Leave`); the other steps, MPI's local ones, stores and writes, do not.
Between calls a process may put into another's part (`Put`), which takes effect at any
time before the window is unlocked (`Land`). `pgrid` is the grid the global
constructors count from the corners, and `Cart` what MPI says of it. `memory[p]` is who
wrote last into p's part, and in which call; `out` what was printed, in order.

* `InStep`: processes that meet in a collective came to it by the same call, and it is
  the same one; `print`'s extra barrier of the printing rank makes this worth a check.
* `PrintsWhole`: a print comes out whole, in rank order, and shows nothing put after it.
* `PutsHold`: a put made after fill returned is not overwritten by that fill, although
  fill has no barrier before its stores; and no put comes to freed memory.
* `OnlyDisorderFails`: the grid and `winfo_` make MPI abort only for slabs out of rank
  order, or parts of different sizes under `RMACXX_USE_SAME_SIZE_INFO`.
* `CallReturns`: every call returns in every process (liveness).

Run `collectives`: three processes (a first, one between, a last, so that barriers can
pair across ranks), two local windows, slabs of columns in rank order and reversed,
slabs of rows shuffled, blocks, and an irregular array; three calls, the
constructor among them, and one put. Three calls are a constructor and any two that
follow each other, which is what the barriers could confuse. `CHECK_DEADLOCK FALSE`: the
program ends, or is aborted. The model's own assumptions: `MPI_Comm_dup`,
`MPI_Win_allocate` and `MPI_Cart_create` may return before the others have called them (the
weaker assumption); MPI puts off operations on a window its process has not got yet;
all processes lock and unlock alike; output appears in the order it is written.

## Fairness

`GlobalWalk1D`, `GlobalWalkND`, `CheckGaps`: weak fairness of the walk's own steps.
A walk is a loop in one thread with no wait in it; the caller is free to never
make another access, so `Access` and `Flush` have no fairness. `LocalWindow`: weak
fairness of every thread's `Step`, the rest of an access it has begun; `Open`, which
may wait for the mutex, has none. `Expressions`: weak fairness of every thread's
`Step`, the rest of a statement or a flush it has begun, which waits for nothing;
`Begin` and `Flush` are the program's choice. `Collectives`: weak fairness of
`Progress`, the steps of all processes together with their following a call others
have begun and MPI's completing of puts: while any of these can be taken one is, which
is less than that every process runs. `Futures` states none.

## Proofs

Every theorem holds for all constants that meet the modules' named assumptions:
any number of processes, any non-overlapping layout, any origin, any number of
threads, targets and boxes.

* `GlobalWalk1D_proofs`. `TypeOK` alone says nothing of where `count_dimn_` ends;
  the induction needs `WalkInv`: while a supported walk is between two iterations
  (`PieceReady`) the coordinates before `lo + current` are in place, the piece to
  come starts there, in its owner's memory, and ends at the owner's last
  coordinate or the patch's, whichever comes first. One lemma gives what a piece
  moves, one the step from it to the next owner. `WalkCorrect` states
  `NothingStray`, `WholePatch` and `NeverFails`. `CompletionCorrect` uses `FlushInv`:
  nothing but the current access is unfinished in a blocking window, so that
  flushing one target suffices after one element. `OnceCorrect` (no cell twice) and
  `WalkImplementsArray` (the refinement: initial states, and every step a
  step or a stutter of `GlobalArray`) build on `WalkInv`.
* `CheckGaps_proofs`. `GapsInv` adds to `Remaining` and `BoxesApart`, which are not
  inductive, that boxes at hand lie in the window and are not empty, that the box
  being split is clipped to the common box in the dimensions done, and what the
  final list holds. `SplittingCorrect` is `Remaining` and `BoxesApart`,
  `ExactCorrect` is `CheckExact`.
* `LocalWindow_proofs`. `WindowInv`: at most one thread is between the halves of an
  access, the members hold what it stored, between accesses no flag is set but for
  `winop_` after a fetch-and-op, and a blocking window's unfinished operations are
  those of the call under way, at `target_`. `CallCorrect`, `TypeKept`,
  `CompletionCorrect` state `AsAsked`, `KeepsFirstType`, `CompletesAtReturn`.

* `GlobalWalkND_proofs`, for any number of processes, any layout and any origin. `TypeOK`
  needs that a displacement is a natural number: the prover has no induction, so the module shows with the
  library's least elements (`NatMin`) that a loop of n steps has a result
  (`LoopExists`) and takes the two loops of `find_target_disp` from there (`ProductLoop`,
  `SumLoop`). `WalkInv` is the induction for the walk: between two iterations of a supported one
  (`PieceReady`) the pieces made are those of the processes that meet the patch and come
  before `target_`, each the whole common part of patch and box (`PiecesOf`), and `target_` is the next of
  them. One lemma says that the search finds it: with one byte per coordinate, `memcmp` from
  the last byte on is the row-major order the `Candidates` are compared in. The theorems state `TypeOK`,
  `NeverFails`, `NothingStray`, `Delivered`, `ElemInPlace`.
* `Futures_proofs`, for any number of windows, statements and identifiers. `Counted`, in `TypeOK`, is not
  inductive: `FuturesInv` adds that an expression is ahead in finitely many places, all of them in the
  lists of its operands' windows (`Reached1`), that the flush under way is inside its window's
  list (`Place`) and what an entry of the manager's arrays holds. A lemma for every kind of step says what
  becomes of the places: a statement adds one for every operand (`BlockedAhead`), an `unblock_expr` takes
  one (`UnblockAhead`), giving up a window takes all it has (`EmptiedAhead`), the start and the end of
  a flush none (`FlushAhead`, `EndAhead`). `CountsRight` states `TypeOK`; `FuturesImplementDeferred` is the
  refinement, step by step: an `unblock_expr` is a `Reach` unless a place of the
  same window is left, or the expression is forgotten.

  `OwnDataAlways` and `NeverLeavesMemory` state `OwnData` and `NeverUndefined`. Neither is
  inductive: what an evaluation reads is decided by the order of three lists that nothing in the
  code ties together, a window's records, its counters into the buffer, and the identifiers in
  `expressions_`. `DataInv` is `FuturesInv` and, as long as the statements are `Supported`, `DataOK`:
  * `WindowOK`: every window is `Sound` (`Good`, and nothing recorded is still to be posted while the
    buffer has room) for the kind of statement that uses it. One that blocks may be read by both kinds, since nothing is left in it at a statement's end; it is
    read as if no put waited in it (`NoPuts`).
  * `QueueOK`: an expression that waits (`Waiting`) reads one window, which defers, and
    its accesses are numbered as it was made; of two, the one made first has the smaller accesses and
    the smaller put, and two that put into one window read one; each window's list names
    them in the order they were made (`InOrderMade`); and a window being flushed has no put of
    another window's expressions to lose (`Undisturbed`).
  * a window's unused records are exactly the accesses of the expressions that wait for it
    (`Awaited`), and its puts not made exactly those that they are to put into it (`Coming`).

  The expression a flush comes to is then the first made of those that wait for the window, so that its accesses
  are the least of `Awaited`, the least of the window's records, and what its counters point to
  (`RunFirst`). A statement is one step of many parts; lemmas on windows as values
  say what its records, its posts and its evaluation leave (`OpensWell`, `PostsWell`, `PostingDone`,
  `EvaluationDone`), and one for each action (`LeftData`, `MadeData`, `RunExprData`, `EndFlushData`, ...) that
  `DataOK` is kept.
* `ExprWindow_proofs` is about no state of a program: it defines `Good`, the invariant of one window's
  members, and says of each method (`OpenedGood`, `PostedGood`, `EvaluatedGood`, `IgnoredGood`, `PutMadeGood`,
  ...) what it leaves of it, for every shape and size of the buffer. The proofs of `Expressions` and
  of `Futures` cite these lemmas.
* `Collectives_proofs`, for any number of processes, calls and puts and any window. The steps of a call
  are counted from the last: `StepAt` is the one with m - 1 to come after it, `Rest` the collectives among
  the last m, `Total` all of them, which is the same in every process. `StepsAre` says that these are
  the steps of the code's calls (for `print`, whose loop is a `FlattenSeq` over the processes,
  `PrintSteps`), `StepCounts` that from one step to the next `Rest` loses one exactly at a collective.
  `CollectivesInv` is stated with a witness b, b[i] being the collectives of the first i
  calls: a process has left b[i] less the rest of its call (`Met`), so that no two processes can be at
  different collectives of one number; `Going` ties the lock to the place in the call, `Memory`,
  `Pending` and `Printed` say what all had joined when a put was made or a line written. None of `InStep`,
  `PrintsWhole` and `PutsHold` is inductive, since what pairs two barriers is the number of those
  before them. The theorems state `TypeOK`, `InStep`, `PrintsWhole`, `PutsHold` and
  `OnlyDisorderFails`; for the last `SlabGrid` counts the rises of the corners, and `GridVolume` multiplies
  the grid by the least size of a set of dimensions for which the fold could differ.

* `Expressions_proofs`, for any windows, local or global and of any completions, any sizes of the
  buffer and the stores, any number of accesses, and one thread (`OneThread`): `operator()`,
  `outstanding_gets` and `eval` lock a window one by one, so that the records of two threads'
  expressions mix and `OwnData` is false of them (a hazard listed with the reason why
  nothing is claimed). The lists, the counters and the queue tell of one another only together, so none of the
  properties is inductive. `ExpressionsInv` is `Types` and, as long as the statements are `Supported`, for
  the thread's state and every window:
  * `Good`: the records of a window are listed in the order of their accesses, its counters lie in
    its lists, and there is a function `place` that gives every record its place in the buffer
    such that the next get goes to `place` of the get counter and the next evaluation reads `place` of
    the evaluation counter; what was posted and not evaluated yet is there (`Aligned`). `Sound` adds
    how many records have no get posted for them, which is what the statement being made still has to post.
  * `Begun`: the windows of a statement being made block all or none, have room for it, and its accesses are
    numbered in the order it opened them. `Ended`: what a statement being evaluated has read.
  * `Queued`: handles are queued in the order of their accesses, and a put after its own
    expression; `After` and `Before` place the statement under way behind all of them while it is
    made and before them when a flush evaluates it; `Turns` says that a put at the head of a queue is that of the
    expression run last; `FlushOK` that a flush still goes through every list its window is in.
  * `Linked`: a window's records that no evaluation used are exactly those that handles and the
    statement wait for, and its puts not made yet those that are queued.

  What is read is then right because the next record of a window and the next handle of the queue are both
  the least access that waits: `Linked` makes the sets equal, `Good` and `Queued` sort them. A lemma for
  each action (`OpenKeeps`, `EvalKeeps`, `RunPutKeeps`, ...) shows it of windows and queues as values, and
  one each (`OpenStays`, ...) of the step. The theorems state `TypeOK`, `OwnData`, `RecordsKept`,
  `PutsOwn` and `NeverUndefined`; `TypesKept` holds of any number of threads and of unsupported
  statements too.

Model-checked only: `AccessReturns`, `Terminates`, `LockReleased` (liveness under
fairness is beyond the prover), `CallReturns` and `FlushReturns` likewise, and the violated properties.

## Findings

Five runs end in a violation of what a comment or test of the repository says;
`PROJECT.json` quotes the lines.

* `walk1d_strided`: the origin pointer of a strided walk is scaled by `sizeof(T)`
  twice (`mpi-rma.hpp:793`).
* `walknd_tall`: the next owner is searched for with `memcmp` on integers and can
  be missed, up to a search past the last process (`mpi-rma.hpp:662`).
* `gaps_ctor`: the constructor checks a window one short in each dimension
  (`global-view.hpp:293`).
* `exprs_flush`: the flush of an expression window does not complete its puts at
  the target (`local-view.hpp:1348`). The comment quoted stands over the `LOCAL_FLUSH` variant of a
  test's window; the run takes `NO_FLUSH`, as the test does, whose flush is the same.
* `futures_two`: an expression over two windows runs in the second's flush, when the
  first's has cleared its records (`local-view.hpp:26`).

## Abstractions and bounds

An operation's data is not modelled, only where each element comes from and goes
to. MPI is modelled by what the interface promises: a call is outstanding from its
issue until a flush of its target or until MPI completes it on its own. Names of
bounds: `Shapes` (views and dimensions of expression windows), `MaxAccesses`, `PREALLOC`, `STORE`, `OBJECT` and `EXPR_COUNT` (exprs, futures), `MaxCalls` and `MaxPuts` (collectives), `MaxCoord` and `MaxStart` (walk1d), `Rows`, `Cols` (walknd, gaps), `Points`
(coordinates a caller of the n-dimensional walk names). Integer width matters only
in `memcmp`, whose bytes are modelled; coordinates are below 65536 (`Coord`).

### Not modelled

* Expression windows with `ATOMIC_PUT_GET`: `ExprWindow`, and every property of `Expressions`
  and `Futures`, `NeverUndefined` among them, is about `ATOMIC_NONE`. The atomic gets pass
  `MPI_DATATYPE_NULL` for the origin's type (`local-view.hpp:492`), on which MPI aborts
  as in `LocalWindow` (`Rejected`); an atomic bulk put takes the displacement of the window's last
  access (line 806) and, in several dimensions, the target to flush from the list of
  one-dimensional puts, which is empty (line 823).
* The bulk expressions of the global view, which are unfinished: `operator()` never fills the
  upper corner it walks to, the search for the next owner reads `pe_coords_[target_+1]` of an
  array of pairs (`global-view.hpp:1080`), and every `outstanding_gets` posts again for the
  operands before its own. No test instantiates them, so there is no behaviour to state a
  property of. And its futures build: `flush_expr` leaves `expressions_` as it is
  (`global-view.hpp:1731`), so that a second flush of a window unblocks an expression of
  two windows as if the other had been flushed; the code marks it `TODO: FIX AND REIMPLEMENT FLUSH` (line 26).
* `FuturesManager::allocate`, a counter into a large buffer that is never freed.
* Builds with placement new always, which call no `delete`; scalars and deeper trees of
  operands, which touch no state of their own; `TEST_OVERHEAD` builds, whose flushes do nothing.
* `access()` and `lock()` of the global view, `wget`, subarray types and concepts (values
  without state), timing, the unused older copy `rmacxx-global-view copy.hpp`, tests and
  benchmarks (used as the source of layouts and call sequences).
* Several windows in `Collectives`: two windows have two communicators, and what could go
  wrong is the program's order of calls, which the library does not see.

## Plan

Every invariant and action property that a passing run checks is stated by a theorem.
What is left needs more of the code or a prover that reaches further:

1. The liveness properties, once fairness is within the prover's reach.
2. The bulk expressions of the global view and its futures build, when they are
   finished upstream (see "Not modelled").
3. Threads that share an expression window, when `operator()`, `outstanding_gets` and `eval`
   lock it as one.
