----------------------------- MODULE Collectives -----------------------------
(***************************************************************************)
(* The life of a window: its constructor, fill, print, wlock, wunlock and  *)
(* wfree.  All processes make the same calls in the same order; what a     *)
(* call does in a process is a sequence of steps, some of which are        *)
(* collectives that wait for the others.  Between calls, processes put     *)
(* into each other's memory, and a put may take effect at any time until   *)
(* the window is unlocked.                                                 *)
(***************************************************************************)
EXTENDS Integers, SequencesExt

CONSTANTS
  commSize,   \* the number of processes
  WindowsOf,  \* the windows considered: view, ndims, lower corners (rlo), whether all
              \* processes' boxes have one size (same_wsize) and whether the build
              \* defines RMACXX_USE_SAME_SIZE_INFO (same_size_info)
  MaxCalls,   \* bound on the calls made
  MaxPuts     \* bound on the puts made

Procs == 0 .. commSize - 1

ASSUME SizeAssumption == commSize \in Nat \ {0} /\ {MaxCalls, MaxPuts} \subseteq Nat
ASSUME WindowAssumption ==
  \A w \in WindowsOf :
    /\ w.view \in {"LOCAL_VIEW", "GLOBAL_VIEW"} /\ w.ndims \in Nat \ {0}
    /\ w.rlo \in [Procs -> [1 .. w.ndims -> Int]]
    /\ {w.same_wsize, w.same_size_info} \subseteq BOOLEAN

VARIABLES
  window,    \* the window, for ever
  calls,     \* the calls of the program, as far as a process has got
  done,      \* the calls every process has begun
  todo,      \* the steps left of the last of them
  inside,    \* whether it is inside its next step, a collective
  joined,    \* the number of collectives it has joined
  collected, \* the collectives joined, each by its first: the call's number, its name
  iswinlocked_,
  memory,    \* who wrote a process's part of the window last, and in which call
  pending,   \* the puts not yet in effect
  puts,      \* the number of puts made
  out,       \* what was printed, in order
  failed     \* MPI has aborted the program

vars == <<window, calls, done, todo, inside, joined, collected, iswinlocked_, memory, pending,
          puts, out, failed>>

Init ==
  /\ window \in WindowsOf
  /\ calls = <<>> /\ done = [p \in Procs |-> 0] /\ todo = [p \in Procs |-> <<>>]
  /\ inside = [p \in Procs |-> FALSE] /\ joined = [p \in Procs |-> 0] /\ collected = <<>>
  /\ iswinlocked_ = [p \in Procs |-> FALSE]
  /\ memory = [p \in Procs |-> [by |-> "nobody", call |-> 0]]
  /\ pending = {} /\ puts = 0 /\ out = <<>> /\ failed = FALSE
-----------------------------------------------------------------------------
(***************************************************************************)
(* The process grid of GWINIT_COMMON_RANGE.                                *)
(***************************************************************************)
\* The lower corners of all processes agree in the dimensions ks.
Agree(ks) == \A i \in 1 .. commSize - 1, k \in ks : window.rlo[i-1][k] = window.rlo[i][k]

is_pgrid_unidir == Agree(1 .. window.ndims - 1) \/ Agree(2 .. window.ndims)

pgrid_slip ==
  [k \in 1 .. window.ndims |->
     1 + Cardinality({i \in 2 .. commSize - 1 : window.rlo[i][k] > window.rlo[i-1][k]})
       - Cardinality({i \in 2 .. commSize - 1 : window.rlo[i][k] < window.rlo[i-1][k]})]
\* Of a layout in one dimension: the rises, in rank order, less the falls.
pgrid ==
  [k \in 1 .. window.ndims |->
     1 + Cardinality({i \in 1 .. commSize - 1 : window.rlo[i][k] > window.rlo[i-1][k]})
       - Cardinality({i \in 1 .. commSize - 1 : window.rlo[i][k] < window.rlo[i-1][k]})]

\* Whether MPI_Cart_create takes the grid and MPI_Cart_coords finds process p in
\* it.  MPI_Dims_create's grid, for the other layouts, holds every process.
InGrid(p) ==
  is_pgrid_unidir =>
    LET volume == FoldFunction(LAMBDA a, b : a * b, 1, pgrid) IN
    (\A k \in DOMAIN pgrid : pgrid[k] >= 1) /\ volume <= commSize /\ p < volume
-----------------------------------------------------------------------------
(***************************************************************************)
(* The steps of a call by process p.  "..._slip": the definition below it  *)
(* with a slip a programmer could make.                                    *)
(***************************************************************************)
If(b, steps) == IF b THEN steps ELSE <<>>

\* What GWINIT_COMMON_RANGE tells every process of the others' boxes.  MPI_Comm_dup
\* and MPI_Comm_free wait for nobody.
Ranges ==
  <<"Allgather", "Allgather", "Allgather">> \o If(window.ndims > 1, <<"Cart">>) \o <<"Allgather">>
Allocated == <<"Win_allocate", "Win_lock_all">>
Constructor ==
  IF window.view = "GLOBAL_VIEW" THEN Ranges \o Allocated \o <<"Barrier">> ELSE Allocated

\* symmetrize() makes the same steps.
Fill_slip == <<"Barrier", "store">>
Fill == <<"store", "Barrier">>

PrintOf_slip(p) ==
  <<"Barrier">> \o If(p = 0, <<"title">>)
  \o FlattenSeq([i \in 1 .. commSize |->
       <<"Barrier">> \o If(p = i - 1, <<"dims", "rows">>) \o If(window.ndims # 2, <<"Barrier">>)])
\* In two dimensions only the process that prints makes the second barrier.
PrintOf(p) ==
  <<"Barrier">> \o If(p = 0, <<"title">>)
  \o FlattenSeq([i \in 1 .. commSize |->
       <<"Barrier">> \o If(p = i - 1, <<"dims", "rows">>)
                     \o If(window.ndims # 2 \/ p = i - 1, <<"Barrier">>)])

PrintRanges_slip(p) == If(p = 0, <<"title", "Barrier">>)
PrintRanges(p) == If(p = 0, <<"title">>) \o <<"Barrier">>

WFree_slip(p) ==
  If(iswinlocked_[p], <<"Win_free", "Win_unlock_all">>)
  \o If(window.same_size_info, <<"Info_free">>)
  \o If(window.view = "GLOBAL_VIEW", <<"Barrier">>)
WFree_once_slip(p) == If(iswinlocked_[p], <<"Win_unlock_all">> \o If(p = 0, <<"Win_free">>))
\* The window is freed only if it is locked: the user's wunlock leaves that to him.
WFree(p) ==
  If(iswinlocked_[p], <<"Win_unlock_all", "Win_free">>)
  \o If(window.same_size_info, <<"Info_free">>)
  \o If(window.view = "GLOBAL_VIEW", <<"Barrier">>)

Steps(c, p) ==
  CASE c = "Window"       -> Constructor
    [] c = "fill"         -> Fill
    [] c = "print"        -> PrintOf(p)
    [] c = "print_ranges" -> PrintRanges(p)
    [] c = "wlock"        -> If(~iswinlocked_[p], <<"Win_lock_all">>)
    [] c = "wunlock"      -> If(iswinlocked_[p], <<"Win_unlock_all">>)
    [] c = "wfree"        -> WFree(p)

\* The calls a program may make after those made so far, when p is the first to make it.
Possible(p) ==
  IF calls = <<>> THEN {"Window"}
  ELSE IF Last(calls) = "wfree" THEN {}
  ELSE {"print", "wlock", "wunlock", "wfree"}
         \cup (IF iswinlocked_[p] THEN {"fill"} ELSE {})
         \cup (IF window.view = "GLOBAL_VIEW" THEN {"print_ranges"} ELSE {})
-----------------------------------------------------------------------------
Between(p) == todo[p] = <<>> /\ ~failed

Enter(p, c) ==
  /\ Between(p)
  /\ done' = [done EXCEPT ![p] = @ + 1]
  /\ todo' = [todo EXCEPT ![p] = Steps(c, p)]
  /\ UNCHANGED <<window, inside, joined, collected, iswinlocked_, memory, pending, puts, out, failed>>

\* p is the first to make its next call, or makes the one others have begun.
Call(p) ==
  /\ done[p] = Len(calls) /\ Len(calls) < MaxCalls
  /\ \E c \in Possible(p) : calls' = Append(calls, c) /\ Enter(p, c)
Follow(p) ==
  /\ done[p] < Len(calls)
  /\ Enter(p, calls[done[p] + 1]) /\ UNCHANGED calls

\* An access with no flush, to a window p has.
Put(p, t) ==
  /\ Between(p) /\ iswinlocked_[p] /\ puts < MaxPuts
  /\ puts' = puts + 1
  /\ pending' = pending \cup {[from |-> p, to |-> t, call |-> done[p], nr |-> puts']}
  /\ UNCHANGED <<window, calls, done, todo, inside, joined, collected, iswinlocked_, memory, out, failed>>

\* MPI puts off what reaches a window before its process has it.
Land(u) ==
  /\ u \in pending /\ memory[u.to].by # "nobody" /\ ~failed
  /\ pending' = pending \ {u}
  /\ memory' = [memory EXCEPT ![u.to] = IF @.by = "freed" THEN @ ELSE [by |-> "put", call |-> u.call]]
  /\ UNCHANGED <<window, calls, done, todo, inside, joined, collected, iswinlocked_, puts, out, failed>>
-----------------------------------------------------------------------------
Waiting == {"Allgather", "Barrier", "Win_free"}

At(p, step) == todo[p] # <<>> /\ Head(todo[p]) = step /\ ~inside[p] /\ ~failed
Past(p) == todo' = [todo EXCEPT ![p] = Tail(@)]

Join(p) ==
  \E s \in Waiting :
    /\ At(p, s)
    /\ inside' = [inside EXCEPT ![p] = TRUE]
    /\ joined' = [joined EXCEPT ![p] = @ + 1]
    /\ collected' = IF joined[p] < Len(collected) THEN collected ELSE Append(collected, <<done[p], s>>)
    /\ UNCHANGED <<window, calls, done, todo, iswinlocked_, memory, pending, puts, out, failed>>

\* A process is released when all have joined; MPI_Win_free takes its memory.
Leave(p) ==
  /\ inside[p] /\ ~failed /\ \A q \in Procs : joined[q] >= joined[p]
  /\ inside' = [inside EXCEPT ![p] = FALSE]
  /\ memory' = IF Head(todo[p]) = "Win_free" THEN [memory EXCEPT ![p] = [by |-> "freed", call |-> done[p]]]
               ELSE memory
  /\ Past(p)
  /\ UNCHANGED <<window, calls, done, joined, collected, iswinlocked_, pending, puts, out, failed>>

Cart(p) ==
  /\ At(p, "Cart") /\ Past(p) /\ failed' = ~InGrid(p)
  /\ UNCHANGED <<window, calls, done, inside, joined, collected, iswinlocked_, memory, pending, puts, out>>

\* winfo_ is MPI_INFO_NULL in a global window whose parts differ in size.
InfoFree(p) ==
  /\ At(p, "Info_free") /\ Past(p)
  /\ failed' = (window.view = "GLOBAL_VIEW" /\ ~window.same_wsize)
  /\ UNCHANGED <<window, calls, done, inside, joined, collected, iswinlocked_, memory, pending, puts, out>>

WinAllocate(p) ==
  /\ At(p, "Win_allocate") /\ Past(p)
  /\ memory' = [memory EXCEPT ![p] = [by |-> "constructor", call |-> done[p]]]
  /\ UNCHANGED <<window, calls, done, inside, joined, collected, iswinlocked_, pending, puts, out, failed>>

WinLockAll(p) ==
  /\ At(p, "Win_lock_all") /\ Past(p)
  /\ iswinlocked_' = [iswinlocked_ EXCEPT ![p] = TRUE]
  /\ UNCHANGED <<window, calls, done, inside, joined, collected, memory, pending, puts, out, failed>>

\* It returns when p's puts are in effect.
WinUnlockAll(p) ==
  /\ At(p, "Win_unlock_all") /\ Past(p) /\ \A u \in pending : u.from # p
  /\ iswinlocked_' = [iswinlocked_ EXCEPT ![p] = FALSE]
  /\ UNCHANGED <<window, calls, done, inside, joined, collected, memory, pending, puts, out, failed>>

\* The loop over the process's own memory.
Store(p) ==
  /\ At(p, "store") /\ Past(p)
  /\ memory' = [memory EXCEPT ![p] = [by |-> "fill", call |-> done[p]]]
  /\ UNCHANGED <<window, calls, done, inside, joined, collected, iswinlocked_, pending, puts, out, failed>>

Write(p) ==
  \E s \in {"title", "dims", "rows"} :
    /\ At(p, s) /\ Past(p)
    /\ out' = Append(out, [call |-> done[p], what |-> s, rank |-> p, shown |-> memory[p]])
    /\ UNCHANGED <<window, calls, done, inside, joined, collected, iswinlocked_, memory, pending, puts, failed>>
-----------------------------------------------------------------------------
Step(p) ==
  \/ Join(p) \/ Leave(p) \/ Cart(p) \/ InfoFree(p) \/ WinAllocate(p)
  \/ WinLockAll(p) \/ WinUnlockAll(p) \/ Store(p) \/ Write(p)

Next ==
  \/ \E p \in Procs : Call(p) \/ Follow(p) \/ Step(p) \/ \E t \in Procs : Put(p, t)
  \/ \E u \in pending : Land(u)

\* While a process can go on with its call or make one that others make, or a put
\* can take effect, something of the kind happens.
Progress == (\E p \in Procs : Step(p) \/ Follow(p)) \/ \E u \in pending : Land(u)
Spec == Init /\ [][Next]_vars /\ WF_vars(Progress)
-----------------------------------------------------------------------------
\* Types, a process waits in collectives only, and holds its lock on memory it has.
TypeOK ==
  /\ window \in WindowsOf
  /\ done \in [Procs -> 0 .. Len(calls)] /\ Len(calls) <= MaxCalls
  /\ inside \in [Procs -> BOOLEAN] /\ iswinlocked_ \in [Procs -> BOOLEAN]
  /\ \A p \in Procs : inside[p] => todo[p] # <<>> /\ Head(todo[p]) \in Waiting
  /\ joined \in [Procs -> 0 .. Len(collected)]
  /\ \A p \in Procs : /\ memory[p].by \in {"nobody", "constructor", "fill", "put", "freed"}
                       /\ iswinlocked_[p] => memory[p].by \notin {"nobody", "freed"}
  /\ \A u \in pending : {u.from, u.to} \subseteq Procs /\ u.call \in 1 .. done[u.from]
  /\ failed \in BOOLEAN

\* The processes that meet in a collective have come to it by the same call, and
\* it is the same one of MPI's: no process makes a barrier more or less than the
\* others, although print's loops make theirs under conditions on the rank.
InStep == \A p \in Procs : inside[p] => collected[joined[p]] = <<done[p], Head(todo[p])>>

\* What print writes comes out whole and in rank order after its title, though
\* every process writes its own part, and shows nothing a process put after it had
\* itself returned from the call.
Place(o) == <<o.call, IF o.what = "title" THEN -1 ELSE o.rank, IF o.what = "rows" THEN 1 ELSE 0>>
Precedes(a, b) ==
  \E i \in 1 .. 3 : a[i] < b[i] /\ \A j \in 1 .. i - 1 : a[j] = b[j]
PrintsWhole ==
  /\ \A i, j \in DOMAIN out : i < j => Precedes(Place(out[i]), Place(out[j]))
  /\ \A i \in DOMAIN out : out[i].shown.by = "put" => out[i].shown.call < out[i].call

\* A put made after its process has returned from fill is not overwritten by that
\* fill, at whatever process, and no put comes to memory that is freed.
PutsHold ==
  [][/\ \A p \in Procs : memory[p].by = "put" /\ memory'[p].by = "fill" => memory[p].call < memory'[p].call
     /\ \A u \in pending' : memory'[u.to].by # "freed"]_vars

\* A program is aborted only over a layout of slabs that does not follow the ranks,
\* or over boxes of different sizes in a build with RMACXX_USE_SAME_SIZE_INFO.
InRankOrder ==
  \A i \in 1 .. commSize - 1 :
    \E k \in 1 .. window.ndims :
      window.rlo[i-1][k] < window.rlo[i][k] /\ \A j \in 1 .. k - 1 : window.rlo[i-1][j] = window.rlo[i][j]
OnlyDisorderFails ==
  failed => window.view = "GLOBAL_VIEW" /\ (~InRankOrder \/ (window.same_size_info /\ ~window.same_wsize))

\* Every call returns in every process.
CallReturns == \A p \in Procs : todo[p] # <<>> ~> (todo[p] = <<>> \/ failed)
=============================================================================
