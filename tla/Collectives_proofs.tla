------------------------- MODULE Collectives_proofs -------------------------
(***************************************************************************)
(* Collectives for every number of processes, every window and any number  *)
(* of calls and puts.                                                      *)
(***************************************************************************)
EXTENDS Collectives, SequenceTheorems, FiniteSetTheorems, WellFoundedInduction, TLAPS

CallNames == {"Window", "fill", "print", "print_ranges", "wlock", "wunlock", "wfree"}
StepNames == {"Allgather", "Cart", "Win_allocate", "Win_lock_all", "Barrier", "store",
              "title", "dims", "rows", "Win_unlock_all", "Win_free", "Info_free"}

-----------------------------------------------------------------------------
(***************************************************************************)
(* The steps of call c by process p in window w, counted from the last:    *)
(* how many there are, the one with m - 1 to come after it, and how many   *)
(* of the last m are collectives.  l is 1 if the window was locked before. *)
(***************************************************************************)
Closing(w) == IF w.view = "GLOBAL_VIEW" THEN 1 ELSE 0
Info(w) == IF w.same_size_info THEN 1 ELSE 0
\* print's barriers for the processes after rank r.
After(w, r) == IF w.ndims = 2 THEN commSize - 1 - r ELSE 2 * (commSize - 1 - r)

Size(w, c, p, l) ==
  CASE c = "Window"       -> IF Closing(w) = 0 THEN 2 ELSE IF w.ndims > 1 THEN 8 ELSE 7
    [] c = "fill"         -> 2
    [] c = "print"        -> After(w, 0) + (IF p = 0 THEN 6 ELSE 5)
    [] c = "print_ranges" -> IF p = 0 THEN 2 ELSE 1
    [] c = "wlock"        -> 1 - l
    [] c = "wunlock"      -> l
    [] c = "wfree"        -> 2 * l + Info(w) + Closing(w)

StepAt(w, c, p, m) ==
  CASE c = "Window"       -> IF m = Closing(w) THEN "Barrier"
                             ELSE IF m = Closing(w) + 1 THEN "Win_lock_all"
                             ELSE IF m = Closing(w) + 2 THEN "Win_allocate"
                             ELSE IF m = 5 /\ w.ndims > 1 THEN "Cart" ELSE "Allgather"
    [] c = "fill"         -> IF m = 1 THEN "Barrier" ELSE "store"
    [] c = "print"        -> IF m = After(w, p) + 2 THEN "rows"
                             ELSE IF m = After(w, p) + 3 THEN "dims"
                             ELSE IF p = 0 /\ m = After(w, 0) + 5 THEN "title" ELSE "Barrier"
    [] c = "print_ranges" -> IF m = 1 THEN "Barrier" ELSE "title"
    [] c = "wlock"        -> "Win_lock_all"
    [] c = "wunlock"      -> "Win_unlock_all"
    [] c = "wfree"        -> IF m <= Closing(w) THEN "Barrier"
                             ELSE IF m <= Closing(w) + Info(w) THEN "Info_free"
                             ELSE IF m = Closing(w) + Info(w) + 1 THEN "Win_free" ELSE "Win_unlock_all"

Rest(w, c, p, m) ==
  IF m = 0 THEN 0 ELSE
  CASE c = "Window"       -> IF Closing(w) = 0 THEN 0 ELSE IF m <= 3 THEN 1
                             ELSE IF w.ndims > 1 /\ m >= 5 THEN m - 3 ELSE m - 2
    [] c = "fill"         -> 1
    [] c = "print"        -> IF m < After(w, p) + 2 THEN m
                             ELSE IF m = After(w, p) + 2 THEN m - 1
                             ELSE IF p = 0 /\ m >= After(w, 0) + 5 THEN m - 3 ELSE m - 2
    [] c = "print_ranges" -> 1
    [] c = "wlock"        -> 0
    [] c = "wunlock"      -> 0
    [] c = "wfree"        -> IF m <= Closing(w) THEN m
                             ELSE IF m <= Closing(w) + Info(w) THEN Closing(w) ELSE Closing(w) + 1

\* The collectives of a call, which are the same in all processes, and the name of
\* the k-th of them from the last.
Total(w, c, l) ==
  CASE c = "Window"       -> 5 * Closing(w)
    [] c = "fill"         -> 1
    [] c = "print"        -> After(w, 0) + 3
    [] c = "print_ranges" -> 1
    [] c = "wlock"        -> 0
    [] c = "wunlock"      -> 0
    [] c = "wfree"        -> l + Closing(w)

Name(w, c, k) ==
  CASE c = "Window" -> IF k = 1 THEN "Barrier" ELSE "Allgather"
    [] c = "wfree"  -> IF k = Closing(w) + 1 THEN "Win_free" ELSE "Barrier"
    [] c \notin {"Window", "wfree"} -> "Barrier"

\* Where process r writes a part of what is printed, counted in steps and in collectives.
Spot(w, c, what, r) ==
  IF c = "print_ranges" THEN 2
  ELSE IF what = "title" THEN After(w, 0) + 5 ELSE IF what = "dims" THEN After(w, r) + 3 ELSE After(w, r) + 2
Turn(w, c, what, r) ==
  IF c = "print_ranges" THEN 1 ELSE IF what = "title" THEN After(w, 0) + 2 ELSE After(w, r) + 1

-----------------------------------------------------------------------------
(***************************************************************************)
(* The inductive invariant.  b[i] is the number of collectives of the      *)
(* first i calls.                                                          *)
(***************************************************************************)
\* Whether the window is locked when the first i of the calls s have returned.
Locked(s, i) ==
  IF \E j \in 1 .. i : s[j] \in {"Window", "wlock"} /\ \A k \in j + 1 .. i : s[k] \notin {"wunlock", "wfree"}
  THEN 1 ELSE 0

\* Whether it is with m steps to go of call c, which it was locked before if l = 1.
Holds(w, c, m, l) ==
  CASE c = "Window"  -> m <= Closing(w)
    [] c = "wlock"   -> m = 0
    [] c = "wunlock" -> m = 1
    [] c = "wfree"   -> m = Closing(w) + Info(w) + 2
    [] c \notin {"Window", "wlock", "wunlock", "wfree"} -> l = 1

Marks == [by : {"nobody", "constructor", "fill", "put", "freed"}, call : Nat]
Puts == [from : Procs, to : Procs, call : Nat, nr : Nat]
Lines == [call : Nat, what : {"title", "dims", "rows"}, rank : Procs, shown : Marks]

Types ==
  /\ window \in WindowsOf /\ puts \in Nat /\ failed \in BOOLEAN
  /\ calls \in Seq(CallNames) /\ Len(calls) <= MaxCalls
  /\ done \in [Procs -> Nat] /\ \A p \in Procs : done[p] <= Len(calls)
  /\ todo \in [Procs -> Seq(StepNames)] /\ inside \in [Procs -> BOOLEAN]
  /\ joined \in [Procs -> Nat] /\ collected \in Seq(Nat \X Waiting)
  /\ iswinlocked_ \in [Procs -> BOOLEAN] /\ memory \in [Procs -> Marks]
  /\ pending \subseteq Puts /\ out \in Seq(Lines)

\* The constructor comes first and wfree last.
CallOrder ==
  \A k \in 1 .. Len(calls) : (calls[k] = "Window" <=> k = 1) /\ (calls[k] = "wfree" => k = Len(calls))

Counts(b) ==
  /\ b \in [0 .. Len(calls) -> Nat] /\ b[0] = 0
  /\ \A i \in 1 .. Len(calls) : b[i] = b[i-1] + Total(window, calls[i], Locked(calls, i - 1))
  /\ \A i, j \in 0 .. Len(calls) : i <= j => b[i] <= b[j]

\* What a process has still to do of its call, and whether it holds the lock.
Going(p) ==
  /\ done[p] = 0 => todo[p] = <<>> /\ ~iswinlocked_[p]
  /\ done[p] # 0 => 
       /\ Len(todo[p]) <= Size(window, calls[done[p]], p, Locked(calls, done[p] - 1))
       /\ iswinlocked_[p] <=> Holds(window, calls[done[p]], Len(todo[p]), Locked(calls, done[p] - 1))
  /\ \A j \in 1 .. Len(todo[p]) : todo[p][j] = StepAt(window, calls[done[p]], p, Len(todo[p]) - j + 1)
  /\ inside[p] => todo[p] # <<>> /\ Head(todo[p]) \in Waiting

\* The collectives it has joined, those it has left, and those it has still to join of its call.
Left(p) == joined[p] - (IF inside[p] THEN 1 ELSE 0)
Behind(p) == Rest(window, calls[done[p]], p, Len(todo[p]))

\* The collectives that were joined are the calls' in turn, and no process left one that
\* another has still to join.
Met(b) ==
  /\ \A p \in Procs : joined[p] <= Len(collected) /\ Left(p) = b[done[p]] - Behind(p)
  /\ \A p, q \in Procs : Left(q) <= joined[p]
  /\ Len(collected) <= b[Len(calls)]
  /\ \A i \in 1 .. Len(calls), j \in 1 .. Len(collected) :
       b[i-1] < j /\ j <= b[i] => collected[j] = <<i, Name(window, calls[i], b[i] - j + 1)>>

\* All have joined the first k collectives.
Joined(k) == \A q \in Procs : k <= joined[q]

\* A process has its memory from Win_allocate to Win_free.  A put was made, and a line
\* printed, when all had joined what its process had left.
Memory(b) ==
  \A p \in Procs :
    /\ memory[p].by = "nobody" /\ done[p] # 0 => calls[done[p]] = "Window" /\ Len(todo[p]) >= Closing(window) + 2
    /\ memory[p].by = "freed" => /\ done[p] = Len(calls) /\ done[p] # 0 /\ calls[done[p]] = "wfree"
                                 /\ Len(todo[p]) <= Closing(window) + Info(window)
                                 /\ Locked(calls, done[p] - 1) = 1
    /\ memory[p].by = "put" => memory[p].call \in 1 .. Len(calls) /\ Joined(b[memory[p].call])

Pending(b) ==
  \A u \in pending : u.call \in 1 .. done[u.from] /\ iswinlocked_[u.from] /\ Joined(b[u.call])

Printed(b) ==
  \A i \in 1 .. Len(out) : LET o == out[i]  c == calls[o.call] IN
    /\ o.call \in 1 .. done[o.rank] /\ c \in {"print", "print_ranges"}
    /\ (o.what = "title" \/ c = "print_ranges") => o.what = "title" /\ o.rank = 0
    /\ Joined(b[o.call] - Turn(window, c, o.what, o.rank))
    /\ o.call = done[o.rank] => Len(todo[o.rank]) < Spot(window, c, o.what, o.rank)

Inv(b) ==
  /\ Types /\ CallOrder /\ Counts(b) /\ (\A p \in Procs : Going(p))
  /\ Met(b) /\ Memory(b) /\ Pending(b) /\ Printed(b) /\ PrintsWhole

CollectivesInv == \E b \in [0 .. Len(calls) -> Nat] : Inv(b)

-----------------------------------------------------------------------------
(***************************************************************************)
(* The steps of a call, counted.                                           *)
(***************************************************************************)

\* What is known of a window, and of the barriers after each rank.
LEMMA WindowParts ==
  ASSUME NEW w \in WindowsOf
  PROVE  /\ w.ndims \in Nat \ {0} /\ Closing(w) \in {0, 1} /\ Info(w) \in {0, 1}
         /\ \A r \in Procs : After(w, r) \in Nat /\ After(w, r) <= After(w, 0)
         /\ \A r, s \in Procs : r < s => After(w, s) < After(w, r)
BY SizeAssumption, WindowAssumption DEF Closing, Info, After, Procs

\* Without the last m - 1, every step of a call adds the collective it may be, and the
\* collective is the next of the call's.
LEMMA StepCounts ==
  ASSUME NEW w \in WindowsOf, NEW c \in CallNames, NEW p \in Procs, NEW l \in {0, 1},
         NEW m \in Nat, m # 0, m <= Size(w, c, p, l)
  PROVE  /\ StepAt(w, c, p, m) \in StepNames
         /\ Rest(w, c, p, m) = Rest(w, c, p, m - 1) + (IF StepAt(w, c, p, m) \in Waiting THEN 1 ELSE 0)
         /\ StepAt(w, c, p, m) \in Waiting => Name(w, c, Rest(w, c, p, m)) = StepAt(w, c, p, m)
<1>. p \in Nat /\ After(w, p) \in Nat /\ After(w, 0) \in Nat /\ After(w, p) <= After(w, 0)
     /\ Closing(w) \in {0, 1} /\ Info(w) \in {0, 1} /\ w.ndims \in Nat
  BY WindowParts, SizeAssumption DEF Procs
<1>. USE DEF Size, StepAt, Rest, Name, Waiting, StepNames
<1>1. CASE c = "Window"
  BY <1>1
<1>2. CASE c = "fill"
  BY <1>2
<1>3. CASE c = "print"
  BY <1>3
<1>4. CASE c = "print_ranges"
  BY <1>4
<1>5. CASE c = "wlock"
  BY <1>5
<1>6. CASE c = "wunlock"
  BY <1>6
<1>7. CASE c = "wfree"
  BY <1>7
<1>. QED
  BY <1>1, <1>2, <1>3, <1>4, <1>5, <1>6, <1>7 DEF CallNames

\* No more are left than the call has, and all of them at its start.
LEMMA RestBounds ==
  ASSUME NEW w \in WindowsOf, NEW c \in CallNames, NEW p \in Procs, NEW l \in {0, 1},
         NEW m \in Nat, m <= Size(w, c, p, l)
  PROVE  /\ Size(w, c, p, l) \in Nat /\ Total(w, c, l) \in Nat
         /\ Rest(w, c, p, m) \in Nat /\ Rest(w, c, p, m) <= Total(w, c, l)
         /\ m = Size(w, c, p, l) => Rest(w, c, p, m) = Total(w, c, l)
<1>. p \in Nat /\ After(w, p) \in Nat /\ After(w, 0) \in Nat /\ After(w, p) <= After(w, 0)
     /\ (p # 0 => After(w, p) + 1 <= After(w, 0))
     /\ Closing(w) \in {0, 1} /\ Info(w) \in {0, 1} /\ w.ndims \in Nat \ {0}
  BY WindowParts, SizeAssumption DEF Procs, After
<1>. USE DEF Size, Rest, Total
<1>1. CASE c = "Window"
  BY <1>1
<1>2. CASE c = "fill"
  BY <1>2
<1>3. CASE c = "print"
  BY <1>3
<1>4. CASE c = "print_ranges"
  BY <1>4
<1>5. CASE c = "wlock"
  BY <1>5
<1>6. CASE c = "wunlock"
  BY <1>6
<1>7. CASE c = "wfree"
  BY <1>7
<1>. QED
  BY <1>1, <1>2, <1>3, <1>4, <1>5, <1>6, <1>7 DEF CallNames

\* Where the steps come that do more than to wait.
LEMMA StepPlaces ==
  ASSUME NEW w \in WindowsOf, NEW c \in CallNames, NEW p \in Procs, NEW l \in {0, 1},
         NEW m \in Nat, m # 0, m <= Size(w, c, p, l), NEW s, s = StepAt(w, c, p, m)
  PROVE  /\ s = "store" => Rest(w, c, p, m) >= 1
         /\ (s = "Cart" => Closing(w) = 1) /\ (s = "Info_free" => Info(w) = 1)
         /\ s = "Win_allocate" => c = "Window" /\ m = Closing(w) + 2
         /\ c = "Window" /\ m = Closing(w) + 2 => s = "Win_allocate"
         /\ s = "Win_free" => c = "wfree" /\ m = Closing(w) + Info(w) + 1 /\ l = 1
         /\ s \in {"title", "dims", "rows"} =>
              /\ c \in {"print", "print_ranges"} /\ (s = "title" => p = 0) /\ (c = "print_ranges" => s = "title")
              /\ m = Spot(w, c, s, p) /\ Rest(w, c, p, m) = Turn(w, c, s, p) /\ Turn(w, c, s, p) >= 1
<1>. p \in Nat /\ After(w, p) \in Nat /\ After(w, 0) \in Nat /\ After(w, p) <= After(w, 0)
     /\ Closing(w) \in {0, 1} /\ Info(w) \in {0, 1} /\ w.ndims \in Nat \ {0}
  BY WindowParts, SizeAssumption DEF Procs
<1>. USE DEF Size, StepAt, Rest, Spot, Turn
<1>1. CASE c = "Window"
  BY <1>1
<1>2. CASE c = "fill"
  BY <1>2
<1>3. CASE c = "print"
  BY <1>3
<1>4. CASE c = "print_ranges"
  BY <1>4
<1>5. CASE c = "wlock"
  BY <1>5
<1>6. CASE c = "wunlock"
  BY <1>6
<1>7. CASE c = "wfree"
  BY <1>7
<1>. QED
  BY <1>1, <1>2, <1>3, <1>4, <1>5, <1>6, <1>7 DEF CallNames

\* The steps that lock and unlock do, and the others leave the lock.
LEMMA StepHolds ==
  ASSUME NEW w \in WindowsOf, NEW c \in CallNames, NEW p \in Procs, NEW l \in {0, 1},
         NEW m \in Nat, m # 0, m <= Size(w, c, p, l), NEW s, s = StepAt(w, c, p, m)
  PROVE  /\ s = "Win_lock_all" => Holds(w, c, m - 1, l)
         /\ s = "Win_unlock_all" => ~Holds(w, c, m - 1, l) /\ Holds(w, c, m, l)
         /\ s \notin {"Win_lock_all", "Win_unlock_all"} => (Holds(w, c, m - 1, l) <=> Holds(w, c, m, l))
<1>. p \in Nat /\ Closing(w) \in {0, 1} /\ Info(w) \in {0, 1}
  BY WindowParts, SizeAssumption DEF Procs
<1>. USE DEF Size, StepAt, Holds
<1>1. CASE c = "Window"
  BY <1>1
<1>2. CASE c \in {"fill", "print", "print_ranges"}
  BY <1>2
<1>5. CASE c = "wlock"
  BY <1>5
<1>6. CASE c = "wunlock"
  BY <1>6
<1>7. CASE c = "wfree"
  BY <1>7
<1>. QED
  BY <1>1, <1>2, <1>5, <1>6, <1>7 DEF CallNames

\* The lock before a call's first step, and after its last.
LEMMA EndHolds ==
  ASSUME NEW w \in WindowsOf, NEW c \in CallNames, NEW p \in Procs, NEW l \in {0, 1}
  PROVE  /\ (c = "Window" => l = 0) => (Holds(w, c, Size(w, c, p, l), l) <=> l = 1)
         /\ Holds(w, c, 0, l) <=> (c \in {"Window", "wlock"} \/ (c \notin {"wunlock", "wfree"} /\ l = 1))
<1>. p \in Nat /\ Closing(w) \in {0, 1} /\ Info(w) \in {0, 1}
  BY WindowParts, SizeAssumption DEF Procs
<1>. USE DEF Size, Holds
<1>1. CASE c = "Window"
  BY <1>1
<1>2. CASE c = "wlock"
  BY <1>2
<1>3. CASE c = "wunlock"
  BY <1>3
<1>4. CASE c = "wfree"
  BY <1>4
<1>5. CASE c \notin {"Window", "wlock", "wunlock", "wfree"}
  BY <1>5
<1>. QED
  BY <1>1, <1>2, <1>3, <1>4, <1>5

\* The parts of what is printed come in turn.
LEMMA TurnOrder ==
  ASSUME NEW w \in WindowsOf, NEW c \in {"print", "print_ranges"}, NEW r \in Procs, NEW l \in {0, 1},
         NEW s \in {"title", "dims", "rows"}, (s = "title" \/ c = "print_ranges") => s = "title" /\ r = 0
  PROVE  /\ Turn(w, c, s, r) \in Nat /\ 1 <= Turn(w, c, s, r) /\ Turn(w, c, s, r) <= Total(w, c, l)
         /\ \A p \in Procs, t \in {"title", "dims", "rows"} :
              ((t = "title" \/ c = "print_ranges") => t = "title" /\ p = 0) =>
                /\ p # r /\ Turn(w, c, t, p) <= Turn(w, c, s, r) =>
                     t # "title" /\ (s # "title" => r < p)
                /\ p = r /\ Spot(w, c, t, p) < Spot(w, c, s, r) =>
                     t # s /\ t # "title" /\ (s = "title" \/ (s = "dims" /\ t = "rows"))
<1>. r \in Nat /\ After(w, r) \in Nat /\ After(w, 0) \in Nat /\ After(w, r) <= After(w, 0)
  BY WindowParts, SizeAssumption DEF Procs
<1>1. Turn(w, c, s, r) \in Nat /\ 1 <= Turn(w, c, s, r) /\ Turn(w, c, s, r) <= Total(w, c, l)
  BY DEF Turn, Total
<1>2. ASSUME NEW p \in Procs, NEW t \in {"title", "dims", "rows"},
             (t = "title" \/ c = "print_ranges") => t = "title" /\ p = 0
      PROVE  /\ p # r /\ Turn(w, c, t, p) <= Turn(w, c, s, r) => t # "title" /\ (s # "title" => r < p)
             /\ p = r /\ Spot(w, c, t, p) < Spot(w, c, s, r) =>
                  t # s /\ t # "title" /\ (s = "title" \/ (s = "dims" /\ t = "rows"))
  <2>1. p \in Nat /\ After(w, p) \in Nat /\ After(w, p) <= After(w, 0)
        /\ (p < r => After(w, r) < After(w, p))
    BY WindowParts, SizeAssumption DEF Procs
  <2>. QED BY <1>2, <2>1 DEF Turn, Spot
<1>. QED
  BY <1>1, <1>2

-----------------------------------------------------------------------------
(***************************************************************************)
(* Those are the steps of the calls.                                       *)
(***************************************************************************)

\* Every set of natural numbers that is not empty has a least element.
LEMMA NatMin ==
  ASSUME NEW S \in SUBSET Nat, S # {}
  PROVE  \E n \in S : \A m \in S : n <= m
<1>. DEFINE R == {d \in Nat \X Nat : d[1] < d[2]}
<1>1. IsWellFoundedOn(R, Nat)
  BY NatLessThanWellFounded, Zenon DEF OpToRel
<1>2. PICK n \in S : \A y \in S : <<y, n>> \notin R
  <2>. HIDE DEF R
  <2>. QED BY <1>1, WFMin, Zenon
<1>3. \A y \in S : ~(y < n)
  BY <1>2
<1>. QED
  BY <1>3

\* FlattenSeq's loop, unfolded.
LEMMA FlattenLoop ==
  ASSUME NEW S, NEW n \in Nat \ {0}, NEW seqs \in [1 .. n -> S], NEW g \in [1 .. n -> S],
         g[1] = seqs[1], \A i \in 2 .. n : g[i] = g[i-1] \o seqs[i]
  PROVE  FlattenSeq(seqs) = g[n]
<1>. DEFINE Body(v) == [i \in 1 .. n |-> IF i = 1 THEN seqs[i] ELSE v[i-1] \o seqs[i]]
            flatten == CHOOSE v : v = Body(v)
<1>1. Len(seqs) = n
  OBVIOUS
<1>2. FlattenSeq(seqs) = flatten[n]
  BY <1>1 DEF FlattenSeq
<1>3. g = Body(g)
  <2>1. \A i \in 1 .. n : i # 1 => i \in 2 .. n
    OBVIOUS
  <2>. QED BY <2>1
<1>4. flatten = Body(flatten)
  <2>. HIDE DEF Body
  <2>. QED BY <1>3
<1>. HIDE DEF flatten
<1>5. \A i \in 1 .. n : flatten[i] = IF i = 1 THEN seqs[i] ELSE flatten[i-1] \o seqs[i]
  BY <1>4
<1>6. \A i \in 1 .. n : flatten[i] = g[i]
  <2>. DEFINE Bad == {i \in 1 .. n : flatten[i] # g[i]}
  <2>1. SUFFICES ASSUME Bad # {} PROVE FALSE
    OBVIOUS
  <2>2. PICK i \in Bad : \A j \in Bad : i <= j
    <3>1. Bad \in SUBSET Nat
      OBVIOUS
    <3>. HIDE DEF Bad
    <3>. QED BY <2>1, <3>1, NatMin
  <2>3. i # 1
    BY <1>5
  <2>4. i \in 2 .. n /\ i - 1 \in 1 .. n
    BY <2>3
  <2>5. flatten[i-1] = g[i-1]
    BY <2>2, <2>4
  <2>6. flatten[i] = flatten[i-1] \o seqs[i] /\ g[i] = g[i-1] \o seqs[i]
    BY <1>5, <2>3, <2>4
  <2>. QED BY <2>5, <2>6
<1>. QED
  BY <1>2, <1>6

\* Steps s, of which there are n, are the last n of call c's.
Fits(s, w, c, p, n) ==
  s \in Seq(StepNames) /\ Len(s) = n /\ \A j \in 1 .. n : s[j] = StepAt(w, c, p, n - j + 1)

\* So are they with those that come before them,
LEMMA FitsBefore ==
  ASSUME NEW w, NEW c, NEW p, NEW n \in Nat, NEW t, Fits(t, w, c, p, n), NEW s \in Seq(StepNames),
         \A j \in 1 .. Len(s) : s[j] = StepAt(w, c, p, n + Len(s) - j + 1)
  PROVE  Fits(s \o t, w, c, p, n + Len(s))
<1>1. t \in Seq(StepNames) /\ Len(t) = n /\ Len(s) \in Nat
  BY DEF Fits
<1>2. /\ s \o t \in Seq(StepNames) /\ Len(s \o t) = Len(s) + Len(t)
      /\ \A j \in 1 .. Len(s) + Len(t) : (s \o t)[j] = IF j <= Len(s) THEN s[j] ELSE t[j - Len(s)]
  BY <1>1, ConcatProperties
<1>3. ASSUME NEW j \in 1 .. n + Len(s) PROVE (s \o t)[j] = StepAt(w, c, p, n + Len(s) - j + 1)
  <2>1. CASE j <= Len(s)
    BY <1>1, <1>2, <2>1
  <2>2. CASE j > Len(s)
    <3>1. j - Len(s) \in 1 .. n /\ n - (j - Len(s)) + 1 = n + Len(s) - j + 1
      BY <1>1, <2>2
    <3>2. t[j - Len(s)] = StepAt(w, c, p, n - (j - Len(s)) + 1)
      BY <3>1 DEF Fits
    <3>. QED BY <1>1, <1>2, <2>2, <3>1, <3>2
  <2>. QED BY <1>1, <2>1, <2>2
<1>. QED
  BY <1>1, <1>2, <1>3 DEF Fits

\* one of them
LEMMA FitsOne ==
  ASSUME NEW w, NEW c, NEW p, NEW n \in Nat, NEW t, Fits(t, w, c, p, n), NEW x \in StepNames,
         NEW m, m = n + 1, x = StepAt(w, c, p, m)
  PROVE  Fits(<<x>> \o t, w, c, p, m)
<1>. DEFINE s == <<x>>
<1>1. s \in Seq(StepNames) /\ Len(s) = 1 /\ s[1] = x
  OBVIOUS
<1>2. \A j \in 1 .. Len(s) : s[j] = StepAt(w, c, p, n + Len(s) - j + 1)
  BY <1>1
<1>. HIDE DEF s
<1>3. Fits(s \o t, w, c, p, n + Len(s))
  BY <1>1, <1>2, FitsBefore
<1>. QED
  BY <1>1, <1>3 DEF s

\* or two,
LEMMA FitsTwo ==
  ASSUME NEW w, NEW c, NEW p, NEW n \in Nat, NEW t, Fits(t, w, c, p, n), NEW x \in StepNames, NEW y \in StepNames,
         NEW m, m = n + 2, x = StepAt(w, c, p, m), y = StepAt(w, c, p, n + 1)
  PROVE  Fits(<<x, y>> \o t, w, c, p, m)
<1>. DEFINE s == <<x, y>>
<1>1. s \in Seq(StepNames) /\ Len(s) = 2 /\ s[1] = x /\ s[2] = y
  OBVIOUS
<1>2. \A j \in 1 .. Len(s) : s[j] = StepAt(w, c, p, n + Len(s) - j + 1)
  BY <1>1
<1>. HIDE DEF s
<1>3. Fits(s \o t, w, c, p, n + Len(s))
  BY <1>1, <1>2, FitsBefore
<1>. QED
  BY <1>1, <1>3 DEF s

\* if they come at all.
LEMMA FitsIf ==
  ASSUME NEW w, NEW c, NEW p, NEW n \in Nat, NEW t, Fits(t, w, c, p, n), NEW s \in Seq(StepNames), NEW b \in BOOLEAN,
         NEW m, IF b THEN Fits(s \o t, w, c, p, m) ELSE m = n
  PROVE  Fits(If(b, s) \o t, w, c, p, m)
<1>1. CASE b
  BY <1>1 DEF If
<1>2. CASE ~b
  <2>1. <<>> \o t = t
    BY ConcatEmptySeq DEF Fits
  <2>2. If(b, s) = <<>> /\ m = n
    BY <1>2 DEF If
  <2>. QED BY <2>1, <2>2
<1>. QED
  BY <1>1, <1>2

\* No step is the last none of any call's, and one is its only if it comes.
LEMMA FitsNone ==
  ASSUME NEW w, NEW c, NEW p
  PROVE  Fits(<<>>, w, c, p, 0)
BY DEF Fits

LEMMA FitsOnly ==
  ASSUME NEW w, NEW c, NEW p, NEW x \in StepNames, NEW b \in BOOLEAN, NEW k \in {0, 1}, b <=> k = 1,
         b => x = StepAt(w, c, p, 1)
  PROVE  Fits(If(b, <<x>>), w, c, p, k)
<1>1. CASE b
  <2>1. If(b, <<x>>) = <<x>> /\ k = 1 /\ x = StepAt(w, c, p, 1)
    BY <1>1 DEF If
  <2>2. Fits(<<x>>, w, c, p, 1)
    BY <2>1 DEF Fits
  <2>. QED BY <2>1, <2>2
<1>2. CASE ~b
  <2>1. If(b, <<x>>) = <<>> /\ k = 0
    BY <1>2 DEF If
  <2>. QED BY <2>1, FitsNone
<1>. QED
  BY <1>1, <1>2

\* Sequences of steps, and their concatenation.
LEMMA IfSteps ==
  ASSUME NEW b \in BOOLEAN, NEW s \in Seq(StepNames)
  PROVE  If(b, s) \in Seq(StepNames)
BY DEF If

LEMMA Regroup ==
  ASSUME NEW r \in Seq(StepNames), NEW s \in Seq(StepNames), NEW t \in Seq(StepNames)
  PROVE  (r \o s) \o t = r \o (s \o t) /\ r \o s \in Seq(StepNames)
BY ConcatAssociative, ConcatProperties

LEMMA RegroupFive ==
  ASSUME NEW a \in Seq(StepNames), NEW b \in Seq(StepNames), NEW c \in Seq(StepNames), NEW d \in Seq(StepNames),
         NEW e \in Seq(StepNames)
  PROVE  (((a \o b) \o c) \o d) \o e = a \o (b \o (c \o (d \o e)))
<1>. DEFINE Cat(s, t) == s \o t  S == Seq(StepNames)
<1>1. \A r, s, t \in S : Cat(Cat(r, s), t) = Cat(r, Cat(s, t)) /\ Cat(r, s) \in S
  BY Regroup
<1>2. a \in S /\ b \in S /\ c \in S /\ d \in S /\ e \in S
  OBVIOUS
<1>3. Cat(Cat(Cat(Cat(a, b), c), d), e) = Cat(a, Cat(b, Cat(c, Cat(d, e))))
  <2>. HIDE DEF Cat, S
  <2>1. PICK x, y, z, w : x = Cat(a, b) /\ y = Cat(x, c) /\ z = Cat(d, e) /\ w = Cat(c, z)
    OBVIOUS
  <2>2. x \in S /\ z \in S
    BY <1>1, <1>2, <2>1
  <2>3. y \in S /\ w \in S
    BY <1>1, <1>2, <2>1, <2>2
  <2>4. Cat(Cat(y, d), e) = Cat(y, Cat(d, e))
    BY <1>1, <1>2, <2>3
  <2>5. Cat(Cat(x, c), z) = Cat(x, Cat(c, z))
    BY <1>1, <1>2, <2>2
  <2>6. Cat(Cat(a, b), w) = Cat(a, Cat(b, w))
    BY <1>1, <1>2, <2>3
  <2>. QED BY <2>1, <2>4, <2>5, <2>6
<1>. QED
  BY <1>3, Zenon

\* The steps of a call that come in as many pieces as are written.
LEMMA FewSteps ==
  ASSUME NEW p \in Procs, NEW c \in CallNames \ {"print"}, window \in WindowsOf,
         NEW l \in {0, 1}, iswinlocked_[p] \in BOOLEAN, l = 1 <=> iswinlocked_[p]
  PROVE  Fits(Steps(c, p), window, c, p, Size(window, c, p, l))
<1>. DEFINE F(s, n) == Fits(s, window, c, p, n)
            g == Closing(window)
            i == Info(window)
            global == window.view = "GLOBAL_VIEW"
<1>1. /\ window.ndims \in Nat \ {0} /\ window.view \in {"LOCAL_VIEW", "GLOBAL_VIEW"}
      /\ window.same_size_info \in BOOLEAN /\ g \in {0, 1} /\ i \in {0, 1}
      /\ (global <=> g = 1) /\ (window.same_size_info <=> i = 1)
  BY WindowAssumption DEF Closing, Info
<1>2. CASE c = "Window"
  <2>. DEFINE A == <<"Allgather", "Allgather", "Allgather">>
              B == If(window.ndims > 1, <<"Cart">>)
              C == <<"Allgather">>
              E == <<"Barrier">>
  <2>1. /\ A \in Seq(StepNames) /\ C \in Seq(StepNames) /\ E \in Seq(StepNames) /\ Allocated \in Seq(StepNames)
        /\ <<"Cart">> \in Seq(StepNames) /\ (window.ndims > 1) \in BOOLEAN
        /\ {"Win_allocate", "Win_lock_all", "Cart", "Allgather"} \subseteq StepNames
    BY DEF StepNames, Allocated
  <2>2. CASE ~global
    <3>1. Steps(c, p) = <<"Win_allocate", "Win_lock_all">> /\ Size(window, c, p, l) = 2
      BY <1>1, <1>2, <2>2 DEF Steps, Constructor, Allocated, Size
    <3>2. StepAt(window, c, p, 1) = "Win_lock_all" /\ StepAt(window, c, p, 2) = "Win_allocate"
      BY <1>1, <1>2, <2>2 DEF StepAt
    <3>. QED BY <2>1, <3>1, <3>2 DEF Fits, Allocated
  <2>3. CASE global
    <3>1. \A m \in 1 .. 8 : StepAt(window, c, p, m)
            = IF m = 1 THEN "Barrier" ELSE IF m = 2 THEN "Win_lock_all" ELSE IF m = 3 THEN "Win_allocate"
              ELSE IF m = 5 /\ window.ndims > 1 THEN "Cart" ELSE "Allgather"
      BY <1>1, <1>2, <2>3 DEF StepAt
    <3>2. F(E, 1)
      BY <2>1, <3>1 DEF Fits
    <3>3. F(Allocated \o E, 3)
      <4>1. StepAt(window, c, p, 3) = "Win_allocate" /\ StepAt(window, c, p, 1 + 1) = "Win_lock_all"
        BY <3>1
      <4>. QED BY <2>1, <3>2, <4>1, FitsTwo DEF Allocated
    <3>4. F(C \o (Allocated \o E), 4)
      <4>1. "Allgather" = StepAt(window, c, p, 4) /\ "Allgather" \in StepNames /\ 3 \in Nat /\ 4 = 3 + 1
        BY <2>1, <3>1
      <4>. HIDE DEF E
      <4>. QED BY <3>3, <4>1, FitsOne
    <3>. DEFINE X == C \o (Allocated \o E)
                h == IF window.ndims > 1 THEN 5 ELSE 4
    <3>. HIDE DEF X
    <3>5. F(B \o X, h)
      <4>1. "Cart" \in StepNames /\ 4 \in Nat /\ 5 = 4 + 1 /\ F(X, 4)
        BY <2>1, <3>4 DEF X
      <4>2. ASSUME window.ndims > 1 PROVE F(<<"Cart">> \o X, 5)
        <5>1. "Cart" = StepAt(window, c, p, 5)
          BY <3>1, <4>2
        <5>. QED BY <4>1, <5>1, FitsOne
      <4>3. IF window.ndims > 1 THEN F(<<"Cart">> \o X, h) ELSE h = 4
        BY <4>2
      <4>. HIDE DEF h
      <4>. QED BY <2>1, <4>1, <4>3, FitsIf
    <3>6. F(A \o (B \o X), h + 3)
      <4>1. Len(A) = 3 /\ A[1] = "Allgather" /\ A[2] = "Allgather" /\ A[3] = "Allgather" /\ h \in Nat
        BY DEF StepNames
      <4>2. \A j \in 1 .. 3 : A[j] = StepAt(window, c, p, h + 3 - j + 1)
        BY <1>1, <3>1, <4>1
      <4>3. A \in Seq(StepNames)
        BY <2>1
      <4>. HIDE DEF A, B, F, h
      <4>4. PICK a, t : a = A /\ t = B \o X
        OBVIOUS
      <4>5. Fits(t, window, c, p, h) /\ h \in Nat /\ a \in Seq(StepNames) /\ Len(a) = 3
            /\ \A j \in 1 .. Len(a) : a[j] = StepAt(window, c, p, h + Len(a) - j + 1)
        BY <3>5, <4>1, <4>2, <4>3, <4>4 DEF F
      <4>6. Fits(a \o t, window, c, p, h + Len(a))
        BY <4>5, FitsBefore, Zenon
      <4>. QED BY <4>4, <4>5, <4>6 DEF F
    <3>7. Size(window, c, p, l) = h + 3
      BY <1>1, <1>2, <2>3 DEF Size
    <3>8. Steps(c, p) = (((A \o B) \o C) \o Allocated) \o E
      BY <1>2, <2>3 DEF Steps, Constructor, Ranges
    <3>9. (((A \o B) \o C) \o Allocated) \o E = A \o (B \o X)
      <4>1. B \in Seq(StepNames)
        BY <2>1, IfSteps
      <4>2. A \in Seq(StepNames) /\ C \in Seq(StepNames) /\ Allocated \in Seq(StepNames) /\ E \in Seq(StepNames)
        BY <2>1
      <4>. HIDE DEF A, B, C, E
      <4>3. (((A \o B) \o C) \o Allocated) \o E = A \o (B \o (C \o (Allocated \o E)))
        <5>. DEFINE S == Seq(StepNames)
                    FromLeft(q, r, s, t, u) == (((q \o r) \o s) \o t) \o u
                    FromRight(q, r, s, t, u) == q \o (r \o (s \o (t \o u)))
        <5>1. \A q, r, s, t, u \in S : FromLeft(q, r, s, t, u) = FromRight(q, r, s, t, u)
          BY RegroupFive
        <5>2. A \in S /\ B \in S /\ C \in S /\ Allocated \in S /\ E \in S
          BY <4>1, <4>2
        <5>. HIDE DEF FromLeft, FromRight, S
        <5>3. FromLeft(A, B, C, Allocated, E) = FromRight(A, B, C, Allocated, E)
          BY <5>1, <5>2
        <5>. QED BY <5>3, Zenon DEF FromLeft, FromRight
      <4>. QED BY <4>3 DEF X
    <3>. QED BY <3>6, <3>7, <3>8, <3>9
  <2>. QED BY <2>2, <2>3
<1>3. CASE c = "fill"
  BY <1>3 DEF Fill, Steps, Size, StepAt, StepNames, Fits
<1>4. CASE c = "print_ranges"
  <2>1. F(<<"Barrier">>, 1)
    BY <1>4 DEF Fits, StepAt, StepNames
  <2>2. F(<<"title">> \o <<"Barrier">>, 2)
    <3>1. "title" = StepAt(window, c, p, 2) /\ "title" \in StepNames
      BY <1>4 DEF StepAt, StepNames
    <3>. QED BY <2>1, <3>1, FitsOne
  <2>3. F(If(p = 0, <<"title">>) \o <<"Barrier">>, (IF p = 0 THEN 2 ELSE 1))
    <3>1. <<"title">> \in Seq(StepNames) /\ 1 \in Nat /\ (p = 0) \in BOOLEAN
      BY DEF StepNames
    <3>. QED BY <2>1, <2>2, <3>1, FitsIf
  <2>4. Size(window, c, p, l) = (IF p = 0 THEN 2 ELSE 1)
    BY <1>4 DEF Size
  <2>5. Steps(c, p) = If(p = 0, <<"title">>) \o <<"Barrier">>
    BY <1>4 DEF Steps, PrintRanges
  <2>. QED BY <2>3, <2>4, <2>5
<1>5. CASE c = "wlock"
  <2>1. Steps(c, p) = If(~iswinlocked_[p], <<"Win_lock_all">>)
    BY <1>5 DEF Steps
  <2>2. Size(window, c, p, l) = 1 - l /\ 1 - l \in {0, 1} /\ (~iswinlocked_[p] <=> 1 - l = 1)
    BY <1>5 DEF Size
  <2>3. "Win_lock_all" \in StepNames /\ "Win_lock_all" = StepAt(window, c, p, 1) /\ (~iswinlocked_[p]) \in BOOLEAN
    BY <1>5 DEF StepAt, StepNames
  <2>. QED BY <2>1, <2>2, <2>3, FitsOnly
<1>6. CASE c = "wunlock"
  <2>1. Steps(c, p) = If(iswinlocked_[p], <<"Win_unlock_all">>)
    BY <1>6 DEF Steps
  <2>2. Size(window, c, p, l) = l
    BY <1>6 DEF Size
  <2>3. "Win_unlock_all" \in StepNames /\ "Win_unlock_all" = StepAt(window, c, p, 1)
    BY <1>6 DEF StepAt, StepNames
  <2>. QED BY <2>1, <2>2, <2>3, FitsOnly
<1>7. CASE c = "wfree"
  <2>. DEFINE A == If(iswinlocked_[p], <<"Win_unlock_all", "Win_free">>)
              B == If(window.same_size_info, <<"Info_free">>)
              C == If(global, <<"Barrier">>)
  <2>1. {"Win_unlock_all", "Win_free", "Info_free", "Barrier"} \subseteq StepNames /\ global \in BOOLEAN
        /\ <<"Win_unlock_all", "Win_free">> \in Seq(StepNames) /\ <<"Info_free">> \in Seq(StepNames)
        /\ <<"Barrier">> \in Seq(StepNames)
    BY DEF StepNames
  <2>2. /\ g = 1 => StepAt(window, c, p, 1) = "Barrier"
        /\ i = 1 => StepAt(window, c, p, g + 1) = "Info_free"
        /\ StepAt(window, c, p, g + i + 1) = "Win_free" /\ StepAt(window, c, p, g + i + 2) = "Win_unlock_all"
    BY <1>1, <1>7 DEF StepAt
  <2>3. Size(window, c, p, l) = g + i + (IF iswinlocked_[p] THEN 2 ELSE 0) /\ (window.same_size_info => g + i = g + 1) /\ (~window.same_size_info => g + i = g)
        /\ g \in Nat /\ g + i \in Nat
    BY <1>1, <1>7 DEF Size
  <2>4. Steps(c, p) = (A \o B) \o C
    BY <1>7 DEF Steps, WFree
  <2>. HIDE DEF g, i, global
  <2>5. F(C, g)
    BY <1>1, <2>1, <2>2, FitsOnly
  <2>6. F(B \o C, g + i)
    <3>1. window.same_size_info => F(<<"Info_free">> \o C, g + i)
      BY <1>1, <2>1, <2>2, <2>3, <2>5, FitsOne
    <3>. QED BY <1>1, <2>1, <2>3, <2>5, <3>1, FitsIf
  <2>7. F(A \o (B \o C), g + i + (IF iswinlocked_[p] THEN 2 ELSE 0))
    <3>. DEFINE X == B \o C
    <3>. HIDE DEF X
    <3>1. F(<<"Win_unlock_all", "Win_free">> \o X, g + i + 2)
      BY <2>1, <2>2, <2>3, <2>6, FitsTwo DEF X
    <3>. DEFINE m == g + i + (IF iswinlocked_[p] THEN 2 ELSE 0)
    <3>2. F(X, g + i) /\ IF iswinlocked_[p] THEN F(<<"Win_unlock_all", "Win_free">> \o X, m) ELSE m = g + i
      BY <2>3, <2>6, <3>1 DEF X
    <3>3. F(A \o X, m)
      <4>. HIDE DEF m
      <4>. QED BY <2>1, <2>3, <3>2, FitsIf DEF A
    <3>. QED BY <3>3 DEF X
  <2>8. (A \o B) \o C = A \o (B \o C)
    <3>1. A \in Seq(StepNames) /\ B \in Seq(StepNames) /\ C \in Seq(StepNames)
      BY <1>1, <2>1, IfSteps
    <3>. HIDE DEF A, B, C
    <3>. QED BY <3>1, Regroup
  <2>. QED BY <2>3, <2>4, <2>7, <2>8
<1>. QED
  BY <1>2, <1>3, <1>4, <1>5, <1>6, <1>7 DEF CallNames

\* What print does for process i - 1, a barrier at least and the part it writes, in
\* process p: two or three steps after the barriers of those before are the parts it writes.
Barriers(i) == IF window.ndims = 2 THEN i ELSE 2 * i
Part(p, i) ==
  <<"Barrier">> \o If(p = i - 1, <<"dims", "rows">>) \o If(window.ndims # 2 \/ p = i - 1, <<"Barrier">>)
Upto(p, i) == Barriers(i) + (IF p < i THEN 4 - Barriers(1) ELSE 0)
Nth(p, j) == IF j = Barriers(p) + 2 THEN "dims" ELSE IF j = Barriers(p) + 3 THEN "rows" ELSE "Barrier"

\* The concatenations a part is made of.
LEMMA ShortConcat ==
  ASSUME NEW S, NEW u \in S, NEW x \in S, NEW y \in S, NEW z \in S
  PROVE  /\ <<u>> \o <<z>> = <<u, z>>
         /\ <<u>> \o <<x, y>> = <<u, x, y>>
         /\ <<u, x, y>> \o <<z>> = <<u, x, y, z>>
<1>1. /\ <<u>> \in Seq(S) /\ <<z>> \in Seq(S) /\ <<x, y>> \in Seq(S) /\ <<u, z>> \in Seq(S)
      /\ <<u, x, y>> \in Seq(S) /\ <<u, x, y, z>> \in Seq(S)
  OBVIOUS
<1>2. <<u>> \o <<z>> = <<u, z>>
  <2>. DEFINE s == <<u>>  t == <<z>>  v == <<u, z>>
  <2>1. Len(s) = 1 /\ Len(t) = 1 /\ Len(v) = 2 /\ v[1] = s[1] /\ v[2] = t[1]
    OBVIOUS
  <2>2. s \in Seq(S) /\ t \in Seq(S) /\ v \in Seq(S)
    BY <1>1
  <2>. HIDE DEF s, t, v
  <2>3. s \o t \in Seq(S) /\ Len(s \o t) = 2 /\ (s \o t)[1] = v[1] /\ (s \o t)[2] = v[2]
    BY <2>1, <2>2, ConcatProperties
  <2>4. s \o t = v
    BY <2>1, <2>2, <2>3, SeqEqual
  <2>. QED BY <2>4 DEF s, t, v
<1>3. <<u>> \o <<x, y>> = <<u, x, y>>
  <2>. DEFINE s == <<u>>  t == <<x, y>>  v == <<u, x, y>>
  <2>1. Len(s) = 1 /\ Len(t) = 2 /\ Len(v) = 3 /\ v[1] = s[1] /\ v[2] = t[1] /\ v[3] = t[2]
    OBVIOUS
  <2>2. s \in Seq(S) /\ t \in Seq(S) /\ v \in Seq(S)
    BY <1>1
  <2>. HIDE DEF s, t, v
  <2>3. s \o t \in Seq(S) /\ Len(s \o t) = 3 /\ (s \o t)[1] = v[1] /\ (s \o t)[2] = v[2] /\ (s \o t)[3] = v[3]
    <3>1. /\ s \o t \in Seq(S) /\ Len(s \o t) = Len(s) + Len(t)
          /\ \A i \in 1 .. Len(s) + Len(t) : (s \o t)[i] = IF i <= Len(s) THEN s[i] ELSE t[i - Len(s)]
      BY <2>2, ConcatProperties
    <3>. QED BY <2>1, <3>1
  <2>4. s \o t = v
    BY <2>1, <2>2, <2>3, SeqEqual
  <2>. QED BY <2>4 DEF s, t, v
<1>4. <<u, x, y>> \o <<z>> = <<u, x, y, z>>
  <2>. DEFINE s == <<u, x, y>>  t == <<z>>  v == <<u, x, y, z>>
  <2>1. Len(s) = 3 /\ Len(t) = 1 /\ Len(v) = 4 /\ v[1] = s[1] /\ v[2] = s[2] /\ v[3] = s[3] /\ v[4] = t[1]
    OBVIOUS
  <2>2. s \in Seq(S) /\ t \in Seq(S) /\ v \in Seq(S)
    BY <1>1
  <2>. HIDE DEF s, t, v
  <2>3. s \o t \in Seq(S) /\ Len(s \o t) = 4 /\ (s \o t)[1] = v[1] /\ (s \o t)[2] = v[2]
        /\ (s \o t)[3] = v[3] /\ (s \o t)[4] = v[4]
    <3>1. /\ s \o t \in Seq(S) /\ Len(s \o t) = Len(s) + Len(t)
          /\ \A i \in 1 .. Len(s) + Len(t) : (s \o t)[i] = IF i <= Len(s) THEN s[i] ELSE t[i - Len(s)]
      BY <2>2, ConcatProperties
    <3>. QED BY <2>1, <3>1
  <2>4. s \o t = v
    BY <2>1, <2>2, <2>3, SeqEqual
  <2>. QED BY <2>4 DEF s, t, v
<1>. QED
  BY <1>2, <1>3, <1>4

\* A part has as many steps as it should, each the one it should be.
LEMMA PartIs ==
  ASSUME NEW p \in Procs, NEW i \in 1 .. commSize, window \in WindowsOf
  PROVE  /\ Part(p, i) \in Seq(StepNames) /\ Upto(p, i) = Upto(p, i - 1) + Len(Part(p, i))
         /\ \A j \in 1 .. Len(Part(p, i)) : Part(p, i)[j] = Nth(p, Upto(p, i - 1) + j)
<1>. p \in Nat /\ i \in Nat /\ window.ndims \in Nat
  BY SizeAssumption, WindowAssumption DEF Procs
<1>0. {"Barrier", "dims", "rows"} \subseteq StepNames
  BY DEF StepNames
<1>1. CASE p = i - 1
  <2>1. Part(p, i) = <<"Barrier">> \o <<"dims", "rows">> \o <<"Barrier">>
    BY <1>1 DEF Part, If
  <2>2. /\ <<"Barrier">> \o <<"dims", "rows">> = <<"Barrier", "dims", "rows">>
        /\ <<"Barrier", "dims", "rows">> \o <<"Barrier">> = <<"Barrier", "dims", "rows", "Barrier">>
    BY <1>0, ShortConcat
  <2>3. Part(p, i) = <<"Barrier", "dims", "rows", "Barrier">>
    BY <2>1, <2>2
  <2>4. Part(p, i) \in Seq(StepNames) /\ Len(Part(p, i)) = 4
        /\ Part(p, i)[1] = "Barrier" /\ Part(p, i)[2] = "dims" /\ Part(p, i)[3] = "rows" /\ Part(p, i)[4] = "Barrier"
    BY <1>0, <2>3
  <2>5. Upto(p, i - 1) = Barriers(p) /\ Upto(p, i) = Barriers(p) + 4 /\ Barriers(p) \in Nat
    BY <1>1 DEF Upto, Barriers
  <2>. QED BY <2>4, <2>5 DEF Nth
<1>2. CASE p # i - 1 /\ window.ndims = 2
  <2>1. Part(p, i) = <<"Barrier">> \o <<>> \o <<>>
    BY <1>2 DEF Part, If
  <2>2. <<"Barrier">> \o <<>> \o <<>> = <<"Barrier">>
    OBVIOUS
  <2>3. Part(p, i) \in Seq(StepNames) /\ Len(Part(p, i)) = 1 /\ Part(p, i)[1] = "Barrier"
    BY <1>0, <2>1, <2>2
  <2>4. Upto(p, i) = Upto(p, i - 1) + 1 /\ Upto(p, i - 1) + 1 # Barriers(p) + 2 /\ Upto(p, i - 1) + 1 # Barriers(p) + 3
    BY <1>2 DEF Upto, Barriers
  <2>. QED BY <2>3, <2>4 DEF Nth
<1>3. CASE p # i - 1 /\ window.ndims # 2
  <2>1. Part(p, i) = <<"Barrier">> \o <<>> \o <<"Barrier">>
    BY <1>3 DEF Part, If
  <2>2. <<"Barrier">> \o <<>> = <<"Barrier">> /\ <<"Barrier">> \o <<"Barrier">> = <<"Barrier", "Barrier">>
    <3>1. <<"Barrier">> \in Seq(StepNames)
      BY <1>0
    <3>. QED BY <1>0, <3>1, ShortConcat, ConcatEmptySeq
  <2>3. Part(p, i) \in Seq(StepNames) /\ Len(Part(p, i)) = 2 /\ Part(p, i)[1] = "Barrier" /\ Part(p, i)[2] = "Barrier"
    BY <1>0, <2>1, <2>2
  <2>4. Upto(p, i) = Upto(p, i - 1) + 2
        /\ \A j \in 1 .. 2 : Upto(p, i - 1) + j # Barriers(p) + 2 /\ Upto(p, i - 1) + j # Barriers(p) + 3
    BY <1>3 DEF Upto, Barriers
  <2>. QED BY <2>3, <2>4 DEF Nth
<1>. QED
  BY <1>1, <1>2, <1>3

\* All of them.
LEMMA PartsAre ==
  ASSUME NEW p \in Procs, window \in WindowsOf
  PROVE  FlattenSeq([i \in 1 .. commSize |-> Part(p, i)]) = [j \in 1 .. Upto(p, commSize) |-> Nth(p, j)]
<1>. DEFINE seqs == [i \in 1 .. commSize |-> Part(p, i)]
            g == [i \in 1 .. commSize |-> [j \in 1 .. Upto(p, i) |-> Nth(p, j)]]
<1>1. p \in Nat /\ commSize \in Nat \ {0} /\ window.ndims \in Nat
  BY SizeAssumption, WindowAssumption DEF Procs
<1>2. ASSUME NEW i \in 0 .. commSize
      PROVE  /\ [j \in 1 .. Upto(p, i) |-> Nth(p, j)] \in Seq(StepNames)
             /\ Len([j \in 1 .. Upto(p, i) |-> Nth(p, j)]) = Upto(p, i)
             /\ Upto(p, i) \in Nat
  <2>1. Upto(p, i) \in Nat
    BY <1>1 DEF Upto, Barriers
  <2>2. \A j : Nth(p, j) \in StepNames
    BY DEF Nth, StepNames
  <2>. QED BY <2>1, <2>2
<1>3. seqs \in [1 .. commSize -> Seq(StepNames)]
  BY PartIs
<1>4. g \in [1 .. commSize -> Seq(StepNames)]
  <2>1. \A i \in 1 .. commSize : i \in 0 .. commSize
    OBVIOUS
  <2>. QED BY <1>2, <2>1
<1>5. Upto(p, 0) = 0
  BY <1>1 DEF Upto, Barriers
<1>6. g[1] = seqs[1]
  <2>1. g[1] = [j \in 1 .. Upto(p, 1) |-> Nth(p, j)] /\ seqs[1] = Part(p, 1) /\ 1 \in 1 .. commSize /\ 1 \in 0 .. commSize
    BY <1>1
  <2>2. Part(p, 1) \in Seq(StepNames) /\ Upto(p, 1) = Len(Part(p, 1)) /\ Len(Part(p, 1)) \in Nat
        /\ \A j \in 1 .. Len(Part(p, 1)) : Part(p, 1)[j] = Nth(p, j)
    BY <1>5, <2>1, PartIs, 1 - 1 = 0
  <2>. QED BY <1>2, <2>1, <2>2, SeqEqual
<1>7. ASSUME NEW i \in 2 .. commSize PROVE g[i] = g[i-1] \o seqs[i]
  <2>. DEFINE a == [j \in 1 .. Upto(p, i - 1) |-> Nth(p, j)]
              b == Part(p, i)
              d == [j \in 1 .. Upto(p, i) |-> Nth(p, j)]
  <2>1. i \in 1 .. commSize /\ i - 1 \in 1 .. commSize /\ i - 1 \in 0 .. commSize /\ i \in 0 .. commSize
    BY <1>1
  <2>2. g[i] = d /\ g[i-1] = a /\ seqs[i] = b
    BY <2>1
  <2>3. /\ a \in Seq(StepNames) /\ Len(a) = Upto(p, i - 1) /\ Upto(p, i - 1) \in Nat
        /\ d \in Seq(StepNames) /\ Len(d) = Upto(p, i) /\ Upto(p, i) \in Nat
    BY <1>2, <2>1
  <2>4. b \in Seq(StepNames) /\ Len(b) \in Nat /\ Upto(p, i) = Upto(p, i - 1) + Len(b)
        /\ \A j \in 1 .. Len(b) : b[j] = Nth(p, Upto(p, i - 1) + j)
    BY <2>1, PartIs
  <2>5. /\ \A j \in 1 .. Upto(p, i - 1) : a[j] = Nth(p, j)
        /\ \A j \in 1 .. Upto(p, i) : d[j] = Nth(p, j)
    OBVIOUS
  <2>. HIDE DEF a, b, d
  <2>6. /\ a \o b \in Seq(StepNames) /\ Len(a \o b) = Len(a) + Len(b)
        /\ \A j \in 1 .. Len(a) + Len(b) : (a \o b)[j] = IF j <= Len(a) THEN a[j] ELSE b[j - Len(a)]
    BY <2>3, <2>4, ConcatProperties
  <2>7. ASSUME NEW j \in 1 .. Len(d) PROVE d[j] = (a \o b)[j]
    <3>1. j \in 1 .. Len(a) + Len(b) /\ d[j] = Nth(p, j)
      BY <2>3, <2>4, <2>5
    <3>2. CASE j <= Len(a)
      BY <2>3, <2>5, <2>6, <3>1, <3>2
    <3>3. CASE ~(j <= Len(a))
      <4>1. j - Len(a) \in 1 .. Len(b) /\ Upto(p, i - 1) + (j - Len(a)) = j
        BY <2>3, <2>4, <3>1, <3>3
      <4>2. b[j - Len(a)] = Nth(p, j)
        BY <2>4, <4>1
      <4>. QED BY <2>6, <3>1, <3>3, <4>2
    <3>. QED BY <3>2, <3>3
  <2>8. d = a \o b
    BY <2>3, <2>4, <2>6, <2>7, SeqEqual
  <2>. QED BY <2>2, <2>8
<1>8. g[commSize] = [j \in 1 .. Upto(p, commSize) |-> Nth(p, j)]
  BY <1>1
<1>. HIDE DEF g, seqs
<1>9. FlattenSeq(seqs) = g[commSize]
  BY <1>1, <1>3, <1>4, <1>6, <1>7, FlattenLoop
<1>. QED
  BY <1>8, <1>9 DEF seqs

\* print is its barrier, its title and these parts.
LEMMA PrintSteps ==
  ASSUME NEW p \in Procs, window \in WindowsOf, NEW l \in {0, 1}
  PROVE  Fits(PrintOf(p), window, "print", p, Size(window, "print", p, l))
<1>. DEFINE F(s, n) == Fits(s, window, "print", p, n)
            flat == FlattenSeq([i \in 1 .. commSize |-> Part(p, i)])
            n == Upto(p, commSize)
<1>1. p \in Nat /\ p < commSize /\ commSize \in Nat \ {0} /\ window.ndims \in Nat
  BY SizeAssumption, WindowAssumption DEF Procs
<1>2. n \in Nat /\ n = After(window, 0) + 4
  BY <1>1 DEF Upto, Barriers, After
<1>3. PrintOf(p) = (<<"Barrier">> \o If(p = 0, <<"title">>)) \o flat
  BY DEF PrintOf, Part
<1>4. flat = [j \in 1 .. n |-> Nth(p, j)]
  BY PartsAre
<1>5. F(flat, n)
  <2>1. \A j : Nth(p, j) \in StepNames
    BY DEF Nth, StepNames
  <2>2. flat \in Seq(StepNames) /\ Len(flat) = n /\ \A j \in 1 .. n : flat[j] = Nth(p, j)
    <3>. HIDE DEF flat, n
    <3>. QED BY <1>2, <1>4, <2>1
  <2>3. ASSUME NEW j \in 1 .. n PROVE Nth(p, j) = StepAt(window, "print", p, n - j + 1)
    <3>1. /\ n - j + 1 = After(window, p) + 2 <=> j = Barriers(p) + 3
          /\ n - j + 1 = After(window, p) + 3 <=> j = Barriers(p) + 2
          /\ n - j + 1 # After(window, 0) + 5
      BY <1>1, <1>2 DEF After, Barriers, Upto
    <3>. HIDE DEF n
    <3>2. Nth(p, j) = IF n - j + 1 = After(window, p) + 3 THEN "dims"
                      ELSE IF n - j + 1 = After(window, p) + 2 THEN "rows" ELSE "Barrier"
      BY <3>1 DEF Nth
    <3>3. After(window, p) \in Nat
      BY <1>1 DEF After
    <3>. QED BY <1>2, <3>1, <3>2, <3>3 DEF StepAt
  <2>. HIDE DEF flat, n
  <2>. QED BY <2>2, <2>3 DEF Fits
<1>. HIDE DEF flat, n
<1>. DEFINE m == IF p = 0 THEN n + 1 ELSE n
<1>6. F(If(p = 0, <<"title">>) \o flat, m)
  <2>1. ASSUME p = 0 PROVE F(<<"title">> \o flat, n + 1)
    <3>1. n + 1 = After(window, 0) + 5 /\ After(window, 0) \in Nat
      BY <1>1, <1>2 DEF After
    <3>2. "title" = StepAt(window, "print", p, n + 1) /\ "title" \in StepNames
      BY <2>1, <3>1 DEF StepAt, StepNames
    <3>. QED BY <1>2, <1>5, <3>2, FitsOne
  <2>2. IF p = 0 THEN F(<<"title">> \o flat, m) ELSE m = n
    BY <2>1
  <2>3. <<"title">> \in Seq(StepNames) /\ (p = 0) \in BOOLEAN
    BY DEF StepNames
  <2>. HIDE DEF m
  <2>. QED BY <1>2, <1>5, <2>2, <2>3, FitsIf
<1>7. F(<<"Barrier">> \o (If(p = 0, <<"title">>) \o flat), m + 1)
  <2>1. m \in Nat /\ m + 1 = After(window, 0) + (IF p = 0 THEN 6 ELSE 5)
        /\ After(window, 0) \in Nat /\ After(window, p) <= After(window, 0) /\ After(window, p) \in Nat
    BY <1>1, <1>2 DEF After
  <2>2. "Barrier" = StepAt(window, "print", p, m + 1) /\ "Barrier" \in StepNames
    <3>. HIDE DEF m
    <3>. QED BY <2>1 DEF StepAt, StepNames
  <2>. HIDE DEF m
  <2>. QED BY <1>6, <2>1, <2>2, FitsOne
<1>8. m + 1 = Size(window, "print", p, l)
  BY <1>1, <1>2 DEF Size, After
<1>9. (<<"Barrier">> \o If(p = 0, <<"title">>)) \o flat = <<"Barrier">> \o (If(p = 0, <<"title">>) \o flat)
  <2>1. <<"Barrier">> \in Seq(StepNames) /\ <<"title">> \in Seq(StepNames) /\ (p = 0) \in BOOLEAN
    BY DEF StepNames
  <2>2. flat \in Seq(StepNames)
    BY <1>5 DEF Fits
  <2>. QED BY <2>1, <2>2, IfSteps, Regroup
<1>. QED
  BY <1>3, <1>7, <1>8, <1>9

\* The steps of every call.
LEMMA StepsAre ==
  ASSUME NEW p \in Procs, NEW c \in CallNames, window \in WindowsOf,
         NEW l \in {0, 1}, iswinlocked_[p] \in BOOLEAN, l = 1 <=> iswinlocked_[p]
  PROVE  Fits(Steps(c, p), window, c, p, Size(window, c, p, l))
<1>1. CASE c = "print"
  <2>1. Steps(c, p) = PrintOf(p)
    BY <1>1 DEF Steps
  <2>. QED BY <1>1, <2>1, PrintSteps
<1>2. CASE c # "print"
  BY <1>2, FewSteps
<1>. QED
  BY <1>1, <1>2

-----------------------------------------------------------------------------
(***************************************************************************)
(* The calls of the program and the step a process is at.                  *)
(***************************************************************************)

\* The lock after a call follows from the call and the lock before it.
LEMMA LockedCalls ==
  ASSUME NEW s \in Seq(CallNames)
  PROVE  /\ \A i \in Nat : Locked(s, i) \in {0, 1}
         /\ Locked(s, 0) = 0
         /\ \A i \in 1 .. Len(s) : Locked(s, i) = 1 <=>
              (s[i] \in {"Window", "wlock"} \/ (s[i] \notin {"wunlock", "wfree"} /\ Locked(s, i - 1) = 1))
<1>1. (\A i \in Nat : Locked(s, i) \in {0, 1}) /\ Locked(s, 0) = 0
  BY DEF Locked
<1>2. ASSUME NEW i \in 1 .. Len(s)
      PROVE  Locked(s, i) = 1 <=>
               (s[i] \in {"Window", "wlock"} \/ (s[i] \notin {"wunlock", "wfree"} /\ Locked(s, i - 1) = 1))
  <2>. DEFINE On(j, k) == s[j] \in {"Window", "wlock"} /\ \A h \in j + 1 .. k : s[h] \notin {"wunlock", "wfree"}
  <2>0. i \in Nat /\ i - 1 \in Nat
    OBVIOUS
  <2>1. Locked(s, i) = 1 <=> \E j \in 1 .. i : On(j, i)
    BY DEF Locked
  <2>2. Locked(s, i - 1) = 1 <=> \E j \in 1 .. i - 1 : On(j, i - 1)
    BY DEF Locked
  <2>3. s[i] \in {"Window", "wlock"} => On(i, i)
    BY <2>0
  <2>4. ASSUME NEW j \in 1 .. i - 1 PROVE On(j, i) <=> On(j, i - 1) /\ s[i] \notin {"wunlock", "wfree"}
    <3>1. i \in j + 1 .. i /\ j + 1 .. i = (j + 1 .. i - 1) \cup {i}
      BY <2>0
    <3>. QED BY <3>1
  <2>5. On(i, i) => s[i] \in {"Window", "wlock"}
    OBVIOUS
  <2>. HIDE DEF On
  <2>6. i \in 1 .. i /\ \A j : j \in 1 .. i <=> j \in 1 .. i - 1 \/ j = i
    BY <2>0
  <2>. QED BY <2>1, <2>2, <2>3, <2>4, <2>5, <2>6
<1>. QED
  BY <1>1, <1>2

\* Calls made later do not matter.
LEMMA LockedAppend ==
  ASSUME NEW s \in Seq(CallNames), NEW c \in CallNames, NEW i \in 0 .. Len(s)
  PROVE  Locked(Append(s, c), i) = Locked(s, i)
<1>1. \A j \in 1 .. i : Append(s, c)[j] = s[j]
  BY AppendProperties
<1>2. \A j \in 1 .. i : \A k \in j + 1 .. i : k \in 1 .. i
  OBVIOUS
<1>. QED
  BY <1>1, <1>2 DEF Locked

\* Numbers are numbers.
LEMMA Known ==
  ASSUME NEW b, Inv(b)
  PROVE  /\ window \in WindowsOf /\ Closing(window) \in {0, 1} /\ Info(window) \in {0, 1}
         /\ Len(calls) \in Nat /\ Len(collected) \in Nat /\ joined \in [Procs -> Nat] /\ pending \subseteq Puts
         /\ out \in Seq(Lines) /\ memory \in [Procs -> Marks]
         /\ \A i \in 0 .. Len(calls) : b[i] \in Nat
         /\ \A i \in 1 .. Len(calls) : calls[i] \in CallNames /\ b[i] \in Nat
         /\ \A p \in Procs : done[p] \in Nat /\ done[p] <= Len(calls) /\ Len(todo[p]) \in Nat
                              /\ b[done[p]] \in Nat
<1>1. window \in WindowsOf /\ Len(calls) \in Nat /\ Len(collected) \in Nat /\ joined \in [Procs -> Nat]
      /\ pending \subseteq Puts /\ out \in Seq(Lines) /\ memory \in [Procs -> Marks]
  BY DEF Inv, Types
<1>2. Closing(window) \in {0, 1} /\ Info(window) \in {0, 1}
  BY <1>1, WindowParts
<1>3. \A p \in Procs : done[p] \in Nat /\ done[p] <= Len(calls) /\ Len(todo[p]) \in Nat
  BY DEF Inv, Types
<1>4. b \in [0 .. Len(calls) -> Nat]
  BY DEF Inv, Counts
<1>5. \A i \in 1 .. Len(calls) : calls[i] \in CallNames
  BY DEF Inv, Types
<1>6. (\A i \in 0 .. Len(calls) : b[i] \in Nat) /\ (\A i \in 1 .. Len(calls) : b[i] \in Nat)
  BY <1>4
<1>7. \A p \in Procs : b[done[p]] \in Nat
  BY <1>1, <1>3, <1>6
<1>. QED
  BY <1>1, <1>2, <1>3, <1>5, <1>6, <1>7

\* What is counted are natural numbers.
LEMMA TurnTypes ==
  ASSUME NEW w \in WindowsOf, NEW r \in Procs, NEW c, NEW s
  PROVE  Turn(w, c, s, r) \in Nat /\ Spot(w, c, s, r) \in Nat
<1>1. After(w, r) \in Nat /\ After(w, 0) \in Nat
  BY WindowParts, SizeAssumption DEF Procs
<1>. QED
  BY <1>1 DEF Turn, Spot

LEMMA TotalType ==
  ASSUME NEW w \in WindowsOf, NEW c \in CallNames, NEW l \in {0, 1}
  PROVE  Total(w, c, l) \in Nat
<1>1. After(w, 0) \in Nat /\ Closing(w) \in {0, 1}
  BY WindowParts, SizeAssumption DEF Procs
<1>. QED
  BY <1>1 DEF Total, CallNames

\* The call a process is in.
LEMMA InCall ==
  ASSUME NEW b, Inv(b), NEW p \in Procs, done[p] # 0
  PROVE  /\ done[p] \in 1 .. Len(calls) /\ done[p] - 1 \in 0 .. Len(calls) /\ Len(calls) \in Nat
         /\ calls[done[p]] \in CallNames /\ Locked(calls, done[p] - 1) \in {0, 1}
         /\ Len(todo[p]) \in Nat /\ Len(todo[p]) <= Size(window, calls[done[p]], p, Locked(calls, done[p] - 1))
         /\ Behind(p) \in Nat /\ Behind(p) <= Total(window, calls[done[p]], Locked(calls, done[p] - 1))
         /\ b[done[p]] = b[done[p] - 1] + Total(window, calls[done[p]], Locked(calls, done[p] - 1))
         /\ b[done[p]] \in Nat /\ b[done[p] - 1] \in Nat
<1>1. done[p] \in 1 .. Len(calls) /\ done[p] - 1 \in 0 .. Len(calls) /\ Len(calls) \in Nat /\ done[p] - 1 \in Nat
      /\ done[p] \in 0 .. Len(calls)
  BY DEF Inv, Types
<1>2. calls[done[p]] \in CallNames /\ Locked(calls, done[p] - 1) \in {0, 1} /\ window \in WindowsOf
  BY <1>1, LockedCalls DEF Inv, Types
<1>3. Len(todo[p]) \in Nat /\ Len(todo[p]) <= Size(window, calls[done[p]], p, Locked(calls, done[p] - 1))
  BY DEF Inv, Types, Going
<1>4. Behind(p) \in Nat /\ Behind(p) <= Total(window, calls[done[p]], Locked(calls, done[p] - 1))
  BY <1>2, <1>3, RestBounds DEF Behind
<1>5. b[done[p]] = b[done[p] - 1] + Total(window, calls[done[p]], Locked(calls, done[p] - 1))
      /\ b[done[p]] \in Nat /\ b[done[p] - 1] \in Nat
  BY <1>1 DEF Inv, Counts
<1>. QED
  BY <1>1, <1>2, <1>3, <1>4, <1>5

\* The step it is at.
LEMMA AtStep ==
  ASSUME NEW b, Inv(b), NEW p \in Procs, todo[p] # <<>>
  PROVE  /\ done[p] # 0 /\ Len(todo[p]) \in Nat \ {0}
         /\ Head(todo[p]) = StepAt(window, calls[done[p]], p, Len(todo[p]))
         /\ Tail(todo[p]) \in Seq(StepNames) /\ Len(Tail(todo[p])) = Len(todo[p]) - 1
         /\ \A j \in 1 .. Len(Tail(todo[p])) :
              Tail(todo[p])[j] = StepAt(window, calls[done[p]], p, Len(Tail(todo[p])) - j + 1)
         /\ Behind(p) = Rest(window, calls[done[p]], p, Len(todo[p]) - 1) + (IF Head(todo[p]) \in Waiting THEN 1 ELSE 0)
         /\ Rest(window, calls[done[p]], p, Len(todo[p]) - 1) \in Nat
         /\ Head(todo[p]) \in Waiting => Name(window, calls[done[p]], Behind(p)) = Head(todo[p])
<1>. DEFINE t == todo[p]  m == Len(todo[p])  c == calls[done[p]]  l == Locked(calls, done[p] - 1)
<1>1. done[p] # 0
  BY DEF Inv, Going
<1>2. /\ c \in CallNames /\ l \in {0, 1} /\ window \in WindowsOf
      /\ m \in Nat /\ m <= Size(window, c, p, l)
  BY <1>1, InCall DEF Inv, Types
<1>3. t \in Seq(StepNames) /\ \A j \in 1 .. m : t[j] = StepAt(window, c, p, m - j + 1)
  BY DEF Inv, Types, Going
<1>4. m # 0
  BY <1>3, EmptySeq
<1>5. Head(t) = t[1] /\ Tail(t) \in Seq(StepNames) /\ Len(Tail(t)) = m - 1
      /\ \A j \in 1 .. Len(Tail(t)) : Tail(t)[j] = t[j + 1]
  BY <1>3, <1>4, HeadTailProperties
<1>. HIDE DEF t, m, c, l
<1>6. Head(t) = StepAt(window, c, p, m)
  <2>1. 1 \in 1 .. m /\ m - 1 + 1 = m
    BY <1>2, <1>4
  <2>. QED BY <1>3, <1>5, <2>1
<1>7. \A j \in 1 .. Len(Tail(t)) : Tail(t)[j] = StepAt(window, c, p, Len(Tail(t)) - j + 1)
  <2>. TAKE j \in 1 .. Len(Tail(t))
  <2>1. j + 1 \in 1 .. m /\ m - (j + 1) + 1 = Len(Tail(t)) - j + 1
    BY <1>2, <1>4, <1>5
  <2>2. t[j + 1] = StepAt(window, c, p, m - (j + 1) + 1)
    BY <1>3, <2>1
  <2>. QED BY <1>5, <2>1, <2>2
<1>8. /\ Rest(window, c, p, m) = Rest(window, c, p, m - 1) + (IF Head(t) \in Waiting THEN 1 ELSE 0)
      /\ Head(t) \in Waiting => Name(window, c, Rest(window, c, p, m)) = Head(t)
  BY <1>2, <1>4, <1>6, StepCounts
<1>9. Rest(window, c, p, m - 1) \in Nat
  <2>1. m - 1 \in Nat /\ m - 1 <= Size(window, c, p, l)
    <3>1. Size(window, c, p, l) \in Nat
      BY <1>2, RestBounds
    <3>. QED BY <1>2, <1>4, <3>1
  <2>. QED BY <1>2, <2>1, RestBounds
<1>. QED
  BY <1>1, <1>2, <1>4, <1>5, <1>6, <1>7, <1>8, <1>9 DEF t, m, c, l, Behind

-----------------------------------------------------------------------------
(***************************************************************************)
(* What the steps of the processes keep.                                   *)
(***************************************************************************)

\* A process that goes past a step, whatever the step does to memory and output.
LEMMA PastKeeps ==
  ASSUME NEW b, Inv(b), NEW p \in Procs, todo[p] # <<>>, Past(p),
         UNCHANGED <<window, calls, done, joined, collected>>,
         \/ inside[p] /\ inside' = [inside EXCEPT ![p] = FALSE] /\ \A q \in Procs : joined[q] >= joined[p]
         \/ ~inside[p] /\ inside' = inside /\ Head(todo[p]) \notin Waiting,
         iswinlocked_' \in [Procs -> BOOLEAN],
         \A q \in Procs \ {p} : iswinlocked_'[q] <=> iswinlocked_[q],
         iswinlocked_'[p] <=> Holds(window, calls[done[p]], Len(todo[p]) - 1, Locked(calls, done[p] - 1))
  PROVE  /\ todo' \in [Procs -> Seq(StepNames)] /\ inside' \in [Procs -> BOOLEAN]
         /\ Len(todo'[p]) = Len(todo[p]) - 1 /\ \A q \in Procs \ {p} : todo'[q] = todo[q]
         /\ CallOrder' /\ Counts(b)' /\ (\A q \in Procs : Going(q)') /\ Met(b)'
<1>1. todo \in [Procs -> Seq(StepNames)] /\ inside \in [Procs -> BOOLEAN] /\ joined \in [Procs -> Nat]
  BY DEF Inv, Types
<1>2. /\ done[p] # 0 /\ Len(todo[p]) \in Nat \ {0}
      /\ Tail(todo[p]) \in Seq(StepNames) /\ Len(Tail(todo[p])) = Len(todo[p]) - 1
      /\ \A j \in 1 .. Len(Tail(todo[p])) :
           Tail(todo[p])[j] = StepAt(window, calls[done[p]], p, Len(Tail(todo[p])) - j + 1)
      /\ Behind(p) = Rest(window, calls[done[p]], p, Len(todo[p]) - 1) + (IF Head(todo[p]) \in Waiting THEN 1 ELSE 0)
      /\ Rest(window, calls[done[p]], p, Len(todo[p]) - 1) \in Nat
  BY AtStep
<1>3. todo' \in [Procs -> Seq(StepNames)] /\ todo'[p] = Tail(todo[p]) /\ \A q \in Procs \ {p} : todo'[q] = todo[q]
  BY <1>1, <1>2 DEF Past
<1>4. inside' \in [Procs -> BOOLEAN] /\ ~inside'[p] /\ \A q \in Procs \ {p} : inside'[q] <=> inside[q]
  BY <1>1
<1>5. CallOrder' /\ Counts(b)'
  BY DEF Inv, CallOrder, Counts
<1>6. ASSUME NEW q \in Procs PROVE Going(q)'
  <2>1. CASE q = p
    <3>1. Len(todo[p]) <= Size(window, calls[done[p]], p, Locked(calls, done[p] - 1))
      BY <1>2 DEF Inv, Going
    <3>2. Size(window, calls[done[p]], p, Locked(calls, done[p] - 1)) \in Nat
      BY <1>2, InCall, RestBounds DEF Inv, Types
    <3>3. Len(todo'[p]) <= Size(window, calls[done[p]], p, Locked(calls, done[p] - 1))
      BY <1>2, <1>3, <3>1, <3>2
    <3>. QED BY <1>2, <1>3, <1>4, <2>1, <3>3 DEF Going
  <2>2. CASE q # p
    <3>1. Going(q)
      BY DEF Inv
    <3>2. todo'[q] = todo[q] /\ (inside'[q] <=> inside[q]) /\ (iswinlocked_'[q] <=> iswinlocked_[q])
      BY <1>3, <1>4, <2>2
    <3>. QED BY <3>1, <3>2 DEF Going
  <2>. QED BY <2>1, <2>2
<1>7. Met(b)'
  <2>1. inside[p] => Head(todo[p]) \in Waiting
    BY DEF Inv, Going
  <2>2. Left(p) = b[done[p]] - Behind(p) /\ b[done[p]] \in Nat /\ joined[p] \in Nat
    BY <1>1, <1>2, InCall DEF Inv, Met
  <2>3. Left(p)' = joined[p] /\ Behind(p)' = Rest(window, calls[done[p]], p, Len(todo[p]) - 1)
    BY <1>2, <1>3, <1>4, <2>2 DEF Left, Behind
  <2>4. Left(p)' = b[done[p]] - Behind(p)' /\ (~inside[p] => Left(p)' = Left(p))
    <3>1. PICK x, y, z : x = b[done[p]] /\ y = joined[p] /\ z = Rest(window, calls[done[p]], p, Len(todo[p]) - 1)
      OBVIOUS
    <3>2. x \in Nat /\ y \in Nat /\ z \in Nat
      BY <1>2, <2>2, <3>1
    <3>3. CASE inside[p]
      <4>1. y - 1 = x - (z + 1)
        BY <1>2, <2>1, <2>2, <3>1, <3>3 DEF Left
      <4>2. y = x - z
        BY <3>2, <4>1
      <4>. QED BY <2>3, <3>1, <3>3, <4>2
    <3>4. CASE ~inside[p]
      <4>1. Head(todo[p]) \notin Waiting
        BY <3>4
      <4>2. y - 0 = x - (z + 0) /\ Left(p) = y - 0
        BY <1>2, <2>2, <3>1, <3>4, <4>1 DEF Left
      <4>3. y = x - z /\ Left(p) = y
        BY <3>2, <4>2
      <4>. QED BY <2>3, <3>1, <4>3
    <3>. QED BY <3>3, <3>4
  <2>5. \A q \in Procs \ {p} : Left(q)' = Left(q) /\ Behind(q)' = Behind(q)
    BY <1>3, <1>4 DEF Left, Behind
  <2>6. \A q \in Procs : joined'[q] <= Len(collected') /\ Left(q)' = b[done'[q]] - Behind(q)'
    BY <2>4, <2>5 DEF Inv, Met
  <2>7. \A q, r \in Procs : Left(r)' <= joined'[q]
    <3>1. \A q, r \in Procs : Left(r) <= joined[q]
      BY DEF Inv, Met
    <3>2. \A q \in Procs : Left(p)' <= joined[q]
      BY <1>1, <2>3, <2>4, <3>1
    <3>. QED BY <2>5, <3>1, <3>2
  <2>8. \A i \in 1 .. Len(calls'), j \in 1 .. Len(collected') :
          b[i-1] < j /\ j <= b[i] => collected'[j] = <<i, Name(window', calls'[i], b[i] - j + 1)>>
    BY DEF Inv, Met
  <2>9. Len(collected') <= b[Len(calls')]
    BY DEF Inv, Met
  <2>. QED BY <2>6, <2>7, <2>8, <2>9 DEF Met
<1>. QED
  BY <1>2, <1>3, <1>4, <1>5, <1>6, <1>7

\* A line that was printed, or a put, was there when all had joined the collectives it
\* came after, and they join no fewer.
LEMMA MemoryKept ==
  ASSUME NEW b, Inv(b), UNCHANGED <<window, calls, done, memory>>, joined' \in [Procs -> Nat],
         \A q \in Procs : joined'[q] >= joined[q],
         \A q \in Procs : todo'[q] = todo[q] \/
           (todo[q] # <<>> /\ Head(todo[q]) # "Win_allocate" /\ Len(todo'[q]) = Len(todo[q]) - 1)
  PROVE  Memory(b)'
<1>1. SUFFICES ASSUME NEW q \in Procs
      PROVE /\ memory[q].by = "nobody" /\ done[q] # 0 =>
                 calls[done[q]] = "Window" /\ Len(todo'[q]) >= Closing(window) + 2
            /\ memory[q].by = "freed" =>
                 /\ done[q] = Len(calls) /\ done[q] # 0 /\ calls[done[q]] = "wfree"
                 /\ Len(todo'[q]) <= Closing(window) + Info(window)
                 /\ Locked(calls, done[q] - 1) = 1
            /\ memory[q].by = "put" =>
                 memory[q].call \in 1 .. Len(calls) /\ \A r \in Procs : b[memory[q].call] <= joined'[r]
  BY DEF Memory, Joined
<1>2. /\ memory[q].by = "nobody" /\ done[q] # 0 =>
           calls[done[q]] = "Window" /\ Len(todo[q]) >= Closing(window) + 2
      /\ memory[q].by = "freed" =>
           /\ done[q] = Len(calls) /\ done[q] # 0 /\ calls[done[q]] = "wfree"
           /\ Len(todo[q]) <= Closing(window) + Info(window)
           /\ Locked(calls, done[q] - 1) = 1
      /\ memory[q].by = "put" =>
           memory[q].call \in 1 .. Len(calls) /\ \A r \in Procs : b[memory[q].call] <= joined[r]
  BY DEF Inv, Memory, Joined
<1>3. Closing(window) \in {0, 1} /\ Info(window) \in {0, 1} /\ joined \in [Procs -> Nat]
      /\ \A i \in 1 .. Len(calls) : b[i] \in Nat
  BY Known
<1>4. memory[q].by = "put" => \A r \in Procs : b[memory[q].call] <= joined'[r]
  BY <1>2, <1>3
<1>5. CASE todo'[q] = todo[q]
  BY <1>2, <1>4, <1>5
<1>6. CASE todo[q] # <<>> /\ Head(todo[q]) # "Win_allocate" /\ Len(todo'[q]) = Len(todo[q]) - 1
  <2>1. done[q] # 0 /\ Len(todo[q]) \in Nat /\ Len(todo[q]) # 0
        /\ Head(todo[q]) = StepAt(window, calls[done[q]], q, Len(todo[q]))
    BY <1>6, AtStep
  <2>2. calls[done[q]] = "Window" => Len(todo[q]) # Closing(window) + 2
    <3>1. calls[done[q]] \in CallNames /\ Locked(calls, done[q] - 1) \in {0, 1} /\ window \in WindowsOf
          /\ Len(todo[q]) <= Size(window, calls[done[q]], q, Locked(calls, done[q] - 1))
      BY <2>1, InCall DEF Inv, Types
    <3>. QED BY <1>6, <2>1, <3>1, StepPlaces
  <2>. QED BY <1>2, <1>3, <1>4, <1>6, <2>1, <2>2
<1>. QED
  BY <1>5, <1>6

\* A put that is on its way stays one whose process holds the lock.
LEMMA PendingKept ==
  ASSUME NEW b, Inv(b), UNCHANGED <<calls, done>>, pending' \subseteq pending, joined' \in [Procs -> Nat],
         \A q \in Procs : joined'[q] >= joined[q],
         \A q \in Procs : iswinlocked_[q] => iswinlocked_'[q] \/ \A u \in pending' : u.from # q
  PROVE  Pending(b)'
<1>1. /\ pending \subseteq Puts /\ joined \in [Procs -> Nat] /\ Len(calls) \in Nat
      /\ \A q \in Procs : done[q] \in Nat /\ done[q] <= Len(calls)
      /\ \A i \in 1 .. Len(calls) : b[i] \in Nat
  BY Known
<1>2. ASSUME NEW u \in pending'
      PROVE  u.call \in 1 .. done'[u.from] /\ iswinlocked_'[u.from] /\ Joined(b[u.call])'
  <2>1. u.from \in Procs
    BY <1>1 DEF Puts
  <2>2. u.call \in 1 .. done[u.from] /\ iswinlocked_[u.from] /\ \A r \in Procs : b[u.call] <= joined[r]
    BY DEF Inv, Pending, Joined
  <2>3. u.call \in 1 .. Len(calls) /\ b[u.call] \in Nat
    BY <1>1, <2>1, <2>2
  <2>4. \A r \in Procs : b[u.call] <= joined'[r]
    BY <1>1, <2>2, <2>3
  <2>. QED BY <2>1, <2>2, <2>4 DEF Joined
<1>. QED
  BY <1>2 DEF Pending

\* What is printed keeps its place when steps are taken that print nothing.
LEMMA PrintedKept ==
  ASSUME NEW b, Inv(b), UNCHANGED <<window, calls, done, out>>, joined' \in [Procs -> Nat],
         \A q \in Procs : joined'[q] >= joined[q], \A q \in Procs : Len(todo'[q]) <= Len(todo[q]),
         todo' \in [Procs -> Seq(StepNames)]
  PROVE  Printed(b)' /\ PrintsWhole'
<1>1. PrintsWhole'
  BY DEF Inv, PrintsWhole
<1>2. /\ joined \in [Procs -> Nat] /\ out \in Seq(Lines) /\ Len(calls) \in Nat /\ window \in WindowsOf
      /\ \A i \in 1 .. Len(calls) : b[i] \in Nat
      /\ \A q \in Procs : /\ done[q] \in Nat /\ done[q] <= Len(calls) /\ Len(todo[q]) \in Nat /\ Len(todo'[q]) \in Nat
  BY Known
<1>3. ASSUME NEW i \in 1 .. Len(out), NEW o, o = out[i], NEW c, c = calls[o.call]
      PROVE  /\ o.call \in 1 .. done[o.rank] /\ c \in {"print", "print_ranges"}
             /\ (o.what = "title" \/ c = "print_ranges") => o.what = "title" /\ o.rank = 0
             /\ \A q \in Procs : b[o.call] - Turn(window, c, o.what, o.rank) <= joined'[q]
             /\ o.call = done[o.rank] => Len(todo'[o.rank]) < Spot(window, c, o.what, o.rank)
  <2>1. o \in Lines
    BY <1>2, <1>3
  <2>2. /\ o.call \in 1 .. done[o.rank] /\ c \in {"print", "print_ranges"}
        /\ (o.what = "title" \/ c = "print_ranges") => o.what = "title" /\ o.rank = 0
        /\ \A q \in Procs : b[o.call] - Turn(window, c, o.what, o.rank) <= joined[q]
        /\ o.call = done[o.rank] => Len(todo[o.rank]) < Spot(window, c, o.what, o.rank)
    BY <1>3 DEF Inv, Printed, Joined
  <2>3. o.rank \in Procs /\ o.what \in {"title", "dims", "rows"} /\ o.call \in Nat
    BY <2>1 DEF Lines
  <2>4. o.call \in 1 .. Len(calls) /\ b[o.call] \in Nat
    <3>1. done[o.rank] \in Nat /\ done[o.rank] <= Len(calls)
      BY <1>2, <2>3
    <3>2. o.call \in 1 .. Len(calls)
      BY <1>2, <2>2, <3>1
    <3>. QED BY <1>2, <3>2
  <2>5. Turn(window, c, o.what, o.rank) \in Nat /\ Spot(window, c, o.what, o.rank) \in Nat
    BY <1>2, <2>3, TurnTypes
  <2>6. \A q \in Procs : b[o.call] - Turn(window, c, o.what, o.rank) <= joined'[q]
    BY <1>2, <2>2, <2>4, <2>5
  <2>7. o.call = done[o.rank] => Len(todo'[o.rank]) < Spot(window, c, o.what, o.rank)
    BY <1>2, <2>2, <2>3, <2>5
  <2>. QED BY <2>2, <2>6, <2>7
<1>4. Printed(b)'
  BY <1>3 DEF Printed, Joined
<1>. QED
  BY <1>1, <1>4

\* Whether the window is locked when the step is past.
LEMMA LockNext ==
  ASSUME NEW b, Inv(b), NEW p \in Procs, todo[p] # <<>>,
         NEW after, after <=> Holds(window, calls[done[p]], Len(todo[p]) - 1, Locked(calls, done[p] - 1))
  PROVE  /\ Head(todo[p]) = "Win_lock_all" => after
         /\ Head(todo[p]) = "Win_unlock_all" => ~after /\ iswinlocked_[p]
         /\ Head(todo[p]) \notin {"Win_lock_all", "Win_unlock_all"} => (after <=> iswinlocked_[p])
<1>1. done[p] # 0 /\ Len(todo[p]) \in Nat \ {0} /\ Head(todo[p]) = StepAt(window, calls[done[p]], p, Len(todo[p]))
  BY AtStep
<1>2. /\ calls[done[p]] \in CallNames /\ Locked(calls, done[p] - 1) \in {0, 1} /\ window \in WindowsOf
      /\ Len(todo[p]) <= Size(window, calls[done[p]], p, Locked(calls, done[p] - 1))
  BY <1>1, InCall, Known
<1>3. iswinlocked_[p] <=> Holds(window, calls[done[p]], Len(todo[p]), Locked(calls, done[p] - 1))
  BY <1>1 DEF Inv, Going
<1>. QED
  BY <1>1, <1>2, <1>3, StepHolds

\* A step that changes neither memory nor output.
LEMMA QuietStep ==
  ASSUME NEW b, Inv(b), NEW p \in Procs, Cart(p) \/ InfoFree(p) \/ WinLockAll(p) \/ WinUnlockAll(p)
  PROVE  Inv(b)'
<1>1. todo[p] # <<>> /\ ~inside[p] /\ inside' = inside /\ Past(p)
      /\ UNCHANGED <<window, calls, done, joined, collected, memory, pending, puts, out>>
      /\ Head(todo[p]) \notin Waiting /\ Head(todo[p]) # "Win_allocate" /\ failed' \in BOOLEAN
  <2>1. failed' \in BOOLEAN
    <3>1. failed \in BOOLEAN
      BY DEF Inv, Types
    <3>. QED BY <3>1 DEF Cart, InfoFree, WinLockAll, WinUnlockAll
  <2>. QED BY <2>1 DEF Cart, InfoFree, WinLockAll, WinUnlockAll, At, Waiting
<1>2. PICK after : after <=> Holds(window, calls[done[p]], Len(todo[p]) - 1, Locked(calls, done[p] - 1))
  OBVIOUS
<1>3. iswinlocked_ \in [Procs -> BOOLEAN]
  BY DEF Inv, Types
<1>4. /\ iswinlocked_' \in [Procs -> BOOLEAN] /\ (\A q \in Procs \ {p} : iswinlocked_'[q] <=> iswinlocked_[q])
      /\ iswinlocked_'[p] <=> after
  <2>1. CASE Cart(p) \/ InfoFree(p)
    <3>1. iswinlocked_' = iswinlocked_ /\ Head(todo[p]) \notin {"Win_lock_all", "Win_unlock_all"}
      BY <2>1 DEF Cart, InfoFree, At
    <3>2. after <=> iswinlocked_[p]
      BY <1>1, <1>2, <3>1, LockNext
    <3>. QED BY <1>3, <3>1, <3>2
  <2>2. CASE WinLockAll(p)
    <3>1. iswinlocked_' = [iswinlocked_ EXCEPT ![p] = TRUE] /\ Head(todo[p]) = "Win_lock_all"
      BY <2>2 DEF WinLockAll, At
    <3>2. after
      BY <1>1, <1>2, <3>1, LockNext
    <3>. QED BY <1>3, <3>1, <3>2
  <2>3. CASE WinUnlockAll(p)
    <3>1. iswinlocked_' = [iswinlocked_ EXCEPT ![p] = FALSE] /\ Head(todo[p]) = "Win_unlock_all"
      BY <2>3 DEF WinUnlockAll, At
    <3>2. ~after
      BY <1>1, <1>2, <3>1, LockNext
    <3>. QED BY <1>3, <3>1, <3>2
  <2>. QED BY <2>1, <2>2, <2>3
<1>5. /\ todo' \in [Procs -> Seq(StepNames)] /\ inside' \in [Procs -> BOOLEAN]
      /\ Len(todo'[p]) = Len(todo[p]) - 1 /\ \A q \in Procs \ {p} : todo'[q] = todo[q]
      /\ CallOrder' /\ Counts(b)' /\ (\A q \in Procs : Going(q)') /\ Met(b)'
  BY <1>1, <1>2, <1>4, PastKeeps
<1>6. Types'
  BY <1>1, <1>4, <1>5 DEF Inv, Types
<1>7. joined' \in [Procs -> Nat] /\ \A q \in Procs : joined'[q] >= joined[q] /\ Len(todo[q]) \in Nat
  BY <1>1, Known
<1>8. Memory(b)'
  <2>1. \A q \in Procs : todo'[q] = todo[q] \/
           (todo[q] # <<>> /\ Head(todo[q]) # "Win_allocate" /\ Len(todo'[q]) = Len(todo[q]) - 1)
    BY <1>1, <1>5
  <2>. QED BY <1>1, <1>7, <2>1, MemoryKept
<1>9. Pending(b)'
  <2>1. \A q \in Procs : iswinlocked_[q] => iswinlocked_'[q] \/ \A u \in pending' : u.from # q
    <3>1. CASE WinUnlockAll(p)
      BY <1>1, <1>4, <3>1 DEF WinUnlockAll
    <3>2. CASE ~WinUnlockAll(p)
      <4>1. iswinlocked_[p] => iswinlocked_'[p]
        BY <1>3, <3>2 DEF Cart, InfoFree, WinLockAll
      <4>. QED BY <1>4, <4>1
    <3>. QED BY <3>1, <3>2
  <2>. QED BY <1>1, <1>7, <2>1, PendingKept
<1>10. Printed(b)' /\ PrintsWhole'
  <2>1. ASSUME NEW q \in Procs PROVE Len(todo'[q]) <= Len(todo[q])
    <3>1. Len(todo[q]) \in Nat
      BY <1>7
    <3>2. CASE q = p
      BY <1>5, <3>1, <3>2
    <3>3. CASE q # p
      BY <1>5, <3>1, <3>3
    <3>. QED BY <3>2, <3>3
  <2>. QED BY <1>1, <1>5, <1>7, <2>1, PrintedKept
<1>. QED
  BY <1>5, <1>6, <1>8, <1>9, <1>10 DEF Inv

\* Win_allocate and the store of fill, and what a process does when it leaves a collective.
LEMMA MemoryStep ==
  ASSUME NEW b, Inv(b), NEW p \in Procs, WinAllocate(p) \/ Store(p) \/ Leave(p)
  PROVE  Inv(b)'
<1>1. /\ todo[p] # <<>> /\ Past(p) /\ UNCHANGED <<window, calls, done, joined, collected, pending, puts, out, failed>>
      /\ iswinlocked_' = iswinlocked_
      /\ Head(todo[p]) \notin {"Win_lock_all", "Win_unlock_all"}
      /\ \/ inside[p] /\ inside' = [inside EXCEPT ![p] = FALSE] /\ \A q \in Procs : joined[q] >= joined[p]
         \/ ~inside[p] /\ inside' = inside /\ Head(todo[p]) \notin Waiting
  <2>1. CASE WinAllocate(p) \/ Store(p)
    BY <2>1 DEF WinAllocate, Store, At, Waiting
  <2>2. CASE Leave(p)
    <3>1. inside[p] => todo[p] # <<>> /\ Head(todo[p]) \in Waiting
      BY DEF Inv, Going
    <3>. QED BY <2>2, <3>1 DEF Leave, Waiting
  <2>. QED BY <2>1, <2>2
<1>2. PICK after : after <=> Holds(window, calls[done[p]], Len(todo[p]) - 1, Locked(calls, done[p] - 1))
  OBVIOUS
<1>3. iswinlocked_ \in [Procs -> BOOLEAN]
  BY DEF Inv, Types
<1>4. /\ iswinlocked_' \in [Procs -> BOOLEAN] /\ (\A q \in Procs \ {p} : iswinlocked_'[q] <=> iswinlocked_[q])
      /\ iswinlocked_'[p] <=> after
  <2>1. after <=> iswinlocked_[p]
    BY <1>1, <1>2, LockNext
  <2>. QED BY <1>1, <1>3, <2>1
<1>5. /\ todo' \in [Procs -> Seq(StepNames)] /\ inside' \in [Procs -> BOOLEAN]
      /\ Len(todo'[p]) = Len(todo[p]) - 1 /\ \A q \in Procs \ {p} : todo'[q] = todo[q]
      /\ CallOrder' /\ Counts(b)' /\ (\A q \in Procs : Going(q)') /\ Met(b)'
  BY <1>1, <1>2, <1>4, PastKeeps
<1>6. /\ memory' \in [Procs -> Marks] /\ \A q \in Procs \ {p} : memory'[q] = memory[q]
      /\ memory'[p].by \in {"nobody", "put"} => memory'[p] = memory[p] /\ Head(todo[p]) # "Win_allocate"
      /\ memory'[p].by = "freed" => memory'[p] = memory[p] \/ Head(todo[p]) = "Win_free"
  <2>1. memory \in [Procs -> Marks] /\ done[p] \in Nat
    BY Known
  <2>2. CASE WinAllocate(p)
    BY <2>1, <2>2 DEF WinAllocate, Marks
  <2>3. CASE Store(p)
    BY <2>1, <2>3 DEF Store, Marks
  <2>4. CASE Leave(p)
    <3>1. inside[p] => Head(todo[p]) \in Waiting
      BY DEF Inv, Going
    <3>. QED BY <2>1, <2>4, <3>1 DEF Leave, Marks, Waiting
  <2>. QED BY <1>1, <2>2, <2>3, <2>4
<1>7. Types'
  BY <1>1, <1>4, <1>5, <1>6 DEF Inv, Types
<1>8. joined' \in [Procs -> Nat] /\ \A q \in Procs : joined'[q] >= joined[q] /\ Len(todo[q]) \in Nat
  BY <1>1, Known
<1>9. /\ done[p] # 0 /\ Len(todo[p]) # 0 /\ Head(todo[p]) = StepAt(window, calls[done[p]], p, Len(todo[p]))
      /\ calls[done[p]] \in CallNames /\ Locked(calls, done[p] - 1) \in {0, 1} /\ window \in WindowsOf
      /\ Len(todo[p]) <= Size(window, calls[done[p]], p, Locked(calls, done[p] - 1))
      /\ done[p] \in 1 .. Len(calls) /\ Closing(window) \in {0, 1} /\ Info(window) \in {0, 1}
  BY <1>1, AtStep, InCall, Known
<1>10. Memory(b)'
  <2>1. ASSUME NEW q \in Procs
        PROVE /\ memory'[q].by = "nobody" /\ done[q] # 0 =>
                   calls[done[q]] = "Window" /\ Len(todo'[q]) >= Closing(window) + 2
              /\ memory'[q].by = "freed" =>
                   /\ done[q] = Len(calls) /\ done[q] # 0 /\ calls[done[q]] = "wfree"
                   /\ Len(todo'[q]) <= Closing(window) + Info(window)
                   /\ Locked(calls, done[q] - 1) = 1
              /\ memory'[q].by = "put" =>
                   memory'[q].call \in 1 .. Len(calls) /\ \A r \in Procs : b[memory'[q].call] <= joined[r]
    <3>1. /\ memory[q].by = "nobody" /\ done[q] # 0 =>
               calls[done[q]] = "Window" /\ Len(todo[q]) >= Closing(window) + 2
          /\ memory[q].by = "freed" =>
               /\ done[q] = Len(calls) /\ done[q] # 0 /\ calls[done[q]] = "wfree"
               /\ Len(todo[q]) <= Closing(window) + Info(window)
               /\ Locked(calls, done[q] - 1) = 1
          /\ memory[q].by = "put" =>
               memory[q].call \in 1 .. Len(calls) /\ \A r \in Procs : b[memory[q].call] <= joined[r]
      BY DEF Inv, Memory, Joined
    <3>2. CASE q # p
      BY <1>5, <1>6, <3>1, <3>2
    <3>3. CASE q = p
      <4>1. memory'[q].by = "nobody" /\ done[q] # 0 =>
              calls[done[q]] = "Window" /\ Len(todo'[q]) >= Closing(window) + 2
        <5>1. calls[done[p]] = "Window" /\ Len(todo[p]) = Closing(window) + 2 => Head(todo[p]) = "Win_allocate"
          BY <1>8, <1>9, StepPlaces
        <5>. QED BY <1>5, <1>6, <1>8, <1>9, <3>1, <3>3, <5>1
      <4>2. memory'[q].by = "freed" =>
              /\ done[q] = Len(calls) /\ done[q] # 0 /\ calls[done[q]] = "wfree"
              /\ Len(todo'[q]) <= Closing(window) + Info(window)
              /\ Locked(calls, done[q] - 1) = 1
        <5>1. Head(todo[p]) = "Win_free" => calls[done[p]] = "wfree" /\ Locked(calls, done[p] - 1) = 1
                                            /\ Len(todo[p]) = Closing(window) + Info(window) + 1
          BY <1>8, <1>9, StepPlaces
        <5>2. calls[done[p]] = "wfree" => done[p] = Len(calls)
          BY <1>9 DEF Inv, CallOrder
        <5>. QED BY <1>5, <1>6, <1>8, <1>9, <3>1, <3>3, <5>1, <5>2
      <4>3. memory'[q].by = "put" =>
              memory'[q].call \in 1 .. Len(calls) /\ \A r \in Procs : b[memory'[q].call] <= joined[r]
        BY <1>6, <3>1, <3>3
      <4>. QED BY <4>1, <4>2, <4>3
    <3>. QED BY <3>2, <3>3
  <2>. QED BY <1>1, <2>1 DEF Memory, Joined
<1>11. Pending(b)'
  BY <1>1, <1>8, PendingKept
<1>12. Printed(b)' /\ PrintsWhole'
  <2>1. ASSUME NEW q \in Procs PROVE Len(todo'[q]) <= Len(todo[q])
    <3>1. Len(todo[q]) \in Nat
      BY <1>8
    <3>2. CASE q = p
      BY <1>5, <3>1, <3>2
    <3>3. CASE q # p
      BY <1>5, <3>1, <3>3
    <3>. QED BY <3>2, <3>3
  <2>. QED BY <1>1, <1>5, <1>8, <2>1, PrintedKept
<1>. QED
  BY <1>5, <1>7, <1>10, <1>11, <1>12 DEF Inv

\* When one line comes before another.
LEMMA PlaceOrder ==
  ASSUME NEW o \in Lines, NEW n \in Lines,
         \/ o.call < n.call
         \/ /\ o.call = n.call /\ n.what # "title"
            /\ \/ o.what = "title"
               \/ o.what # "title" /\ o.rank < n.rank
               \/ o.rank = n.rank /\ o.what = "dims" /\ n.what = "rows"
  PROVE  Precedes(Place(o), Place(n))
<1>. DEFINE a == Place(o)  z == Place(n)
<1>1. /\ o.call \in Nat /\ n.call \in Nat /\ o.rank \in Nat /\ n.rank \in Nat
      /\ o.what \in {"title", "dims", "rows"} /\ n.what \in {"title", "dims", "rows"}
  BY SizeAssumption DEF Lines, Procs
<1>2. /\ a[1] = o.call /\ a[2] = (IF o.what = "title" THEN -1 ELSE o.rank) /\ a[3] = (IF o.what = "rows" THEN 1 ELSE 0)
      /\ z[1] = n.call /\ z[2] = (IF n.what = "title" THEN -1 ELSE n.rank) /\ z[3] = (IF n.what = "rows" THEN 1 ELSE 0)
  BY DEF Place
<1>. HIDE DEF a, z
<1>3. a[1] < z[1] \/ (a[1] = z[1] /\ a[2] < z[2]) \/ (a[1] = z[1] /\ a[2] = z[2] /\ a[3] < z[3])
  BY <1>1, <1>2
<1>4. 1 .. 1 - 1 = {} /\ 1 .. 2 - 1 = {1} /\ 1 .. 3 - 1 = {1, 2} /\ 1 .. 3 = {1, 2, 3}
  OBVIOUS
<1>5. Precedes(a, z)
  BY <1>3, <1>4 DEF Precedes
<1>. QED
  BY <1>5 DEF a, z

\* A line that is printed comes after those that were: all had joined what its process
\* had left.
LEMMA WriteStep ==
  ASSUME NEW b, Inv(b), NEW p \in Procs, Write(p)
  PROVE  Inv(b)'
<1>1. PICK s \in {"title", "dims", "rows"} :
        /\ At(p, s) /\ Past(p)
        /\ out' = Append(out, [call |-> done[p], what |-> s, rank |-> p, shown |-> memory[p]])
        /\ UNCHANGED <<window, calls, done, inside, joined, collected, iswinlocked_, memory, pending, puts, failed>>
  BY DEF Write
<1>. DEFINE d == done[p]  c == calls[done[p]]  m == Len(todo[p])  l == Locked(calls, done[p] - 1)
            n == [call |-> done[p], what |-> s, rank |-> p, shown |-> memory[p]]
<1>2. todo[p] # <<>> /\ Head(todo[p]) = s /\ ~inside[p] /\ inside' = inside /\ s \notin Waiting
      /\ s \notin {"Win_lock_all", "Win_unlock_all", "Win_allocate"}
  BY <1>1 DEF At, Waiting
<1>3. PICK after : after <=> Holds(window, c, m - 1, l)
  OBVIOUS
<1>4. /\ iswinlocked_ \in [Procs -> BOOLEAN]
      /\ iswinlocked_' \in [Procs -> BOOLEAN] /\ (\A q \in Procs \ {p} : iswinlocked_'[q] <=> iswinlocked_[q])
      /\ iswinlocked_'[p] <=> after
  <2>1. after <=> iswinlocked_[p]
    BY <1>2, <1>3, LockNext
  <2>2. iswinlocked_ \in [Procs -> BOOLEAN]
    BY DEF Inv, Types
  <2>. QED BY <1>1, <2>1, <2>2
<1>5. /\ todo' \in [Procs -> Seq(StepNames)] /\ inside' \in [Procs -> BOOLEAN]
      /\ Len(todo'[p]) = m - 1 /\ \A q \in Procs \ {p} : todo'[q] = todo[q]
      /\ CallOrder' /\ Counts(b)' /\ (\A q \in Procs : Going(q)') /\ Met(b)'
  BY <1>1, <1>2, <1>3, <1>4, PastKeeps
<1>6. /\ joined \in [Procs -> Nat] /\ joined' \in [Procs -> Nat] /\ (\A q \in Procs : joined'[q] >= joined[q] /\ Len(todo[q]) \in Nat)
      /\ out \in Seq(Lines) /\ memory \in [Procs -> Marks] /\ d \in Nat /\ window \in WindowsOf /\ Len(calls) \in Nat
  BY <1>1, Known
<1>7. n \in Lines /\ out' = Append(out, n) /\ n.call = d /\ n.what = s /\ n.rank = p /\ n.shown = memory[p]
  BY <1>1, <1>6 DEF Lines
<1>. HIDE DEF n
<1>8. /\ out' \in Seq(Lines) /\ Len(out') = Len(out) + 1 /\ Len(out) \in Nat
      /\ (\A i \in 1 .. Len(out) : out'[i] = out[i] /\ out[i] \in Lines) /\ out'[Len(out) + 1] = n
  BY <1>6, <1>7, AppendProperties
<1>9. Types'
  BY <1>1, <1>4, <1>5, <1>8 DEF Inv, Types
<1>10. Memory(b)' /\ Pending(b)'
  <2>1. \A q \in Procs : todo'[q] = todo[q] \/
           (todo[q] # <<>> /\ Head(todo[q]) # "Win_allocate" /\ Len(todo'[q]) = Len(todo[q]) - 1)
    BY <1>2, <1>5
  <2>2. Memory(b)'
    BY <1>1, <1>6, <2>1, MemoryKept
  <2>3. Pending(b)'
    BY <1>1, <1>6, PendingKept
  <2>. QED BY <2>2, <2>3
<1>11. /\ d # 0 /\ m # 0 /\ m \in Nat /\ c \in CallNames /\ l \in {0, 1} /\ m <= Size(window, c, p, l)
       /\ d \in 1 .. Len(calls) /\ b[d] \in Nat /\ b[d - 1] \in Nat /\ b[d] = b[d - 1] + Total(window, c, l)
       /\ s = StepAt(window, c, p, m)
  BY <1>2, AtStep, InCall
<1>12. /\ c \in {"print", "print_ranges"} /\ (s = "title" => p = 0) /\ (c = "print_ranges" => s = "title")
       /\ m = Spot(window, c, s, p) /\ Behind(p) = Turn(window, c, s, p) /\ Turn(window, c, s, p) >= 1
  <2>. HIDE DEF d, c, m, l
  <2>1. /\ c \in {"print", "print_ranges"} /\ (s = "title" => p = 0) /\ (c = "print_ranges" => s = "title")
        /\ m = Spot(window, c, s, p) /\ Rest(window, c, p, m) = Turn(window, c, s, p) /\ Turn(window, c, s, p) >= 1
    BY <1>6, <1>11, StepPlaces
  <2>. QED BY <2>1 DEF Behind, c, m, d
<1>13. joined[p] = b[d] - Turn(window, c, s, p) /\ Turn(window, c, s, p) \in Nat /\ Joined(b[d] - Turn(window, c, s, p))
  <2>1. Left(p) = joined[p]
    BY <1>2, <1>6 DEF Left
  <2>2. Turn(window, c, s, p) \in Nat
    BY <1>6, TurnTypes
  <2>3. joined[p] = b[d] - Turn(window, c, s, p)
    BY <1>12, <2>1 DEF Inv, Met
  <2>4. \A q \in Procs : joined[p] <= joined[q]
    BY <2>1 DEF Inv, Met
  <2>. QED BY <2>2, <2>3, <2>4 DEF Joined
<1>. HIDE DEF d, c, m, l
<1>14. /\ \A k \in 1 .. Len(calls) : Joined(b[k]) => k < d
       /\ \A k \in 1 .. Len(calls) : k < d => b[k] <= b[d - 1]
       /\ \A k \in 1 .. Len(calls) : k > d => b[d] <= b[k - 1]
  <2>1. \A i, j \in 0 .. Len(calls) : i <= j => b[i] <= b[j]
    BY DEF Inv, Counts
  <2>2. \A k \in 1 .. Len(calls) : b[k] \in Nat
    BY Known
  <2>3. ASSUME NEW k \in 1 .. Len(calls), Joined(b[k]) PROVE k < d
    <3>1. b[k] <= joined[p]
      BY <2>3 DEF Joined
    <3>2. ~(b[d] <= b[k])
      <4>1. PICK x : x = Turn(window, c, s, p)
        OBVIOUS
      <4>2. x \in Nat /\ x >= 1 /\ joined[p] = b[d] - x
        BY <1>12, <1>13, <4>1
      <4>3. b[d] \in Nat /\ b[k] \in Nat
        BY <1>11, <2>2
      <4>. QED BY <3>1, <4>2, <4>3
    <3>. QED BY <1>6, <1>11, <2>1, <3>2
  <2>4. ASSUME NEW k \in 1 .. Len(calls), k < d PROVE b[k] <= b[d - 1]
    BY <1>6, <1>11, <2>1, <2>4
  <2>5. ASSUME NEW k \in 1 .. Len(calls), k > d PROVE b[d] <= b[k - 1]
    BY <1>6, <1>11, <2>1, <2>5
  <2>. QED BY <2>3, <2>4, <2>5
<1>15. ASSUME NEW i \in 1 .. Len(out), NEW o, o = out[i], NEW e, e = calls[o.call]
       PROVE  /\ o.call \in 1 .. done[o.rank] /\ e \in {"print", "print_ranges"} /\ o.rank \in Procs
              /\ (o.what = "title" \/ e = "print_ranges") => o.what = "title" /\ o.rank = 0
              /\ Joined(b[o.call] - Turn(window, e, o.what, o.rank))
              /\ o.call = done[o.rank] => Len(todo[o.rank]) < Spot(window, e, o.what, o.rank)
              /\ o \in Lines
  <2>1. o \in Lines
    BY <1>8, <1>15
  <2>. QED BY <1>15, <2>1 DEF Inv, Printed, Lines
<1>16. Printed(b)'
  <2>1. ASSUME NEW i \in 1 .. Len(out'), NEW o, o = out'[i], NEW e, e = calls[o.call]
        PROVE  /\ o.call \in 1 .. done[o.rank] /\ e \in {"print", "print_ranges"}
               /\ (o.what = "title" \/ e = "print_ranges") => o.what = "title" /\ o.rank = 0
               /\ Joined(b[o.call] - Turn(window, e, o.what, o.rank))
               /\ o.call = done[o.rank] => Len(todo'[o.rank]) < Spot(window, e, o.what, o.rank)
    <3>1. CASE i = Len(out) + 1
      <4>1. o = n
        BY <1>8, <2>1, <3>1
      <4>2. o.call = d /\ o.rank = p /\ o.what = s /\ e = c
        BY <1>7, <2>1, <4>1 DEF d, c
      <4>3. m - 1 < Spot(window, c, s, p) /\ d \in 1 .. d
        BY <1>11, <1>12
      <4>. QED BY <1>5, <1>12, <1>13, <4>2, <4>3 DEF d
    <3>2. CASE i # Len(out) + 1
      <4>1. i \in 1 .. Len(out) /\ o = out[i]
        BY <1>8, <2>1, <3>2
      <4>2. /\ o.call \in 1 .. done[o.rank] /\ e \in {"print", "print_ranges"} /\ o.rank \in Procs
            /\ (o.what = "title" \/ e = "print_ranges") => o.what = "title" /\ o.rank = 0
            /\ Joined(b[o.call] - Turn(window, e, o.what, o.rank))
            /\ o.call = done[o.rank] => Len(todo[o.rank]) < Spot(window, e, o.what, o.rank)
        BY <1>15, <2>1, <4>1
      <4>3. Len(todo'[o.rank]) <= Len(todo[o.rank]) /\ Len(todo[o.rank]) \in Nat /\ Len(todo'[o.rank]) \in Nat
        <5>1. CASE o.rank = p
          BY <1>5, <1>11, <5>1 DEF m
        <5>2. CASE o.rank # p
          BY <1>5, <1>6, <4>2, <5>2
        <5>. QED BY <5>1, <5>2
      <4>4. Spot(window, e, o.what, o.rank) \in Nat
        BY <1>6, <4>2, TurnTypes
      <4>. QED BY <4>2, <4>3, <4>4
    <3>. QED BY <3>1, <3>2
  <2>2. joined' = joined /\ window' = window /\ calls' = calls /\ done' = done
    BY <1>1
  <2>. QED BY <2>1, <2>2 DEF Printed, Joined
<1>17. PrintsWhole'
  <2>1. ASSUME NEW i \in 1 .. Len(out) PROVE Precedes(Place(out[i]), Place(n))
    <3>1. PICK o : o = out[i]
      OBVIOUS
    <3>2. PICK e : e = calls[o.call]
      OBVIOUS
    <3>3. /\ o.call \in 1 .. done[o.rank] /\ e \in {"print", "print_ranges"} /\ o.rank \in Procs
          /\ (o.what = "title" \/ e = "print_ranges") => o.what = "title" /\ o.rank = 0
          /\ Joined(b[o.call] - Turn(window, e, o.what, o.rank))
          /\ o.call = done[o.rank] => Len(todo[o.rank]) < Spot(window, e, o.what, o.rank)
          /\ o \in Lines /\ o.what \in {"title", "dims", "rows"} /\ o.call \in Nat
      BY <1>15, <3>1, <3>2 DEF Lines
    <3>4. o.call \in 1 .. Len(calls) /\ o.call - 1 \in Nat
      BY <3>3, Known
    <3>5. /\ b[o.call] \in Nat /\ b[o.call - 1] \in Nat
          /\ b[o.call] = b[o.call - 1] + Total(window, e, Locked(calls, o.call - 1))
          /\ Locked(calls, o.call - 1) \in {0, 1}
      <4>1. o.call - 1 \in 0 .. Len(calls) /\ calls \in Seq(CallNames)
        BY <3>4 DEF Inv, Types
      <4>. QED BY <3>2, <3>4, <4>1, Known, LockedCalls DEF Inv, Counts
    <3>6. Turn(window, e, o.what, o.rank) \in Nat /\ Turn(window, e, o.what, o.rank) <= Total(window, e, Locked(calls, o.call - 1))
      BY <1>6, <3>3, <3>5, TurnOrder
    <3>7. b[o.call] - Turn(window, e, o.what, o.rank) <= b[d] - Turn(window, c, s, p)
      BY <1>13, <3>3 DEF Joined
    <3>8. Total(window, e, Locked(calls, o.call - 1)) \in Nat /\ b[o.call - 1] <= b[o.call] - Turn(window, e, o.what, o.rank)
      <4>1. Total(window, e, Locked(calls, o.call - 1)) \in Nat
        BY <1>6, <3>3, <3>5, TotalType DEF CallNames
      <4>2. PICK x, y : x = Turn(window, e, o.what, o.rank) /\ y = Total(window, e, Locked(calls, o.call - 1))
        OBVIOUS
      <4>3. x \in Nat /\ y \in Nat /\ x <= y /\ b[o.call] = b[o.call - 1] + y /\ b[o.call - 1] \in Nat
        BY <3>5, <3>6, <4>1, <4>2
      <4>4. b[o.call - 1] <= b[o.call] - x
        BY <4>3
      <4>. QED BY <4>1, <4>2, <4>4
    <3>9. ~(o.call > d)
      <4>1. ASSUME o.call > d PROVE FALSE
        <5>1. b[d] <= b[o.call - 1]
          BY <1>14, <3>4, <4>1
        <5>2. PICK g, h, t : g = b[d] /\ h = b[o.call] - Turn(window, e, o.what, o.rank) /\ t = Turn(window, c, s, p)
          OBVIOUS
        <5>3. g \in Nat /\ t \in Nat /\ 1 <= t /\ b[o.call - 1] \in Nat
          BY <1>11, <1>12, <1>13, <3>5, <5>2
        <5>4. h \in Int
          BY <3>5, <3>6, <5>2
        <5>5. h <= g - t /\ b[o.call - 1] <= h /\ g <= b[o.call - 1]
          BY <3>7, <3>8, <5>1, <5>2
        <5>. QED BY <5>3, <5>4, <5>5
      <4>. QED BY <4>1
    <3>10. ASSUME o.call = d
           PROVE  /\ s # "title"
                  /\ o.what = "title" \/ (o.what # "title" /\ o.rank < p) \/ (o.rank = p /\ o.what = "dims" /\ s = "rows")
      <4>1. e = c
        BY <3>2, <3>10 DEF d, c
      <4>2. Turn(window, c, s, p) <= Turn(window, c, o.what, o.rank)
        BY <1>11, <1>13, <3>6, <3>7, <3>10, <4>1
      <4>3. o.rank = p => Spot(window, c, s, p) < Spot(window, c, o.what, o.rank)
        BY <1>12, <3>3, <3>10, <4>1 DEF d, m
      <4>4. c \in {"print", "print_ranges"}
            /\ ((o.what = "title" \/ c = "print_ranges") => o.what = "title" /\ o.rank = 0)
            /\ ((s = "title" \/ c = "print_ranges") => s = "title" /\ p = 0)
        BY <1>12, <3>3, <4>1
      <4>5. CASE o.rank = p
        BY <1>6, <1>11, <3>3, <4>3, <4>4, <4>5, TurnOrder
      <4>6. CASE o.rank # p
        BY <1>6, <1>11, <3>3, <4>2, <4>4, <4>6, TurnOrder
      <4>. QED BY <4>5, <4>6
    <3>11. o.call < d \/ o.call = d
      BY <1>6, <3>3, <3>9
    <3>. QED BY <1>7, <3>1, <3>3, <3>10, <3>11, PlaceOrder
  <2>2. n.shown.by = "put" => n.shown.call < n.call
    <3>1. memory[p].by = "put" => memory[p].call \in 1 .. Len(calls) /\ Joined(b[memory[p].call])
      BY DEF Inv, Memory
    <3>. QED BY <1>7, <1>14, <3>1
  <2>3. PrintsWhole
    BY DEF Inv
  <2>4. DOMAIN out = 1 .. Len(out) /\ DOMAIN out' = 1 .. Len(out) + 1
    BY <1>6, <1>8
  <2>5. \A i, j \in 1 .. Len(out) + 1 : i < j => Precedes(Place(out'[i]), Place(out'[j]))
    <3>1. \A i, j \in 1 .. Len(out) : i < j => Precedes(Place(out[i]), Place(out[j]))
      BY <2>3, <2>4 DEF PrintsWhole
    <3>2. ASSUME NEW i \in 1 .. Len(out) + 1, NEW j \in 1 .. Len(out) + 1, i < j
          PROVE  Precedes(Place(out'[i]), Place(out'[j]))
      <4>1. i \in 1 .. Len(out) /\ out'[i] = out[i]
        BY <1>8, <3>2
      <4>2. CASE j = Len(out) + 1
        <5>1. out'[j] = n
          BY <1>8, <4>2
        <5>. QED BY <2>1, <4>1, <5>1
      <4>3. CASE j # Len(out) + 1
        <5>1. j \in 1 .. Len(out) /\ out'[j] = out[j]
          BY <1>8, <4>3
        <5>. QED BY <3>1, <3>2, <4>1, <5>1
      <4>. QED BY <4>2, <4>3
    <3>. QED BY <3>2
  <2>6. \A i \in 1 .. Len(out) + 1 : out'[i].shown.by = "put" => out'[i].shown.call < out'[i].call
    <3>1. \A i \in 1 .. Len(out) : out[i].shown.by = "put" => out[i].shown.call < out[i].call
      BY <2>3, <2>4 DEF PrintsWhole
    <3>. QED BY <1>8, <2>2, <3>1
  <2>. QED BY <2>4, <2>5, <2>6 DEF PrintsWhole
<1>. QED
  BY <1>5, <1>9, <1>10, <1>16, <1>17 DEF Inv

\* A process joins its next collective, the first of all or not.
LEMMA JoinStep ==
  ASSUME NEW b, Inv(b), NEW p \in Procs, Join(p)
  PROVE  Inv(b)'
<1>. DEFINE d == done[p]  c == calls[done[p]]
<1>1. PICK s \in Waiting :
        /\ At(p, s)
        /\ inside' = [inside EXCEPT ![p] = TRUE] /\ joined' = [joined EXCEPT ![p] = @ + 1]
        /\ collected' = IF joined[p] < Len(collected) THEN collected ELSE Append(collected, <<done[p], s>>)
        /\ UNCHANGED <<window, calls, done, todo, iswinlocked_, memory, pending, puts, out, failed>>
  BY DEF Join
<1>2. todo[p] # <<>> /\ Head(todo[p]) = s /\ ~inside[p]
  BY <1>1 DEF At
<1>3. /\ joined \in [Procs -> Nat] /\ inside \in [Procs -> BOOLEAN] /\ collected \in Seq(Nat \X Waiting)
      /\ Len(collected) \in Nat /\ todo' \in [Procs -> Seq(StepNames)] /\ window \in WindowsOf /\ Len(calls) \in Nat
      /\ \A q \in Procs : joined[q] <= Len(collected) /\ Left(q) = b[done[q]] - Behind(q)
  BY <1>1, Known DEF Inv, Types, Met
<1>4. /\ joined' \in [Procs -> Nat] /\ joined'[p] = joined[p] + 1 /\ (\A q \in Procs \ {p} : joined'[q] = joined[q])
      /\ inside' \in [Procs -> BOOLEAN] /\ inside'[p] /\ (\A q \in Procs \ {p} : inside'[q] <=> inside[q])
      /\ \A q \in Procs : joined'[q] >= joined[q]
  BY <1>1, <1>3
<1>5. /\ d # 0 /\ d \in Nat /\ d \in 1 .. Len(calls) /\ d - 1 \in 0 .. Len(calls) /\ d \in 0 .. Len(calls)
      /\ b[d] \in Nat /\ b[d - 1] \in Nat
      /\ Behind(p) \in Nat /\ 1 <= Behind(p) /\ b[d] - b[d - 1] >= Behind(p)
      /\ Name(window, c, Behind(p)) = s
  <2>1. done[p] # 0
    BY <1>2, AtStep
  <2>2. /\ done[p] \in 1 .. Len(calls) /\ done[p] - 1 \in 0 .. Len(calls) /\ done[p] \in Nat
        /\ b[done[p]] \in Nat /\ b[done[p] - 1] \in Nat
        /\ Behind(p) \in Nat /\ Behind(p) <= Total(window, calls[done[p]], Locked(calls, done[p] - 1))
        /\ b[done[p]] = b[done[p] - 1] + Total(window, calls[done[p]], Locked(calls, done[p] - 1))
    BY <2>1, InCall, Known
  <2>3. PICK y : y = Total(window, calls[done[p]], Locked(calls, done[p] - 1))
    OBVIOUS
  <2>4. y \in Nat
    <3>1. calls[done[p]] \in CallNames /\ Locked(calls, done[p] - 1) \in {0, 1}
      BY <2>1, InCall
    <3>. QED BY <1>3, <2>3, <3>1, TotalType
  <2>5. b[done[p]] - b[done[p] - 1] >= Behind(p)
    BY <2>2, <2>3, <2>4
  <2>6. /\ Behind(p) = Rest(window, calls[done[p]], p, Len(todo[p]) - 1) + (IF Head(todo[p]) \in Waiting THEN 1 ELSE 0)
        /\ Rest(window, calls[done[p]], p, Len(todo[p]) - 1) \in Nat
        /\ Head(todo[p]) \in Waiting => Name(window, calls[done[p]], Behind(p)) = Head(todo[p])
    BY <1>2, AtStep
  <2>. QED BY <1>1, <1>2, <1>3, <2>1, <2>2, <2>5, <2>6
<1>. HIDE DEF d
<1>6. joined[p] = b[d] - Behind(p)
  BY <1>2, <1>3 DEF Left, d
<1>7. /\ collected' \in Seq(Nat \X Waiting) /\ Len(collected') \in Nat /\ Len(collected') >= Len(collected)
      /\ joined'[p] <= Len(collected')
      /\ \A j \in 1 .. Len(collected) : collected'[j] = collected[j]
      /\ \A j \in 1 .. Len(collected') : j \in 1 .. Len(collected) \/ (j = joined[p] + 1 /\ collected'[j] = <<d, s>>)
  <2>1. CASE joined[p] < Len(collected)
    BY <1>1, <1>3, <1>4, <2>1
  <2>2. CASE ~(joined[p] < Len(collected))
    <3>1. joined[p] = Len(collected) /\ <<d, s>> \in Nat \X Waiting
      BY <1>3, <1>5, <2>2
    <3>2. collected' = Append(collected, <<d, s>>)
      BY <1>1, <2>2 DEF d
    <3>3. /\ collected' \in Seq(Nat \X Waiting) /\ Len(collected') = Len(collected) + 1
          /\ \A j \in 1 .. Len(collected) : collected'[j] = collected[j]
          /\ collected'[Len(collected) + 1] = <<d, s>>
      BY <1>3, <3>1, <3>2, AppendProperties
    <3>. QED BY <1>3, <1>4, <3>1, <3>3
  <2>. QED BY <2>1, <2>2
<1>8. Types' /\ CallOrder' /\ Counts(b)'
  BY <1>1, <1>4, <1>7 DEF Inv, Types, CallOrder, Counts
<1>9. ASSUME NEW q \in Procs PROVE Going(q)'
  <2>1. Going(q)
    BY DEF Inv
  <2>2. inside'[q] => inside[q] \/ (todo[q] # <<>> /\ Head(todo[q]) \in Waiting)
    BY <1>2, <1>4
  <2>. QED BY <1>1, <2>1, <2>2 DEF Going
<1>10. Met(b)'
  <2>1. \A q \in Procs : Left(q)' = Left(q)
    <3>1. Left(p)' = Left(p)
      <4>1. joined[p] \in Nat
        BY <1>3
      <4>. QED BY <1>2, <1>4, <4>1 DEF Left
    <3>2. \A q \in Procs \ {p} : Left(q)' = Left(q)
      BY <1>4 DEF Left
    <3>. QED BY <3>1, <3>2
  <2>2. \A q \in Procs : Behind(q)' = Behind(q)
    BY <1>1 DEF Behind
  <2>3. ASSUME NEW q \in Procs PROVE joined'[q] <= Len(collected')
    <3>1. CASE q = p
      BY <1>7, <3>1
    <3>2. CASE q # p
      <4>1. joined'[q] = joined[q] /\ joined[q] \in Nat
        BY <1>3, <1>4, <3>2
      <4>2. joined[q] <= Len(collected) /\ Len(collected) \in Nat /\ Len(collected') \in Nat
        BY <1>3, <1>7
      <4>3. Len(collected') >= Len(collected)
        BY <1>7
      <4>. QED BY <4>1, <4>2, <4>3
    <3>. QED BY <3>1, <3>2
  <2>4. ASSUME NEW q \in Procs, NEW r \in Procs PROVE Left(r) <= joined'[q]
    <3>1. Left(r) <= joined[q] /\ joined'[q] >= joined[q] /\ joined[q] \in Nat /\ joined'[q] \in Nat /\ joined[r] \in Nat
      BY <1>3, <1>4 DEF Inv, Met
    <3>2. Left(r) \in Int
      BY <3>1 DEF Left
    <3>. QED BY <3>1, <3>2
  <2>5. ASSUME NEW i \in 1 .. Len(calls), NEW j \in 1 .. Len(collected'), b[i-1] < j, j <= b[i]
        PROVE  collected'[j] = <<i, Name(window, calls[i], b[i] - j + 1)>>
    <3>1. CASE j \in 1 .. Len(collected)
      BY <1>7, <2>5, <3>1 DEF Inv, Met
    <3>2. CASE j \notin 1 .. Len(collected)
      <4>1. j = joined[p] + 1 /\ collected'[j] = <<d, s>>
        BY <1>7, <3>2
      <4>2. b[d - 1] < j /\ j <= b[d] /\ b[d] - j + 1 = Behind(p)
        <5>1. PICK y : y = Behind(p)
          OBVIOUS
        <5>2. y \in Nat /\ 1 <= y /\ b[d] - b[d - 1] >= y /\ joined[p] = b[d] - y /\ b[d] \in Nat /\ b[d - 1] \in Nat
          BY <1>5, <1>6, <5>1
        <5>3. PICK x, z : x = b[d - 1] /\ z = b[d]
          OBVIOUS
        <5>4. y \in Nat /\ x \in Nat /\ z \in Nat /\ 1 <= y /\ z - x >= y /\ j = z - y + 1
          BY <4>1, <5>2, <5>3
        <5>5. x < j /\ j <= z /\ z - j + 1 = y
          BY <5>4
        <5>. QED BY <5>1, <5>3, <5>5
      <4>3. /\ \A x, y \in 0 .. Len(calls) : x <= y => b[x] <= b[y]
            /\ \A x \in 0 .. Len(calls) : b[x] \in Nat
            /\ i \in 0 .. Len(calls) /\ i - 1 \in 0 .. Len(calls)
        <5>1. \A x, y \in 0 .. Len(calls) : x <= y => b[x] <= b[y]
          BY DEF Inv, Counts
        <5>2. \A x \in 0 .. Len(calls) : b[x] \in Nat
          BY Known
        <5>3. i \in 0 .. Len(calls) /\ i - 1 \in 0 .. Len(calls)
          <6>1. Len(calls) \in Nat
            BY Known
          <6>. QED BY <6>1
        <5>. QED BY <5>1, <5>2, <5>3
      <4>4. ~(i < d)
        <5>1. ASSUME i < d PROVE FALSE
          <6>1. i <= d - 1
            BY <1>5, <5>1
          <6>2. b[i] <= b[d - 1]
            BY <1>5, <4>3, <6>1
          <6>3. b[i] \in Nat /\ b[d - 1] \in Nat /\ j \in Int
            BY <1>5, <4>3
          <6>4. b[d - 1] < j /\ j <= b[i]
            BY <2>5, <4>2
          <6>. QED BY <6>2, <6>3, <6>4
        <5>. QED BY <5>1
      <4>5. ~(i > d)
        <5>1. ASSUME i > d PROVE FALSE
          <6>1. d <= i - 1
            BY <1>5, <5>1
          <6>2. b[d] <= b[i - 1]
            BY <1>5, <4>3, <6>1
          <6>3. b[d] \in Nat /\ b[i - 1] \in Nat /\ j \in Int
            BY <1>5, <4>3
          <6>4. b[i - 1] < j /\ j <= b[d]
            BY <2>5, <4>2
          <6>. QED BY <6>2, <6>3, <6>4
        <5>. QED BY <5>1
      <4>6. i = d
        BY <1>5, <4>4, <4>5
      <4>. QED BY <1>5, <4>1, <4>2, <4>6 DEF d
    <3>. QED BY <3>1, <3>2
  <2>6. \A q \in Procs : Left(q)' = b[done'[q]] - Behind(q)'
    BY <1>1, <1>3, <2>1, <2>2
  <2>7. window' = window /\ calls' = calls
    BY <1>1
  <2>8. Len(collected') <= b[Len(calls')]
    <3>1. CASE joined[p] < Len(collected)
      BY <1>1, <3>1 DEF Inv, Met
    <3>2. CASE ~(joined[p] < Len(collected))
      <4>1. joined[p] = Len(collected) /\ joined[p] \in Nat /\ Len(collected') = joined[p] + 1
        BY <1>1, <1>3, <3>2, AppendProperties
      <4>2. PICK y : y = Behind(p)
        OBVIOUS
      <4>3. y \in Nat /\ 1 <= y /\ joined[p] = b[d] - y /\ b[d] \in Nat
        BY <1>5, <1>6, <4>2
      <4>4. Len(collected') <= b[d]
        BY <4>1, <4>3
      <4>5. b[d] <= b[Len(calls)] /\ b[Len(calls)] \in Nat
        <5>1. Len(calls) \in 0 .. Len(calls) /\ d <= Len(calls)
          BY <1>3, <1>5
        <5>2. \A x, y2 \in 0 .. Len(calls) : x <= y2 => b[x] <= b[y2]
          BY DEF Inv, Counts
        <5>. QED BY <1>5, <5>1, <5>2, Known
      <4>. QED BY <1>3, <1>5, <1>7, <2>7, <4>4, <4>5
    <3>. QED BY <3>1, <3>2
  <2>. QED BY <2>1, <2>3, <2>4, <2>5, <2>6, <2>7, <2>8 DEF Met
<1>11. Memory(b)'
  BY <1>1, <1>4, MemoryKept
<1>12. Pending(b)'
  BY <1>1, <1>4, PendingKept
<1>13. Printed(b)' /\ PrintsWhole'
  <2>1. \A q \in Procs : Len(todo'[q]) <= Len(todo[q])
    BY <1>1, Known
  <2>. QED BY <1>1, <1>3, <1>4, <2>1, PrintedKept
<1>. QED
  BY <1>8, <1>9, <1>10, <1>11, <1>12, <1>13 DEF Inv

\* A put is made, and takes effect.
LEMMA PutStep ==
  ASSUME NEW b, Inv(b), NEW p \in Procs, NEW t \in Procs, Put(p, t)
  PROVE  Inv(b)'
<1>. DEFINE u == [from |-> p, to |-> t, call |-> done[p], nr |-> puts']
<1>1. /\ todo[p] = <<>> /\ iswinlocked_[p] /\ puts' = puts + 1 /\ pending' = pending \cup {u}
      /\ UNCHANGED <<window, calls, done, todo, inside, joined, collected, iswinlocked_, memory, out, failed>>
  BY DEF Put, Between
<1>2. puts \in Nat /\ pending \subseteq Puts /\ done[p] \in Nat /\ joined \in [Procs -> Nat]
  BY Known DEF Inv, Types
<1>3. u \in Puts /\ puts' \in Nat /\ u.from = p /\ u.call = done[p]
  BY <1>1, <1>2 DEF Puts
<1>. HIDE DEF u
<1>4. Types'
  BY <1>1, <1>2, <1>3 DEF Inv, Types
<1>5. Joined(b[done[p]]) /\ done[p] \in 1 .. done[p]
  <2>1. done[p] # 0
    BY <1>1 DEF Inv, Going
  <2>2. ~inside[p]
    BY <1>1 DEF Inv, Going
  <2>3. Left(p) = b[done[p]] - Behind(p) /\ Behind(p) = 0 /\ b[done[p]] \in Nat
    BY <1>1, Known DEF Inv, Met, Behind, Rest
  <2>4. \A q \in Procs : b[done[p]] <= joined[q]
    <3>1. \A q \in Procs : Left(p) <= joined[q]
      BY DEF Inv, Met
    <3>. QED BY <2>3, <3>1
  <2>. QED BY <1>2, <2>1, <2>4 DEF Joined
<1>6. Pending(b)'
  <2>1. \A v \in pending : v.call \in 1 .. done[v.from] /\ iswinlocked_[v.from] /\ Joined(b[v.call])
    BY DEF Inv, Pending
  <2>2. \A v \in pending' : v.call \in 1 .. done[v.from] /\ iswinlocked_[v.from] /\ Joined(b[v.call])
    BY <1>1, <1>3, <1>5, <2>1
  <2>. QED BY <1>1, <2>2 DEF Pending, Joined
<1>7. CallOrder' /\ Counts(b)' /\ (\A q \in Procs : Going(q)') /\ Met(b)' /\ Memory(b)' /\ Printed(b)' /\ PrintsWhole'
  <2>1. CallOrder' /\ Counts(b)' /\ PrintsWhole'
    BY <1>1 DEF Inv, CallOrder, Counts, PrintsWhole
  <2>2. \A q \in Procs : Going(q)'
    BY <1>1 DEF Inv, Going
  <2>3. Met(b)'
    BY <1>1 DEF Inv, Met, Left, Behind
  <2>4. Memory(b)'
    BY <1>1 DEF Inv, Memory, Joined
  <2>5. Printed(b)'
    BY <1>1 DEF Inv, Printed, Joined
  <2>. QED BY <2>1, <2>2, <2>3, <2>4, <2>5
<1>. QED
  BY <1>4, <1>6, <1>7 DEF Inv

LEMMA LandStep ==
  ASSUME NEW b, Inv(b), NEW u \in pending, Land(u)
  PROVE  Inv(b)'
<1>1. /\ pending' = pending \ {u}
      /\ memory' = [memory EXCEPT ![u.to] = IF @.by = "freed" THEN @ ELSE [by |-> "put", call |-> u.call]]
      /\ memory[u.to].by # "nobody"
      /\ UNCHANGED <<window, calls, done, todo, inside, joined, collected, iswinlocked_, puts, out, failed>>
  BY DEF Land
<1>2. memory \in [Procs -> Marks] /\ pending \subseteq Puts /\ u \in Puts /\ u.from \in Procs /\ u.to \in Procs /\ u.call \in Nat
  BY Known DEF Puts
<1>3. /\ memory' \in [Procs -> Marks] /\ \A q \in Procs \ {u.to} : memory'[q] = memory[q]
      /\ memory'[u.to] = memory[u.to] \/ memory'[u.to] = [by |-> "put", call |-> u.call]
  BY <1>1, <1>2 DEF Marks
<1>4. Types'
  BY <1>1, <1>2, <1>3 DEF Inv, Types
<1>5. u.call \in 1 .. Len(calls) /\ Joined(b[u.call])
  <2>1. u.call \in 1 .. done[u.from] /\ Joined(b[u.call])
    BY DEF Inv, Pending
  <2>2. done[u.from] \in Nat /\ done[u.from] <= Len(calls) /\ Len(calls) \in Nat
    BY <1>2, Known
  <2>. QED BY <2>1, <2>2
<1>6. Memory(b)'
  <2>1. ASSUME NEW q \in Procs
        PROVE /\ memory'[q].by = "nobody" /\ done[q] # 0 =>
                   calls[done[q]] = "Window" /\ Len(todo[q]) >= Closing(window) + 2
              /\ memory'[q].by = "freed" =>
                   /\ done[q] = Len(calls) /\ done[q] # 0 /\ calls[done[q]] = "wfree"
                   /\ Len(todo[q]) <= Closing(window) + Info(window)
                   /\ Locked(calls, done[q] - 1) = 1
              /\ memory'[q].by = "put" => memory'[q].call \in 1 .. Len(calls) /\ Joined(b[memory'[q].call])
    <3>1. CASE memory'[q] = memory[q]
      BY <3>1 DEF Inv, Memory
    <3>2. CASE memory'[q] = [by |-> "put", call |-> u.call]
      BY <1>5, <3>2
    <3>. QED BY <1>3, <3>1, <3>2
  <2>. QED BY <1>1, <2>1 DEF Memory, Joined
<1>7. Pending(b)'
  BY <1>1 DEF Inv, Pending, Joined
<1>8. CallOrder' /\ Counts(b)' /\ (\A q \in Procs : Going(q)') /\ Met(b)' /\ Printed(b)' /\ PrintsWhole'
  <2>1. CallOrder' /\ Counts(b)' /\ PrintsWhole'
    BY <1>1 DEF Inv, CallOrder, Counts, PrintsWhole
  <2>2. \A q \in Procs : Going(q)'
    BY <1>1 DEF Inv, Going
  <2>3. Met(b)'
    BY <1>1 DEF Inv, Met, Left, Behind
  <2>4. Printed(b)'
    BY <1>1 DEF Inv, Printed, Joined
  <2>. QED BY <2>1, <2>2, <2>3, <2>4
<1>. QED
  BY <1>4, <1>6, <1>7, <1>8 DEF Inv

\* A process makes its next call, the first of all to make it or not: b2 counts the
\* collectives of the calls then.
LEMMA EnterStep ==
  ASSUME NEW b, Inv(b), NEW p \in Procs, NEW c \in CallNames, Enter(p, c), NEW b2,
         calls' \in Seq(CallNames), Len(calls) <= Len(calls'), Len(calls') <= MaxCalls,
         done[p] < Len(calls'), c = calls'[done[p] + 1], CallOrder', Counts(b2)',
         \A i \in 1 .. Len(calls) : calls'[i] = calls[i],
         \A i \in 0 .. Len(calls) : b2[i] = b[i] /\ Locked(calls', i) = Locked(calls, i),
         \A q \in Procs : memory[q].by = "freed" => calls' = calls
  PROVE  Inv(b2)'
<1>. DEFINE l == Locked(calls', done[p])
<1>1. /\ todo[p] = <<>> /\ done' = [done EXCEPT ![p] = @ + 1] /\ todo' = [todo EXCEPT ![p] = Steps(c, p)]
      /\ UNCHANGED <<window, inside, joined, collected, iswinlocked_, memory, pending, puts, out, failed>>
  BY DEF Enter, Between
<1>2. /\ window \in WindowsOf /\ done \in [Procs -> Nat] /\ todo \in [Procs -> Seq(StepNames)]
      /\ Len(calls) \in Nat /\ Len(calls') \in Nat /\ iswinlocked_ \in [Procs -> BOOLEAN]
      /\ done[p] \in Nat /\ calls \in Seq(CallNames) /\ Len(collected) \in Nat /\ joined \in [Procs -> Nat]
      /\ Closing(window) \in {0, 1} /\ Info(window) \in {0, 1} /\ out \in Seq(Lines) /\ pending \subseteq Puts
      /\ \A q \in Procs : done[q] \in Nat /\ done[q] <= Len(calls)
  <2>1. /\ window \in WindowsOf /\ done \in [Procs -> Nat] /\ todo \in [Procs -> Seq(StepNames)]
        /\ iswinlocked_ \in [Procs -> BOOLEAN] /\ calls \in Seq(CallNames)
    BY DEF Inv, Types
  <2>2. Len(calls') \in Nat
    BY LenProperties
  <2>. QED BY <2>1, <2>2, Known
<1>3. l \in {0, 1} /\ (l = 1 <=> iswinlocked_[p]) /\ (c = "Window" => l = 0)
  <2>1. l \in {0, 1} /\ Locked(calls', 0) = 0
    BY <1>2, LockedCalls
  <2>2. c = "Window" => done[p] = 0
    <3>1. done[p] + 1 \in 1 .. Len(calls')
      BY <1>2
    <3>2. calls'[done[p] + 1] = "Window" <=> done[p] + 1 = 1
      BY <3>1 DEF CallOrder
    <3>. QED BY <1>2, <3>2
  <2>3. CASE done[p] = 0
    <3>1. ~iswinlocked_[p]
      BY <2>3 DEF Inv, Going
    <3>. QED BY <2>1, <2>3, <3>1
  <2>4. CASE done[p] # 0
    <3>1. /\ done[p] \in 1 .. Len(calls) /\ calls[done[p]] \in CallNames
          /\ Locked(calls, done[p] - 1) \in {0, 1}
      BY <2>4, InCall
    <3>2. iswinlocked_[p] <=> Holds(window, calls[done[p]], Len(todo[p]), Locked(calls, done[p] - 1))
      BY <2>4 DEF Inv, Going
    <3>3. Len(todo[p]) = 0
      BY <1>1
    <3>4. Locked(calls, done[p]) = 1 <=> Holds(window, calls[done[p]], 0, Locked(calls, done[p] - 1))
      BY <1>2, <3>1, LockedCalls, EndHolds
    <3>5. l = Locked(calls, done[p])
      BY <1>2
    <3>. QED BY <2>1, <2>2, <2>4, <3>2, <3>3, <3>4, <3>5
  <2>. QED BY <2>3, <2>4
<1>. HIDE DEF l
<1>4. /\ Size(window, c, p, l) \in Nat /\ Steps(c, p) \in Seq(StepNames) /\ Len(Steps(c, p)) = Size(window, c, p, l)
      /\ \A j \in 1 .. Len(Steps(c, p)) : Steps(c, p)[j] = StepAt(window, c, p, Len(Steps(c, p)) - j + 1)
      /\ Total(window, c, l) \in Nat /\ Rest(window, c, p, Len(Steps(c, p))) = Total(window, c, l)
  <2>1. Fits(Steps(c, p), window, c, p, Size(window, c, p, l))
    BY <1>2, <1>3, StepsAre
  <2>2. Len(Steps(c, p)) = Size(window, c, p, l) /\ Len(Steps(c, p)) \in Nat /\ Steps(c, p) \in Seq(StepNames)
    BY <2>1, LenProperties DEF Fits
  <2>. QED BY <1>2, <1>3, <2>1, <2>2, RestBounds DEF Fits
<1>5. /\ done' \in [Procs -> Nat] /\ done'[p] = done[p] + 1 /\ \A q \in Procs \ {p} : done'[q] = done[q]
  BY <1>1, <1>2
<1>6. /\ todo' \in [Procs -> Seq(StepNames)] /\ todo'[p] = Steps(c, p) /\ \A q \in Procs \ {p} : todo'[q] = todo[q]
  BY <1>1, <1>2, <1>4
<1>7. \A q \in Procs : done'[q] <= Len(calls')
  <2>1. done'[p] <= Len(calls')
    BY <1>2, <1>5
  <2>2. ASSUME NEW q \in Procs, q # p PROVE done'[q] <= Len(calls')
    <3>1. done'[q] = done[q] /\ done[q] \in Nat /\ done[q] <= Len(calls) /\ Len(calls) \in Nat /\ Len(calls') \in Nat
      BY <1>2, <1>5, <2>2
    <3>. QED BY <3>1
  <2>. QED BY <2>1, <2>2
<1>8. Types'
  BY <1>1, <1>5, <1>6, <1>7 DEF Inv, Types
<1>9. ASSUME NEW q \in Procs, q # p, done[q] # 0
      PROVE  /\ calls'[done[q]] = calls[done[q]] /\ done[q] \in 1 .. Len(calls)
             /\ Locked(calls', done[q] - 1) = Locked(calls, done[q] - 1)
  BY <1>2, <1>9
<1>10. calls'[done'[p]] = c /\ Locked(calls', done'[p] - 1) = l /\ done'[p] # 0
  BY <1>2, <1>5 DEF l
<1>11. ~inside[p]
  BY <1>1 DEF Inv, Going
<1>12. ASSUME NEW q \in Procs PROVE Going(q)'
  <2>1. CASE q = p
    <3>1. Holds(window, c, Size(window, c, p, l), l) <=> l = 1
      BY <1>2, <1>3, EndHolds
    <3>2. Len(todo'[p]) <= Size(window, c, p, l)
      BY <1>4, <1>6
    <3>3. iswinlocked_'[p] <=> Holds(window, c, Len(todo'[p]), l)
      BY <1>1, <1>3, <1>4, <1>6, <3>1
    <3>4. \A j \in 1 .. Len(todo'[p]) : todo'[p][j] = StepAt(window, c, p, Len(todo'[p]) - j + 1)
      BY <1>4, <1>6
    <3>5. window' = window /\ ~inside'[p]
      BY <1>1, <1>11
    <3>. QED BY <1>10, <2>1, <3>2, <3>3, <3>4, <3>5 DEF Going
  <2>2. CASE q # p /\ done[q] = 0
    <3>1. todo[q] = <<>> /\ ~iswinlocked_[q] /\ ~inside[q] /\ done'[q] = 0 /\ todo'[q] = <<>>
      BY <1>5, <1>6, <2>2 DEF Inv, Going
    <3>. QED BY <1>1, <2>2, <3>1 DEF Going
  <2>3. CASE q # p /\ done[q] # 0
    <3>1. Going(q)
      BY DEF Inv
    <3>2. done'[q] = done[q] /\ todo'[q] = todo[q] /\ calls'[done[q]] = calls[done[q]]
          /\ Locked(calls', done[q] - 1) = Locked(calls, done[q] - 1)
      BY <1>5, <1>6, <1>9, <2>3
    <3>. QED BY <1>1, <3>1, <3>2 DEF Going
  <2>. QED BY <2>1, <2>2, <2>3
<1>13. /\ b2 \in [0 .. Len(calls') -> Nat] /\ \A i, j \in 0 .. Len(calls') : i <= j => b2[i] <= b2[j]
       /\ \A i \in 1 .. Len(calls') : b2[i] = b2[i-1] + Total(window, calls'[i], Locked(calls', i - 1))
  BY <1>1 DEF Counts
<1>14. Met(b2)'
  <2>1. \A q \in Procs : Left(q)' = Left(q)
    BY <1>1 DEF Left
  <2>2. \A q \in Procs : joined[q] <= Len(collected) /\ Left(q) = b[done[q]] - Behind(q)
    BY DEF Inv, Met
  <2>3. ASSUME NEW q \in Procs PROVE Left(q)' = b2[done'[q]] - Behind(q)'
    <3>1. CASE q = p
      <4>1. Behind(p) = 0 /\ b[done[p]] \in Nat
        BY <1>1, Known DEF Behind, Rest
      <4>2. Behind(p)' = Total(window, c, l)
        BY <1>1, <1>4, <1>6, <1>10 DEF Behind
      <4>3. b2[done[p]] = b[done[p]] /\ done[p] + 1 \in 1 .. Len(calls') /\ done[p] + 1 - 1 = done[p]
        BY <1>2
      <4>4. b2[done[p] + 1] = b[done[p]] + Total(window, c, l)
        <5>1. PICK d : d = done[p] + 1
          OBVIOUS
        <5>2. d \in 1 .. Len(calls') /\ d - 1 = done[p]
          BY <1>2, <4>3, <5>1
        <5>3. b2[d] = b2[d - 1] + Total(window, calls'[d], Locked(calls', d - 1))
          BY <1>13, <5>2, Zenon
        <5>. QED BY <4>3, <5>1, <5>2, <5>3 DEF l
      <4>. QED BY <1>4, <1>5, <2>1, <2>2, <3>1, <4>1, <4>2, <4>4
    <3>2. CASE q # p
      <4>1. Behind(q)' = Behind(q)
        <5>1. CASE done[q] = 0
          <6>1. todo[q] = <<>> /\ todo'[q] = <<>>
            BY <1>6, <3>2, <5>1 DEF Inv, Going
          <6>. QED BY <6>1 DEF Behind, Rest
        <5>2. CASE done[q] # 0
          BY <1>1, <1>5, <1>6, <1>9, <3>2, <5>2 DEF Behind
        <5>. QED BY <5>1, <5>2
      <4>2. b2[done'[q]] = b[done[q]]
        BY <1>2, <1>5, <3>2
      <4>. QED BY <2>1, <2>2, <4>1, <4>2
    <3>. QED BY <3>1, <3>2
  <2>4. Len(collected) <= b2[Len(calls)] /\ b2[Len(calls)] <= b2[Len(calls')] /\ b2[Len(calls)] \in Nat /\ b2[Len(calls')] \in Nat
    <3>1. Len(collected) <= b[Len(calls)]
      BY DEF Inv, Met
    <3>. QED BY <1>2, <1>13, <3>1
  <2>5. ASSUME NEW i \in 1 .. Len(calls'), NEW j \in 1 .. Len(collected), b2[i-1] < j, j <= b2[i]
        PROVE  collected[j] = <<i, Name(window, calls'[i], b2[i] - j + 1)>>
    <3>1. CASE i \in 1 .. Len(calls)
      <4>1. b2[i] = b[i] /\ b2[i-1] = b[i-1] /\ calls'[i] = calls[i]
        BY <1>2, <3>1
      <4>. QED BY <2>5, <3>1, <4>1 DEF Inv, Met
    <3>2. CASE i \notin 1 .. Len(calls)
      <4>1. Len(calls) \in 0 .. Len(calls') /\ i - 1 \in 0 .. Len(calls') /\ Len(calls) <= i - 1
        BY <1>2, <3>2
      <4>2. b2[Len(calls)] <= b2[i-1] /\ b2[i-1] \in Nat
        BY <1>13, <4>1
      <4>. QED BY <1>2, <2>4, <2>5, <4>2
    <3>. QED BY <3>1, <3>2
  <2>6. \A q, r \in Procs : Left(r)' <= joined'[q]
    BY <1>1, <2>1 DEF Inv, Met
  <2>7. Len(collected') <= b2[Len(calls')]
    BY <1>1, <1>2, <2>4
  <2>. QED BY <1>1, <2>2, <2>3, <2>5, <2>6, <2>7 DEF Met
<1>15. Memory(b2)'
  <2>1. ASSUME NEW q \in Procs
        PROVE /\ memory[q].by = "nobody" /\ done'[q] # 0 =>
                   calls'[done'[q]] = "Window" /\ Len(todo'[q]) >= Closing(window) + 2
              /\ memory[q].by = "freed" =>
                   /\ done'[q] = Len(calls') /\ done'[q] # 0 /\ calls'[done'[q]] = "wfree"
                   /\ Len(todo'[q]) <= Closing(window) + Info(window)
                   /\ Locked(calls', done'[q] - 1) = 1
              /\ memory[q].by = "put" => memory[q].call \in 1 .. Len(calls') /\ Joined(b2[memory[q].call])
    <3>1. /\ memory[q].by = "nobody" /\ done[q] # 0 =>
               calls[done[q]] = "Window" /\ Len(todo[q]) >= Closing(window) + 2
          /\ memory[q].by = "freed" =>
               /\ done[q] = Len(calls) /\ done[q] # 0 /\ calls[done[q]] = "wfree"
               /\ Len(todo[q]) <= Closing(window) + Info(window)
               /\ Locked(calls, done[q] - 1) = 1
          /\ memory[q].by = "put" => memory[q].call \in 1 .. Len(calls) /\ Joined(b[memory[q].call])
      BY DEF Inv, Memory
    <3>2. memory[q].by = "put" => memory[q].call \in 1 .. Len(calls') /\ Joined(b2[memory[q].call])
      BY <1>2, <3>1
    <3>3. CASE q = p
      <4>1. memory[p].by = "nobody" => done[p] = 0
        BY <1>1, <1>2, <3>1, <3>3
      <4>2. done[p] = 0 => c = "Window"
        <5>1. 1 \in 1 .. Len(calls')
          BY <1>2
        <5>. QED BY <5>1 DEF CallOrder
      <4>3. c = "Window" => Len(todo'[p]) >= Closing(window) + 2
        <5>1. Size(window, "Window", p, l) >= Closing(window) + 2
          BY <1>2 DEF Size
        <5>. QED BY <1>4, <1>6, <5>1
      <4>4. memory[p].by # "freed"
        BY <1>2, <3>1, <3>3
      <4>. QED BY <1>10, <3>2, <3>3, <4>1, <4>2, <4>3, <4>4
    <3>4. CASE q # p
      <4>1. done'[q] = done[q] /\ todo'[q] = todo[q]
        BY <1>5, <1>6, <3>4
      <4>. QED BY <1>9, <3>1, <3>2, <3>4, <4>1
    <3>. QED BY <3>3, <3>4
  <2>. QED BY <1>1, <2>1 DEF Memory, Joined
<1>16. Pending(b2)'
  <2>1. ASSUME NEW u \in pending
        PROVE  u.call \in 1 .. done'[u.from] /\ iswinlocked_[u.from] /\ Joined(b2[u.call])
    <3>1. u.call \in 1 .. done[u.from] /\ iswinlocked_[u.from] /\ Joined(b[u.call])
      BY DEF Inv, Pending
    <3>2. u.from \in Procs
      BY <1>2 DEF Puts
    <3>3. done[u.from] \in Nat /\ done[u.from] <= Len(calls) /\ done'[u.from] \in Nat /\ done[u.from] <= done'[u.from]
      <4>1. PICK q : q = u.from
        OBVIOUS
      <4>2. done[q] \in Nat /\ done[q] <= Len(calls) /\ done'[q] \in Nat
        BY <1>2, <1>5, <3>2, <4>1
      <4>3. done'[q] = done[q] \/ done'[q] = done[q] + 1
        BY <1>5, <3>2, <4>1
      <4>. QED BY <4>1, <4>2, <4>3
    <3>4. u.call \in 1 .. Len(calls) /\ u.call \in 1 .. done'[u.from]
      <4>1. PICK x, y : x = done[u.from] /\ y = done'[u.from]
        OBVIOUS
      <4>2. x \in Nat /\ x <= Len(calls) /\ y \in Nat /\ x <= y /\ u.call \in 1 .. x /\ Len(calls) \in Nat
        BY <1>2, <3>1, <3>3, <4>1
      <4>3. u.call \in 1 .. Len(calls) /\ u.call \in 1 .. y
        BY <4>2
      <4>. QED BY <4>1, <4>3
    <3>. QED BY <3>1, <3>4
  <2>. QED BY <1>1, <2>1 DEF Pending, Joined
<1>17. Printed(b2)'
  <2>1. ASSUME NEW i \in 1 .. Len(out), NEW o, o = out[i], NEW e, e = calls'[o.call]
        PROVE  /\ o.call \in 1 .. done'[o.rank] /\ e \in {"print", "print_ranges"}
               /\ (o.what = "title" \/ e = "print_ranges") => o.what = "title" /\ o.rank = 0
               /\ \A q \in Procs : b2[o.call] - Turn(window, e, o.what, o.rank) <= joined[q]
               /\ o.call = done'[o.rank] => Len(todo'[o.rank]) < Spot(window, e, o.what, o.rank)
    <3>1. o.rank \in Procs
      <4>1. o \in Lines
        BY <1>2, <2>1
      <4>. QED BY <4>1 DEF Lines
    <3>2. o.call \in 1 .. done[o.rank]
      BY <2>1 DEF Inv, Printed
    <3>3. done[o.rank] \in Nat /\ done[o.rank] <= Len(calls) /\ done'[o.rank] \in Nat /\ done[o.rank] <= done'[o.rank]
          /\ (o.rank = p => done'[o.rank] = done[o.rank] + 1)
          /\ (o.rank # p => done'[o.rank] = done[o.rank] /\ todo'[o.rank] = todo[o.rank])
      BY <1>2, <1>5, <1>6, <3>1
    <3>4. o.call \in 1 .. Len(calls) /\ o.call \in 1 .. done'[o.rank] /\ (o.rank = p => o.call # done'[o.rank])
      BY <1>2, <3>2, <3>3
    <3>5. e = calls[o.call] /\ b2[o.call] = b[o.call]
      BY <1>2, <2>1, <3>4
    <3>6. /\ e \in {"print", "print_ranges"}
          /\ (o.what = "title" \/ e = "print_ranges") => o.what = "title" /\ o.rank = 0
          /\ \A q \in Procs : b[o.call] - Turn(window, e, o.what, o.rank) <= joined[q]
          /\ o.call = done[o.rank] => Len(todo[o.rank]) < Spot(window, e, o.what, o.rank)
      BY <2>1, <3>5 DEF Inv, Printed, Joined
    <3>. QED BY <3>3, <3>4, <3>5, <3>6
  <2>. QED BY <1>1, <2>1 DEF Printed, Joined
<1>18. PrintsWhole'
  BY <1>1 DEF Inv, PrintsWhole
<1>. QED
  BY <1>8, <1>12, <1>14, <1>15, <1>16, <1>17, <1>18 DEF Inv

\* The first to make a call, and those that follow.
LEMMA CallStep ==
  ASSUME NEW b, Inv(b), NEW p \in Procs, Call(p)
  PROVE  CollectivesInv'
<1>1. PICK c \in Possible(p) : calls' = Append(calls, c) /\ Enter(p, c)
  BY DEF Call
<1>2. /\ calls \in Seq(CallNames) /\ Len(calls) \in Nat /\ window \in WindowsOf /\ MaxCalls \in Nat
      /\ done[p] = Len(calls) /\ Len(calls) < MaxCalls
      /\ \A i \in 0 .. Len(calls) : b[i] \in Nat
  BY Known, SizeAssumption DEF Inv, Types, Call
<1>3. c \in CallNames /\ (c = "Window" <=> Len(calls) = 0) /\ (Len(calls) # 0 => calls[Len(calls)] # "wfree")
  <2>1. CASE calls = <<>>
    BY <1>1, <2>1 DEF Possible, CallNames
  <2>2. CASE calls # <<>>
    <3>1. Len(calls) # 0
      BY <1>2, <2>2, EmptySeq
    <3>. QED BY <1>1, <2>2, <3>1 DEF Possible, CallNames, Last
  <2>. QED BY <2>1, <2>2
<1>4. /\ calls' \in Seq(CallNames) /\ Len(calls') = Len(calls) + 1
      /\ \A i \in 1 .. Len(calls) : calls'[i] = calls[i]
      /\ calls'[Len(calls) + 1] = c
  BY <1>1, <1>2, <1>3, AppendProperties
<1>5. \A i \in 0 .. Len(calls) : Locked(calls', i) = Locked(calls, i)
  BY <1>1, <1>2, <1>3, LockedAppend
<1>. DEFINE total == Total(window, c, Locked(calls, Len(calls)))
            b2 == [i \in 0 .. Len(calls') |-> IF i <= Len(calls) THEN b[i] ELSE b[Len(calls)] + total]
<1>6. total \in Nat
  BY <1>2, <1>3, LockedCalls, TotalType
<1>7. /\ b2 \in [0 .. Len(calls') -> Nat] /\ \A i \in 0 .. Len(calls) : b2[i] = b[i]
      /\ b2[Len(calls) + 1] = b[Len(calls)] + total
  <2>. HIDE DEF total
  <2>. QED BY <1>2, <1>4, <1>6
<1>. PICK b3 : b3 = b2
  OBVIOUS
<1>. HIDE DEF b2
<1>8. CallOrder'
  <2>1. ASSUME NEW k \in 1 .. Len(calls')
        PROVE  (calls'[k] = "Window" <=> k = 1) /\ (calls'[k] = "wfree" => k = Len(calls'))
    <3>1. CASE k = Len(calls) + 1
      BY <1>2, <1>3, <1>4, <3>1
    <3>2. CASE k # Len(calls) + 1
      <4>1. k \in 1 .. Len(calls) /\ calls'[k] = calls[k]
        BY <1>2, <1>4, <3>2
      <4>. QED BY <1>2, <1>3, <4>1 DEF Inv, CallOrder
    <3>. QED BY <3>1, <3>2
  <2>. QED BY <2>1 DEF CallOrder
<1>9. Counts(b3)'
  <2>1. /\ b[0] = 0 /\ \A i \in 1 .. Len(calls) : b[i] = b[i-1] + Total(window, calls[i], Locked(calls, i - 1))
        /\ \A i, j \in 0 .. Len(calls) : i <= j => b[i] <= b[j]
    BY DEF Inv, Counts
  <2>2. ASSUME NEW i \in 1 .. Len(calls')
        PROVE  b3[i] = b3[i-1] + Total(window, calls'[i], Locked(calls', i - 1))
    <3>1. CASE i = Len(calls) + 1
      <4>1. i - 1 = Len(calls) /\ Len(calls) \in 0 .. Len(calls)
        BY <1>2, <3>1
      <4>. QED BY <1>4, <1>5, <1>7, <3>1, <4>1
    <3>2. CASE i # Len(calls) + 1
      <4>1. i \in 1 .. Len(calls) /\ i \in 0 .. Len(calls) /\ i - 1 \in 0 .. Len(calls)
        BY <1>2, <1>4, <3>2
      <4>. QED BY <1>4, <1>5, <1>7, <2>1, <4>1
    <3>. QED BY <3>1, <3>2
  <2>3. ASSUME NEW i \in 0 .. Len(calls'), NEW j \in 0 .. Len(calls'), i <= j
        PROVE  b3[i] <= b3[j]
    <3>1. CASE j = Len(calls) + 1
      <4>1. CASE i = Len(calls) + 1
        <5>1. b3[i] \in Nat
          BY <1>7
        <5>. QED BY <3>1, <4>1, <5>1
      <4>2. CASE i # Len(calls) + 1
        <5>1. i \in 0 .. Len(calls) /\ Len(calls) \in 0 .. Len(calls) /\ i <= Len(calls)
          BY <1>2, <1>4, <4>2
        <5>2. b[i] <= b[Len(calls)] /\ b[i] \in Nat /\ b[Len(calls)] \in Nat
          BY <1>2, <2>1, <5>1
        <5>3. b3[i] = b[i] /\ b3[j] = b[Len(calls)] + total
          BY <1>7, <3>1, <5>1
        <5>. HIDE DEF total
        <5>. QED BY <1>6, <5>2, <5>3
      <4>. QED BY <4>1, <4>2
    <3>2. CASE j # Len(calls) + 1
      <4>1. i \in 0 .. Len(calls) /\ j \in 0 .. Len(calls)
        BY <1>2, <1>4, <2>3, <3>2
      <4>. QED BY <1>7, <2>1, <2>3, <4>1
    <3>. QED BY <3>1, <3>2
  <2>4. b3[0] = 0
    BY <1>2, <1>7, <2>1
  <2>5. window' = window
    BY <1>1 DEF Enter
  <2>. QED BY <1>7, <2>2, <2>3, <2>4, <2>5 DEF Counts
<1>10. \A q \in Procs : memory[q].by # "freed"
  BY <1>3 DEF Inv, Memory
<1>11. Len(calls) <= Len(calls') /\ Len(calls') <= MaxCalls /\ done[p] < Len(calls') /\ c = calls'[done[p] + 1]
  BY <1>2, <1>4
<1>12. Inv(b3)'
  BY <1>1, <1>3, <1>4, <1>5, <1>7, <1>8, <1>9, <1>10, <1>11, EnterStep
<1>. QED
  BY <1>7, <1>12 DEF CollectivesInv

LEMMA FollowStep ==
  ASSUME NEW b, Inv(b), NEW p \in Procs, Follow(p)
  PROVE  Inv(b)'
<1>1. done[p] < Len(calls) /\ calls' = calls
  BY DEF Follow
<1>2. PICK c : c = calls[done[p] + 1]
  OBVIOUS
<1>3. Enter(p, c)
  BY <1>2 DEF Follow
<1>4. /\ calls \in Seq(CallNames) /\ Len(calls) <= MaxCalls /\ done[p] \in Nat /\ Len(calls) \in Nat
  BY Known DEF Inv, Types
<1>5. c \in CallNames
  <2>1. done[p] + 1 \in 1 .. Len(calls)
    BY <1>1, <1>4
  <2>. QED BY <1>2, <2>1, Known
<1>6. CallOrder' /\ Counts(b)'
  <2>1. window' = window
    BY <1>3 DEF Enter
  <2>. QED BY <1>1, <2>1 DEF Inv, CallOrder, Counts
<1>. QED
  BY <1>1, <1>2, <1>3, <1>4, <1>5, <1>6, EnterStep

\* The invariant holds at first, is kept by every step, and holds for ever.
LEMMA InitInv ==
  Init => CollectivesInv
<1>1. SUFFICES ASSUME Init PROVE CollectivesInv
  OBVIOUS
<1>. DEFINE b == [i \in 0 .. 0 |-> 0]
<1>2. b \in [0 .. 0 -> Nat] /\ b[0] = 0
  OBVIOUS
<1>. HIDE DEF b
<1>3. Len(calls) = 0 /\ Len(collected) = 0 /\ Len(out) = 0 /\ MaxCalls \in Nat /\ pending = {}
      /\ calls = <<>> /\ collected = <<>> /\ out = <<>> /\ calls \in Seq(CallNames)
  BY <1>1, SizeAssumption DEF Init
<1>4. /\ \A p \in Procs : /\ done[p] = 0 /\ todo[p] = <<>> /\ Len(todo[p]) = 0 /\ ~inside[p] /\ ~iswinlocked_[p]
                           /\ joined[p] = 0 /\ memory[p] = [by |-> "nobody", call |-> 0]
  BY <1>1 DEF Init
<1>5. Types
  <2>1. memory \in [Procs -> Marks]
    BY <1>1 DEF Init, Marks
  <2>2. /\ done \in [Procs -> Nat] /\ todo \in [Procs -> Seq(StepNames)] /\ inside \in [Procs -> BOOLEAN]
        /\ joined \in [Procs -> Nat] /\ iswinlocked_ \in [Procs -> BOOLEAN]
    BY <1>1 DEF Init
  <2>3. collected \in Seq(Nat \X Waiting) /\ out \in Seq(Lines)
    BY <1>3
  <2>4. window \in WindowsOf /\ puts \in Nat /\ failed \in BOOLEAN
    BY <1>1 DEF Init
  <2>5. \A p \in Procs : done[p] <= Len(calls)
    BY <1>3, <1>4
  <2>. QED BY <1>3, <2>1, <2>2, <2>3, <2>4, <2>5 DEF Types
<1>6. CallOrder /\ Counts(b)
  BY <1>2, <1>3 DEF CallOrder, Counts
<1>7. \A p \in Procs : Going(p)
  BY <1>4 DEF Going
<1>8. Met(b)
  BY <1>2, <1>3, <1>4 DEF Met, Left, Behind, Rest
<1>9. Memory(b) /\ Pending(b)
  BY <1>3, <1>4 DEF Memory, Pending
<1>10. Printed(b) /\ PrintsWhole
  BY <1>3 DEF Printed, PrintsWhole
<1>11. Inv(b)
  BY <1>5, <1>6, <1>7, <1>8, <1>9, <1>10 DEF Inv
<1>. QED
  BY <1>2, <1>3, <1>11 DEF CollectivesInv

LEMMA NextInv ==
  CollectivesInv /\ [Next]_vars => CollectivesInv'
<1>1. SUFFICES ASSUME CollectivesInv, [Next]_vars PROVE CollectivesInv'
  OBVIOUS
<1>2. PICK b \in [0 .. Len(calls) -> Nat] : Inv(b)
  BY <1>1 DEF CollectivesInv
<1>3. Inv(b)' /\ calls' = calls => CollectivesInv'
  BY DEF CollectivesInv
<1>4. CASE UNCHANGED vars
  <2>1. Inv(b)'
    <3>1. Types' /\ CallOrder' /\ Counts(b)' /\ PrintsWhole'
      BY <1>2, <1>4 DEF vars, Inv, Types, CallOrder, Counts, PrintsWhole
    <3>2. \A q \in Procs : Going(q)'
      BY <1>2, <1>4 DEF vars, Inv, Going
    <3>3. Met(b)'
      BY <1>2, <1>4 DEF vars, Inv, Met, Left, Behind
    <3>4. Memory(b)' /\ Pending(b)'
      BY <1>2, <1>4 DEF vars, Inv, Memory, Pending, Joined
    <3>5. Printed(b)'
      BY <1>2, <1>4 DEF vars, Inv, Printed, Joined
    <3>. QED BY <3>1, <3>2, <3>3, <3>4, <3>5 DEF Inv
  <2>. QED BY <1>3, <1>4, <2>1 DEF vars
<1>5. ASSUME NEW p \in Procs, Call(p) PROVE CollectivesInv'
  BY <1>2, <1>5, CallStep
<1>6. ASSUME NEW p \in Procs, Follow(p) PROVE CollectivesInv'
  <2>1. calls' = calls
    BY <1>6 DEF Follow
  <2>. QED BY <1>2, <1>3, <1>6, <2>1, FollowStep
<1>7. ASSUME NEW p \in Procs, Step(p) PROVE CollectivesInv'
  <2>1. calls' = calls
    BY <1>7 DEF Step, Join, Leave, Cart, InfoFree, WinAllocate, WinLockAll, WinUnlockAll, Store, Write
  <2>2. Inv(b)'
    BY <1>2, <1>7, JoinStep, MemoryStep, QuietStep, WriteStep DEF Step
  <2>. QED BY <1>3, <2>1, <2>2
<1>8. ASSUME NEW p \in Procs, NEW t \in Procs, Put(p, t) PROVE CollectivesInv'
  <2>1. calls' = calls
    BY <1>8 DEF Put
  <2>. QED BY <1>2, <1>3, <1>8, <2>1, PutStep
<1>9. ASSUME NEW u \in pending, Land(u) PROVE CollectivesInv'
  <2>1. calls' = calls
    BY <1>9 DEF Land
  <2>. QED BY <1>2, <1>3, <1>9, <2>1, LandStep
<1>. QED
  BY <1>1, <1>4, <1>5, <1>6, <1>7, <1>8, <1>9 DEF Next

LEMMA AlwaysInv ==
  Spec => []CollectivesInv
<1>. QED
  BY InitInv, NextInv, PTL DEF Spec

-----------------------------------------------------------------------------
(***************************************************************************)
(* What follows from it.                                                   *)
(***************************************************************************)

\* A process that holds the lock has its memory.
LEMMA LockedMemory ==
  ASSUME NEW b, Inv(b), NEW p \in Procs, iswinlocked_[p]
  PROVE  memory[p].by \notin {"nobody", "freed"}
<1>1. done[p] # 0 /\ Holds(window, calls[done[p]], Len(todo[p]), Locked(calls, done[p] - 1))
  BY DEF Inv, Going
<1>2. Len(todo[p]) \in Nat /\ Closing(window) \in {0, 1} /\ Info(window) \in {0, 1}
  BY Known
<1>3. PICK m, l : m = Len(todo[p]) /\ l = Locked(calls, done[p] - 1)
  OBVIOUS
<1>4. memory[p].by # "nobody"
  <2>1. memory[p].by = "nobody" => calls[done[p]] = "Window" /\ m >= Closing(window) + 2
    BY <1>1, <1>3 DEF Inv, Memory
  <2>2. Holds(window, "Window", m, l) => m <= Closing(window)
    BY DEF Holds
  <2>. QED BY <1>1, <1>2, <1>3, <2>1, <2>2
<1>5. memory[p].by # "freed"
  <2>1. memory[p].by = "freed" => calls[done[p]] = "wfree" /\ m <= Closing(window) + Info(window)
    BY <1>3 DEF Inv, Memory
  <2>2. Holds(window, "wfree", m, l) => m = Closing(window) + Info(window) + 2
    BY DEF Holds
  <2>. QED BY <1>1, <1>2, <1>3, <2>1, <2>2
<1>. QED
  BY <1>4, <1>5

\* Types, a process waits in collectives only, and holds its lock on memory it has, in
\* any program of any number of processes: no call uses a window before Win_allocate or
\* after Win_free (the constructors, wlock, wunlock and wfree).
THEOREM TypeCorrect == Spec => []TypeOK
<1>1. CollectivesInv => TypeOK
  <2>1. SUFFICES ASSUME NEW b, Inv(b) PROVE TypeOK
    BY DEF CollectivesInv
  <2>2. Types /\ \A p \in Procs : joined[p] <= Len(collected)
    BY <2>1 DEF Inv, Met
  <2>3. done \in [Procs -> 0 .. Len(calls)] /\ joined \in [Procs -> 0 .. Len(collected)]
    <3>1. Len(calls) \in Nat /\ Len(collected) \in Nat /\ done \in [Procs -> Nat] /\ joined \in [Procs -> Nat]
      BY <2>1, <2>2, Known DEF Types
    <3>2. \A p \in Procs : done[p] \in 0 .. Len(calls) /\ joined[p] \in 0 .. Len(collected)
      BY <2>2, <3>1 DEF Types
    <3>. QED BY <3>1, <3>2
  <2>4. \A p \in Procs : inside[p] => todo[p] # <<>> /\ Head(todo[p]) \in Waiting
    BY <2>1 DEF Inv, Going
  <2>5. \A p \in Procs : memory[p].by \in {"nobody", "constructor", "fill", "put", "freed"}
    BY <2>2 DEF Types, Marks
  <2>6. \A p \in Procs : iswinlocked_[p] => memory[p].by \notin {"nobody", "freed"}
    BY <2>1, LockedMemory
  <2>7. \A u \in pending : {u.from, u.to} \subseteq Procs /\ u.call \in 1 .. done[u.from]
    BY <2>1, <2>2 DEF Inv, Pending, Types, Puts
  <2>. QED BY <2>2, <2>3, <2>4, <2>5, <2>6, <2>7 DEF TypeOK, Types
<1>. QED
  BY <1>1, AlwaysInv, PTL

\* However many processes there are and whatever their calls, those that meet in a
\* collective have come to it by the same call and make the same one of MPI's: the
\* barriers print makes under conditions on the rank pair up.
THEOREM AllInStep == Spec => []InStep
<1>1. CollectivesInv => InStep
  <2>1. SUFFICES ASSUME NEW b, Inv(b), NEW p \in Procs, inside[p]
                 PROVE  collected[joined[p]] = <<done[p], Head(todo[p])>>
    BY DEF CollectivesInv, InStep
  <2>2. todo[p] # <<>> /\ Head(todo[p]) \in Waiting
    BY <2>1 DEF Inv, Going
  <2>3. /\ done[p] # 0
        /\ Behind(p) = Rest(window, calls[done[p]], p, Len(todo[p]) - 1) + 1
        /\ Rest(window, calls[done[p]], p, Len(todo[p]) - 1) \in Nat
        /\ Name(window, calls[done[p]], Behind(p)) = Head(todo[p])
    BY <2>1, <2>2, AtStep
  <2>4. /\ done[p] \in 1 .. Len(calls)
        /\ Behind(p) \in Nat /\ Behind(p) <= Total(window, calls[done[p]], Locked(calls, done[p] - 1))
        /\ b[done[p]] = b[done[p] - 1] + Total(window, calls[done[p]], Locked(calls, done[p] - 1))
        /\ b[done[p]] \in Nat /\ b[done[p] - 1] \in Nat
    BY <2>1, <2>3, InCall
  <2>5. joined[p] - 1 = b[done[p]] - Behind(p) /\ joined[p] \in Nat /\ joined[p] <= Len(collected) /\ Len(collected) \in Nat
    BY <2>1, Known DEF Inv, Met, Left
  <2>6. PICK y, x, z, t : y = Behind(p) /\ x = b[done[p] - 1] /\ z = b[done[p]]
                          /\ t = Total(window, calls[done[p]], Locked(calls, done[p] - 1))
    OBVIOUS
  <2>7. t \in Nat
    <3>1. calls[done[p]] \in CallNames /\ Locked(calls, done[p] - 1) \in {0, 1} /\ window \in WindowsOf
      BY <2>1, <2>3, InCall, Known
    <3>. QED BY <2>6, <3>1, TotalType
  <2>8. /\ y \in Nat /\ 1 <= y /\ y <= t /\ x \in Nat /\ z \in Nat /\ z = x + t
        /\ joined[p] - 1 = z - y /\ joined[p] \in Nat
    BY <2>3, <2>4, <2>5, <2>6
  <2>9. x < joined[p] /\ joined[p] <= z /\ z - joined[p] + 1 = y /\ joined[p] >= 1
    <3>1. PICK g : g = joined[p]
      OBVIOUS
    <3>2. y \in Nat /\ 1 <= y /\ y <= t /\ x \in Nat /\ z = x + t /\ t \in Nat /\ g - 1 = z - y /\ g \in Nat
      BY <2>7, <2>8, <3>1
    <3>3. x < g /\ g <= z /\ z - g + 1 = y /\ g >= 1
      BY <3>2
    <3>. QED BY <3>1, <3>3
  <2>10. joined[p] \in 1 .. Len(collected)
    BY <2>5, <2>9
  <2>11. collected[joined[p]] = <<done[p], Name(window, calls[done[p]], z - joined[p] + 1)>>
    BY <2>1, <2>4, <2>6, <2>9, <2>10 DEF Inv, Met
  <2>. QED BY <2>3, <2>6, <2>9, <2>11
<1>. QED
  BY <1>1, AlwaysInv, PTL

\* What print and print_ranges write comes out whole and in rank order, however many
\* processes write and whatever the number of dimensions, and shows no put made after
\* the process that made it returned from the call.
THEOREM PrintedWhole == Spec => []PrintsWhole
<1>1. CollectivesInv => PrintsWhole
  BY DEF CollectivesInv, Inv
<1>. QED
  BY <1>1, AlwaysInv, PTL

\* No put is on its way to memory that is freed: every process unlocks the window, and
\* its puts are in effect, before any has left Win_free.
LEMMA NoneFreed ==
  ASSUME NEW b, Inv(b), NEW u \in pending
  PROVE  memory[u.to].by # "freed"
<1>1. SUFFICES ASSUME memory[u.to].by = "freed" PROVE FALSE
  OBVIOUS
<1>2. PICK p, q : p = u.from /\ q = u.to
  OBVIOUS
<1>3. p \in Procs /\ q \in Procs /\ iswinlocked_[p]
  BY <1>2, Known DEF Inv, Pending, Puts
<1>4. /\ done[q] = Len(calls) /\ done[q] # 0 /\ calls[done[q]] = "wfree"
      /\ Len(todo[q]) <= Closing(window) + Info(window) /\ Locked(calls, done[q] - 1) = 1
  BY <1>1, <1>2, <1>3 DEF Inv, Memory
<1>5. PICK n, x, z : n = Len(calls) /\ x = b[n - 1] /\ z = b[n]
  OBVIOUS
<1>6. Closing(window) \in {0, 1} /\ Info(window) \in {0, 1} /\ n \in Nat /\ n # 0
  BY <1>4, <1>5, Known
<1>7. x \in Nat /\ z \in Nat /\ z = x + 1 + Closing(window)
  <2>1. b[done[q]] = b[done[q] - 1] + Total(window, calls[done[q]], Locked(calls, done[q] - 1))
        /\ b[done[q]] \in Nat /\ b[done[q] - 1] \in Nat
    BY <1>3, <1>4, InCall
  <2>2. Total(window, "wfree", 1) = 1 + Closing(window)
    BY DEF Total
  <2>. QED BY <1>4, <1>5, <1>6, <2>1, <2>2
<1>8. Left(q) >= x + 1
  <2>1. Len(todo[q]) \in Nat
    BY <1>3, Known
  <2>2. Behind(q) \in Nat /\ Behind(q) <= Closing(window)
    BY <1>4, <1>6, <2>1 DEF Behind, Rest
  <2>3. Left(q) = z - Behind(q)
    BY <1>3, <1>4, <1>5 DEF Inv, Met
  <2>. QED BY <1>6, <1>7, <2>2, <2>3
<1>9. joined[p] >= x + 1 /\ joined[p] \in Nat
  <2>1. Left(q) <= joined[p]
    BY <1>3 DEF Inv, Met
  <2>2. joined[p] \in Nat /\ joined[q] \in Nat
    BY <1>3, Known
  <2>3. Left(q) \in Int
    BY <2>2 DEF Left
  <2>. QED BY <1>7, <1>8, <2>1, <2>2, <2>3
<1>10. done[p] # 0 /\ done[p] \in Nat /\ done[p] <= n /\ Len(todo[p]) \in Nat
       /\ Holds(window, calls[done[p]], Len(todo[p]), Locked(calls, done[p] - 1))
  BY <1>3, <1>5, Known DEF Inv, Going
<1>11. /\ Behind(p) \in Nat /\ b[done[p]] \in Nat /\ Left(p) = b[done[p]] - Behind(p)
       /\ (inside[p] => Behind(p) >= 1)
  <2>1. inside[p] => todo[p] # <<>> /\ Head(todo[p]) \in Waiting
    BY <1>3 DEF Inv, Going
  <2>2. todo[p] # <<>> /\ Head(todo[p]) \in Waiting => Behind(p) >= 1
    BY <1>3, AtStep
  <2>3. Behind(p) \in Nat /\ b[done[p]] \in Nat
    BY <1>3, <1>10, InCall
  <2>. QED BY <1>3, <2>1, <2>2, <2>3 DEF Inv, Met
<1>12. done[p] = n
  <2>1. ASSUME done[p] # n PROVE FALSE
    <3>1. done[p] \in 0 .. Len(calls) /\ n - 1 \in 0 .. Len(calls) /\ done[p] <= n - 1
      BY <1>5, <1>6, <1>10, <2>1
    <3>2. b[done[p]] <= x
      BY <1>5, <3>1 DEF Inv, Counts
    <3>3. PICK y : y = Behind(p)
      OBVIOUS
    <3>4. y \in Nat /\ (inside[p] => y >= 1) /\ Left(p) = b[done[p]] - y
      BY <1>11, <3>3
    <3>5. joined[p] <= b[done[p]]
      BY <1>9, <1>11, <3>4 DEF Left
    <3>. QED BY <1>7, <1>9, <1>11, <3>2, <3>5
  <2>. QED BY <2>1
<1>13. calls[done[p]] = "wfree" /\ Locked(calls, done[p] - 1) = 1 /\ Len(todo[p]) = Closing(window) + Info(window) + 2
  <2>1. done[p] = done[q]
    BY <1>4, <1>5, <1>12
  <2>. QED BY <1>4, <1>10, <2>1 DEF Holds
<1>14. ~inside[p]
  <2>1. todo[p] # <<>> => Head(todo[p]) = StepAt(window, calls[done[p]], p, Len(todo[p]))
    BY <1>3, AtStep
  <2>2. StepAt(window, "wfree", p, Closing(window) + Info(window) + 2) = "Win_unlock_all"
    BY <1>6 DEF StepAt
  <2>. QED BY <1>3, <1>13, <2>1, <2>2 DEF Inv, Going, Waiting
<1>15. Behind(p) = Closing(window) + 1
  BY <1>6, <1>13 DEF Behind, Rest
<1>16. joined[p] = z - (Closing(window) + 1)
  <2>1. Left(p) = joined[p]
    BY <1>9, <1>14 DEF Left
  <2>. QED BY <1>5, <1>11, <1>12, <1>15, <2>1
<1>. QED
  BY <1>6, <1>7, <1>9, <1>16

\* What fill stores does not overwrite a put made after it.
LEMMA StoreBefore ==
  ASSUME NEW b, Inv(b), NEW p \in Procs, Store(p), memory[p].by = "put"
  PROVE  memory[p].call < done[p]
<1>1. todo[p] # <<>> /\ Head(todo[p]) = "store" /\ ~inside[p]
  BY DEF Store, At
<1>2. done[p] # 0 /\ Len(todo[p]) \in Nat \ {0} /\ Head(todo[p]) = StepAt(window, calls[done[p]], p, Len(todo[p]))
  BY <1>1, AtStep
<1>3. Behind(p) >= 1
  <2>1. /\ calls[done[p]] \in CallNames /\ Locked(calls, done[p] - 1) \in {0, 1} /\ window \in WindowsOf
        /\ Len(todo[p]) <= Size(window, calls[done[p]], p, Locked(calls, done[p] - 1))
    BY <1>2, InCall, Known
  <2>. QED BY <1>1, <1>2, <2>1, StepPlaces DEF Behind
<1>4. PICK k, d, y : k = memory[p].call /\ d = done[p] /\ y = Behind(p)
  OBVIOUS
<1>5. k \in 1 .. Len(calls) /\ b[k] <= joined[p] /\ d \in 1 .. Len(calls) /\ joined[p] \in Nat /\ y \in Nat
      /\ b[d] \in Nat /\ b[k] \in Nat
  <2>1. memory[p].call \in 1 .. Len(calls) /\ b[memory[p].call] <= joined[p]
    BY DEF Inv, Memory, Joined
  <2>2. done[p] \in 1 .. Len(calls) /\ Behind(p) \in Nat
    BY <1>2, InCall
  <2>. QED BY <1>4, <2>1, <2>2, Known
<1>6. joined[p] = b[d] - y
  BY <1>1, <1>4, <1>5 DEF Inv, Met, Left
<1>7. b[k] < b[d]
  BY <1>3, <1>4, <1>5, <1>6
<1>8. ~(d <= k)
  <2>1. d <= k => b[d] <= b[k]
    <3>1. Len(calls) \in Nat
      BY Known
    <3>2. k \in 0 .. Len(calls) /\ d \in 0 .. Len(calls)
      BY <1>5, <3>1
    <3>. QED BY <3>2 DEF Inv, Counts
  <2>. QED BY <1>5, <1>7, <2>1
<1>. QED
  BY <1>4, <1>5, <1>8

\* In every program, a fill overwrites only puts of earlier calls, in whatever order the
\* puts take effect, and no put comes to memory that is freed.
THEOREM PutsAreKept == Spec => PutsHold
<1>. DEFINE None == \A u \in pending : memory[u.to].by # "freed"
            Kept == /\ \A p \in Procs : memory[p].by = "put" /\ memory'[p].by = "fill" => memory[p].call < memory'[p].call
                    /\ \A u \in pending' : memory'[u.to].by # "freed"
<1>1. CollectivesInv => None
  BY NoneFreed DEF CollectivesInv
<1>2. CollectivesInv /\ None' /\ [Next]_vars => Kept
  <2>1. SUFFICES ASSUME CollectivesInv, None', [Next]_vars PROVE Kept
    OBVIOUS
  <2>2. \A u \in pending' : memory'[u.to].by # "freed"
    BY <2>1
  <2>3. PICK b : Inv(b)
    BY <2>1 DEF CollectivesInv
  <2>4. memory \in [Procs -> Marks]
    BY <2>3, Known
  <2>5. ASSUME NEW p \in Procs, memory[p].by = "put", memory'[p].by = "fill"
        PROVE  memory[p].call < memory'[p].call
    <3>1. memory' # memory
      BY <2>5
    <3>2. CASE \E q \in Procs : Store(q)
      <4>1. PICK q \in Procs : Store(q)
        BY <3>2
      <4>2. memory' = [memory EXCEPT ![q] = [by |-> "fill", call |-> done[q]]]
        BY <4>1 DEF Store
      <4>3. q = p
        BY <2>4, <2>5, <4>2
      <4>4. memory[p].call < done[p]
        BY <2>3, <2>5, <4>1, <4>3, StoreBefore
      <4>. QED BY <2>4, <4>2, <4>3, <4>4
    <3>3. CASE \E q \in Procs : WinAllocate(q) \/ Leave(q)
      BY <2>4, <2>5, <3>3 DEF WinAllocate, Leave
    <3>4. CASE \E u \in pending : Land(u)
      BY <2>4, <2>5, <3>4 DEF Land
    <3>5. CASE UNCHANGED memory
      BY <3>1, <3>5
    <3>6. \/ \E q \in Procs : Store(q) \/ WinAllocate(q) \/ Leave(q)
          \/ \E u \in pending : Land(u)
          \/ UNCHANGED memory
      BY <2>1 DEF Next, Step, vars, Call, Follow, Enter, Put, Join, Cart, InfoFree, WinLockAll, WinUnlockAll, Write
    <3>. QED BY <3>2, <3>3, <3>4, <3>5, <3>6
  <2>. QED BY <2>2, <2>5
<1>. QED
  BY <1>1, <1>2, AlwaysInv, PTL DEF Spec, PutsHold

-----------------------------------------------------------------------------
(***************************************************************************)
(* The process grid of a layout in rank order.                             *)
(***************************************************************************)

\* A grid of one column, in dimension k, holds as many processes as the column.
LEMMA GridVolume ==
  ASSUME NEW d \in Nat, NEW g \in [1 .. d -> Int], NEW k \in 1 .. d,
         \A j \in 1 .. d : j # k => g[j] = 1
  PROVE  FoldFunction(LAMBDA a, b : a * b, 1, g) = g[k]
<1>. DEFINE e(s) == CHOOSE x \in s : TRUE
            Body(v) == [s \in SUBSET (1 .. d) |-> IF s = {} THEN 1 ELSE g[e(s)] * v[s \ {e(s)}]]
            iter == CHOOSE v : v = Body(v)
            sol == [s \in SUBSET (1 .. d) |-> IF k \in s THEN g[k] ELSE 1]
<1>1. FoldFunction(LAMBDA a, b : a * b, 1, g) = iter[1 .. d]
  BY DEF FoldFunction, FoldFunctionOnSet, MapThenFoldSet
<1>2. ASSUME NEW s \in SUBSET (1 .. d), s # {}
      PROVE  e(s) \in s /\ s \ {e(s)} \in SUBSET (1 .. d)
  BY <1>2
<1>. HIDE DEF e
<1>3. g[k] \in Int
  OBVIOUS
<1>4. ASSUME NEW s \in SUBSET (1 .. d)
      PROVE  sol[s] = IF s = {} THEN 1 ELSE g[e(s)] * sol[s \ {e(s)}]
  <2>1. CASE s = {}
    BY <2>1
  <2>2. CASE s # {}
    <3>1. PICK x, t : x = e(s) /\ t = s \ {x}
      OBVIOUS
    <3>2. x \in s /\ t \in SUBSET (1 .. d)
      BY <1>2, <2>2, <3>1
    <3>3. CASE x = k
      <4>1. sol[s] = g[k] /\ sol[t] = 1
        BY <3>1, <3>2, <3>3
      <4>2. sol[s] = g[x] * sol[t]
        <5>. HIDE DEF sol
        <5>. QED BY <1>3, <3>3, <4>1
      <4>. HIDE DEF sol
      <4>. QED BY <2>2, <3>1, <4>2, Zenon
    <3>4. CASE x # k
      <4>1. g[x] = 1 /\ sol[s] = sol[t] /\ sol[t] \in Int
        BY <1>3, <3>1, <3>2, <3>4
      <4>2. sol[s] = g[x] * sol[t]
        <5>. HIDE DEF sol
        <5>. QED BY <4>1
      <4>. HIDE DEF sol
      <4>. QED BY <2>2, <3>1, <4>2, Zenon
    <3>. QED BY <3>3, <3>4
  <2>. QED BY <2>1, <2>2
<1>5. sol = Body(sol)
  BY <1>4
<1>6. iter = Body(iter)
  <2>. HIDE DEF Body, sol
  <2>. QED BY <1>5
<1>. HIDE DEF iter
<1>7. \A s \in SUBSET (1 .. d) : iter[s] = IF s = {} THEN 1 ELSE g[e(s)] * iter[s \ {e(s)}]
  BY <1>6
<1>. HIDE DEF sol, Body
<1>8. IsFiniteSet(1 .. d) /\ \A s \in SUBSET (1 .. d) : IsFiniteSet(s) /\ Cardinality(s) \in Nat
  <2>1. IsFiniteSet(1 .. d)
    BY FS_Interval
  <2>2. \A s \in SUBSET (1 .. d) : IsFiniteSet(s)
    BY <2>1, FS_Subset
  <2>. QED BY <2>1, <2>2, FS_CardinalityType
<1>9. \A s \in SUBSET (1 .. d) : iter[s] = sol[s]
  <2>. DEFINE Bad == {s \in SUBSET (1 .. d) : iter[s] # sol[s]}
              Sizes == {Cardinality(s) : s \in Bad}
  <2>1. SUFFICES ASSUME Bad # {} PROVE FALSE
    OBVIOUS
  <2>2. Sizes \in SUBSET Nat /\ Sizes # {}
    BY <1>8, <2>1
  <2>3. PICK n \in Sizes : \A m \in Sizes : n <= m
    <3>. HIDE DEF Sizes
    <3>. QED BY <2>2, NatMin
  <2>4. PICK s \in Bad : n = Cardinality(s)
    BY <2>3
  <2>5. s # {}
    BY <1>4, <1>7
  <2>6. PICK x, t : x = e(s) /\ t = s \ {x}
    OBVIOUS
  <2>7. x \in s /\ t \in SUBSET (1 .. d)
    BY <1>2, <2>5, <2>6
  <2>8. Cardinality(t) = n - 1 /\ n \in Nat /\ Cardinality(t) \in Nat
    BY <1>8, <2>4, <2>6, <2>7, FS_RemoveElement
  <2>9. t \notin Bad
    <3>1. t \in Bad => n <= Cardinality(t)
      BY <2>3
    <3>. QED BY <2>8, <3>1
  <2>10. iter[t] = sol[t]
    BY <2>7, <2>9
  <2>. QED BY <1>4, <1>7, <2>5, <2>6, <2>10
<1>10. sol[1 .. d] = g[k]
  BY DEF sol
<1>. QED
  BY <1>1, <1>9, <1>10

\* When slabs follow the ranks the corners rise between any two in the one dimension
\* they differ in, and the grid is one column of all processes.
LEMMA SlabGrid ==
  ASSUME window \in WindowsOf, InRankOrder, NEW p \in Procs
  PROVE  InGrid(p)
<1>. DEFINE volume(g) == FoldFunction(LAMBDA a, b : a * b, 1, g)
<1>1. SUFFICES ASSUME is_pgrid_unidir
      PROVE  (\A k \in DOMAIN pgrid : pgrid[k] >= 1) /\ volume(pgrid) <= commSize /\ p < volume(pgrid)
  BY DEF InGrid
<1>2. PICK d : d = window.ndims
  OBVIOUS
<1>3. d \in Nat \ {0} /\ commSize \in Nat \ {0} /\ \A i \in Procs, k \in 1 .. d : window.rlo[i][k] \in Int
  BY <1>2, SizeAssumption, WindowAssumption
<1>4. PICK c \in 1 .. d : \A i \in 1 .. commSize - 1, k \in 1 .. d : k # c => window.rlo[i-1][k] = window.rlo[i][k]
  <2>1. CASE Agree(1 .. d - 1)
    <3>1. d \in 1 .. d /\ \A k \in 1 .. d : k # d => k \in 1 .. d - 1
      BY <1>3
    <3>. QED BY <2>1, <3>1 DEF Agree
  <2>2. CASE Agree(2 .. d)
    <3>1. 1 \in 1 .. d /\ \A k \in 1 .. d : k # 1 => k \in 2 .. d
      BY <1>3
    <3>. QED BY <2>2, <3>1 DEF Agree
  <2>. QED BY <1>1, <1>2, <2>1, <2>2 DEF is_pgrid_unidir
<1>5. \A i \in 1 .. commSize - 1, k \in 1 .. d : window.rlo[i][k] \in Int /\ window.rlo[i-1][k] \in Int
  <2>1. \A i \in 1 .. commSize - 1 : i \in Procs /\ i - 1 \in Procs
    BY <1>3 DEF Procs
  <2>. QED BY <1>3, <2>1
<1>6. \A i \in 1 .. commSize - 1 : window.rlo[i-1][c] < window.rlo[i][c]
  <2>1. ASSUME NEW i \in 1 .. commSize - 1 PROVE window.rlo[i-1][c] < window.rlo[i][c]
    <3>1. PICK k \in 1 .. d : window.rlo[i-1][k] < window.rlo[i][k]
      BY <1>2 DEF InRankOrder
    <3>2. k = c
      BY <1>4, <1>5, <3>1
    <3>. QED BY <3>1, <3>2
  <2>. QED BY <2>1
<1>7. pgrid = [k \in 1 .. d |-> 1 + Cardinality({i \in 1 .. commSize - 1 : window.rlo[i][k] > window.rlo[i-1][k]})
                                  - Cardinality({i \in 1 .. commSize - 1 : window.rlo[i][k] < window.rlo[i-1][k]})]
  BY <1>2 DEF pgrid
<1>8. pgrid[c] = commSize
  <2>1. {i \in 1 .. commSize - 1 : window.rlo[i][c] > window.rlo[i-1][c]} = 1 .. commSize - 1
    BY <1>5, <1>6
  <2>2. {i \in 1 .. commSize - 1 : window.rlo[i][c] < window.rlo[i-1][c]} = {}
    BY <1>5, <1>6
  <2>3. Cardinality(1 .. commSize - 1) = commSize - 1 /\ Cardinality({}) = 0
    <3>1. 1 \in Int /\ commSize - 1 \in Int
      BY <1>3
    <3>2. Cardinality(1 .. commSize - 1) = IF 1 > commSize - 1 THEN 0 ELSE (commSize - 1) - 1 + 1
      BY <3>1, FS_Interval
    <3>. QED BY <1>3, <3>2, FS_EmptySet
  <2>4. pgrid[c] = 1 + Cardinality(1 .. commSize - 1) - Cardinality({})
    BY <1>7, <2>1, <2>2
  <2>. QED BY <1>3, <2>3, <2>4
<1>9. ASSUME NEW k \in 1 .. d, k # c PROVE pgrid[k] = 1
  <2>1. {i \in 1 .. commSize - 1 : window.rlo[i][k] > window.rlo[i-1][k]} = {}
    BY <1>4, <1>5, <1>9
  <2>2. {i \in 1 .. commSize - 1 : window.rlo[i][k] < window.rlo[i-1][k]} = {}
    BY <1>4, <1>5, <1>9
  <2>3. pgrid[k] = 1 + Cardinality({}) - Cardinality({})
    BY <1>7, <2>1, <2>2
  <2>. QED BY <2>3, FS_EmptySet
<1>10. pgrid \in [1 .. d -> Int] /\ DOMAIN pgrid = 1 .. d
  <2>1. DOMAIN pgrid = 1 .. d /\ pgrid = [k \in 1 .. d |-> pgrid[k]]
    BY <1>7
  <2>2. \A k \in 1 .. d : pgrid[k] \in Int
    BY <1>3, <1>8, <1>9
  <2>. QED BY <2>1, <2>2
<1>11. PICK g : g = pgrid
  OBVIOUS
<1>12. volume(g) = commSize
  BY <1>3, <1>8, <1>9, <1>10, <1>11, GridVolume
<1>13. \A k \in 1 .. d : pgrid[k] >= 1
  BY <1>3, <1>8, <1>9
<1>14. p < commSize
  BY <1>3 DEF Procs
<1>. HIDE DEF volume
<1>. QED
  BY <1>3, <1>10, <1>11, <1>12, <1>13, <1>14

\* Only a layout of slabs out of rank order, or boxes of different sizes in a build with
\* RMACXX_USE_SAME_SIZE_INFO, makes MPI abort a program, whatever the number of
\* processes and of dimensions: the grid the window works out is one MPI takes
\* (GWINIT_COMMON_RANGE in rmacxx-global-view.hpp).
THEOREM FailsOnlyInDisorder == Spec => []OnlyDisorderFails
<1>1. Init => OnlyDisorderFails
  BY DEF Init, OnlyDisorderFails
<1>2. CollectivesInv /\ OnlyDisorderFails /\ [Next]_vars => OnlyDisorderFails'
  <2>1. SUFFICES ASSUME CollectivesInv, OnlyDisorderFails, [Next]_vars PROVE OnlyDisorderFails'
    OBVIOUS
  <2>2. PICK b : Inv(b)
    BY <2>1 DEF CollectivesInv
  <2>3. window' = window /\ window \in WindowsOf
    BY <2>1, <2>2, Known DEF vars, Next, Call, Follow, Enter, Put, Land, Step, Join, Leave, Cart, InfoFree,
                             WinAllocate, WinLockAll, WinUnlockAll, Store, Write
  <2>4. ASSUME NEW p \in Procs, todo[p] # <<>>, NEW s, s = Head(todo[p])
        PROVE  (s = "Cart" => Closing(window) = 1) /\ (s = "Info_free" => Info(window) = 1)
    <3>1. done[p] # 0 /\ Len(todo[p]) \in Nat \ {0} /\ Head(todo[p]) = StepAt(window, calls[done[p]], p, Len(todo[p]))
      BY <2>2, <2>4, AtStep
    <3>2. /\ calls[done[p]] \in CallNames /\ Locked(calls, done[p] - 1) \in {0, 1}
          /\ Len(todo[p]) <= Size(window, calls[done[p]], p, Locked(calls, done[p] - 1))
      BY <2>2, <3>1, InCall
    <3>. QED BY <2>3, <2>4, <3>1, <3>2, StepPlaces
  <2>5. ASSUME NEW p \in Procs, Cart(p) PROVE OnlyDisorderFails'
    <3>1. Closing(window) = 1 /\ failed' = ~InGrid(p)
      BY <2>4, <2>5 DEF Cart, At
    <3>2. window.view = "GLOBAL_VIEW"
      BY <3>1 DEF Closing
    <3>3. InRankOrder => InGrid(p)
      BY <2>3, SlabGrid
    <3>4. InRankOrder' <=> InRankOrder
      BY <2>3 DEF InRankOrder
    <3>. QED BY <2>3, <3>1, <3>2, <3>3, <3>4 DEF OnlyDisorderFails
  <2>6. ASSUME NEW p \in Procs, InfoFree(p) PROVE OnlyDisorderFails'
    <3>1. Info(window) = 1 /\ failed' = (window.view = "GLOBAL_VIEW" /\ ~window.same_wsize)
      BY <2>4, <2>6 DEF InfoFree, At
    <3>2. window.same_size_info
      BY <3>1 DEF Info
    <3>. QED BY <2>3, <3>1, <3>2 DEF OnlyDisorderFails
  <2>7. CASE failed' = failed
    BY <2>1, <2>3, <2>7 DEF OnlyDisorderFails, InRankOrder
  <2>8. failed' = failed \/ \E p \in Procs : Cart(p) \/ InfoFree(p)
    BY <2>1 DEF vars, Next, Call, Follow, Enter, Put, Land, Step, Join, Leave, WinAllocate, WinLockAll, WinUnlockAll,
                Store, Write
  <2>. QED BY <2>5, <2>6, <2>7, <2>8
<1>. QED
  BY <1>1, <1>2, AlwaysInv, PTL DEF Spec
=============================================================================
