--------------------------- MODULE ExprWindow_proofs ---------------------------
(***************************************************************************)
(* What the methods of an EXPR window do to its members, and what they     *)
(* leave of the invariant a window has between them, for every shape of    *)
(* the window and every size of the buffer.                                *)
(***************************************************************************)
EXTENDS ExprWindow, SequenceTheorems, FiniteSetTheorems, TLAPS

-----------------------------------------------------------------------------
(***************************************************************************)
(* The invariant of a window.                                              *)
(***************************************************************************)
Members == [shape : Shapes, info : [Lists -> Seq(Record)], puts : [Lists -> Seq(Accesses)],
            gets : [Lists -> Nat], xfers : [Lists -> Nat], putc : Nat, bufc : Nat, size : Nat,
            buf : [0 .. PREALLOC-1 -> Accesses \cup {0}], isElem : BOOLEAN, isBulk : BOOLEAN,
            unfinished : SUBSET Accesses]

Flag(v, k) == IF k = "elem" THEN v.isElem ELSE v.isBulk
Only(v, k) == (v.isElem => k = "elem") /\ (v.isBulk => k = "bulk")

\* The accesses a window has a record of and no evaluation has used, and those of the
\* puts it has yet to make.
Pending(v) == UNION {{v.info[q][i].id : i \in v.xfers[q] + 1 .. Len(v.info[q])} : q \in Lists}
ToPut(v) == UNION {{v.puts[q][i] : i \in v.putc + 1 .. Len(v.puts[q])} : q \in Lists}

\* How many records of kind k no get was posted for.
Unposted(v, k) == Len(v.info[ListOf(v, k)]) - v.gets[ListOf(v, k)]

\* Records are listed in the order of their accesses, of which there were m.
InOrder(v, m) ==
  \A q \in Lists :
    /\ \A i \in DOMAIN v.info[q] : v.info[q][i].id <= m
    /\ \A i, j \in DOMAIN v.info[q] : i < j => v.info[q][i].id < v.info[q][j].id
    /\ \A i \in DOMAIN v.puts[q] : v.puts[q][i] <= m
    /\ \A i, j \in DOMAIN v.puts[q] : i < j => v.puts[q][i] < v.puts[q][j]

\* All of list q was used.
Used(v, q) == v.xfers[q] = Len(v.info[q]) /\ (v.bufc < PREALLOC => v.gets[q] = Len(v.info[q]))

\* What a record of kind k that was posted and not used yet is to read is where it will
\* be looked for: record i's place in the buffer is place[i].
Aligned(v, k, place) ==
  LET q == ListOf(v, k) IN
  /\ place[v.gets[q] + 1] = v.bufc
  /\ v.size < PREALLOC => v.xfers[q] <= v.gets[q] /\ place[v.xfers[q] + 1] = v.size
  /\ v.size >= PREALLOC => v.gets[q] <= v.xfers[q] /\ v.bufc = PREALLOC
  /\ \A i \in v.xfers[q] + 1 .. v.gets[q] :
       /\ place[i + 1] = place[i] + SizeOf(k, v.info[q][i]) /\ place[i + 1] <= v.bufc /\ place[i] < PREALLOC
       /\ \A j \in place[i] .. place[i + 1] - 1 : v.buf[j] = v.info[q][i].id

\* A window that statements of kind k may use; m accesses were made.
Good(v, k, m) ==
  LET q == ListOf(v, k) IN
  /\ InOrder(v, m)
  /\ \A r \in Lists : {v.gets[r], v.xfers[r]} \subseteq 0 .. Len(v.info[r])
  /\ \A r \in Lists \ {q} : Used(v, r) /\ v.puts[r] = <<>>
  /\ v.putc <= Len(v.puts[q]) /\ (v.puts[q] # <<>> => Flag(v, k))
  /\ v.bufc <= PREALLOC
  /\ \E place \in [Nat -> 0 .. PREALLOC] : Aligned(v, k, place)

-----------------------------------------------------------------------------
(***************************************************************************)
(* What the methods of a window do to its members.                         *)
(***************************************************************************)

\* Both kinds of access have a list.
LEMMA ListIs ==
  ASSUME NEW v, NEW k
  PROVE  ListOf(v, k) \in Lists
BY DEF ListOf, Lists

\* The bounds on the constants of a window.
LEMMA WindowBounds ==
  /\ MaxAccesses \in Nat /\ PREALLOC \in Nat \ {0}
  /\ \A i : i \in Accesses <=> i \in Int /\ 1 <= i /\ i <= MaxAccesses
BY AccessAssumption, SizeAssumption DEF Accesses

\* A record that was posted and not used yet is not the last, if the last was not posted.
LEMMA Within ==
  ASSUME NEW x \in Nat, NEW g \in Nat, NEW L \in Nat, g < L, NEW i \in x + 1 .. g
  PROVE  i \in 1 .. L - 1
OBVIOUS

\* A window's members have their types.
LEMMA MembersAre ==
  ASSUME NEW v \in Members
  PROVE  /\ v.shape \in Shapes /\ v.info \in [Lists -> Seq(Record)] /\ v.puts \in [Lists -> Seq(Accesses)]
         /\ v.gets \in [Lists -> Nat] /\ v.xfers \in [Lists -> Nat]
         /\ v.putc \in Nat /\ v.bufc \in Nat /\ v.size \in Nat
         /\ v.buf \in [0 .. PREALLOC-1 -> Accesses \cup {0}] /\ v.isElem \in BOOLEAN /\ v.isBulk \in BOOLEAN
         /\ v.unfinished \subseteq Accesses
BY DEF Members

\* A window created or cleared.
LEMMA NewIs ==
  ASSUME NEW s \in Shapes, NEW U \in SUBSET Accesses
  PROVE  LET u == [New(s) EXCEPT !.unfinished = U]
         IN  /\ u \in Members /\ New(s) \in Members
             /\ \A q \in Lists : u.info[q] = <<>> /\ u.puts[q] = <<>> /\ u.gets[q] = 0 /\ u.xfers[q] = 0
             /\ \A q \in Lists : New(s).info[q] = <<>> /\ New(s).puts[q] = <<>> /\ New(s).gets[q] = 0 /\ New(s).xfers[q] = 0
             /\ u.shape = s /\ u.putc = 0 /\ u.bufc = 0 /\ u.size = 0 /\ ~u.isElem /\ ~u.isBulk
             /\ New(s).shape = s /\ New(s).putc = 0 /\ New(s).bufc = 0 /\ New(s).size = 0
             /\ ~New(s).isElem /\ ~New(s).isBulk
<1>1. New(s) \in Members
  <2>1. <<>> \in Seq(Record) /\ <<>> \in Seq(Accesses)
    OBVIOUS
  <2>. QED BY <2>1, WindowBounds DEF New, Members
<1>. QED
  BY <1>1 DEF New, Members

\* win(...) adds a record at the end of one list.
LEMMA OpenedIs ==
  ASSUME NEW v \in Members, NEW k \in Kinds, NEW r \in Record
  PROVE  LET u == Opened(v, k, r)
             q == ListOf(v, k)
         IN  /\ u \in Members
             /\ u.info[q] = Append(v.info[q], r) /\ \A p \in Lists \ {q} : u.info[p] = v.info[p]
             /\ u.puts = v.puts /\ u.gets = v.gets /\ u.xfers = v.xfers
             /\ u.putc = v.putc /\ u.bufc = v.bufc /\ u.size = v.size /\ u.buf = v.buf
             /\ u.isElem = (v.isElem \/ k = "elem") /\ u.isBulk = (v.isBulk \/ k = "bulk") /\ u.shape = v.shape
<1>. DEFINE q == ListOf(v, k)
            L == Append(v.info[q], r)
            I == [v.info EXCEPT ![q] = L]
<1>1. q \in Lists
  BY ListIs
<1>2. Opened(v, k, r) = [v EXCEPT !.info = I, !.isElem = @ \/ k = "elem", !.isBulk = @ \/ k = "bulk"]
  BY DEF Opened
<1>. HIDE DEF q
<1>3. v.info \in [Lists -> Seq(Record)]
  BY MembersAre
<1>4. L \in Seq(Record)
  BY <1>1, <1>3
<1>. HIDE DEF L
<1>5. I \in [Lists -> Seq(Record)] /\ I[q] = L /\ \A p \in Lists \ {q} : I[p] = v.info[p]
  BY <1>1, <1>3, <1>4
<1>. HIDE DEF I
<1>6. [v EXCEPT !.info = I, !.isElem = @ \/ k = "elem", !.isBulk = @ \/ k = "bulk"] \in Members
  BY <1>5 DEF Members
<1>. QED
  BY <1>2, <1>5, <1>6 DEF L, q, Members

\* The window to the right of >> makes its last record one of a put.
LEMMA IgnoredIs ==
  ASSUME NEW v \in Members, v.info[LastList(v)] # <<>>
  PROVE  LET u == Ignored(v)
             q == LastList(v)
             m == Len(v.info[q])
         IN  /\ u \in Members /\ q \in Lists /\ m \in Nat \ {0}
             /\ u.info[q] = SubSeq(v.info[q], 1, m - 1) /\ \A p \in Lists \ {q} : u.info[p] = v.info[p]
             /\ u.puts[q] = Append(v.puts[q], v.info[q][m].id) /\ \A p \in Lists \ {q} : u.puts[p] = v.puts[p]
             /\ v.info[q][m].id \in Accesses
             /\ u.gets = v.gets /\ u.xfers = v.xfers
             /\ u.putc = v.putc /\ u.bufc = v.bufc /\ u.size = v.size /\ u.buf = v.buf
             /\ u.isElem = v.isElem /\ u.isBulk = v.isBulk /\ u.shape = v.shape
<1>. DEFINE q == LastList(v)
            m == Len(v.info[q])
            x == v.info[q][m].id
            L == SubSeq(v.info[q], 1, m - 1)
            P == Append(v.puts[q], x)
            I == [v.info EXCEPT ![q] = L]
            J == [v.puts EXCEPT ![q] = P]
<1>1. q \in Lists
  BY DEF LastList, IgnoredList, GlobalIgnoredList, Lists
<1>2. Ignored(v) = [v EXCEPT !.info = I, !.puts = J]
  BY DEF Ignored
<1>3. v.info \in [Lists -> Seq(Record)] /\ v.puts \in [Lists -> Seq(Accesses)] /\ v.info[q] # <<>>
  BY MembersAre
<1>. HIDE DEF q
<1>4. v.info[q] \in Seq(Record) /\ v.puts[q] \in Seq(Accesses)
  BY <1>1, <1>3
<1>5. m \in Nat \ {0}
  BY <1>3, <1>4, EmptySeq, LenProperties
<1>6. x \in Accesses
  <2>1. v.info[q][m] \in Record
    BY <1>4, <1>5, ElementOfSeq
  <2>. QED BY <2>1 DEF Record
<1>7. L \in Seq(Record)
  BY <1>4, <1>5, SubSeqProperties
<1>8. P \in Seq(Accesses)
  BY <1>4, <1>6, AppendProperties
<1>. HIDE DEF L, P
<1>9. /\ I \in [Lists -> Seq(Record)] /\ I[q] = L /\ \A p \in Lists \ {q} : I[p] = v.info[p]
      /\ J \in [Lists -> Seq(Accesses)] /\ J[q] = P /\ \A p \in Lists \ {q} : J[p] = v.puts[p]
  BY <1>1, <1>3, <1>7, <1>8
<1>. HIDE DEF I, J
<1>10. LET u == [v EXCEPT !.info = I, !.puts = J]
       IN  /\ u \in Members /\ u.info = I /\ u.puts = J /\ u.gets = v.gets /\ u.xfers = v.xfers
           /\ u.putc = v.putc /\ u.bufc = v.bufc /\ u.size = v.size /\ u.buf = v.buf
           /\ u.isElem = v.isElem /\ u.isBulk = v.isBulk /\ u.shape = v.shape
  BY <1>9 DEF Members
<1>. QED
  BY <1>1, <1>2, <1>5, <1>6, <1>9, <1>10 DEF L, P, x, m, q

\* What the posting of a get changes, if it is posted.
LEMMA PostedIs ==
  ASSUME NEW v \in Members, NEW k \in Kinds, Posts(v, k), ~PostWild(v, k)
  PROVE  LET u == Posted(v, k)
             q == ListOf(v, k)
             r == NextGet(v, k)
             d == SizeOf(k, r)
         IN  /\ u \in Members /\ r \in Record /\ d \in Nat
             /\ v.gets[q] + 1 \in 1 .. Len(v.info[q]) /\ r = v.info[q][v.gets[q] + 1]
             /\ v.bufc + d <= PREALLOC /\ v.bufc < PREALLOC
             /\ u.buf = [i \in 0 .. PREALLOC-1 |-> IF v.bufc <= i /\ i < v.bufc + d THEN r.id ELSE v.buf[i]]
             /\ u.gets[q] = v.gets[q] + 1 /\ \A p \in Lists \ {q} : u.gets[p] = v.gets[p]
             /\ u.info = v.info /\ u.puts = v.puts /\ u.xfers = v.xfers
             /\ u.putc = v.putc /\ u.bufc = v.bufc + d /\ u.size = v.size
             /\ u.isElem = v.isElem /\ u.isBulk = v.isBulk /\ u.shape = v.shape
<1>. DEFINE q == ListOf(v, k)
            r == NextGet(v, k)
            d == SizeOf(k, r)
            B == [i \in DOMAIN v.buf |-> IF v.bufc <= i /\ i < v.bufc + d THEN r.id ELSE v.buf[i]]
            G == [v.gets EXCEPT ![q] = @ + 1]
            c == v.bufc + d
<1>1. q \in Lists
  BY ListIs
<1>2. Posted(v, k) = [v EXCEPT !.buf = B, !.bufc = c, !.gets = G]
  BY DEF Posted
<1>3. v.info \in [Lists -> Seq(Record)] /\ v.gets \in [Lists -> Nat] /\ v.bufc \in Nat
      /\ v.buf \in [0 .. PREALLOC-1 -> Accesses \cup {0}]
  BY MembersAre
<1>4. v.bufc < PREALLOC /\ ~(v.gets[q] >= Len(v.info[q])) /\ ~(v.bufc + d > PREALLOC) /\ r = v.info[q][v.gets[q] + 1]
  BY DEF Posts, PostWild, NextGet
<1>. HIDE DEF q, r
<1>5. v.gets[q] \in Nat /\ v.info[q] \in Seq(Record)
  BY <1>1, <1>3
<1>6. v.gets[q] + 1 \in 1 .. Len(v.info[q])
  <2>1. Len(v.info[q]) \in Nat
    BY <1>5, LenProperties
  <2>. QED BY <1>4, <1>5, <2>1
<1>7. r \in Record
  BY <1>4, <1>5, <1>6, ElementOfSeq
<1>8. r.id \in Accesses /\ d \in Nat
  BY <1>7 DEF Record, SizeOf
<1>9. v.bufc + d <= PREALLOC
  BY <1>3, <1>4, <1>8, WindowBounds
<1>. HIDE DEF d
<1>10. B = [i \in 0 .. PREALLOC-1 |-> IF v.bufc <= i /\ i < v.bufc + d THEN r.id ELSE v.buf[i]]
  BY <1>3
<1>11. B \in [0 .. PREALLOC-1 -> Accesses \cup {0}]
  BY <1>3, <1>8, <1>10
<1>12. G \in [Lists -> Nat] /\ G[q] = v.gets[q] + 1 /\ \A p \in Lists \ {q} : G[p] = v.gets[p]
  BY <1>1, <1>3
<1>14. c \in Nat
  BY <1>3, <1>8
<1>. HIDE DEF B, G, c
<1>13. LET u == [v EXCEPT !.buf = B, !.bufc = c, !.gets = G]
       IN  /\ u \in Members /\ u.buf = B /\ u.gets = G /\ u.bufc = c
           /\ u.info = v.info /\ u.puts = v.puts /\ u.xfers = v.xfers /\ u.putc = v.putc /\ u.size = v.size
           /\ u.isElem = v.isElem /\ u.isBulk = v.isBulk /\ u.shape = v.shape
  BY <1>11, <1>12, <1>14 DEF Members
<1>. QED
  BY <1>2, <1>4, <1>6, <1>7, <1>8, <1>9, <1>10, <1>12, <1>13 DEF c, d, r, q

\* What an evaluation changes: it uses the next record.
LEMMA EvaluatedIs ==
  ASSUME NEW v \in Members, NEW k \in Kinds, ~EvalWild(v, k)
  PROVE  LET u == Evaluated(v, k)
             q == ListOf(v, k)
             r == NextXfer(v, k)
             d == SizeOf(k, r)
         IN  /\ u \in Members /\ r \in Record /\ d \in Nat
             /\ v.xfers[q] + 1 \in 1 .. Len(v.info[q]) /\ r = v.info[q][v.xfers[q] + 1]
             /\ u.xfers[q] = v.xfers[q] + 1 /\ \A p \in Lists \ {q} : u.xfers[p] = v.xfers[p]
             /\ u.size = IF k = "elem" \/ v.size < PREALLOC THEN v.size + d ELSE v.size
             /\ u.info = v.info /\ u.puts = v.puts /\ u.gets = v.gets
             /\ u.putc = v.putc /\ u.bufc = v.bufc /\ u.buf = v.buf
             /\ u.isElem = v.isElem /\ u.isBulk = v.isBulk /\ u.shape = v.shape
<1>. DEFINE q == ListOf(v, k)
            r == NextXfer(v, k)
            d == SizeOf(k, r)
            z == IF k = "elem" \/ v.size < PREALLOC THEN v.size + d ELSE v.size
            X == [v.xfers EXCEPT ![q] = @ + 1]
<1>1. q \in Lists
  BY ListIs
<1>2. Evaluated(v, k) = [v EXCEPT !.xfers = X, !.size = z]
  BY DEF Evaluated
<1>3. v.info \in [Lists -> Seq(Record)] /\ v.xfers \in [Lists -> Nat] /\ v.size \in Nat
  BY MembersAre
<1>4. ~(v.xfers[q] >= Len(v.info[q])) /\ r = v.info[q][v.xfers[q] + 1]
  BY DEF EvalWild, NextXfer
<1>. HIDE DEF q, r
<1>5. v.xfers[q] \in Nat /\ v.info[q] \in Seq(Record)
  BY <1>1, <1>3
<1>6. v.xfers[q] + 1 \in 1 .. Len(v.info[q])
  <2>1. Len(v.info[q]) \in Nat
    BY <1>5, LenProperties
  <2>. QED BY <1>4, <1>5, <2>1
<1>7. r \in Record
  BY <1>4, <1>5, <1>6, ElementOfSeq
<1>8. d \in Nat
  BY <1>7 DEF Record, SizeOf
<1>. HIDE DEF d
<1>9. z \in Nat
  BY <1>3, <1>8
<1>10. X \in [Lists -> Nat] /\ X[q] = v.xfers[q] + 1 /\ \A p \in Lists \ {q} : X[p] = v.xfers[p]
  BY <1>1, <1>3
<1>. HIDE DEF X, z
<1>11. LET u == [v EXCEPT !.xfers = X, !.size = z]
       IN  /\ u \in Members /\ u.xfers = X /\ u.size = z
           /\ u.info = v.info /\ u.puts = v.puts /\ u.gets = v.gets /\ u.putc = v.putc
           /\ u.bufc = v.bufc /\ u.buf = v.buf
           /\ u.isElem = v.isElem /\ u.isBulk = v.isBulk /\ u.shape = v.shape
  BY <1>9, <1>10 DEF Members
<1>. QED
  BY <1>2, <1>4, <1>6, <1>7, <1>8, <1>10, <1>11 DEF z, d, r, q

\* A put uses the next of the list of puts.
LEMMA PutMadeIs ==
  ASSUME NEW v \in Members, NEW k \in Kinds, ~PutWild(v, k)
  PROVE  LET u == PutMade(v, k)
             q == ListOf(v, k)
         IN  /\ u \in Members /\ NextPut(v, k) \in Accesses /\ NextPut(v, k) = v.puts[q][v.putc + 1]
             /\ v.putc + 1 \in 1 .. Len(v.puts[q]) /\ u.putc = v.putc + 1
             /\ u.info = v.info /\ u.puts = v.puts /\ u.gets = v.gets /\ u.xfers = v.xfers
             /\ u.bufc = v.bufc /\ u.size = v.size /\ u.buf = v.buf
             /\ u.isElem = v.isElem /\ u.isBulk = v.isBulk /\ u.shape = v.shape
<1>. DEFINE q == ListOf(v, k)
            x == NextPut(v, k)
            F == v.unfinished \cup {x}
            c == v.putc + 1
<1>1. q \in Lists
  BY ListIs
<1>2. PutMade(v, k) = [v EXCEPT !.putc = c, !.unfinished = F]
  BY DEF PutMade
<1>3. v.puts \in [Lists -> Seq(Accesses)] /\ v.putc \in Nat /\ v.unfinished \subseteq Accesses
  BY MembersAre
<1>4. ~(v.putc >= Len(v.puts[q])) /\ x = v.puts[q][v.putc + 1]
  BY DEF PutWild, NextPut
<1>. HIDE DEF q, x
<1>5. v.puts[q] \in Seq(Accesses)
  BY <1>1, <1>3
<1>6. v.putc + 1 \in 1 .. Len(v.puts[q])
  <2>1. Len(v.puts[q]) \in Nat
    BY <1>5, LenProperties
  <2>. QED BY <1>3, <1>4, <2>1
<1>7. x \in Accesses
  BY <1>4, <1>5, <1>6, ElementOfSeq
<1>8. F \in SUBSET Accesses
  BY <1>3, <1>7
<1>10. c \in Nat
  BY <1>3
<1>. HIDE DEF F, c
<1>9. LET u == [v EXCEPT !.putc = c, !.unfinished = F]
      IN  /\ u \in Members /\ u.putc = c
          /\ u.info = v.info /\ u.puts = v.puts /\ u.gets = v.gets /\ u.xfers = v.xfers
          /\ u.bufc = v.bufc /\ u.size = v.size /\ u.buf = v.buf
          /\ u.isElem = v.isElem /\ u.isBulk = v.isBulk /\ u.shape = v.shape
  BY <1>8, <1>10 DEF Members
<1>. QED
  BY <1>2, <1>4, <1>6, <1>7, <1>9 DEF c, x, q

-----------------------------------------------------------------------------
(***************************************************************************)
(* What they leave of a window's invariant.                                *)
(***************************************************************************)

\* The accesses that a window's records wait for, one by one.
LEMMA PendingIs ==
  ASSUME NEW v, NEW x
  PROVE  x \in Pending(v) <=> \E q \in Lists : \E i \in v.xfers[q] + 1 .. Len(v.info[q]) : x = v.info[q][i].id
BY DEF Pending

\* The same for the puts.
LEMMA ToPutIs ==
  ASSUME NEW v, NEW x
  PROVE  x \in ToPut(v) <=> \E q \in Lists : \E i \in v.putc + 1 .. Len(v.puts[q]) : x = v.puts[q][i]
BY DEF ToPut

\* A window's lists, as sequences.
LEMMA ListsAre ==
  ASSUME NEW v \in Members, NEW q \in Lists
  PROVE  /\ v.info[q] \in Seq(Record) /\ Len(v.info[q]) \in Nat /\ DOMAIN v.info[q] = 1 .. Len(v.info[q])
         /\ v.puts[q] \in Seq(Accesses) /\ Len(v.puts[q]) \in Nat /\ DOMAIN v.puts[q] = 1 .. Len(v.puts[q])
         /\ v.gets[q] \in Nat /\ v.xfers[q] \in Nat
         /\ \A i \in 1 .. Len(v.info[q]) : v.info[q][i].id \in Accesses /\ v.info[q][i].count \in Nat
         /\ \A i \in 1 .. Len(v.puts[q]) : v.puts[q][i] \in Accesses
<1>1. v.info[q] \in Seq(Record) /\ v.puts[q] \in Seq(Accesses) /\ v.gets[q] \in Nat /\ v.xfers[q] \in Nat
  BY MembersAre
<1>2. \A i \in 1 .. Len(v.info[q]) : v.info[q][i] \in Record
  BY <1>1, ElementOfSeq
<1>3. \A i \in 1 .. Len(v.puts[q]) : v.puts[q][i] \in Accesses
  BY <1>1, ElementOfSeq
<1>. QED
  BY <1>1, <1>2, <1>3, LenProperties DEF Record

\* A kind's own list is the one that kind's statements use, whatever they do.
LEMMA SameList ==
  ASSUME NEW v, NEW u, NEW k, u.shape = v.shape
  PROVE  ListOf(u, k) = ListOf(v, k)
BY DEF ListOf

\* A new window, or one that a flush cleared, is any kind's.
LEMMA NewGood ==
  ASSUME NEW u \in Members, NEW k \in Kinds, NEW m \in Nat,
         \A q \in Lists : u.info[q] = <<>> /\ u.puts[q] = <<>> /\ u.gets[q] = 0 /\ u.xfers[q] = 0,
         u.putc = 0, u.bufc = 0, u.size = 0
  PROVE  Good(u, k, m) /\ Pending(u) = {} /\ ToPut(u) = {} /\ Unposted(u, k) = 0
<1>. DEFINE q == ListOf(u, k)
            place == [i \in Nat |-> 0]
<1>1. q \in Lists
  BY ListIs
<1>2. Len(<<>>) = 0 /\ DOMAIN <<>> = 1 .. 0
  OBVIOUS
<1>3. place \in [Nat -> 0 .. PREALLOC] /\ place[1] = 0
  BY WindowBounds
<1>. HIDE DEF q, place
<1>4. \A r \in Lists : Len(u.info[r]) = 0 /\ Len(u.puts[r]) = 0 /\ DOMAIN u.info[r] = 1 .. 0 /\ DOMAIN u.puts[r] = 1 .. 0
  BY <1>2
<1>5. InOrder(u, m)
  BY <1>4 DEF InOrder
<1>6. \A r \in Lists : Used(u, r)
  BY <1>4 DEF Used
<1>10. u.gets[q] = 0 /\ u.xfers[q] = 0 /\ u.puts[q] = <<>> /\ Len(u.puts[q]) = 0
  BY <1>1, <1>4
<1>11. PICK P : P \in Nat /\ P = PREALLOC /\ P # 0
  BY WindowBounds
<1>7. Aligned(u, k, place)
  <2>1. ~ \E i : i \in 0 + 1 .. 0
    OBVIOUS
  <2>2. 0 < P /\ ~(0 >= P) /\ place[0 + 1] = 0
    BY <1>3, <1>11
  <2>. QED BY <1>10, <1>11, <2>1, <2>2 DEF Aligned, q
<1>12. \A r \in Lists : {u.gets[r], u.xfers[r]} \subseteq 0 .. Len(u.info[r])
  BY <1>4
<1>13. u.putc <= Len(u.puts[q]) /\ u.bufc <= PREALLOC
  BY <1>10, <1>11
<1>8. Good(u, k, m)
  BY <1>3, <1>5, <1>6, <1>7, <1>10, <1>12, <1>13 DEF Good, q
<1>9. Pending(u) = {} /\ ToPut(u) = {}
  BY <1>4 DEF Pending, ToPut
<1>. QED
  BY <1>1, <1>4, <1>8, <1>9 DEF Unposted, q

\* A kind's counters, by name.
LEMMA CountersAre ==
  ASSUME NEW v \in Members, NEW k \in Kinds, NEW m, Good(v, k, m), NEW q \in Lists
  PROVE  \E L, g, x :
           /\ L \in Nat /\ g \in Nat /\ x \in Nat
           /\ L = Len(v.info[q]) /\ g = v.gets[q] /\ x = v.xfers[q] /\ g <= L /\ x <= L
           /\ DOMAIN v.info[q] = 1 .. L
<1>1. Len(v.info[q]) \in Nat /\ v.gets[q] \in Nat /\ v.xfers[q] \in Nat /\ DOMAIN v.info[q] = 1 .. Len(v.info[q])
  BY ListsAre
<1>2. v.gets[q] \in 0 .. Len(v.info[q]) /\ v.xfers[q] \in 0 .. Len(v.info[q])
  BY DEF Good
<1>3. v.gets[q] <= Len(v.info[q]) /\ v.xfers[q] <= Len(v.info[q])
  BY <1>1, <1>2
<1>. QED
  BY <1>1, <1>3

\* The sizes as numbers of their own, for steps that calculate with them.
LEMMA SizesAre ==
  ASSUME NEW v \in Members, NEW k \in Kinds, NEW m, Good(v, k, m)
  PROVE  \E b, z, P :
           b \in Nat /\ z \in Nat /\ P \in Nat /\ b = v.bufc /\ z = v.size /\ P = PREALLOC /\ P # 0 /\ b <= P /\ v.putc \in Nat
<1>1. v.bufc \in Nat /\ v.size \in Nat /\ v.putc \in Nat
  BY MembersAre
<1>2. v.bufc <= PREALLOC
  BY DEF Good
<1>3. PREALLOC \in Nat /\ PREALLOC # 0
  BY WindowBounds
<1>. QED
  BY <1>1, <1>2, <1>3

\* Nothing pending, nothing put: a window may be used by statements of another kind.
LEMMA SwitchGood ==
  ASSUME NEW v \in Members, NEW k \in Kinds, NEW l \in Kinds, NEW m \in Nat, Good(v, k, m),
         Pending(v) = {}, \A q \in Lists : v.puts[q] = <<>>, v.bufc < PREALLOC => Unposted(v, k) = 0
  PROVE  Good(v, l, m) /\ (v.bufc < PREALLOC => Unposted(v, l) = 0)
<1>. DEFINE q == ListOf(v, k)
            r == ListOf(v, l)
<1>1. q \in Lists /\ r \in Lists
  BY ListIs
<1>. HIDE DEF q, r
<1>2. PICK L, g, x : L \in Nat /\ g \in Nat /\ x \in Nat /\ L = Len(v.info[q]) /\ g = v.gets[q] /\ x = v.xfers[q] /\ g <= L /\ x <= L
  BY <1>1, CountersAre
<1>20. L \in Nat /\ g \in Nat /\ x \in Nat /\ g <= L /\ x <= L
  BY <1>2
<1>3. PICK b, z, P : b \in Nat /\ z \in Nat /\ P \in Nat /\ b = v.bufc /\ z = v.size /\ P = PREALLOC /\ P # 0 /\ b <= P /\ v.putc \in Nat
  BY SizesAre
<1>4. PICK place \in [Nat -> 0 .. PREALLOC] : Aligned(v, k, place)
  BY DEF Good
<1>5. /\ InOrder(v, m)
      /\ \A p \in Lists : {v.gets[p], v.xfers[p]} \subseteq 0 .. Len(v.info[p])
      /\ \A p \in Lists \ {q} : Used(v, p)
      /\ v.putc <= Len(v.puts[q]) /\ v.bufc <= PREALLOC
  BY DEF Good, q
<1>6. x = L
  <2>1. ASSUME x < L PROVE FALSE
    <3>1. L \in x + 1 .. L
      BY <1>20, <2>1
    <3>2. v.info[q][L].id \in Pending(v)
      BY <1>1, <1>2, <3>1, PendingIs
    <3>. QED BY <3>2
  <2>. QED BY <1>20, <2>1
<1>7. b < P => g = L
  <2>1. b < P => L - g = 0
    BY <1>2, <1>3 DEF Unposted, q
  <2>. QED BY <1>20, <2>1
<1>8. \A p \in Lists : Used(v, p)
  BY <1>2, <1>3, <1>5, <1>6, <1>7 DEF Used
<1>9. \E other \in [Nat -> 0 .. PREALLOC] : Aligned(v, l, other)
  <2>. DEFINE other == [i \in Nat |-> b]
  <2>1. PICK M, h, y : M \in Nat /\ h \in Nat /\ y \in Nat /\ M = Len(v.info[r]) /\ h = v.gets[r] /\ y = v.xfers[r] /\ h <= M /\ y <= M
    BY <1>1, CountersAre
  <2>10. M \in Nat /\ h \in Nat /\ y \in Nat /\ h <= M /\ y <= M
    BY <2>1
  <2>11. b \in Nat /\ z \in Nat /\ P \in Nat /\ b <= P
    BY <1>3
  <2>2. y = M /\ (b < P => h = M)
    BY <1>1, <1>3, <1>8, <2>1 DEF Used
  <2>3. z >= P => b = P
    BY <1>3, <1>4 DEF Aligned
  <2>4. z < P => b = z /\ b < P
    <3>1. SUFFICES ASSUME z < P PROVE b = z
      OBVIOUS
    <3>2. x <= g /\ place[x + 1] = z /\ place[g + 1] = b
      BY <1>2, <1>3, <1>4, <3>1 DEF Aligned, q
    <3>3. x = g
      BY <1>20, <1>6, <3>2
    <3>. QED BY <3>2, <3>3
  <2>5. other \in [Nat -> 0 .. P] /\ other[h + 1] = b /\ other[y + 1] = b
    BY <2>10, <2>11
  <2>. HIDE DEF other
  <2>6. h <= y /\ (z < P => y <= h)
    BY <2>1, <2>2, <2>4
  <2>7. ~ \E i : i \in y + 1 .. h
    BY <2>6, <2>10
  <2>8. /\ other[h + 1] = b
        /\ z < P => y <= h /\ other[y + 1] = z
        /\ z >= P => h <= y /\ b = P
    BY <2>3, <2>4, <2>5, <2>6
  <2>9. Aligned(v, l, other)
    BY <1>3, <2>1, <2>7, <2>8 DEF Aligned, r
  <2>. QED BY <1>3, <2>5, <2>9
<1>10. v.putc = 0
  <2>1. Len(v.puts[q]) = 0
    BY <1>1
  <2>. QED BY <1>3, <1>5, <2>1
<1>11. v.putc <= Len(v.puts[r]) /\ v.puts[r] = <<>>
  <2>1. v.puts[r] = <<>> /\ Len(<<>>) = 0
    BY <1>1
  <2>. QED BY <1>10, <2>1
<1>12. Good(v, l, m)
  BY <1>5, <1>8, <1>9, <1>11 DEF Good, r
<1>13. v.bufc < PREALLOC => Unposted(v, l) = 0
  <2>1. PICK M, h, y : M \in Nat /\ h \in Nat /\ y \in Nat /\ M = Len(v.info[r]) /\ h = v.gets[r] /\ y = v.xfers[r] /\ h <= M /\ y <= M
    BY <1>1, CountersAre
  <2>2. v.bufc < PREALLOC => h = M
    BY <1>1, <1>8, <2>1 DEF Used
  <2>. QED BY <2>1, <2>2 DEF Unposted, r
<1>. QED
  BY <1>12, <1>13

\* More accesses, made elsewhere.
LEMMA LaterGood ==
  ASSUME NEW v \in Members, NEW k \in Kinds, NEW m \in Nat, Good(v, k, m)
  PROVE  Good(v, k, m + 1)
<1>1. \A q \in Lists : DOMAIN v.info[q] = 1 .. Len(v.info[q]) /\ DOMAIN v.puts[q] = 1 .. Len(v.puts[q])
        /\ (\A i \in 1 .. Len(v.info[q]) : v.info[q][i].id \in Accesses)
        /\ \A i \in 1 .. Len(v.puts[q]) : v.puts[q][i] \in Accesses
  BY ListsAre
<1>2. InOrder(v, m)
  BY DEF Good
<1>3. ASSUME NEW q \in Lists, NEW i \in DOMAIN v.info[q] PROVE v.info[q][i].id <= m + 1
  <2>1. PICK x : x = v.info[q][i].id
    OBVIOUS
  <2>2. x \in Int
    BY <1>1, <2>1, WindowBounds
  <2>3. x <= m
    BY <1>2, <2>1 DEF InOrder
  <2>4. x <= m + 1
    BY <2>2, <2>3
  <2>. QED BY <2>1, <2>4
<1>4. ASSUME NEW q \in Lists, NEW i \in DOMAIN v.puts[q] PROVE v.puts[q][i] <= m + 1
  <2>1. PICK x : x = v.puts[q][i]
    OBVIOUS
  <2>2. x \in Int
    BY <1>1, <2>1, WindowBounds
  <2>3. x <= m
    BY <1>2, <2>1 DEF InOrder
  <2>4. x <= m + 1
    BY <2>2, <2>3
  <2>. QED BY <2>1, <2>4
<1>5. InOrder(v, m + 1)
  BY <1>2, <1>3, <1>4 DEF InOrder
<1>. QED
  BY <1>5 DEF Good

\* win(...) adds the record of the next access.
LEMMA OpenedGood ==
  ASSUME NEW v \in Members, NEW k \in Kinds, NEW m \in Nat, Good(v, k, m), NEW r \in Record, r.id = m + 1
  PROVE  LET u == Opened(v, k, r)
             q == ListOf(v, k)
         IN  /\ Good(u, k, m + 1) /\ Flag(u, k) /\ (Only(v, k) => Only(u, k))
             /\ Pending(u) = Pending(v) \cup {m + 1} /\ ToPut(u) = ToPut(v) /\ u.puts = v.puts
             /\ Unposted(u, k) = Unposted(v, k) + 1 /\ u.bufc = v.bufc /\ u.shape = v.shape
             /\ u.gets[q] = v.gets[q] /\ u.xfers[q] = v.xfers[q]
             /\ Len(u.info[q]) = Len(v.info[q]) + 1 /\ u.info[q][Len(u.info[q])] = r
             /\ v.gets[q] <= Len(v.info[q]) /\ v.xfers[q] <= Len(v.info[q])
             /\ \A i \in 1 .. Len(v.info[q]) : u.info[q][i] = v.info[q][i]
             /\ \A i \in DOMAIN v.puts[q] : v.puts[q][i] < m + 1
<1>. DEFINE q == ListOf(v, k)
            u == Opened(v, k, r)
<1>1. q \in Lists
  BY ListIs
<1>2. /\ u \in Members
      /\ u.info[q] = Append(v.info[q], r) /\ \A p \in Lists \ {q} : u.info[p] = v.info[p]
      /\ u.puts = v.puts /\ u.gets = v.gets /\ u.xfers = v.xfers
      /\ u.putc = v.putc /\ u.bufc = v.bufc /\ u.size = v.size /\ u.buf = v.buf
      /\ u.isElem = (v.isElem \/ k = "elem") /\ u.isBulk = (v.isBulk \/ k = "bulk") /\ u.shape = v.shape
  BY OpenedIs
<1>3. ListOf(u, k) = q
  BY <1>2, SameList
<1>. HIDE DEF q, u
<1>4. PICK L, g, x : L \in Nat /\ g \in Nat /\ x \in Nat /\ L = Len(v.info[q]) /\ g = v.gets[q] /\ x = v.xfers[q] /\ g <= L /\ x <= L
  BY <1>1, CountersAre
<1>5. L \in Nat /\ g \in Nat /\ x \in Nat /\ g <= L /\ x <= L /\ m \in Nat
  BY <1>4
<1>6. v.info[q] \in Seq(Record) /\ DOMAIN v.info[q] = 1 .. L
  BY <1>1, <1>4, ListsAre
<1>7. /\ Len(u.info[q]) = L + 1 /\ DOMAIN u.info[q] = 1 .. L + 1 /\ u.info[q][L + 1] = r
      /\ \A i \in 1 .. L : u.info[q][i] = v.info[q][i]
  <2>1. Len(u.info[q]) = L + 1 /\ u.info[q] \in Seq(Record) /\ u.info[q][L + 1] = r
        /\ \A i \in 1 .. L : u.info[q][i] = v.info[q][i]
    BY <1>2, <1>4, <1>6, AppendProperties
  <2>. QED BY <2>1, LenProperties
<1>8. InOrder(v, m)
  BY DEF Good
<1>9. \A i \in 1 .. L + 1 : i \in 1 .. L \/ i = L + 1
  BY <1>5
<1>10. \A i \in 1 .. L : v.info[q][i].id \in Int /\ v.info[q][i].id <= m
  BY <1>1, <1>4, <1>6, <1>8, ListsAre, WindowBounds DEF InOrder
<1>11. InOrder(u, m + 1)
  <2>1. InOrder(v, m + 1)
    BY LaterGood DEF Good
  <2>2. ASSUME NEW i \in 1 .. L + 1 PROVE u.info[q][i].id <= m + 1
    <3>1. CASE i \in 1 .. L
      <4>1. PICK a : a = v.info[q][i].id /\ a \in Int /\ a <= m
        BY <1>10, <3>1
      <4>2. u.info[q][i].id = a
        BY <1>7, <3>1, <4>1
      <4>3. a <= m + 1
        BY <1>5, <4>1
      <4>. QED BY <4>2, <4>3
    <3>2. CASE i = L + 1
      <4>1. u.info[q][i].id = m + 1
        BY <1>7, <3>2
      <4>. QED BY <1>5, <4>1
    <3>. QED BY <1>9, <3>1, <3>2
  <2>3. ASSUME NEW i \in 1 .. L + 1, NEW j \in 1 .. L + 1, i < j PROVE u.info[q][i].id < u.info[q][j].id
    <3>1. i \in 1 .. L
      BY <1>5, <2>3
    <3>2. CASE j \in 1 .. L
      BY <1>1, <1>6, <1>7, <1>8, <2>3, <3>1, <3>2 DEF InOrder
    <3>3. CASE j = L + 1
      <4>1. PICK a : a = v.info[q][i].id /\ a \in Int /\ a <= m
        BY <1>10, <3>1
      <4>2. u.info[q][i].id = a /\ u.info[q][j].id = m + 1
        BY <1>7, <3>1, <3>3, <4>1
      <4>. QED BY <1>5, <4>1, <4>2
    <3>. QED BY <1>9, <3>2, <3>3
  <2>4. ASSUME NEW p \in Lists
        PROVE  /\ \A i \in DOMAIN u.info[p] : u.info[p][i].id <= m + 1
               /\ \A i, j \in DOMAIN u.info[p] : i < j => u.info[p][i].id < u.info[p][j].id
               /\ \A i \in DOMAIN u.puts[p] : u.puts[p][i] <= m + 1
               /\ \A i, j \in DOMAIN u.puts[p] : i < j => u.puts[p][i] < u.puts[p][j]
    <3>1. CASE p = q
      BY <1>1, <1>2, <1>7, <2>1, <2>2, <2>3, <3>1 DEF InOrder
    <3>2. CASE p # q
      BY <1>2, <2>1, <3>2 DEF InOrder
    <3>. QED BY <3>1, <3>2
  <2>. QED BY <2>4 DEF InOrder
<1>12. \A p \in Lists : {u.gets[p], u.xfers[p]} \subseteq 0 .. Len(u.info[p])
  <2>1. \A p \in Lists \ {q} : {u.gets[p], u.xfers[p]} \subseteq 0 .. Len(u.info[p])
    BY <1>2 DEF Good
  <2>2. g \in 0 .. L + 1 /\ x \in 0 .. L + 1
    BY <1>5
  <2>. QED BY <1>2, <1>4, <1>7, <2>1, <2>2
<1>13. \A p \in Lists \ {q} : Used(u, p) /\ u.puts[p] = <<>>
  BY <1>2 DEF Good, Used, q
<1>14. Flag(u, k) /\ (Only(v, k) => Only(u, k))
  BY <1>2 DEF Flag, Only, Kinds
<1>15. \E place \in [Nat -> 0 .. PREALLOC] : Aligned(u, k, place)
  <2>1. PICK place \in [Nat -> 0 .. PREALLOC] : Aligned(v, k, place)
    BY DEF Good
  <2>2. \A i \in x + 1 .. g : i \in 1 .. L
    BY <1>5
  <2>3. /\ place[g + 1] = v.bufc
        /\ v.size < PREALLOC => x <= g /\ place[x + 1] = v.size
        /\ v.size >= PREALLOC => g <= x /\ v.bufc = PREALLOC
        /\ \A i \in x + 1 .. g :
             /\ place[i + 1] = place[i] + SizeOf(k, v.info[q][i]) /\ place[i + 1] <= v.bufc /\ place[i] < PREALLOC
             /\ \A j \in place[i] .. place[i + 1] - 1 : v.buf[j] = v.info[q][i].id
    BY <1>4, <2>1 DEF Aligned, q
  <2>4. \A i \in x + 1 .. g :
             /\ place[i + 1] = place[i] + SizeOf(k, u.info[q][i]) /\ place[i + 1] <= v.bufc /\ place[i] < PREALLOC
             /\ \A j \in place[i] .. place[i + 1] - 1 : v.buf[j] = u.info[q][i].id
    BY <1>7, <2>2, <2>3
  <2>5. u.gets[q] = g /\ u.xfers[q] = x /\ u.bufc = v.bufc /\ u.size = v.size /\ u.buf = v.buf
    BY <1>2, <1>4
  <2>6. Aligned(u, k, place)
    BY <1>3, <2>3, <2>4, <2>5 DEF Aligned
  <2>. QED BY <2>6
<1>16. Good(u, k, m + 1)
  <2>1. v.putc <= Len(v.puts[q]) /\ v.bufc <= PREALLOC
    BY DEF Good, q
  <2>. QED BY <1>2, <1>3, <1>11, <1>12, <1>13, <1>14, <1>15, <2>1 DEF Good
<1>17. Pending(u) = Pending(v) \cup {m + 1}
  <2>1. ASSUME NEW y \in Pending(u) PROVE y \in Pending(v) \cup {m + 1}
    <3>1. PICK p \in Lists : \E i \in u.xfers[p] + 1 .. Len(u.info[p]) : y = u.info[p][i].id
      BY PendingIs
    <3>2. CASE p # q
      BY <1>2, <3>1, <3>2, PendingIs
    <3>3. CASE p = q
      <4>1. PICK i \in x + 1 .. L + 1 : y = u.info[q][i].id
        BY <1>2, <1>4, <1>7, <3>1, <3>3
      <4>2. i = L + 1 \/ (i \in x + 1 .. L /\ i \in 1 .. L)
        BY <1>5, <4>1
      <4>3. i \in x + 1 .. L /\ i \in 1 .. L => y \in Pending(v)
        BY <1>1, <1>4, <1>7, <4>1, PendingIs
      <4>. QED BY <1>7, <4>1, <4>2, <4>3
    <3>. QED BY <3>2, <3>3
  <2>2. ASSUME NEW y \in Pending(v) PROVE y \in Pending(u)
    <3>1. PICK p \in Lists : \E i \in v.xfers[p] + 1 .. Len(v.info[p]) : y = v.info[p][i].id
      BY PendingIs
    <3>2. CASE p # q
      BY <1>2, <3>1, <3>2, PendingIs
    <3>3. CASE p = q
      <4>1. PICK i \in x + 1 .. L : y = v.info[q][i].id
        BY <1>4, <3>1, <3>3
      <4>2. i \in x + 1 .. L + 1 /\ i \in 1 .. L
        BY <1>5, <4>1
      <4>. QED BY <1>1, <1>2, <1>4, <1>7, <4>1, <4>2, PendingIs
    <3>. QED BY <3>2, <3>3
  <2>3. m + 1 \in Pending(u)
    <3>1. L + 1 \in x + 1 .. L + 1
      BY <1>5
    <3>. QED BY <1>1, <1>2, <1>4, <1>7, <3>1, PendingIs
  <2>. QED BY <2>1, <2>2, <2>3
<1>18. ToPut(u) = ToPut(v)
  BY <1>2 DEF ToPut
<1>19. Unposted(u, k) = Unposted(v, k) + 1
  <2>1. Unposted(v, k) = L - g
    BY <1>4 DEF Unposted, q
  <2>2. u.gets[q] = g
    BY <1>2, <1>4
  <2>4. Unposted(u, k) = Len(u.info[q]) - u.gets[q]
    BY <1>3 DEF Unposted
  <2>5. Len(u.info[q]) = L + 1
    BY <1>7
  <2>3. Unposted(u, k) = L + 1 - g
    BY <1>5, <2>2, <2>4, <2>5
  <2>. QED BY <1>5, <2>1, <2>3
<1>20. \A i \in DOMAIN v.puts[q] : v.puts[q][i] < m + 1
  <2>1. \A i \in DOMAIN v.puts[q] : v.puts[q][i] <= m
    BY <1>1, <1>8 DEF InOrder
  <2>2. \A i \in DOMAIN v.puts[q] : v.puts[q][i] \in Int
    BY <1>1, ListsAre, WindowBounds
  <2>. QED BY <1>5, <2>1, <2>2
<1>21. /\ u.gets[q] = v.gets[q] /\ u.xfers[q] = v.xfers[q]
       /\ Len(u.info[q]) = Len(v.info[q]) + 1 /\ u.info[q][Len(u.info[q])] = r
       /\ v.gets[q] <= Len(v.info[q]) /\ v.xfers[q] <= Len(v.info[q])
       /\ \A i \in 1 .. Len(v.info[q]) : u.info[q][i] = v.info[q][i]
  BY <1>2, <1>4, <1>7
<1>. QED
  BY <1>2, <1>14, <1>16, <1>17, <1>18, <1>19, <1>20, <1>21 DEF u, q

\* expr_ignore_last_get() makes the last record a put; it was no get's yet.
LEMMA IgnoredGood ==
  ASSUME NEW v \in Members, NEW k \in Kinds, NEW m \in Nat, Good(v, k, m), LastList(v) = ListOf(v, k), Flag(v, k),
         Len(v.info[ListOf(v, k)]) > 0, v.info[ListOf(v, k)][Len(v.info[ListOf(v, k)])].id = m,
         v.xfers[ListOf(v, k)] < Len(v.info[ListOf(v, k)]), v.gets[ListOf(v, k)] < Len(v.info[ListOf(v, k)]),
         \A i \in DOMAIN v.puts[ListOf(v, k)] : v.puts[ListOf(v, k)][i] < m
  PROVE  LET u == Ignored(v)
             q == ListOf(v, k)
         IN  /\ Good(u, k, m) /\ Flag(u, k) /\ (Only(v, k) => Only(u, k))
             /\ v.info[LastList(v)] # <<>>
             /\ Pending(u) = Pending(v) \ {m} /\ ToPut(u) = ToPut(v) \cup {m}
             /\ Unposted(u, k) = Unposted(v, k) - 1 /\ u.bufc = v.bufc /\ u.shape = v.shape
             /\ u.gets[q] = v.gets[q]
             /\ Len(u.info[q]) = Len(v.info[q]) - 1
             /\ \A i \in 1 .. Len(u.info[q]) : u.info[q][i] = v.info[q][i]
<1>. DEFINE q == ListOf(v, k)
            u == Ignored(v)
<1>1. q \in Lists /\ LastList(v) = q
  BY ListIs
<1>2. v.info[q] # <<>>
  <2>1. Len(<<>>) = 0
    OBVIOUS
  <2>. QED BY <2>1
<1>3. /\ u \in Members
      /\ u.info[q] = SubSeq(v.info[q], 1, Len(v.info[q]) - 1) /\ \A p \in Lists \ {q} : u.info[p] = v.info[p]
      /\ u.puts[q] = Append(v.puts[q], v.info[q][Len(v.info[q])].id) /\ \A p \in Lists \ {q} : u.puts[p] = v.puts[p]
      /\ v.info[q][Len(v.info[q])].id \in Accesses
      /\ u.gets = v.gets /\ u.xfers = v.xfers
      /\ u.putc = v.putc /\ u.bufc = v.bufc /\ u.size = v.size /\ u.buf = v.buf
      /\ u.isElem = v.isElem /\ u.isBulk = v.isBulk /\ u.shape = v.shape
  BY <1>1, <1>2, IgnoredIs
<1>4. ListOf(u, k) = q
  BY <1>3, SameList
<1>5. v.info[q][Len(v.info[q])].id = m /\ v.xfers[q] < Len(v.info[q]) /\ v.gets[q] < Len(v.info[q])
      /\ \A i \in DOMAIN v.puts[q] : v.puts[q][i] < m
  OBVIOUS
<1>. HIDE DEF q, u
<1>6. PICK L, g, x : L \in Nat /\ g \in Nat /\ x \in Nat /\ L = Len(v.info[q]) /\ g = v.gets[q] /\ x = v.xfers[q] /\ g <= L /\ x <= L
  BY <1>1, CountersAre
<1>7. L \in Nat /\ g \in Nat /\ x \in Nat /\ g < L /\ x < L /\ m \in Nat
  BY <1>5, <1>6
<1>8. PICK K : K \in Nat /\ K = Len(v.puts[q])
  BY <1>1, ListsAre
<1>9. v.info[q] \in Seq(Record) /\ DOMAIN v.info[q] = 1 .. L /\ v.puts[q] \in Seq(Accesses) /\ DOMAIN v.puts[q] = 1 .. K
  BY <1>1, <1>6, <1>8, ListsAre
<1>10. /\ Len(u.info[q]) = L - 1 /\ DOMAIN u.info[q] = 1 .. L - 1
       /\ \A i \in 1 .. L - 1 : u.info[q][i] = v.info[q][i] /\ i \in 1 .. L
  <2>1. 1 \in 1 .. L + 1 /\ L - 1 \in 0 .. L /\ L - 1 \in Nat
    BY <1>7
  <2>2. u.info[q] = SubSeq(v.info[q], 1, L - 1)
    BY <1>3, <1>6
  <2>3. /\ u.info[q] \in Seq(Record)
        /\ Len(u.info[q]) = IF 1 <= L - 1 THEN (L - 1) - 1 + 1 ELSE 0
        /\ \A i \in 1 .. (L - 1) - 1 + 1 : u.info[q][i] = v.info[q][1 + i - 1]
    BY <1>6, <1>9, <2>1, <2>2, SubSeqProperties
  <2>4. Len(u.info[q]) = L - 1
    BY <1>7, <2>3
  <2>5. \A i \in 1 .. L - 1 : i \in 1 .. (L - 1) - 1 + 1 /\ 1 + i - 1 = i /\ i \in 1 .. L
    BY <1>7
  <2>6. DOMAIN u.info[q] = 1 .. L - 1
    BY <2>3, <2>4, LenProperties
  <2>. QED BY <2>3, <2>4, <2>5, <2>6
<1>11. /\ Len(u.puts[q]) = K + 1 /\ DOMAIN u.puts[q] = 1 .. K + 1 /\ u.puts[q][K + 1] = m
       /\ \A i \in 1 .. K : u.puts[q][i] = v.puts[q][i]
  <2>1. u.puts[q] = Append(v.puts[q], m) /\ m \in Accesses
    BY <1>3, <1>5
  <2>2. Len(u.puts[q]) = K + 1 /\ u.puts[q] \in Seq(Accesses) /\ u.puts[q][K + 1] = m
        /\ \A i \in 1 .. K : u.puts[q][i] = v.puts[q][i]
    BY <1>8, <1>9, <2>1, AppendProperties
  <2>. QED BY <2>2, LenProperties
<1>12. InOrder(v, m)
  BY DEF Good
<1>13. \A i \in 1 .. K + 1 : i \in 1 .. K \/ i = K + 1
  BY <1>8
<1>14. InOrder(u, m)
  <2>1. \A i \in 1 .. L - 1 : u.info[q][i].id <= m
    BY <1>1, <1>9, <1>10, <1>12 DEF InOrder
  <2>2. \A i, j \in 1 .. L - 1 : i < j => u.info[q][i].id < u.info[q][j].id
    BY <1>1, <1>9, <1>10, <1>12 DEF InOrder
  <2>7. \A i \in 1 .. K : v.puts[q][i] <= m
    BY <1>1, <1>9, <1>12 DEF InOrder
  <2>8. m <= m
    BY <1>7
  <2>3. \A i \in 1 .. K + 1 : u.puts[q][i] <= m
    BY <1>11, <1>13, <2>7, <2>8
  <2>4. ASSUME NEW i \in 1 .. K + 1, NEW j \in 1 .. K + 1, i < j PROVE u.puts[q][i] < u.puts[q][j]
    <3>1. i \in 1 .. K
      BY <1>8, <2>4
    <3>2. CASE j \in 1 .. K
      BY <1>1, <1>9, <1>11, <1>12, <2>4, <3>1, <3>2 DEF InOrder
    <3>3. CASE j = K + 1
      BY <1>5, <1>9, <1>11, <3>1, <3>3
    <3>. QED BY <1>13, <3>2, <3>3
  <2>5. ASSUME NEW p \in Lists
        PROVE  /\ \A i \in DOMAIN u.info[p] : u.info[p][i].id <= m
               /\ \A i, j \in DOMAIN u.info[p] : i < j => u.info[p][i].id < u.info[p][j].id
               /\ \A i \in DOMAIN u.puts[p] : u.puts[p][i] <= m
               /\ \A i, j \in DOMAIN u.puts[p] : i < j => u.puts[p][i] < u.puts[p][j]
    <3>1. CASE p = q
      BY <1>10, <1>11, <2>1, <2>2, <2>3, <2>4, <3>1
    <3>2. CASE p # q
      BY <1>3, <1>12, <3>2 DEF InOrder
    <3>. QED BY <3>1, <3>2
  <2>. QED BY <2>5 DEF InOrder
<1>15. \A p \in Lists : {u.gets[p], u.xfers[p]} \subseteq 0 .. Len(u.info[p])
  <2>1. \A p \in Lists \ {q} : {u.gets[p], u.xfers[p]} \subseteq 0 .. Len(u.info[p])
    BY <1>3 DEF Good
  <2>2. g \in 0 .. L - 1 /\ x \in 0 .. L - 1
    BY <1>7
  <2>. QED BY <1>3, <1>6, <1>10, <2>1, <2>2
<1>16. \A p \in Lists \ {q} : Used(u, p) /\ u.puts[p] = <<>>
  BY <1>3 DEF Good, Used, q
<1>17. Flag(u, k) /\ (Only(v, k) => Only(u, k))
  BY <1>3 DEF Flag, Only
<1>18. \E place \in [Nat -> 0 .. PREALLOC] : Aligned(u, k, place)
  <2>1. PICK place \in [Nat -> 0 .. PREALLOC] : Aligned(v, k, place)
    BY DEF Good
  <2>2. ASSUME NEW i \in x + 1 .. g PROVE i \in 1 .. L - 1
    BY <1>7, Within, Zenon
  <2>3. /\ place[g + 1] = v.bufc
        /\ v.size < PREALLOC => x <= g /\ place[x + 1] = v.size
        /\ v.size >= PREALLOC => g <= x /\ v.bufc = PREALLOC
        /\ \A i \in x + 1 .. g :
             /\ place[i + 1] = place[i] + SizeOf(k, v.info[q][i]) /\ place[i + 1] <= v.bufc /\ place[i] < PREALLOC
             /\ \A j \in place[i] .. place[i + 1] - 1 : v.buf[j] = v.info[q][i].id
    BY <1>6, <2>1 DEF Aligned, q
  <2>4. \A i \in x + 1 .. g :
             /\ place[i + 1] = place[i] + SizeOf(k, u.info[q][i]) /\ place[i + 1] <= v.bufc /\ place[i] < PREALLOC
             /\ \A j \in place[i] .. place[i + 1] - 1 : v.buf[j] = u.info[q][i].id
    BY <1>10, <2>2, <2>3
  <2>5. u.gets[q] = g /\ u.xfers[q] = x /\ u.bufc = v.bufc /\ u.size = v.size /\ u.buf = v.buf
    BY <1>3, <1>6
  <2>7. /\ place[u.gets[q] + 1] = u.bufc
        /\ u.size < PREALLOC => u.xfers[q] <= u.gets[q] /\ place[u.xfers[q] + 1] = u.size
        /\ u.size >= PREALLOC => u.gets[q] <= u.xfers[q] /\ u.bufc = PREALLOC
        /\ \A i \in u.xfers[q] + 1 .. u.gets[q] :
             /\ place[i + 1] = place[i] + SizeOf(k, u.info[q][i]) /\ place[i + 1] <= u.bufc /\ place[i] < PREALLOC
             /\ \A j \in place[i] .. place[i + 1] - 1 : u.buf[j] = u.info[q][i].id
    BY <2>3, <2>4, <2>5, Zenon
  <2>6. Aligned(u, k, place)
    BY <1>4, <2>7, Zenon DEF Aligned
  <2>. QED BY <2>6
<1>19. v.putc \in Nat /\ v.putc <= K /\ v.bufc <= PREALLOC
  <2>1. v.putc <= Len(v.puts[q]) /\ v.bufc <= PREALLOC
    BY DEF Good, q
  <2>. QED BY <1>8, <2>1, MembersAre
<1>20. Good(u, k, m)
  <2>1. u.putc <= Len(u.puts[q])
    BY <1>3, <1>8, <1>11, <1>19
  <2>2. u.bufc <= PREALLOC
    BY <1>3, <1>19
  <2>. QED BY <1>4, <1>14, <1>15, <1>16, <1>17, <1>18, <2>1, <2>2 DEF Good
<1>21. Pending(u) = Pending(v) \ {m}
  <2>1. \A i \in 1 .. L - 1 : v.info[q][i].id < m /\ v.info[q][i].id \in Int
    <3>1. \A i \in 1 .. L - 1 : i \in 1 .. L /\ i < L /\ L \in 1 .. L
      BY <1>7
    <3>2. \A i \in 1 .. L : v.info[q][i].id \in Int
      BY <1>1, <1>6, ListsAre, WindowBounds
    <3>. QED BY <1>1, <1>5, <1>6, <1>9, <1>12, <3>1, <3>2 DEF InOrder
  <2>2. ASSUME NEW y \in Pending(u) PROVE y \in Pending(v) /\ y # m
    <3>1. PICK p \in Lists : \E i \in u.xfers[p] + 1 .. Len(u.info[p]) : y = u.info[p][i].id
      BY PendingIs
    <3>2. CASE p # q
      <4>1. Used(v, p) /\ u.xfers[p] = v.xfers[p] /\ u.info[p] = v.info[p]
        BY <1>3, <3>2 DEF Good, q
      <4>2. PICK M : M \in Nat /\ M = Len(v.info[p])
        BY ListsAre
      <4>3. u.xfers[p] = M /\ Len(u.info[p]) = M
        BY <4>1, <4>2 DEF Used
      <4>4. ~ \E i : i \in M + 1 .. M
        BY <4>2
      <4>. QED BY <3>1, <4>3, <4>4
    <3>3. CASE p = q
      <4>1. PICK i \in x + 1 .. L - 1 : y = u.info[q][i].id
        BY <1>3, <1>6, <1>10, <3>1, <3>3
      <4>2. i \in 1 .. L - 1 /\ i \in x + 1 .. L
        BY <1>7, <4>1
      <4>3. y = v.info[q][i].id /\ y < m /\ y \in Int
        BY <1>10, <2>1, <4>1, <4>2
      <4>. QED BY <1>1, <1>6, <1>7, <4>2, <4>3, PendingIs
    <3>. QED BY <3>2, <3>3
  <2>3. ASSUME NEW y \in Pending(v), y # m PROVE y \in Pending(u)
    <3>1. PICK p \in Lists : \E i \in v.xfers[p] + 1 .. Len(v.info[p]) : y = v.info[p][i].id
      BY PendingIs
    <3>2. CASE p # q
      BY <1>3, <3>1, <3>2, PendingIs
    <3>3. CASE p = q
      <4>1. PICK i \in x + 1 .. L : y = v.info[q][i].id
        BY <1>6, <3>1, <3>3
      <4>2. i # L
        BY <1>5, <1>6, <2>3, <4>1
      <4>3. i \in x + 1 .. L - 1 /\ i \in 1 .. L - 1
        BY <1>7, <4>1, <4>2
      <4>. QED BY <1>1, <1>3, <1>6, <1>10, <4>1, <4>3, PendingIs
    <3>. QED BY <3>2, <3>3
  <2>. QED BY <2>2, <2>3
<1>22. ToPut(u) = ToPut(v) \cup {m}
  <2>1. ASSUME NEW y \in ToPut(u) PROVE y \in ToPut(v) \cup {m}
    <3>1. PICK p \in Lists : \E i \in u.putc + 1 .. Len(u.puts[p]) : y = u.puts[p][i]
      BY ToPutIs
    <3>2. CASE p # q
      BY <1>3, <3>1, <3>2, ToPutIs
    <3>3. CASE p = q
      <4>1. PICK i \in v.putc + 1 .. K + 1 : y = u.puts[q][i]
        BY <1>3, <1>11, <3>1, <3>3
      <4>2. i = K + 1 \/ (i \in v.putc + 1 .. K /\ i \in 1 .. K)
        BY <1>8, <1>19, <4>1
      <4>3. i \in v.putc + 1 .. K /\ i \in 1 .. K => y \in ToPut(v)
        BY <1>1, <1>8, <1>11, <4>1, ToPutIs
      <4>. QED BY <1>11, <4>1, <4>2, <4>3
    <3>. QED BY <3>2, <3>3
  <2>2. ASSUME NEW y \in ToPut(v) PROVE y \in ToPut(u)
    <3>1. PICK p \in Lists : \E i \in v.putc + 1 .. Len(v.puts[p]) : y = v.puts[p][i]
      BY ToPutIs
    <3>2. CASE p # q
      BY <1>3, <3>1, <3>2, ToPutIs
    <3>3. CASE p = q
      <4>1. PICK i \in v.putc + 1 .. K : y = v.puts[q][i]
        BY <1>8, <3>1, <3>3
      <4>2. i \in v.putc + 1 .. K + 1 /\ i \in 1 .. K
        BY <1>8, <1>19, <4>1
      <4>. QED BY <1>1, <1>3, <1>11, <4>1, <4>2, ToPutIs
    <3>. QED BY <3>2, <3>3
  <2>3. m \in ToPut(u)
    <3>1. K + 1 \in v.putc + 1 .. K + 1
      BY <1>8, <1>19
    <3>. QED BY <1>1, <1>3, <1>11, <3>1, ToPutIs
  <2>. QED BY <2>1, <2>2, <2>3
<1>23. Unposted(u, k) = Unposted(v, k) - 1
  <2>1. Unposted(v, k) = L - g
    BY <1>6 DEF Unposted, q
  <2>2. u.gets[q] = g
    BY <1>3, <1>6
  <2>3. Unposted(u, k) = Len(u.info[q]) - u.gets[q]
    BY <1>4 DEF Unposted
  <2>4. Unposted(u, k) = L - 1 - g
    BY <1>10, <2>2, <2>3
  <2>. QED BY <1>7, <2>1, <2>4
<1>24. u.gets[q] = v.gets[q] /\ Len(u.info[q]) = Len(v.info[q]) - 1
       /\ \A i \in 1 .. Len(u.info[q]) : u.info[q][i] = v.info[q][i]
  BY <1>3, <1>6, <1>10
<1>. QED
  BY <1>1, <1>2, <1>3, <1>17, <1>20, <1>21, <1>22, <1>23, <1>24 DEF u, q

\* A place outside those of the gets before is free to hold the next.
LEMMA PostedGood ==
  ASSUME NEW v \in Members, NEW k \in Kinds, NEW m \in Nat, Good(v, k, m), ~PostWild(v, k)
  PROVE  LET u == Posted(v, k)
             q == ListOf(v, k)
             r == NextGet(v, k)
         IN  /\ Good(u, k, m) /\ (Flag(v, k) => Flag(u, k)) /\ (Only(v, k) => Only(u, k))
             /\ Pending(u) = Pending(v) /\ ToPut(u) = ToPut(v) /\ u.shape = v.shape
             /\ u.info = v.info /\ u.puts = v.puts /\ u.isElem = v.isElem /\ u.isBulk = v.isBulk
             /\ \/ ~Posts(v, k) /\ u = v
                \/ /\ Posts(v, k) /\ v.bufc < PREALLOC /\ Unposted(v, k) >= 1
                   /\ Unposted(u, k) = Unposted(v, k) - 1
                   /\ u.bufc = v.bufc + SizeOf(k, r) /\ u.gets[q] = v.gets[q] + 1
                   /\ r = v.info[q][v.gets[q] + 1] /\ v.gets[q] + 1 \in 1 .. Len(v.info[q])
<1>. DEFINE q == ListOf(v, k)
            u == Posted(v, k)
            r == NextGet(v, k)
            d == SizeOf(k, r)
<1>1. q \in Lists
  BY ListIs
<1>2. CASE ~Posts(v, k)
  <2>1. u = v
    BY <1>2 DEF Posted
  <2>. QED BY <1>2, <2>1
<1>3. ASSUME Posts(v, k)
      PROVE  /\ Good(u, k, m) /\ (Flag(v, k) => Flag(u, k)) /\ (Only(v, k) => Only(u, k))
             /\ Pending(u) = Pending(v) /\ ToPut(u) = ToPut(v) /\ u.shape = v.shape
             /\ u.info = v.info /\ u.puts = v.puts /\ u.isElem = v.isElem /\ u.isBulk = v.isBulk
             /\ v.bufc < PREALLOC /\ Unposted(v, k) >= 1 /\ Unposted(u, k) = Unposted(v, k) - 1
             /\ u.bufc = v.bufc + SizeOf(k, r) /\ u.gets[q] = v.gets[q] + 1
             /\ r = v.info[q][v.gets[q] + 1] /\ v.gets[q] + 1 \in 1 .. Len(v.info[q])
  <2>1. /\ u \in Members /\ r \in Record /\ d \in Nat
        /\ v.gets[q] + 1 \in 1 .. Len(v.info[q]) /\ r = v.info[q][v.gets[q] + 1]
        /\ v.bufc + d <= PREALLOC /\ v.bufc < PREALLOC
        /\ u.buf = [i \in 0 .. PREALLOC-1 |-> IF v.bufc <= i /\ i < v.bufc + d THEN r.id ELSE v.buf[i]]
        /\ u.gets[q] = v.gets[q] + 1 /\ \A p \in Lists \ {q} : u.gets[p] = v.gets[p]
        /\ u.info = v.info /\ u.puts = v.puts /\ u.xfers = v.xfers
        /\ u.putc = v.putc /\ u.bufc = v.bufc + d /\ u.size = v.size
        /\ u.isElem = v.isElem /\ u.isBulk = v.isBulk /\ u.shape = v.shape
    BY <1>3, PostedIs
  <2>2. ListOf(u, k) = q
    BY <2>1, SameList
  <2>. HIDE DEF q, u, r, d
  <2>3. PICK L, g, x : L \in Nat /\ g \in Nat /\ x \in Nat /\ L = Len(v.info[q]) /\ g = v.gets[q] /\ x = v.xfers[q] /\ g <= L /\ x <= L
    BY <1>1, CountersAre
  <2>4. PICK b, z, P : b \in Nat /\ z \in Nat /\ P \in Nat /\ b = v.bufc /\ z = v.size /\ P = PREALLOC /\ P # 0 /\ b <= P /\ v.putc \in Nat
    BY SizesAre
  <2>5. L \in Nat /\ g \in Nat /\ x \in Nat /\ g < L /\ x <= L /\ g + 1 \in 1 .. L
    <3>1. g + 1 \in 1 .. L
      BY <2>1, <2>3
    <3>. QED BY <2>3, <3>1
  <2>6. b \in Nat /\ z \in Nat /\ P \in Nat /\ b < P /\ d \in Nat /\ b + d <= P
    BY <2>1, <2>4
  <2>7. r = v.info[q][g + 1] /\ u.gets[q] = g + 1 /\ u.xfers[q] = x /\ u.bufc = b + d /\ u.size = z
    BY <2>1, <2>3, <2>4
  <2>8. \A i \in 0 .. P - 1 : u.buf[i] = IF b <= i /\ i < b + d THEN r.id ELSE v.buf[i]
    BY <2>1, <2>4
  <2>9. InOrder(u, m)
    BY <2>1 DEF Good, InOrder
  <2>10. \A p \in Lists : {u.gets[p], u.xfers[p]} \subseteq 0 .. Len(u.info[p])
    <3>1. \A p \in Lists \ {q} : {u.gets[p], u.xfers[p]} \subseteq 0 .. Len(u.info[p])
      BY <2>1 DEF Good
    <3>2. g + 1 \in 0 .. L /\ x \in 0 .. L
      BY <2>5
    <3>3. {u.gets[q], u.xfers[q]} \subseteq 0 .. Len(u.info[q])
      BY <2>1, <2>3, <2>7, <3>2
    <3>. QED BY <3>1, <3>3
  <2>11. \A p \in Lists \ {q} : Used(u, p) /\ u.puts[p] = <<>>
    <3>. TAKE p \in Lists \ {q}
    <3>1. Used(v, p) /\ v.puts[p] = <<>>
      BY DEF Good, q
    <3>2. v.bufc < PREALLOC
      BY <2>1
    <3>. QED BY <2>1, <3>1, <3>2 DEF Used
  <2>12. (Flag(v, k) => Flag(u, k)) /\ (Only(v, k) => Only(u, k))
    BY <2>1 DEF Flag, Only
  <2>13. \E place \in [Nat -> 0 .. PREALLOC] : Aligned(u, k, place)
    <3>1. PICK place \in [Nat -> 0 .. PREALLOC] : Aligned(v, k, place)
      BY DEF Good
    <3>. DEFINE other == [place EXCEPT ![g + 2] = b + d]
    <3>2. /\ place[g + 1] = b
          /\ z < P => x <= g /\ place[x + 1] = z
          /\ z >= P => g <= x /\ b = P
          /\ \A i \in x + 1 .. g :
               /\ place[i + 1] = place[i] + SizeOf(k, v.info[q][i]) /\ place[i + 1] <= b /\ place[i] < P
               /\ \A j \in place[i] .. place[i + 1] - 1 : v.buf[j] = v.info[q][i].id
      BY <2>3, <2>4, <3>1 DEF Aligned, q
    <3>3. \A i \in Nat : place[i] \in Nat /\ place[i] <= P
      BY <2>4
    <3>4. other \in [Nat -> 0 .. PREALLOC]
      BY <2>4, <2>5, <2>6
    <3>5. other[g + 2] = b + d /\ \A i \in Nat : i # g + 2 => other[i] = place[i]
      BY <2>5
    <3>. HIDE DEF other
    <3>6. z < P /\ x <= g
      BY <2>6, <3>2
    <3>7. other[g + 1 + 1] = b + d /\ other[g + 1] = b
      <4>1. g + 1 \in Nat /\ g + 1 # g + 2 /\ g + 1 + 1 = g + 2
        BY <2>5
      <4>. QED BY <3>2, <3>5, <4>1
    <3>8. other[x + 1] = z
      <4>1. x + 1 \in Nat /\ x + 1 # g + 2
        BY <2>5, <3>6
      <4>. QED BY <3>2, <3>5, <3>6, <4>1
    <3>9. ASSUME NEW i \in x + 1 .. g + 1
          PROVE  /\ other[i + 1] = other[i] + SizeOf(k, v.info[q][i]) /\ other[i + 1] <= b + d /\ other[i] < P
                 /\ \A j \in other[i] .. other[i + 1] - 1 : u.buf[j] = v.info[q][i].id
      <4>1. CASE i = g + 1
        <5>1. other[i] = b /\ other[i + 1] = b + d /\ d = SizeOf(k, v.info[q][i]) /\ r = v.info[q][i]
          BY <2>7, <3>7, <4>1 DEF d
        <5>2. \A j \in b .. b + d - 1 : j \in 0 .. P - 1 /\ b <= j /\ j < b + d
          BY <2>6
        <5>3. \A j \in b .. b + d - 1 : u.buf[j] = r.id
          BY <2>8, <5>2
        <5>. QED BY <2>6, <5>1, <5>3
      <4>2. CASE i \in x + 1 .. g
        <5>1. i \in Nat /\ i + 1 \in Nat /\ i # g + 2 /\ i + 1 # g + 2
          BY <2>5, <4>2
        <5>2. PICK a, c : a = place[i] /\ c = place[i + 1] /\ a \in Nat /\ c \in Nat /\ c <= b
          BY <3>2, <3>3, <4>2, <5>1
        <5>3. other[i] = a /\ other[i + 1] = c
          BY <3>5, <5>1, <5>2
        <5>4. c = a + SizeOf(k, v.info[q][i]) /\ a < P /\ \A j \in a .. c - 1 : v.buf[j] = v.info[q][i].id
          BY <3>2, <4>2, <5>2
        <5>5. \A j \in a .. c - 1 : j \in 0 .. P - 1 /\ ~(b <= j)
          BY <2>6, <5>2
        <5>6. \A j \in a .. c - 1 : u.buf[j] = v.info[q][i].id
          BY <2>8, <5>4, <5>5
        <5>7. c <= b + d
          BY <2>6, <5>2
        <5>. QED BY <5>3, <5>4, <5>6, <5>7
      <4>3. i = g + 1 \/ i \in x + 1 .. g
        BY <2>5
      <4>. QED BY <4>1, <4>2, <4>3
    <3>10. Aligned(u, k, other)
      <4>1. /\ z < P => x <= g + 1 /\ other[x + 1] = z
            /\ ~(z >= P)
        BY <2>5, <2>6, <3>6, <3>8
      <4>2. u.info = v.info /\ PREALLOC = P
        BY <2>1, <2>4
      <4>. QED BY <2>2, <2>7, <3>7, <3>9, <4>1, <4>2 DEF Aligned
    <3>. QED BY <3>4, <3>10
  <2>14. Good(u, k, m)
    <3>1. u.putc <= Len(u.puts[q]) /\ (u.puts[q] # <<>> => Flag(u, k))
      BY <2>1, <2>12 DEF Good, q
    <3>2. u.bufc <= PREALLOC
      BY <2>1
    <3>. QED BY <2>2, <2>9, <2>10, <2>11, <2>13, <3>1, <3>2 DEF Good
  <2>15. Pending(u) = Pending(v) /\ ToPut(u) = ToPut(v)
    BY <2>1 DEF Pending, ToPut
  <2>16. Unposted(v, k) >= 1 /\ Unposted(u, k) = Unposted(v, k) - 1
    <3>1. Unposted(v, k) = L - g
      BY <2>3 DEF Unposted, q
    <3>2. Unposted(u, k) = Len(u.info[q]) - u.gets[q]
      BY <2>2 DEF Unposted
    <3>3. Len(u.info[q]) = L
      BY <2>1, <2>3
    <3>4. Unposted(u, k) = L - (g + 1)
      BY <2>5, <2>7, <3>2, <3>3
    <3>. QED BY <2>5, <3>1, <3>4
  <2>17. u.bufc = v.bufc + SizeOf(k, r)
    BY <2>1 DEF d
  <2>. QED BY <2>1, <2>12, <2>14, <2>15, <2>16, <2>17
<1>. QED
  BY <1>2, <1>3

\* Where all gets that fit were posted, the next evaluation finds what it asked for.
LEMMA EvaluatedGood ==
  ASSUME NEW v \in Members, NEW k \in Kinds, NEW m \in Nat, Good(v, k, m), Pending(v) # {},
         v.bufc < PREALLOC => Unposted(v, k) = 0
  PROVE  LET u == Evaluated(v, k)
             r == NextXfer(v, k)
         IN  /\ ~EvalWild(v, k) /\ Good(u, k, m) /\ (Flag(v, k) => Flag(u, k)) /\ (Only(v, k) => Only(u, k))
             /\ Data(v, k) = {r.id} /\ r.id \in Pending(v) /\ r.id \in Accesses
             /\ \A y \in Pending(v) : y = r.id \/ r.id < y
             /\ Pending(u) = Pending(v) \ {r.id} /\ ToPut(u) = ToPut(v)
             /\ Unposted(u, k) = Unposted(v, k) /\ u.bufc = v.bufc /\ u.shape = v.shape
             /\ u.puts = v.puts /\ u.info = v.info
<1>. DEFINE q == ListOf(v, k)
            u == Evaluated(v, k)
            r == NextXfer(v, k)
            d == SizeOf(k, r)
<1>1. q \in Lists
  BY ListIs
<1>2. \A p \in Lists \ {q} : \A i : i \notin v.xfers[p] + 1 .. Len(v.info[p])
  <2>. TAKE p \in Lists \ {q}
  <2>1. v.xfers[p] = Len(v.info[p])
    BY DEF Good, Used
  <2>2. Len(v.info[p]) \in Nat
    BY ListsAre
  <2>. QED BY <2>1, <2>2
<1>. HIDE DEF q
<1>3. PICK L, g, x : L \in Nat /\ g \in Nat /\ x \in Nat /\ L = Len(v.info[q]) /\ g = v.gets[q] /\ x = v.xfers[q] /\ g <= L /\ x <= L
  BY <1>1, CountersAre
<1>4. L \in Nat /\ g \in Nat /\ x \in Nat /\ g <= L /\ x < L
  <2>1. PICK y : y \in Pending(v)
    OBVIOUS
  <2>2. PICK p \in Lists : \E i \in v.xfers[p] + 1 .. Len(v.info[p]) : y = v.info[p][i].id
    BY <2>1, PendingIs
  <2>3. p = q
    BY <1>2, <2>2
  <2>4. PICK i : i \in x + 1 .. L
    BY <1>3, <2>2, <2>3
  <2>. QED BY <1>3, <2>4
<1>5. ~EvalWild(v, k)
  BY <1>3, <1>4 DEF EvalWild, q
<1>6. /\ u \in Members /\ r \in Record /\ d \in Nat
      /\ v.xfers[q] + 1 \in 1 .. Len(v.info[q]) /\ r = v.info[q][v.xfers[q] + 1]
      /\ u.xfers[q] = v.xfers[q] + 1 /\ \A p \in Lists \ {q} : u.xfers[p] = v.xfers[p]
      /\ u.size = IF k = "elem" \/ v.size < PREALLOC THEN v.size + d ELSE v.size
      /\ u.info = v.info /\ u.puts = v.puts /\ u.gets = v.gets
      /\ u.putc = v.putc /\ u.bufc = v.bufc /\ u.buf = v.buf
      /\ u.isElem = v.isElem /\ u.isBulk = v.isBulk /\ u.shape = v.shape
  BY <1>5, EvaluatedIs DEF q
<1>7. ListOf(u, k) = q
  BY <1>6, SameList DEF q
<1>. HIDE DEF u, r, d
<1>8. PICK b, z, P : b \in Nat /\ z \in Nat /\ P \in Nat /\ b = v.bufc /\ z = v.size /\ P = PREALLOC /\ P # 0 /\ b <= P /\ v.putc \in Nat
  BY SizesAre
<1>9. b \in Nat /\ z \in Nat /\ P \in Nat /\ b <= P /\ d \in Nat
  BY <1>6, <1>8
<1>10. /\ r = v.info[q][x + 1] /\ u.xfers[q] = x + 1 /\ u.gets[q] = g /\ u.bufc = b /\ u.info = v.info /\ u.buf = v.buf
       /\ u.size = IF k = "elem" \/ z < P THEN z + d ELSE z
  BY <1>3, <1>6, <1>8
<1>11. x + 1 \in 1 .. L /\ x + 1 \in x + 1 .. L
  BY <1>4
<1>12. PICK place \in [Nat -> 0 .. PREALLOC] : Aligned(v, k, place)
  BY DEF Good
<1>13. /\ place[g + 1] = b
       /\ z < P => x <= g /\ place[x + 1] = z
       /\ z >= P => g <= x /\ b = P
       /\ \A i \in x + 1 .. g :
            /\ place[i + 1] = place[i] + SizeOf(k, v.info[q][i]) /\ place[i + 1] <= b /\ place[i] < P
            /\ \A j \in place[i] .. place[i + 1] - 1 : v.buf[j] = v.info[q][i].id
  BY <1>3, <1>8, <1>12 DEF Aligned, q
<1>14. b < P => g = L
  <2>1. b < P => L - g = 0
    BY <1>3, <1>8 DEF Unposted, q
  <2>. QED BY <1>4, <2>1
\* What is read was posted.
<1>15. z < P => x + 1 \in x + 1 .. g /\ x + 1 <= g
  <2>1. SUFFICES ASSUME z < P PROVE x < g
    BY <1>4
  <2>2. x <= g /\ place[x + 1] = z
    BY <1>13, <2>1
  <2>3. x # g
    BY <1>4, <1>9, <1>13, <1>14, <2>1, <2>2
  <2>. QED BY <1>4, <2>2, <2>3
<1>16. z < P => place[x + 2] = z + d /\ z + d <= b /\ \A j \in z .. z + d - 1 : v.buf[j] = r.id
  <2>1. SUFFICES ASSUME z < P PROVE place[x + 2] = z + d /\ z + d <= b /\ \A j \in z .. z + d - 1 : v.buf[j] = r.id
    OBVIOUS
  <2>2. x + 1 + 1 = x + 2
    BY <1>4
  <2>3. d = SizeOf(k, v.info[q][x + 1])
    BY <1>10 DEF d
  <2>4. place[x + 1] = z /\ x + 1 \in x + 1 .. g
    BY <1>13, <1>15, <2>1
  <2>5. /\ place[x + 1 + 1] = place[x + 1] + SizeOf(k, v.info[q][x + 1]) /\ place[x + 1 + 1] <= b
        /\ \A j \in place[x + 1] .. place[x + 1 + 1] - 1 : v.buf[j] = v.info[q][x + 1].id
    BY <1>13, <2>4
  <2>6. place[x + 2] = z + d /\ place[x + 2] <= b
    BY <2>2, <2>3, <2>4, <2>5
  <2>7. \A j \in z .. z + d - 1 : v.buf[j] = r.id
    <3>1. place[x + 1] = z /\ place[x + 1 + 1] = z + d
      BY <2>2, <2>4, <2>6
    <3>2. r.id = v.info[q][x + 1].id
      BY <1>10
    <3>3. \A j \in place[x + 1] .. place[x + 1 + 1] - 1 : v.buf[j] = r.id
      BY <2>5, <3>2
    <3>. QED BY <1>9, <3>1, <3>3
  <2>. QED BY <2>6, <2>7
<1>17. Data(v, k) = {r.id}
  <2>. DEFINE S == IF v.size >= PREALLOC THEN {}
                   ELSE {IF i < PREALLOC THEN v.buf[i] ELSE -1 : i \in v.size .. v.size + d - 1}
  <2>1. Data(v, k) = {r.id} \cup S
    BY DEF Data, r, d
  <2>2. S \subseteq {r.id}
    <3>1. CASE z >= P
      BY <1>8, <3>1
    <3>2. CASE z < P
      <4>1. ASSUME NEW y \in S PROVE y = r.id
        <5>1. PICK i \in z .. z + d - 1 : y = IF i < P THEN v.buf[i] ELSE -1
          BY <1>8, <1>9, <3>2, <4>1
        <5>2. i < P
          BY <1>9, <1>16, <3>2, <5>1
        <5>. QED BY <1>16, <3>2, <5>1, <5>2
      <4>. QED BY <4>1
    <3>. QED BY <1>9, <3>1, <3>2
  <2>. HIDE DEF S
  <2>. QED BY <2>1, <2>2
<1>18. r.id \in Pending(v) /\ r.id \in Accesses /\ r.id \in Int
  <2>1. r.id \in Accesses
    BY <1>6 DEF Record
  <2>. QED BY <1>1, <1>3, <1>10, <1>11, <2>1, PendingIs, WindowBounds
\* It is the first of those asked for.
<1>19. InOrder(v, m) /\ DOMAIN v.info[q] = 1 .. L
  BY <1>1, <1>3, ListsAre DEF Good
<1>20. \A i \in x + 2 .. L : i \in 1 .. L /\ r.id < v.info[q][i].id /\ v.info[q][i].id # r.id
  <2>. TAKE i \in x + 2 .. L
  <2>1. i \in 1 .. L /\ x + 1 < i
    BY <1>4
  <2>2. v.info[q][x + 1].id < v.info[q][i].id
    BY <1>1, <1>11, <1>19, <2>1 DEF InOrder
  <2>3. v.info[q][i].id \in Int
    BY <1>1, <1>3, <2>1, ListsAre, WindowBounds
  <2>. QED BY <1>10, <1>18, <2>1, <2>2, <2>3
<1>21. \A i \in x + 1 .. L : i = x + 1 \/ i \in x + 2 .. L
  BY <1>4
<1>22. ASSUME NEW y \in Pending(v) PROVE \E i \in x + 1 .. L : y = v.info[q][i].id
  <2>1. PICK p \in Lists : \E i \in v.xfers[p] + 1 .. Len(v.info[p]) : y = v.info[p][i].id
    BY PendingIs
  <2>2. p = q
    BY <1>2, <2>1
  <2>. QED BY <1>3, <2>1, <2>2
<1>23. \A y \in Pending(v) : y = r.id \/ r.id < y
  <2>. TAKE y \in Pending(v)
  <2>1. PICK i \in x + 1 .. L : y = v.info[q][i].id
    BY <1>22
  <2>. QED BY <1>10, <1>20, <1>21, <2>1
<1>24. Pending(u) = Pending(v) \ {r.id}
  <2>1. ASSUME NEW y \in Pending(u) PROVE y \in Pending(v) /\ y # r.id
    <3>1. PICK p \in Lists : \E i \in u.xfers[p] + 1 .. Len(u.info[p]) : y = u.info[p][i].id
      BY PendingIs
    <3>2. p = q
      BY <1>2, <1>6, <3>1
    <3>3. PICK i \in x + 1 + 1 .. L : y = v.info[q][i].id
      BY <1>3, <1>10, <3>1, <3>2
    <3>4. i \in x + 2 .. L /\ i \in x + 1 .. L
      BY <1>4, <3>3
    <3>. QED BY <1>1, <1>3, <1>20, <3>3, <3>4, PendingIs
  <2>2. ASSUME NEW y \in Pending(v), y # r.id PROVE y \in Pending(u)
    <3>1. PICK i \in x + 1 .. L : y = v.info[q][i].id
      BY <1>22
    <3>2. i \in x + 2 .. L
      BY <1>10, <1>21, <2>2, <3>1
    <3>3. i \in x + 1 + 1 .. L
      BY <1>4, <3>2
    <3>. QED BY <1>1, <1>3, <1>10, <3>1, <3>3, PendingIs
  <2>. QED BY <2>1, <2>2
<1>25. InOrder(u, m)
  BY <1>6 DEF Good, InOrder
<1>26. \A p \in Lists : {u.gets[p], u.xfers[p]} \subseteq 0 .. Len(u.info[p])
  <2>1. \A p \in Lists \ {q} : {u.gets[p], u.xfers[p]} \subseteq 0 .. Len(u.info[p])
    BY <1>6 DEF Good
  <2>2. g \in 0 .. L /\ x + 1 \in 0 .. L
    BY <1>4
  <2>3. {u.gets[q], u.xfers[q]} \subseteq 0 .. Len(u.info[q])
    BY <1>3, <1>10, <2>2
  <2>. QED BY <2>1, <2>3
<1>27. \A p \in Lists \ {q} : Used(u, p) /\ u.puts[p] = <<>>
  BY <1>6 DEF Good, Used, q
<1>28. (Flag(v, k) => Flag(u, k)) /\ (Only(v, k) => Only(u, k))
  BY <1>6 DEF Flag, Only
<1>29. Aligned(u, k, place)
  <2>. DEFINE y == u.size
  <2>1. y \in Nat
    BY <1>6, MembersAre
  <2>2. ASSUME y < P PROVE x + 1 <= g /\ place[x + 1 + 1] = y
    <3>1. z < P
      BY <1>9, <1>10, <2>2
    <3>2. y = z + d
      BY <1>10, <3>1
    <3>3. x + 1 + 1 = x + 2
      BY <1>4
    <3>. QED BY <1>15, <1>16, <3>1, <3>2, <3>3
  <2>3. ASSUME y >= P PROVE g <= x + 1 /\ b = P
    <3>1. CASE z >= P
      BY <1>4, <1>13, <3>1
    <3>2. CASE z < P
      <4>1. y = z + d /\ z + d <= b /\ place[x + 2] = z + d
        BY <1>10, <1>16, <3>2
      <4>2. b = P /\ z + d = P
        BY <1>9, <2>3, <4>1
      <4>3. ASSUME x + 1 < g PROVE FALSE
        <5>1. x + 2 \in x + 1 .. g
          BY <1>4, <4>3
        <5>2. place[x + 2] < P
          BY <1>13, <5>1
        <5>. QED BY <1>9, <4>1, <4>2, <5>2
      <4>. QED BY <1>4, <4>2, <4>3
    <3>. QED BY <1>9, <3>1, <3>2
  <2>4. \A i \in x + 1 + 1 .. g : i \in x + 1 .. g
    BY <1>4
  <2>. QED BY <1>7, <1>8, <1>10, <1>13, <2>2, <2>3, <2>4 DEF Aligned
<1>30. Good(u, k, m)
  <2>1. u.putc <= Len(u.puts[q]) /\ (u.puts[q] # <<>> => Flag(u, k))
    BY <1>6, <1>28 DEF Good, q
  <2>2. u.bufc <= PREALLOC
    BY <1>8, <1>10
  <2>. QED BY <1>7, <1>12, <1>25, <1>26, <1>27, <1>29, <2>1, <2>2 DEF Good
<1>31. ToPut(u) = ToPut(v)
  BY <1>6 DEF ToPut
<1>32. Unposted(u, k) = Unposted(v, k)
  <2>1. Unposted(v, k) = Len(v.info[q]) - v.gets[q] /\ Unposted(u, k) = Len(u.info[q]) - u.gets[q]
    BY <1>7 DEF Unposted, q
  <2>. QED BY <1>6, <2>1
<1>. QED
  BY <1>5, <1>6, <1>17, <1>18, <1>23, <1>24, <1>28, <1>30, <1>31, <1>32 DEF u, r

\* The next put is that of the first access of those to be made.
LEMMA PutMadeGood ==
  ASSUME NEW v \in Members, NEW k \in Kinds, NEW m \in Nat, Good(v, k, m), ToPut(v) # {}
  PROVE  LET u == PutMade(v, k)
             y == NextPut(v, k)
         IN  /\ u \in Members
             /\ ~PutWild(v, k) /\ Good(u, k, m) /\ (Flag(v, k) => Flag(u, k)) /\ (Only(v, k) => Only(u, k))
             /\ y \in ToPut(v) /\ y \in Accesses /\ \A e \in ToPut(v) : e = y \/ y < e
             /\ ToPut(u) = ToPut(v) \ {y} /\ Pending(u) = Pending(v)
             /\ Unposted(u, k) = Unposted(v, k) /\ u.bufc = v.bufc /\ u.shape = v.shape
             /\ u.puts = v.puts /\ u.info = v.info
<1>. DEFINE q == ListOf(v, k)
            u == PutMade(v, k)
            y == NextPut(v, k)
<1>1. q \in Lists
  BY ListIs
<1>2. \A p \in Lists \ {q} : \A i : i \notin v.putc + 1 .. Len(v.puts[p])
  <2>. TAKE p \in Lists \ {q}
  <2>1. Len(v.puts[p]) = 0
    BY DEF Good
  <2>2. v.putc \in Nat
    BY MembersAre
  <2>. QED BY <2>1, <2>2
<1>. HIDE DEF q
<1>3. PICK K, c : K \in Nat /\ c \in Nat /\ K = Len(v.puts[q]) /\ c = v.putc
  BY <1>1, ListsAre, MembersAre
<1>4. K \in Nat /\ c \in Nat /\ c < K
  <2>1. PICK e : e \in ToPut(v)
    OBVIOUS
  <2>2. PICK p \in Lists : \E i \in v.putc + 1 .. Len(v.puts[p]) : e = v.puts[p][i]
    BY <2>1, ToPutIs
  <2>3. p = q
    BY <1>2, <2>2
  <2>4. PICK i : i \in c + 1 .. K
    BY <1>3, <2>2, <2>3
  <2>. QED BY <1>3, <2>4
<1>5. ~PutWild(v, k)
  BY <1>3, <1>4 DEF PutWild, q
<1>6. /\ u \in Members /\ y \in Accesses /\ y = v.puts[q][v.putc + 1]
      /\ v.putc + 1 \in 1 .. Len(v.puts[q]) /\ u.putc = v.putc + 1
      /\ u.info = v.info /\ u.puts = v.puts /\ u.gets = v.gets /\ u.xfers = v.xfers
      /\ u.bufc = v.bufc /\ u.size = v.size /\ u.buf = v.buf
      /\ u.isElem = v.isElem /\ u.isBulk = v.isBulk /\ u.shape = v.shape
  BY <1>5, PutMadeIs DEF q
<1>7. ListOf(u, k) = q
  BY <1>6, SameList DEF q
<1>. HIDE DEF u, y
<1>8. y = v.puts[q][c + 1] /\ u.putc = c + 1 /\ y \in Int
  BY <1>3, <1>6, WindowBounds
<1>9. InOrder(v, m) /\ DOMAIN v.puts[q] = 1 .. K /\ \A i \in 1 .. K : v.puts[q][i] \in Int
  BY <1>1, <1>3, ListsAre, WindowBounds DEF Good
<1>10. c + 1 \in 1 .. K /\ c + 1 \in c + 1 .. K
  BY <1>4
<1>11. \A i \in c + 2 .. K : i \in 1 .. K /\ y < v.puts[q][i] /\ v.puts[q][i] # y
  <2>. TAKE i \in c + 2 .. K
  <2>1. i \in 1 .. K /\ c + 1 < i
    BY <1>4
  <2>2. v.puts[q][c + 1] < v.puts[q][i]
    BY <1>1, <1>9, <1>10, <2>1 DEF InOrder
  <2>3. v.puts[q][i] \in Int
    BY <1>9, <2>1
  <2>. QED BY <1>8, <2>1, <2>2, <2>3
<1>12. \A i \in c + 1 .. K : i = c + 1 \/ i \in c + 2 .. K
  BY <1>4
<1>13. ASSUME NEW e \in ToPut(v) PROVE \E i \in c + 1 .. K : e = v.puts[q][i]
  <2>1. PICK p \in Lists : \E i \in v.putc + 1 .. Len(v.puts[p]) : e = v.puts[p][i]
    BY ToPutIs
  <2>2. p = q
    BY <1>2, <2>1
  <2>. QED BY <1>3, <2>1, <2>2
<1>14. \A e \in ToPut(v) : e = y \/ y < e
  <2>. TAKE e \in ToPut(v)
  <2>1. PICK i \in c + 1 .. K : e = v.puts[q][i]
    BY <1>13
  <2>. QED BY <1>8, <1>11, <1>12, <2>1
<1>15. y \in ToPut(v)
  BY <1>1, <1>3, <1>8, <1>10, ToPutIs
<1>16. ToPut(u) = ToPut(v) \ {y}
  <2>1. ASSUME NEW e \in ToPut(u) PROVE e \in ToPut(v) /\ e # y
    <3>1. PICK p \in Lists : \E i \in u.putc + 1 .. Len(u.puts[p]) : e = u.puts[p][i]
      BY ToPutIs
    <3>2. p = q
      <4>1. PICK i \in c + 1 + 1 .. Len(v.puts[p]) : TRUE
        BY <1>6, <1>8, <3>1
      <4>2. Len(v.puts[p]) \in Nat
        BY ListsAre
      <4>3. i \in c + 1 .. Len(v.puts[p])
        BY <1>4, <4>1, <4>2
      <4>. QED BY <1>2, <1>3, <4>3
    <3>3. PICK i \in c + 1 + 1 .. K : e = v.puts[q][i]
      BY <1>3, <1>6, <1>8, <3>1, <3>2
    <3>4. i \in c + 2 .. K /\ i \in c + 1 .. K
      BY <1>4, <3>3
    <3>. QED BY <1>1, <1>3, <1>11, <3>3, <3>4, ToPutIs
  <2>2. ASSUME NEW e \in ToPut(v), e # y PROVE e \in ToPut(u)
    <3>1. PICK i \in c + 1 .. K : e = v.puts[q][i]
      BY <1>13
    <3>2. i \in c + 2 .. K
      BY <1>8, <1>12, <2>2, <3>1
    <3>3. i \in c + 1 + 1 .. K
      BY <1>4, <3>2
    <3>. QED BY <1>1, <1>3, <1>6, <1>8, <3>1, <3>3, ToPutIs
  <2>. QED BY <2>1, <2>2
<1>17. Pending(u) = Pending(v)
  BY <1>6 DEF Pending
<1>18. (Flag(v, k) => Flag(u, k)) /\ (Only(v, k) => Only(u, k))
  BY <1>6 DEF Flag, Only
<1>19. Good(u, k, m)
  <2>1. PICK place \in [Nat -> 0 .. PREALLOC] : Aligned(v, k, place)
    BY DEF Good
  <2>2. Aligned(u, k, place)
    BY <1>6, <1>7, <2>1 DEF Aligned, q
  <2>3. InOrder(u, m)
    BY <1>6, <1>9 DEF InOrder
  <2>4. \A p \in Lists : {u.gets[p], u.xfers[p]} \subseteq 0 .. Len(u.info[p])
    BY <1>6 DEF Good
  <2>5. \A p \in Lists \ {q} : Used(u, p) /\ u.puts[p] = <<>>
    BY <1>6 DEF Good, Used, q
  <2>6. u.putc <= Len(u.puts[q])
    BY <1>3, <1>4, <1>6, <1>8
  <2>7. (u.puts[q] # <<>> => Flag(u, k)) /\ u.bufc <= PREALLOC
    BY <1>6, <1>18 DEF Good, q
  <2>. QED BY <1>7, <2>2, <2>3, <2>4, <2>5, <2>6, <2>7 DEF Good
<1>20. Unposted(u, k) = Unposted(v, k)
  BY <1>6, <1>7 DEF Unposted, q
<1>. QED
  BY <1>5, <1>6, <1>14, <1>15, <1>16, <1>17, <1>18, <1>19, <1>20 DEF u, y

=============================================================================
