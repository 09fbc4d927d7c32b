-------------------------- MODULE Expressions_proofs --------------------------
(***************************************************************************)
(* Expressions for one thread and every set of windows, shapes,            *)
(* completions, counts, and sizes of the buffer and the store.             *)
(***************************************************************************)
EXTENDS Expressions, ExprWindow_proofs

\* Several threads' expressions mix up their records: nothing here is about them.
OneThread == \E t : Threads = {t}

-----------------------------------------------------------------------------
(***************************************************************************)
(* Types.                                                                  *)
(***************************************************************************)
Beginning == {"open", "sink", "ignore", "post", "defer"}
Ending    == {"eval", "store"}
Busy      == Beginning \cup Ending \cup {"put", "again"}
Pcs       == Busy \cup {"idle", "flush", "undefined"}

Handle == [what : {"expr", "put", "uninit"}, wins : Seq(Windows), ids : Seq(0 .. MaxAccesses),
           opened : Seq(Nat), count : Nat \ {0}, sink : Windows \cup {None}, id : 0 .. MaxAccesses,
           deletes : BOOLEAN]
HandleOK(h) ==
  /\ h \in Handle
  /\ h.what = "expr" => Len(h.wins) \in {1, 2} /\ Len(h.ids) = Len(h.wins)
  /\ h.what = "put" => h.sink \in Windows /\ h.wins = <<>> /\ h.ids = <<>>

State == [pc : Pcs, kind : Kinds, wins : Seq(Windows), ids : Seq(0 .. MaxAccesses), count : Nat \ {0},
          todo : SUBSET Nat, opened : Seq(Nat), got : Seq(SUBSET Int), order : Seq(Nat),
          sink : Windows \cup {None}, sinkId : 0 .. MaxAccesses, flushing : Windows \cup {None},
          run : SUBSET Kinds, val : Int, put : Seq([to : Int, val : Int, id : Int]),
          placed : BOOLEAN, deletes : BOOLEAN, ran : BOOLEAN]
StateOK(s) ==
  /\ s \in State
  /\ s.todo \subseteq DOMAIN s.wins
  /\ s.pc = "idle" => s = Idle
  /\ s.pc \in Busy => Len(s.wins) \in {1, 2} /\ Len(s.ids) = Len(s.wins)
  /\ s.pc \in {"open", "post", "eval"} => s.todo # {}
  /\ s.pc \in {"sink", "ignore"} => s.todo = DOMAIN s.wins
  /\ s.pc \in {"sink", "ignore", "put", "again"} => s.sink \in Windows
  /\ s.pc \in Ending => Len(s.got) = Len(s.wins)
  /\ s.pc = "flush" => /\ s.flushing \in Windows /\ s.wins = <<>> /\ s.ids = <<>> /\ s.opened = <<>>
                       /\ s.got = <<>> /\ s.order = <<>> /\ s.sinkId = 0

Types ==
  /\ comp \in [Windows -> Completions]
  /\ win \in [Windows -> Members]
  /\ handles \in [Kinds -> Seq({h \in Handle : HandleOK(h)})]
  /\ next \in [Kinds -> 0 .. STORE - 1]
  /\ st \in [Threads -> {s \in State : StateOK(s)}]
  /\ n \in 0 .. MaxAccesses /\ sane \in BOOLEAN

-----------------------------------------------------------------------------
(***************************************************************************)
(* The invariant of the statements, while they are supported: of one       *)
(* thread's state s, the windows W, of which those in B block, the handles *)
(* H, how much of the stores is taken, X, and the m accesses made.         *)
(***************************************************************************)
\* The accesses were made in the order opened, after which there were m or more.
Ordered(s, m) ==
  /\ \A i \in DOMAIN s.ids : s.ids[i] \in 1 .. m
  /\ Len(s.wins) = 1 => s.opened = <<1>>
  /\ Len(s.wins) = 2 => \/ s.opened = <<1, 2>> /\ s.ids[1] < s.ids[2]
                        \/ s.opened = <<2, 1>> /\ s.ids[2] < s.ids[1]

\* As many of the operands in S as are of window w.
Among(s, S, w) ==
  (IF 1 \in S /\ s.wins[1] = w THEN 1 ELSE 0) + (IF 2 \in S /\ s.wins[2] = w THEN 1 ELSE 0)

\* The operands that are opened and have no get posted for; and how many records of w that is.
Opening(s) ==
  IF s.pc = "open" THEN DOMAIN s.wins \ s.todo
  ELSE IF s.pc \in {"sink", "ignore", "post"} THEN s.todo ELSE {}
Sinking(s, w) == IF s.pc = "ignore" /\ s.sink = w THEN 1 ELSE 0
Expected(s, w) == Among(s, Opening(s), w) + Sinking(s, w)
\* The operands that have no get posted for.
ToPost(s) == IF s.pc = "post" THEN s.todo ELSE IF s.pc \in {"open", "sink", "ignore"} THEN DOMAIN s.wins ELSE {}

Uses(s) == Range(s.wins) \cup ({s.sink} \ {None})

\* A window v, called w, for kind k.
Sound(B, v, s, w, k, m) ==
  /\ Good(v, k, m)
  /\ w \in B => \A q \in Lists : v.puts[q] = <<>>
  /\ w \notin B => Only(v, k)
  /\ v.bufc < PREALLOC => Unposted(v, k) = Expected(s, w)
AllSound(B, W, s, m) ==
  /\ \A w \in Windows : \E k \in Kinds : Sound(B, W[w], s, w, k, m)
  /\ s.pc \in Beginning \cup Ending => \A w \in Uses(s) : Sound(B, W[w], s, w, s.kind, m)

\* A statement being made: its windows agree, each has room, and all its records not
\* posted are its own.
Roomy(W, s) ==
  \A w \in Range(s.wins) :
    /\ s.kind = "bulk" => Room(W[w], Among(s, ToPost(s), w), s.count)
    /\ W[w].bufc < PREALLOC =>
         \A i \in W[w].gets[ListOf(W[w], s.kind)] + 1 .. Len(W[w].info[ListOf(W[w], s.kind)]) :
           \/ s.pc = "ignore" /\ s.sink = w /\ i = Len(W[w].info[ListOf(W[w], s.kind)])
           \/ W[w].info[ListOf(W[w], s.kind)][i].count = s.count
Agreed(B, W, s) ==
  /\ s.sink # None => W[s.sink].shape.view = "LOCAL_VIEW" \/ W[s.sink].shape.ndims = 1
  /\ \A w \in Uses(s) : w \in B => s.sink = None /\ \A u \in Uses(s) : u \in B
  /\ s.pc = "defer" => \A w \in Uses(s) : w \notin B
  /\ \A i \in DOMAIN s.wins : i \notin s.todo \/ s.pc # "open" => Flag(W[s.wins[i]], s.kind)
  /\ s.pc \in {"ignore", "post", "defer"} /\ s.sink # None => Flag(W[s.sink], s.kind)
Stored(X, s) ==
  IF s.pc = "defer" THEN s.placed => Placed(X[s.kind], OBJECT)
  ELSE s.sink # None /\ Placed(X[s.kind], s.count) => Placed(X[s.kind] + s.count, OBJECT)
Numbered(s, m) ==
  /\ s.pc = "open" => /\ s.sinkId = 0
                      /\ \A i \in DOMAIN s.ids : s.ids[i] <= m /\ (s.ids[i] = 0 <=> i \in s.todo)
                      /\ Len(s.wins) = 1 => s.opened = <<>>
                      /\ Len(s.wins) = 2 => \/ s.todo = {1, 2} /\ s.opened = <<>>
                                            \/ s.todo = {1} /\ s.opened = <<2>>
                                            \/ s.todo = {2} /\ s.opened = <<1>>
  /\ s.pc = "sink" => s.sinkId = 0
  /\ s.pc # "open" => Ordered(s, m)
  /\ s.pc = "post" \/ s.pc = "defer" => (s.sink # None <=> s.sinkId # 0)
  /\ s.sinkId # 0 => s.sinkId <= m /\ \A i \in DOMAIN s.ids : s.ids[i] < s.sinkId
Ignoring(W, s, m) ==
  s.pc = "ignore" => LET v == W[s.sink] IN
    LET q == ListOf(v, s.kind) IN
       /\ s.sinkId = m /\ Len(v.info[q]) > 0 /\ v.info[q][Len(v.info[q])].id = m
       /\ v.xfers[q] < Len(v.info[q]) /\ v.gets[q] < Len(v.info[q])
       /\ \A i \in DOMAIN v.puts[q] : v.puts[q][i] < m
Begun(B, W, X, s, m) ==
  /\ s.flushing = None /\ s.val = 0 /\ s.order = <<>> /\ (\A i \in DOMAIN s.got : s.got[i] = {})
  /\ Agreed(B, W, s) /\ Roomy(W, s) /\ Stored(X, s) /\ Numbered(s, m) /\ Ignoring(W, s, m)

\* The operands evaluated so far have read each what one of them asked for.
ReadOK(s) ==
  /\ \A i \in DOMAIN s.got : s.got[i] = {} <=> i \in s.todo
  /\ \A i \in DOMAIN s.got \ s.todo : \E j \in DOMAIN s.ids : s.got[i] = {s.ids[j]} /\ s.wins[j] = s.wins[i]
  /\ \A i, j \in DOMAIN s.got \ s.todo : i # j => s.got[i] # s.got[j]
  /\ s.todo = DOMAIN s.wins => s.order = <<>>
  /\ \A i \in DOMAIN s.wins : s.todo = DOMAIN s.wins \ {i} => s.order = <<i>>
  /\ Len(s.wins) = 2 /\ s.todo = {} => s.order \in {<<1, 2>>, <<2, 1>>}
  /\ (\A i \in DOMAIN s.order : s.order[i] = s.opened[i])
       => \A i \in DOMAIN s.got \ s.todo : s.got[i] = {s.ids[i]}

Runs(s) == IF "elem" \in s.run THEN "elem" ELSE "bulk"

\* A statement being evaluated: at once, by windows that all block, or by a flush.
Ended(B, W, s, m) ==
  /\ s.todo = {} <=> s.pc = "store"
  /\ Ordered(s, m) /\ ReadOK(s)
  /\ s.flushing = None => s.sink = None /\ s.sinkId = 0 /\ Range(s.wins) \subseteq B
  /\ s.flushing # None => /\ s.run # {} /\ s.kind = Runs(s)
                          /\ \A w \in Uses(s) : w \notin B /\ Flag(W[w], s.kind)
                          /\ s.sink # None <=> s.sinkId # 0

\* Handles are queued in the order of their statements, a put after its expression.
QueuedOne(B, W, h, k, m) ==
  /\ h.what \in {"expr", "put"} /\ ~h.deletes /\ h.id \in 0 .. m
  /\ h.what = "expr" => Ordered(h, m) /\ (h.sink # None <=> h.id # 0)
  /\ h.what = "put" => h.id # 0
  /\ \A w \in Uses(h) : w \notin B /\ Flag(W[w], k)
QueuedTwo(g, h) ==
  /\ \A i \in DOMAIN g.ids, j \in DOMAIN h.ids : g.ids[i] < h.ids[j]
  /\ g.what = "put" /\ h.what = "put" => g.id < h.id
Queued(B, W, H, m) ==
  \A k \in Kinds :
    /\ \A a \in DOMAIN H[k] : QueuedOne(B, W, H[k][a], k, m)
    /\ \A a, b \in DOMAIN H[k] : a < b => QueuedTwo(H[k][a], H[k][b])
    /\ \A a \in DOMAIN H[k] : H[k][a].what = "expr" /\ H[k][a].sink # None =>
         a + 1 \in DOMAIN H[k] /\ H[k][a + 1].what = "put"
    /\ \A a \in DOMAIN H[k] : a + 1 \in DOMAIN H[k] /\ H[k][a + 1].what = "put" =>
         H[k][a].what = "expr" /\ H[k][a].sink # None /\ H[k][a + 1].id = H[k][a].id

\* A statement's accesses come after those of all handles while it is made, and before
\* them when a flush evaluates it.
After(H, s) ==
  s.pc \in Beginning => \A k \in Kinds : \A a \in DOMAIN H[k] :
    /\ \A i \in DOMAIN s.ids, j \in DOMAIN H[k][a].ids : s.ids[i] # 0 => H[k][a].ids[j] < s.ids[i]
    /\ s.sinkId # 0 => H[k][a].id < s.sinkId
Before(H, s) ==
  s.pc \in Ending /\ s.flushing # None =>
    \A a \in DOMAIN H[s.kind] : \A i \in DOMAIN s.ids, j \in DOMAIN H[s.kind][a].ids :
       s.ids[i] < H[s.kind][a].ids[j]

\* The put whose turn it is: none but that of the expression run last.
Due(s) == IF s.pc = "flush" THEN s.val ELSE IF s.pc \in Ending /\ s.flushing # None THEN s.sinkId ELSE 0
Turns(H, s) ==
  /\ Due(s) # 0 => s.run # {} /\ H[Runs(s)] # <<>> /\ H[Runs(s)][1].what = "put"
  /\ \A k \in Kinds : H[k] # <<>> /\ H[k][1].what = "put" =>
       s.run # {} /\ k = Runs(s) /\ Due(s) # 0 /\ H[k][1].id = Due(s)

\* A flush goes through the handles of every kind its window may be in.
FlushOK(H, s) ==
  /\ ~s.deletes
  /\ s.pc = "flush" => s.flushing # None
  /\ s.flushing # None =>
       /\ \A k \in Kinds \ s.run : \A a \in DOMAIN H[k] : s.flushing \notin Uses(H[k][a])
       /\ s.pc \in Ending => s.flushing \notin Uses(s) \/ s.kind \in s.run
  /\ s.flushing = None => s.run = {}
  /\ \A i \in DOMAIN s.put : s.put[i].to = s.put[i].id /\ s.put[i].val = s.put[i].id

\* What is still to be read of w by the handles and by the statement, and the puts into w that
\* wait there.
QueuedGets(H, w) ==
  {x \in Accesses : \E k \in Kinds : \E a \in DOMAIN H[k] : \E i \in DOMAIN H[k][a].wins :
                      H[k][a].wins[i] = w /\ H[k][a].ids[i] = x}
HeldGets(s, w) ==
  {x \in Accesses : \/ \E i \in DOMAIN s.wins : s.wins[i] = w /\ s.ids[i] = x /\ \A j \in DOMAIN s.got : x \notin s.got[j]
                    \/ s.pc = "ignore" /\ s.sink = w /\ s.sinkId = x}
QueuedPuts(H, w) ==
  {x \in Accesses : \E k \in Kinds : \E a \in DOMAIN H[k] : H[k][a].what = "put" /\ H[k][a].sink = w /\ H[k][a].id = x}
HeldPuts(s, w) == {x \in Accesses : s.pc \in {"post", "defer"} /\ s.sink = w /\ s.sinkId = x}
Linked(W, H, s) ==
  \A w \in Windows : /\ Pending(W[w]) = QueuedGets(H, w) \cup HeldGets(s, w)
                     /\ ToPut(W[w]) = QueuedPuts(H, w) \cup HeldPuts(s, w)

StatementOK(B, W, H, X, s, m) ==
  /\ s.pc \in Pcs \ {"put", "again", "undefined"}
  /\ AllSound(B, W, s, m)
  /\ s.pc \in Beginning => Begun(B, W, X, s, m)
  /\ s.pc \in Ending => Ended(B, W, s, m)
  /\ Queued(B, W, H, m)
  /\ After(H, s) /\ Before(H, s) /\ Turns(H, s) /\ FlushOK(H, s)
  /\ Linked(W, H, s)

BlockingWindows == {w \in Windows : Blocking(w)}
StatementsOK == \A t \in Threads : StatementOK(BlockingWindows, win, handles, next, st[t], n)

ExpressionsInv == Types /\ (sane => StatementsOK)

-----------------------------------------------------------------------------
(***************************************************************************)
(* What the steps do to a thread's state and to the handles.               *)
(***************************************************************************)
LEMMA StateIs ==
  ASSUME NEW s \in State
  PROVE  /\ s.pc \in Pcs /\ s.kind \in Kinds /\ s.wins \in Seq(Windows) /\ s.ids \in Seq(0 .. MaxAccesses)
         /\ s.count \in Nat \ {0} /\ s.todo \in SUBSET Nat /\ s.opened \in Seq(Nat) /\ s.got \in Seq(SUBSET Int)
         /\ s.order \in Seq(Nat) /\ s.sink \in Windows \cup {None} /\ s.sinkId \in 0 .. MaxAccesses
         /\ s.flushing \in Windows \cup {None} /\ s.run \in SUBSET Kinds /\ s.val \in Int
         /\ s.put \in Seq([to : Int, val : Int, id : Int])
         /\ s.placed \in BOOLEAN /\ s.deletes \in BOOLEAN /\ s.ran \in BOOLEAN
         /\ DOMAIN s.wins = 1 .. Len(s.wins) /\ DOMAIN s.ids = 1 .. Len(s.ids) /\ DOMAIN s.got = 1 .. Len(s.got)
BY LenProperties DEF State

\* The bounds on the constants.
LEMMA Bounds ==
  /\ MaxAccesses \in Nat /\ STORE \in Nat \ {0} /\ OBJECT \in Nat /\ PREALLOC \in Nat \ {0}
  /\ Counts \subseteq Nat \ {0} /\ None \notin Windows
  /\ \A i : i \in Accesses <=> i \in Int /\ 1 <= i /\ i <= MaxAccesses
BY BoundsAssumption, NoneAssumption, WindowBounds

\* A thread between two statements.
LEMMA IdleIs ==
  Idle \in State /\ StateOK(Idle)
<1>1. <<>> \in Seq(Windows) /\ <<>> \in Seq(0 .. MaxAccesses) /\ <<>> \in Seq(Nat) /\ <<>> \in Seq(SUBSET Int)
      /\ <<>> \in Seq([to : Int, val : Int, id : Int])
  OBVIOUS
<1>2. Idle \in State
  BY <1>1, Bounds DEF Idle, State, Pcs, Kinds
<1>3. StateOK(Idle)
  BY <1>2 DEF Idle, StateOK, Busy, Beginning, Ending
<1>. QED
  BY <1>2, <1>3

\* The operands of a statement, or of a handle.
LEMMA OperandsAre ==
  ASSUME NEW s \in State, StateOK(s), s.pc \in Busy
  PROVE  /\ DOMAIN s.wins = DOMAIN s.ids /\ DOMAIN s.wins \in {{1}, {1, 2}} /\ Len(s.wins) \in {1, 2}
         /\ (DOMAIN s.wins = {1} <=> Len(s.wins) = 1) /\ 1 .. Len(s.wins) = DOMAIN s.wins
         /\ s.todo \subseteq {1, 2} /\ \A i \in DOMAIN s.wins : s.wins[i] \in Windows /\ i \in Nat
<1>1. Len(s.wins) \in {1, 2} /\ Len(s.ids) = Len(s.wins) /\ s.todo \subseteq DOMAIN s.wins
  BY DEF StateOK
<1>2. DOMAIN s.wins = 1 .. Len(s.wins) /\ DOMAIN s.ids = 1 .. Len(s.ids) /\ s.wins \in Seq(Windows)
  BY StateIs
<1>3. \A i \in DOMAIN s.wins : s.wins[i] \in Windows
  BY <1>2, ElementOfSeq
<1>4. 1 .. 1 = {1} /\ 1 .. 2 = {1, 2} /\ {1} # {1, 2}
  OBVIOUS
<1>5. DOMAIN s.wins = DOMAIN s.ids /\ DOMAIN s.wins \in {{1}, {1, 2}} /\ (DOMAIN s.wins = {1} <=> Len(s.wins) = 1)
  BY <1>1, <1>2, <1>4
<1>6. s.todo \subseteq {1, 2} /\ \A i \in DOMAIN s.wins : i \in Nat
  BY <1>1, <1>5
<1>. QED
  BY <1>1, <1>2, <1>3, <1>5, <1>6

\* outstanding_gets takes the operands from left to right.
LEMMA MinIs ==
  ASSUME NEW S \in SUBSET {1, 2}, S # {}
  PROVE  Min(S) \in S /\ (1 \in S => Min(S) = 1) /\ \A x \in S : Min(S) <= x
<1>1. CASE 1 \in S
  <2>1. \E x \in S : \A y \in S : x <= y
    BY <1>1
  <2>2. Min(S) \in S /\ \A x \in S : Min(S) <= x
    BY <2>1 DEF Min
  <2>3. Min(S) <= 1 /\ Min(S) \in {1, 2}
    BY <1>1, <2>2
  <2>. QED BY <2>2, <2>3
<1>2. CASE 1 \notin S
  <2>1. S = {2}
    BY <1>2
  <2>2. \E x \in S : \A y \in S : x <= y
    BY <2>1
  <2>3. Min(S) \in S /\ \A x \in S : Min(S) <= x
    BY <2>2 DEF Min
  <2>. QED BY <1>2, <2>3
<1>. QED
  BY <1>1, <1>2

\* win(...)
OpenState(me, i, m) ==
  [me EXCEPT !.ids = [me.ids EXCEPT ![i] = m], !.opened = Append(me.opened, i),
             !.todo = IF me.todo = {i} THEN 1 .. Len(me.wins) ELSE me.todo \ {i},
             !.pc = IF me.todo # {i} THEN "open" ELSE IF me.sink = None THEN "post" ELSE "sink"]

\* The state after an operand's win(...).
LEMMA OpenStateIs ==
  ASSUME NEW me \in State, StateOK(me), me.pc = "open", NEW i \in me.todo, NEW m \in Accesses
  PROVE  LET s == OpenState(me, i, m)
         IN  /\ s \in State /\ StateOK(s)
             /\ DOMAIN s.ids = DOMAIN me.ids /\ s.ids[i] = m /\ \A j \in DOMAIN me.ids \ {i} : s.ids[j] = me.ids[j]
             /\ s.opened = Append(me.opened, i)
             /\ me.todo = {i} => s.todo = DOMAIN me.wins /\ s.pc = IF me.sink = None THEN "post" ELSE "sink"
             /\ me.todo # {i} => s.todo = me.todo \ {i} /\ s.pc = "open"
             /\ s.kind = me.kind /\ s.wins = me.wins /\ s.count = me.count /\ s.got = me.got
             /\ s.order = me.order /\ s.sink = me.sink /\ s.sinkId = me.sinkId /\ s.flushing = me.flushing
             /\ s.run = me.run /\ s.val = me.val /\ s.put = me.put /\ s.placed = me.placed
             /\ s.deletes = me.deletes /\ s.ran = me.ran
<1>. DEFINE s == OpenState(me, i, m)
            I == [me.ids EXCEPT ![i] = m]
            O == Append(me.opened, i)
            T == IF me.todo = {i} THEN 1 .. Len(me.wins) ELSE me.todo \ {i}
            p == IF me.todo # {i} THEN "open" ELSE IF me.sink = None THEN "post" ELSE "sink"
<1>1. s = [me EXCEPT !.ids = I, !.opened = O, !.todo = T, !.pc = p]
  BY DEF OpenState
<1>2. me.pc \in Busy
  BY DEF Busy, Beginning
<1>3. DOMAIN me.wins = DOMAIN me.ids /\ Len(me.wins) \in {1, 2} /\ 1 .. Len(me.wins) = DOMAIN me.wins /\ me.todo \subseteq DOMAIN me.wins
  BY <1>2, OperandsAre DEF StateOK
<1>4. i \in 1 .. Len(me.ids) /\ me.ids \in Seq(0 .. MaxAccesses) /\ i \in Nat
  BY <1>3, StateIs
<1>5. I \in Seq(0 .. MaxAccesses) /\ Len(I) = Len(me.ids)
  BY <1>4, Bounds, ExceptSeq
<1>14. DOMAIN I = DOMAIN me.ids /\ I[i] = m /\ \A j \in DOMAIN me.ids \ {i} : I[j] = me.ids[j]
  BY <1>3, <1>4
<1>6. O \in Seq(Nat)
  BY <1>4, StateIs, AppendProperties
<1>7. T \in SUBSET Nat /\ T \subseteq DOMAIN me.wins /\ (p \in {"open", "post"} => T # {}) /\ (p = "sink" => T = DOMAIN me.wins)
  BY <1>3, <1>4
<1>8. p \in {"open", "post", "sink"} /\ (p = "sink" => me.sink \in Windows)
  BY StateIs
<1>9. T = IF me.todo = {i} THEN DOMAIN me.wins ELSE me.todo \ {i}
  BY <1>3
<1>10. Len(I) = Len(me.wins)
  BY <1>2, <1>5 DEF StateOK
<1>. HIDE DEF I, O, T, p
<1>11. p \in Pcs
  BY <1>8 DEF Pcs, Busy, Beginning
<1>20. s \in State
  BY <1>1, <1>5, <1>6, <1>7, <1>11 DEF State
<1>12. /\ s.ids = I /\ s.opened = O /\ s.todo = T /\ s.pc = p
       /\ s.kind = me.kind /\ s.wins = me.wins /\ s.count = me.count /\ s.got = me.got
       /\ s.order = me.order /\ s.sink = me.sink /\ s.sinkId = me.sinkId /\ s.flushing = me.flushing
       /\ s.run = me.run /\ s.val = me.val /\ s.put = me.put /\ s.placed = me.placed
       /\ s.deletes = me.deletes /\ s.ran = me.ran
  BY <1>1, <1>5, <1>6, <1>7, <1>11 DEF State
<1>13. StateOK(s)
  BY <1>3, <1>7, <1>8, <1>10, <1>12, <1>20 DEF StateOK, Busy, Beginning, Ending
<1>. QED
  BY <1>9, <1>12, <1>13, <1>14, <1>20 DEF O, p, s

\* A statement.
BeginState(k, ws, m, s, c) ==
  [Idle EXCEPT !.pc = "open", !.kind = k, !.wins = ws, !.count = c, !.sink = s,
               !.ids = [i \in 1 .. m |-> 0], !.todo = 1 .. m]

\* The state as a statement begins.
LEMMA BeginStateIs ==
  ASSUME NEW k \in Kinds, NEW m \in 1 .. 2, NEW ws \in [1 .. m -> Windows],
         NEW w \in Windows \cup {None}, NEW c \in Nat \ {0}
  PROVE  LET s == BeginState(k, ws, m, w, c)
         IN  /\ s \in State /\ StateOK(s)
             /\ DOMAIN s.ids = 1 .. m /\ (\A i \in 1 .. m : s.ids[i] = 0)
             /\ s.opened = <<>> /\ s.todo = 1 .. m /\ s.pc = "open"
             /\ s.kind = k /\ s.wins = ws /\ s.count = c /\ s.got = <<>>
             /\ s.order = <<>> /\ s.sink = w /\ s.sinkId = 0 /\ s.flushing = None
             /\ s.run = {} /\ s.val = 0 /\ s.put = <<>> /\ s.placed = FALSE /\ s.deletes = FALSE
             /\ DOMAIN ws = 1 .. m /\ Len(ws) = m
<1>. DEFINE s == BeginState(k, ws, m, w, c)
            I == [i \in 1 .. m |-> 0]
            T == 1 .. m
<1>1. s = [Idle EXCEPT !.pc = "open", !.kind = k, !.wins = ws, !.count = c, !.sink = w, !.ids = I, !.todo = T]
  BY DEF BeginState
<1>2. ws \in Seq(Windows) /\ I \in Seq(0 .. MaxAccesses) /\ Len(ws) = m /\ Len(I) = m /\ DOMAIN ws = T
  BY Bounds
<1>3. T \in SUBSET Nat /\ T # {}
  OBVIOUS
<1>4. m \in {1, 2}
  OBVIOUS
<1>. HIDE DEF I, T
<1>5. "open" \in Pcs
  BY DEF Pcs, Busy, Beginning
<1>6. s \in State
  BY <1>1, <1>2, <1>3, <1>5, IdleIs DEF State
<1>7. /\ s.ids = I /\ s.opened = <<>> /\ s.todo = T /\ s.pc = "open"
      /\ s.kind = k /\ s.wins = ws /\ s.count = c /\ s.got = <<>>
      /\ s.order = <<>> /\ s.sink = w /\ s.sinkId = 0 /\ s.flushing = None
      /\ s.run = {} /\ s.val = 0 /\ s.put = <<>> /\ s.placed = FALSE /\ s.deletes = FALSE
  BY <1>1 DEF Idle
<1>8. StateOK(s)
  BY <1>2, <1>3, <1>4, <1>6, <1>7 DEF StateOK, Busy, Beginning, Ending
<1>. QED
  BY <1>2, <1>6, <1>7, <1>8 DEF I, T, s

\* The win(...) to the right of >>.
SinkState(me, m) == [me EXCEPT !.sinkId = m, !.pc = "ignore"]

\* The state after the win(...) to the right of >>.
LEMMA SinkStateIs ==
  ASSUME NEW me \in State, StateOK(me), me.pc = "sink", NEW m \in Accesses
  PROVE  LET s == SinkState(me, m)
         IN  /\ s \in State /\ StateOK(s)
             /\ s.ids = me.ids /\ s.opened = me.opened /\ s.todo = me.todo /\ s.pc = "ignore"
             /\ s.kind = me.kind /\ s.wins = me.wins /\ s.count = me.count /\ s.got = me.got
             /\ s.order = me.order /\ s.sink = me.sink /\ s.sinkId = m /\ s.flushing = me.flushing
             /\ s.run = me.run /\ s.val = me.val /\ s.put = me.put /\ s.placed = me.placed
             /\ s.deletes = me.deletes /\ s.ran = me.ran
<1>. DEFINE s == SinkState(me, m)
<1>1. "ignore" \in Pcs /\ m \in 0 .. MaxAccesses
  BY Bounds DEF Pcs, Busy, Beginning
<1>2. s \in State
  BY <1>1 DEF SinkState, State
<1>3. /\ s.ids = me.ids /\ s.opened = me.opened /\ s.todo = me.todo /\ s.pc = "ignore"
      /\ s.kind = me.kind /\ s.wins = me.wins /\ s.count = me.count /\ s.got = me.got
      /\ s.order = me.order /\ s.sink = me.sink /\ s.sinkId = m /\ s.flushing = me.flushing
      /\ s.run = me.run /\ s.val = me.val /\ s.put = me.put /\ s.placed = me.placed
      /\ s.deletes = me.deletes /\ s.ran = me.ran
  BY DEF SinkState, State
<1>. HIDE DEF s
<1>4. StateOK(s)
  BY <1>2, <1>3 DEF StateOK, Busy, Beginning, Ending
<1>. QED
  BY <1>2, <1>3, <1>4 DEF s

\* expr_ignore_last_get(), put's second time, and what is undefined only move on.
MovedState(me, p) == [me EXCEPT !.pc = p]

\* The state after a step that moves on and changes no more of it.
LEMMA MovedStateIs ==
  ASSUME NEW me \in State, StateOK(me), NEW p,
         \/ me.pc = "ignore" /\ p = "post"
         \/ me.pc = "put" /\ p = "again"
         \/ me.pc = "store" /\ p = "put" /\ me.sink # None
         \/ p = "undefined"
  PROVE  LET s == MovedState(me, p)
         IN  /\ s \in State /\ StateOK(s)
             /\ s.ids = me.ids /\ s.opened = me.opened /\ s.todo = me.todo /\ s.pc = p
             /\ s.kind = me.kind /\ s.wins = me.wins /\ s.count = me.count /\ s.got = me.got
             /\ s.order = me.order /\ s.sink = me.sink /\ s.sinkId = me.sinkId /\ s.flushing = me.flushing
             /\ s.run = me.run /\ s.val = me.val /\ s.put = me.put /\ s.placed = me.placed
             /\ s.deletes = me.deletes /\ s.ran = me.ran
<1>. DEFINE s == MovedState(me, p)
<1>1. p \in Pcs
  BY DEF Pcs, Busy, Beginning
<1>2. s \in State
  BY <1>1 DEF MovedState, State
<1>3. /\ s.ids = me.ids /\ s.opened = me.opened /\ s.todo = me.todo /\ s.pc = p
      /\ s.kind = me.kind /\ s.wins = me.wins /\ s.count = me.count /\ s.got = me.got
      /\ s.order = me.order /\ s.sink = me.sink /\ s.sinkId = me.sinkId /\ s.flushing = me.flushing
      /\ s.run = me.run /\ s.val = me.val /\ s.put = me.put /\ s.placed = me.placed
      /\ s.deletes = me.deletes /\ s.ran = me.ran
  BY DEF MovedState, State
<1>. HIDE DEF s
<1>4. me.pc = "ignore" => DOMAIN me.wins # {}
  BY OperandsAre DEF Busy, Beginning
<1>5. me.sink \in Windows \cup {None}
  BY StateIs
<1>6. StateOK(s)
  BY <1>2, <1>3, <1>4, <1>5 DEF StateOK, Busy, Beginning, Ending
<1>. QED
  BY <1>2, <1>3, <1>6 DEF s

\* outstanding_gets()
PostState(me, i, at, pl) ==
  [me EXCEPT !.todo = IF me.todo = {i} THEN 1 .. Len(me.wins) ELSE me.todo \ {i},
             !.got = IF me.todo = {i} THEN [j \in 1 .. Len(me.wins) |-> {}] ELSE me.got,
             !.pc = IF me.todo # {i} THEN "post" ELSE IF at THEN "eval" ELSE "defer",
             !.placed = pl]

\* The state after an outstanding_gets().
LEMMA PostStateIs ==
  ASSUME NEW me \in State, StateOK(me), me.pc = "post", NEW i \in me.todo, NEW at \in BOOLEAN, NEW pl \in BOOLEAN
  PROVE  LET s == PostState(me, i, at, pl)
         IN  /\ s \in State /\ StateOK(s)
             /\ me.todo = {i} => /\ s.todo = DOMAIN me.wins /\ DOMAIN s.got = DOMAIN me.wins
                                 /\ \A j \in DOMAIN me.wins : s.got[j] = {}
                                 /\ s.pc = IF at THEN "eval" ELSE "defer"
             /\ me.todo # {i} => s.todo = me.todo \ {i} /\ s.got = me.got /\ s.pc = "post"
             /\ s.placed = pl
             /\ s.ids = me.ids /\ s.opened = me.opened
             /\ s.kind = me.kind /\ s.wins = me.wins /\ s.count = me.count
             /\ s.order = me.order /\ s.sink = me.sink /\ s.sinkId = me.sinkId /\ s.flushing = me.flushing
             /\ s.run = me.run /\ s.val = me.val /\ s.put = me.put
             /\ s.deletes = me.deletes /\ s.ran = me.ran
<1>. DEFINE s == PostState(me, i, at, pl)
            T == IF me.todo = {i} THEN 1 .. Len(me.wins) ELSE me.todo \ {i}
            G == IF me.todo = {i} THEN [j \in 1 .. Len(me.wins) |-> {}] ELSE me.got
            p == IF me.todo # {i} THEN "post" ELSE IF at THEN "eval" ELSE "defer"
<1>1. s = [me EXCEPT !.todo = T, !.got = G, !.pc = p, !.placed = pl]
  BY DEF PostState
<1>2. me.pc \in Busy
  BY DEF Busy, Beginning
<1>3. DOMAIN me.wins = DOMAIN me.ids /\ Len(me.wins) \in {1, 2} /\ 1 .. Len(me.wins) = DOMAIN me.wins /\ me.todo \subseteq DOMAIN me.wins
  BY <1>2, OperandsAre DEF StateOK
<1>4. \A j \in DOMAIN me.wins : j \in Nat
  BY <1>2, OperandsAre
<1>5. T \in SUBSET Nat /\ T \subseteq DOMAIN me.wins /\ (p \in {"eval", "post"} => T # {})
      /\ T = IF me.todo = {i} THEN DOMAIN me.wins ELSE me.todo \ {i}
  BY <1>3, <1>4
<1>6. me.todo = {i} => G \in Seq(SUBSET Int) /\ Len(G) = Len(me.wins) /\ G = [j \in DOMAIN me.wins |-> {}]
  <2>1. PICK K : K = Len(me.wins) /\ K \in {1, 2}
    BY <1>3
  <2>2. [j \in 1 .. K |-> {}] \in Seq(SUBSET Int) /\ Len([j \in 1 .. K |-> {}]) = K
    BY <2>1
  <2>. QED BY <1>3, <2>1, <2>2
<1>7. G \in Seq(SUBSET Int) /\ (p = "eval" => Len(G) = Len(me.wins))
  BY <1>6, StateIs
<1>8. G = IF me.todo = {i} THEN [j \in DOMAIN me.wins |-> {}] ELSE me.got
  BY <1>6
<1>9. p \in {"post", "eval", "defer"}
  OBVIOUS
<1>. HIDE DEF T, G, p
<1>10. p \in Pcs
  BY <1>9 DEF Pcs, Busy, Beginning, Ending
<1>11. s \in State
  BY <1>1, <1>5, <1>7, <1>10 DEF State
<1>12. /\ s.todo = T /\ s.got = G /\ s.pc = p /\ s.placed = pl
       /\ s.ids = me.ids /\ s.opened = me.opened
       /\ s.kind = me.kind /\ s.wins = me.wins /\ s.count = me.count
       /\ s.order = me.order /\ s.sink = me.sink /\ s.sinkId = me.sinkId /\ s.flushing = me.flushing
       /\ s.run = me.run /\ s.val = me.val /\ s.put = me.put
       /\ s.deletes = me.deletes /\ s.ran = me.ran
  BY <1>1, <1>5, <1>7, <1>10 DEF State
<1>13. Len(me.ids) = Len(me.wins)
  BY <1>2 DEF StateOK
<1>14. StateOK(s)
  BY <1>3, <1>5, <1>7, <1>9, <1>11, <1>12, <1>13 DEF StateOK, Busy, Beginning, Ending
<1>. QED
  BY <1>5, <1>8, <1>11, <1>12, <1>14 DEF p, s

\* eval() or fillInto()
EvalState(me, i, D) ==
  [me EXCEPT !.got = [me.got EXCEPT ![i] = D], !.order = Append(me.order, i), !.todo = me.todo \ {i},
             !.pc = IF me.todo = {i} THEN "store" ELSE "eval"]

\* The state after an operand was evaluated.
LEMMA EvalStateIs ==
  ASSUME NEW me \in State, StateOK(me), me.pc = "eval", NEW i \in me.todo, NEW D \in SUBSET Int
  PROVE  LET s == EvalState(me, i, D)
         IN  /\ s \in State /\ StateOK(s)
             /\ DOMAIN s.got = DOMAIN me.wins /\ DOMAIN me.got = DOMAIN me.wins /\ i \in DOMAIN me.got
             /\ s.got[i] = D /\ \A j \in DOMAIN me.got \ {i} : s.got[j] = me.got[j]
             /\ s.order = Append(me.order, i) /\ s.todo = me.todo \ {i}
             /\ me.todo = {i} => s.pc = "store"
             /\ me.todo # {i} => s.pc = "eval"
             /\ s.ids = me.ids /\ s.opened = me.opened
             /\ s.kind = me.kind /\ s.wins = me.wins /\ s.count = me.count
             /\ s.sink = me.sink /\ s.sinkId = me.sinkId /\ s.flushing = me.flushing
             /\ s.run = me.run /\ s.val = me.val /\ s.put = me.put /\ s.placed = me.placed
             /\ s.deletes = me.deletes /\ s.ran = me.ran
<1>. DEFINE s == EvalState(me, i, D)
            G == [me.got EXCEPT ![i] = D]
            O == Append(me.order, i)
            T == me.todo \ {i}
            p == IF me.todo = {i} THEN "store" ELSE "eval"
<1>1. s = [me EXCEPT !.got = G, !.order = O, !.todo = T, !.pc = p]
  BY DEF EvalState
<1>2. me.pc \in Busy /\ me.pc \in Ending
  BY DEF Busy, Ending
<1>3. Len(me.wins) \in {1, 2} /\ 1 .. Len(me.wins) = DOMAIN me.wins /\ me.todo \subseteq DOMAIN me.wins /\ Len(me.got) = Len(me.wins)
      /\ Len(me.ids) = Len(me.wins)
  BY <1>2, OperandsAre DEF StateOK
<1>4. i \in 1 .. Len(me.got) /\ me.got \in Seq(SUBSET Int) /\ i \in Nat /\ DOMAIN me.got = 1 .. Len(me.got)
  BY <1>3, StateIs
<1>5. G \in Seq(SUBSET Int) /\ Len(G) = Len(me.got)
  BY <1>4, ExceptSeq
<1>6. O \in Seq(Nat)
  BY <1>4, StateIs, AppendProperties
<1>7. T \in SUBSET Nat /\ T \subseteq DOMAIN me.wins /\ (p = "eval" => T # {})
  BY <1>3, StateIs
<1>8. p \in {"store", "eval"}
  OBVIOUS
<1>. HIDE DEF G, O, T, p
<1>9. p \in Pcs
  BY <1>8 DEF Pcs, Busy, Ending
<1>10. s \in State
  BY <1>1, <1>5, <1>6, <1>7, <1>9 DEF State
<1>11. /\ s.got = G /\ s.order = O /\ s.todo = T /\ s.pc = p
       /\ s.ids = me.ids /\ s.opened = me.opened
       /\ s.kind = me.kind /\ s.wins = me.wins /\ s.count = me.count
       /\ s.sink = me.sink /\ s.sinkId = me.sinkId /\ s.flushing = me.flushing
       /\ s.run = me.run /\ s.val = me.val /\ s.put = me.put /\ s.placed = me.placed
       /\ s.deletes = me.deletes /\ s.ran = me.ran
  BY <1>1, <1>5, <1>6, <1>7, <1>9 DEF State
<1>12. StateOK(s)
  BY <1>3, <1>5, <1>7, <1>8, <1>10, <1>11 DEF StateOK, Busy, Beginning, Ending
<1>. QED
  BY <1>3, <1>4, <1>10, <1>11, <1>12 DEF G, O, T, p, s

\* A flush of w, that has the handles of kinds R to run.
FlushState(w, R, x, d, b) ==
  [Idle EXCEPT !.pc = "flush", !.flushing = w, !.run = R, !.val = x, !.deletes = d, !.ran = b]

\* The state of a flush that starts, or goes on after an expression.
LEMMA FlushStateIs ==
  ASSUME NEW w \in Windows, NEW R \in SUBSET Kinds, NEW x \in Int, NEW d \in BOOLEAN, NEW b \in BOOLEAN
  PROVE  LET s == FlushState(w, R, x, d, b)
         IN  /\ s \in State /\ StateOK(s)
             /\ s.pc = "flush" /\ s.flushing = w /\ s.run = R /\ s.val = x /\ s.deletes = d
             /\ s.ids = <<>> /\ s.opened = <<>> /\ s.todo = {} /\ s.wins = <<>> /\ s.got = <<>>
             /\ s.order = <<>> /\ s.sink = None /\ s.sinkId = 0 /\ s.put = <<>>
<1>. DEFINE s == FlushState(w, R, x, d, b)
<1>1. "flush" \in Pcs
  BY DEF Pcs
<1>2. s \in State
  BY <1>1, IdleIs DEF FlushState, State
<1>3. /\ s.pc = "flush" /\ s.flushing = w /\ s.run = R /\ s.val = x /\ s.deletes = d
      /\ s.ids = <<>> /\ s.opened = <<>> /\ s.todo = {} /\ s.wins = <<>> /\ s.got = <<>>
      /\ s.order = <<>> /\ s.sink = None /\ s.sinkId = 0 /\ s.put = <<>>
  BY DEF FlushState, Idle
<1>. HIDE DEF s
<1>4. StateOK(s)
  BY <1>2, <1>3 DEF StateOK, Busy, Beginning, Ending
<1>. QED
  BY <1>2, <1>3, <1>4 DEF s

\* A handle run that is no expression's, and the end of a kind's handles.
TurnState(me, R, x, P, d, b) == [me EXCEPT !.run = R, !.val = x, !.put = P, !.deletes = d, !.ran = b]

\* The state of a flush after a handle without expression, or at the end of a list.
LEMMA TurnStateIs ==
  ASSUME NEW me \in State, StateOK(me), me.pc = "flush", NEW R \in SUBSET Kinds, NEW x \in Int,
         NEW P \in Seq([to : Int, val : Int, id : Int]), NEW d \in BOOLEAN, NEW b \in BOOLEAN
  PROVE  LET s == TurnState(me, R, x, P, d, b)
         IN  /\ s \in State /\ StateOK(s)
             /\ s.run = R /\ s.val = x /\ s.put = P /\ s.deletes = d
             /\ s.ids = me.ids /\ s.opened = me.opened /\ s.todo = me.todo /\ s.pc = "flush"
             /\ s.kind = me.kind /\ s.wins = me.wins /\ s.count = me.count /\ s.got = me.got
             /\ s.order = me.order /\ s.sink = me.sink /\ s.sinkId = me.sinkId /\ s.flushing = me.flushing
<1>. DEFINE s == TurnState(me, R, x, P, d, b)
<1>1. s \in State
  BY DEF TurnState, State
<1>2. /\ s.run = R /\ s.val = x /\ s.put = P /\ s.deletes = d
      /\ s.ids = me.ids /\ s.opened = me.opened /\ s.todo = me.todo /\ s.pc = "flush"
      /\ s.kind = me.kind /\ s.wins = me.wins /\ s.count = me.count /\ s.got = me.got
      /\ s.order = me.order /\ s.sink = me.sink /\ s.sinkId = me.sinkId /\ s.flushing = me.flushing
  BY DEF TurnState, State
<1>. HIDE DEF s
<1>3. StateOK(s)
  BY <1>1, <1>2 DEF StateOK, Busy, Beginning, Ending
<1>. QED
  BY <1>1, <1>2, <1>3 DEF s

\* A handle's expression.
RunState(me, k, h) ==
  [me EXCEPT !.pc = "eval", !.kind = k, !.wins = h.wins, !.ids = h.ids,
             !.opened = h.opened, !.count = h.count, !.sink = h.sink, !.sinkId = h.id,
             !.todo = DOMAIN h.wins, !.got = [i \in DOMAIN h.wins |-> {}], !.put = <<>>,
             !.deletes = h.deletes, !.ran = TRUE]

\* A handle's members have their types.
LEMMA HandleIs ==
  ASSUME NEW h \in Handle
  PROVE  /\ h.what \in {"expr", "put", "uninit"} /\ h.wins \in Seq(Windows) /\ h.ids \in Seq(0 .. MaxAccesses)
         /\ h.opened \in Seq(Nat) /\ h.count \in Nat \ {0} /\ h.sink \in Windows \cup {None}
         /\ h.id \in 0 .. MaxAccesses /\ h.deletes \in BOOLEAN
         /\ DOMAIN h.wins = 1 .. Len(h.wins) /\ DOMAIN h.ids = 1 .. Len(h.ids)
BY LenProperties DEF Handle

\* The state of a flush that evaluates the expression of a handle.
LEMMA RunStateIs ==
  ASSUME NEW me \in State, StateOK(me), me.pc = "flush", NEW k \in Kinds, NEW h \in Handle, HandleOK(h), h.what = "expr"
  PROVE  LET s == RunState(me, k, h)
         IN  /\ s \in State /\ StateOK(s)
             /\ s.pc = "eval" /\ s.kind = k /\ s.wins = h.wins /\ s.ids = h.ids /\ s.opened = h.opened
             /\ s.count = h.count /\ s.sink = h.sink /\ s.sinkId = h.id /\ s.todo = DOMAIN h.wins
             /\ s.got = [i \in DOMAIN h.wins |-> {}] /\ s.put = <<>> /\ s.deletes = h.deletes
             /\ s.order = <<>> /\ s.flushing = me.flushing /\ s.run = me.run /\ s.val = me.val
             /\ DOMAIN h.wins = DOMAIN h.ids /\ DOMAIN h.wins \in {{1}, {1, 2}} /\ Len(h.wins) \in {1, 2}
             /\ me.flushing \in Windows
<1>. DEFINE s == RunState(me, k, h)
            T == DOMAIN h.wins
            G == [i \in DOMAIN h.wins |-> {}]
<1>1. Len(h.wins) \in {1, 2} /\ Len(h.ids) = Len(h.wins) /\ DOMAIN h.wins = 1 .. Len(h.wins) /\ DOMAIN h.ids = 1 .. Len(h.ids)
  BY HandleIs DEF HandleOK
<1>2. 1 .. 1 = {1} /\ 1 .. 2 = {1, 2}
  OBVIOUS
<1>3. T \in {{1}, {1, 2}} /\ T \in SUBSET Nat /\ T # {} /\ T = DOMAIN h.ids
  <2>1. T \in {{1}, {1, 2}} /\ T = DOMAIN h.ids
    BY <1>1, <1>2
  <2>. QED BY <2>1
<1>11. /\ h.wins \in Seq(Windows) /\ h.ids \in Seq(0 .. MaxAccesses) /\ h.opened \in Seq(Nat)
       /\ h.count \in Nat \ {0} /\ h.sink \in Windows \cup {None} /\ h.id \in 0 .. MaxAccesses /\ h.deletes \in BOOLEAN
  BY HandleIs
<1>4. G \in Seq(SUBSET Int) /\ Len(G) = Len(h.wins)
  <2>1. PICK K : K = Len(h.wins) /\ K \in {1, 2}
    BY <1>1
  <2>2. [j \in 1 .. K |-> {}] \in Seq(SUBSET Int) /\ Len([j \in 1 .. K |-> {}]) = K
    BY <2>1
  <2>. QED BY <1>1, <2>1, <2>2
<1>5. s = [me EXCEPT !.pc = "eval", !.kind = k, !.wins = h.wins, !.ids = h.ids,
             !.opened = h.opened, !.count = h.count, !.sink = h.sink, !.sinkId = h.id,
             !.todo = T, !.got = G, !.put = <<>>, !.deletes = h.deletes, !.ran = TRUE]
  BY DEF RunState
<1>6. "eval" \in Pcs /\ <<>> \in Seq([to : Int, val : Int, id : Int])
  BY DEF Pcs, Busy, Ending
<1>. HIDE DEF T, G
<1>7. s \in State
  <2>. DEFINE W == h.wins
              I == h.ids
              O == h.opened
              c == h.count
              w == h.sink
              x == h.id
              d == h.deletes
              E == <<>>
  <2>1. s = [me EXCEPT !.pc = "eval", !.kind = k, !.wins = W, !.ids = I, !.opened = O, !.count = c, !.sink = w,
                       !.sinkId = x, !.todo = T, !.got = G, !.put = E, !.deletes = d, !.ran = TRUE]
    BY <1>5
  <2>2. /\ W \in Seq(Windows) /\ I \in Seq(0 .. MaxAccesses) /\ O \in Seq(Nat) /\ c \in Nat \ {0}
        /\ w \in Windows \cup {None} /\ x \in 0 .. MaxAccesses /\ d \in BOOLEAN
        /\ E \in Seq([to : Int, val : Int, id : Int])
    BY <1>6, <1>11
  <2>. HIDE DEF W, I, O, c, w, x, d, E, s
  <2>. QED BY <1>3, <1>4, <1>6, <2>1, <2>2 DEF State
<1>8. /\ s.pc = "eval" /\ s.kind = k /\ s.wins = h.wins /\ s.ids = h.ids /\ s.opened = h.opened
      /\ s.count = h.count /\ s.sink = h.sink /\ s.sinkId = h.id /\ s.todo = T
      /\ s.got = G /\ s.put = <<>> /\ s.deletes = h.deletes
      /\ s.order = me.order /\ s.flushing = me.flushing /\ s.run = me.run /\ s.val = me.val
  BY <1>5 DEF State
<1>9. me.order = <<>> /\ me.flushing \in Windows
  BY DEF StateOK
<1>10. StateOK(s)
  BY <1>1, <1>3, <1>4, <1>7, <1>8 DEF StateOK, Busy, Beginning, Ending, T
<1>. QED
  BY <1>1, <1>3, <1>7, <1>8, <1>9, <1>10 DEF T, G, s

\* What is left to a flush.
LEMMA HandlesAre ==
  ASSUME NEW s \in State, StateOK(s), s.pc \in Busy
  PROVE  /\ Expr(s) \in Handle /\ HandleOK(Expr(s))
         /\ LET h == Expr(s)
            IN  /\ h.what = "expr" /\ h.wins = s.wins /\ h.ids = s.ids /\ h.opened = s.opened /\ h.count = s.count
                /\ h.sink = s.sink /\ h.id = s.sinkId /\ h.deletes = (s.placed /\ ~Placed(next[s.kind], OBJECT))
         /\ s.sink \in Windows =>
              /\ PutInto(s) \in Handle /\ HandleOK(PutInto(s)) /\ Uninit(s) \in Handle /\ HandleOK(Uninit(s))
              /\ LET h == PutInto(s)
                 IN  /\ h.what = "put" /\ h.wins = <<>> /\ h.ids = <<>> /\ h.sink = s.sink /\ h.id = s.sinkId
                     /\ h.deletes = FALSE
<1>1. (s.placed /\ ~Placed(next[s.kind], OBJECT)) \in BOOLEAN
  BY StateIs
<1>2. Expr(s) \in Handle
  BY <1>1, StateIs DEF Expr, Handle
<1>3. LET h == Expr(s)
      IN  /\ h.what = "expr" /\ h.wins = s.wins /\ h.ids = s.ids /\ h.opened = s.opened /\ h.count = s.count
          /\ h.sink = s.sink /\ h.id = s.sinkId /\ h.deletes = (s.placed /\ ~Placed(next[s.kind], OBJECT))
  BY DEF Expr
<1>4. HandleOK(Expr(s))
  BY <1>2, <1>3 DEF HandleOK, StateOK
<1>5. <<>> \in Seq(Windows) /\ <<>> \in Seq(0 .. MaxAccesses) /\ <<>> \in Seq(Nat)
  OBVIOUS
<1>6. PutInto(s) \in Handle /\ Uninit(s) \in Handle
  BY <1>5, StateIs DEF PutInto, Uninit, Handle
<1>7. LET h == PutInto(s)
      IN  /\ h.what = "put" /\ h.wins = <<>> /\ h.ids = <<>> /\ h.sink = s.sink /\ h.id = s.sinkId
          /\ h.deletes = FALSE
  BY DEF PutInto
<1>8. Uninit(s).what = "uninit"
  BY DEF Uninit, PutInto
<1>9. s.sink \in Windows => HandleOK(PutInto(s)) /\ HandleOK(Uninit(s))
  BY <1>6, <1>7, <1>8 DEF HandleOK
<1>. QED
  BY <1>2, <1>3, <1>4, <1>6, <1>7, <1>9

-----------------------------------------------------------------------------
(***************************************************************************)
(* The steps, by the states they lead to.                                  *)
(***************************************************************************)
LEMMA TypesAre ==
  ASSUME Types
  PROVE  /\ comp \in [Windows -> Completions] /\ win \in [Windows -> Members]
         /\ handles \in [Kinds -> Seq({h \in Handle : HandleOK(h)})] /\ next \in [Kinds -> 0 .. STORE - 1]
         /\ st \in [Threads -> {s \in State : StateOK(s)}] /\ n \in Nat /\ n <= MaxAccesses /\ sane \in BOOLEAN
         /\ \A w \in Windows : win[w] \in Members
         /\ \A t \in Threads : st[t] \in State /\ StateOK(st[t])
         /\ \A k \in Kinds : next[k] \in Nat /\ next[k] < STORE
<1>1. /\ comp \in [Windows -> Completions] /\ win \in [Windows -> Members]
      /\ handles \in [Kinds -> Seq({h \in Handle : HandleOK(h)})] /\ next \in [Kinds -> 0 .. STORE - 1]
      /\ st \in [Threads -> {s \in State : StateOK(s)}] /\ n \in 0 .. MaxAccesses /\ sane \in BOOLEAN
  BY DEF Types
<1>2. n \in Nat /\ n <= MaxAccesses
  BY <1>1, Bounds
<1>3. \A k \in Kinds : next[k] \in Nat /\ next[k] < STORE
  <2>. TAKE k \in Kinds
  <2>1. next[k] \in 0 .. STORE - 1
    BY <1>1
  <2>. QED BY <2>1, Bounds
<1>4. \A t \in Threads : st[t] \in {s \in State : StateOK(s)}
  BY <1>1
<1>. QED
  BY <1>1, <1>2, <1>3, <1>4

\* Open, as a step between these states.
LEMMA OpenDoes ==
  ASSUME Types, NEW t \in Threads, Open(t)
  PROVE  \E i \in st[t].todo :
           LET me == st[t]
               w == me.wins[i]
               r == [id |-> n + 1, count |-> me.count]
               s == OpenState(me, i, n + 1)
           IN  /\ me \in State /\ StateOK(me) /\ me.pc = "open" /\ w \in Windows /\ i \in DOMAIN me.wins
               /\ n \in Nat /\ n + 1 \in Accesses /\ r \in Record
               /\ s \in State /\ StateOK(s) /\ st' = [st EXCEPT ![t] = s]
               /\ win[w] \in Members /\ Opened(win[w], me.kind, r) \in Members
               /\ win' = [win EXCEPT ![w] = Opened(win[w], me.kind, r)]
               /\ n' = n + 1 /\ UNCHANGED <<comp, handles, next, sane>>
<1>. DEFINE me == st[t]
<1>1. me \in State /\ StateOK(me) /\ n \in Nat /\ n <= MaxAccesses /\ win \in [Windows -> Members]
      /\ st \in [Threads -> {s \in State : StateOK(s)}]
  BY TypesAre
<1>2. me.pc = "open" /\ n < MaxAccesses /\ n' = n + 1 /\ UNCHANGED <<comp, handles, next, sane>>
  BY DEF Open
<1>3. PICK i \in me.todo :
        /\ win' = [win EXCEPT ![me.wins[i]] = Opened(@, me.kind, [id |-> n + 1, count |-> me.count])]
        /\ st' = [st EXCEPT ![t].ids[i] = n + 1, ![t].opened = Append(@, i),
                    ![t].todo = IF @ = {i} THEN 1 .. Len(me.wins) ELSE @ \ {i},
                    ![t].pc = IF me.todo # {i} THEN "open"
                              ELSE IF me.sink = None THEN "post" ELSE "sink"]
  BY DEF Open
<1>4. n + 1 \in Accesses
  BY <1>1, <1>2, Bounds
<1>5. st' = [st EXCEPT ![t] = OpenState(me, i, n + 1)]
  BY <1>1, <1>3 DEF OpenState, State
<1>6. OpenState(me, i, n + 1) \in State /\ StateOK(OpenState(me, i, n + 1))
  BY <1>1, <1>2, <1>4, OpenStateIs
<1>7. me.wins[i] \in Windows /\ i \in DOMAIN me.wins
  BY <1>1, <1>2, OperandsAre DEF StateOK, Busy, Beginning
<1>8. [id |-> n + 1, count |-> me.count] \in Record /\ me.kind \in Kinds
  BY <1>1, <1>4, StateIs DEF Record
<1>9. win[me.wins[i]] \in Members /\ Opened(win[me.wins[i]], me.kind, [id |-> n + 1, count |-> me.count]) \in Members
  BY <1>1, <1>7, <1>8, OpenedIs
<1>. QED
  BY <1>1, <1>2, <1>3, <1>4, <1>5, <1>6, <1>7, <1>8, <1>9

\* Begin.
LEMMA BeginDoes ==
  ASSUME Types, NEW t \in Threads, Begin(t)
  PROVE  \E k \in Kinds, m \in 1 .. 2, x \in Windows \cup {None} : \E ws \in [1 .. m -> Windows], c \in Nat \ {0} :
           LET s == BeginState(k, ws, m, x, c)
           IN  /\ st[t] = Idle /\ sane
               /\ n + m + (IF x = None THEN 0 ELSE 1) <= MaxAccesses
               /\ s \in State /\ StateOK(s) /\ st' = [st EXCEPT ![t] = s]
               /\ sane' = Supported(k, ws, x, c) /\ sane' \in BOOLEAN
               /\ UNCHANGED <<comp, win, handles, next, n>>
<1>. DEFINE me == st[t]
<1>1. me \in State /\ StateOK(me) /\ st \in [Threads -> {s \in State : StateOK(s)}]
  BY TypesAre
<1>2. me.pc = "idle" /\ sane /\ UNCHANGED <<comp, win, handles, next, n>>
  BY DEF Begin
<1>3. me = Idle
  BY <1>1, <1>2 DEF StateOK
<1>4. PICK k \in Kinds, m \in 1 .. 2, x \in Windows \cup {None} :
        \E ws \in [1 .. m -> Windows], c \in (IF k = "elem" THEN {1} ELSE Counts) :
          /\ n + m + (IF x = None THEN 0 ELSE 1) <= MaxAccesses
          /\ k = "bulk" =>
               \A w \in Range(ws) \cup ({x} \ {None}) : win[w].shape.view = "LOCAL_VIEW"
          /\ st' = [st EXCEPT ![t] = [Idle EXCEPT
                     !.pc = "open", !.kind = k, !.wins = ws, !.count = c, !.sink = x,
                     !.ids = [i \in 1 .. m |-> 0], !.todo = 1 .. m]]
          /\ sane' = Supported(k, ws, x, c)
  BY DEF Begin
<1>5. PICK ws \in [1 .. m -> Windows], c \in (IF k = "elem" THEN {1} ELSE Counts) :
          /\ n + m + (IF x = None THEN 0 ELSE 1) <= MaxAccesses
          /\ st' = [st EXCEPT ![t] = BeginState(k, ws, m, x, c)]
          /\ sane' = Supported(k, ws, x, c)
  BY <1>4 DEF BeginState
<1>6. c \in Nat \ {0}
  BY Bounds
<1>7. BeginState(k, ws, m, x, c) \in State /\ StateOK(BeginState(k, ws, m, x, c))
  BY <1>6, BeginStateIs
<1>8. sane' \in BOOLEAN
  BY <1>5 DEF Supported
<1>. QED
  BY <1>2, <1>3, <1>5, <1>6, <1>7, <1>8

\* OpenSink.
LEMMA SinkDoes ==
  ASSUME Types, NEW t \in Threads, OpenSink(t)
  PROVE  LET me == st[t]
             w == me.sink
             r == [id |-> n + 1, count |-> me.count]
             s == SinkState(me, n + 1)
         IN  /\ me \in State /\ StateOK(me) /\ me.pc = "sink" /\ w \in Windows
             /\ n \in Nat /\ n + 1 \in Accesses /\ r \in Record
             /\ s \in State /\ StateOK(s) /\ st' = [st EXCEPT ![t] = s]
             /\ win[w] \in Members /\ Opened(win[w], me.kind, r) \in Members
             /\ win' = [win EXCEPT ![w] = Opened(win[w], me.kind, r)]
             /\ n' = n + 1 /\ UNCHANGED <<comp, handles, next, sane>>
<1>. DEFINE me == st[t]
<1>1. me \in State /\ StateOK(me) /\ n \in Nat /\ n <= MaxAccesses /\ win \in [Windows -> Members]
      /\ st \in [Threads -> {s \in State : StateOK(s)}]
  BY TypesAre
<1>2. /\ me.pc = "sink" /\ n < MaxAccesses /\ n' = n + 1 /\ UNCHANGED <<comp, handles, next, sane>>
      /\ win' = [win EXCEPT ![me.sink] = Opened(@, me.kind, [id |-> n + 1, count |-> me.count])]
      /\ st' = [st EXCEPT ![t].sinkId = n + 1, ![t].pc = "ignore"]
  BY DEF OpenSink
<1>4. n + 1 \in Accesses
  BY <1>1, <1>2, Bounds
<1>5. st' = [st EXCEPT ![t] = SinkState(me, n + 1)]
  BY <1>1, <1>2 DEF SinkState, State
<1>6. SinkState(me, n + 1) \in State /\ StateOK(SinkState(me, n + 1))
  BY <1>1, <1>2, <1>4, SinkStateIs
<1>7. me.sink \in Windows
  BY <1>1, <1>2 DEF StateOK
<1>8. [id |-> n + 1, count |-> me.count] \in Record /\ me.kind \in Kinds
  BY <1>1, <1>4, StateIs DEF Record
<1>9. win[me.sink] \in Members /\ Opened(win[me.sink], me.kind, [id |-> n + 1, count |-> me.count]) \in Members
  BY <1>1, <1>7, <1>8, OpenedIs
<1>. QED
  BY <1>1, <1>2, <1>4, <1>5, <1>6, <1>7, <1>8, <1>9

\* Ignore.
LEMMA IgnoreDoes ==
  ASSUME Types, NEW t \in Threads, Ignore(t)
  PROVE  LET me == st[t]
             w == me.sink
             s == MovedState(me, "post")
         IN  /\ me \in State /\ StateOK(me) /\ me.pc = "ignore" /\ w \in Windows
             /\ s \in State /\ StateOK(s) /\ st' = [st EXCEPT ![t] = s]
             /\ win[w] \in Members /\ win[w].info[LastList(win[w])] # <<>> /\ Ignored(win[w]) \in Members
             /\ win' = [win EXCEPT ![w] = Ignored(win[w])]
             /\ UNCHANGED <<comp, handles, next, n, sane>>
<1>. DEFINE me == st[t]
<1>1. me \in State /\ StateOK(me) /\ win \in [Windows -> Members] /\ st \in [Threads -> {s \in State : StateOK(s)}]
  BY TypesAre
<1>2. /\ me.pc = "ignore" /\ win[me.sink].info[LastList(win[me.sink])] # <<>> /\ UNCHANGED <<comp, handles, next, n, sane>>
      /\ win' = [win EXCEPT ![me.sink] = Ignored(@)]
      /\ st' = [st EXCEPT ![t].pc = "post"]
  BY DEF Ignore
<1>3. st' = [st EXCEPT ![t] = MovedState(me, "post")]
  BY <1>1, <1>2 DEF MovedState, State
<1>4. MovedState(me, "post") \in State /\ StateOK(MovedState(me, "post"))
  BY <1>1, <1>2, MovedStateIs
<1>5. me.sink \in Windows
  BY <1>1, <1>2 DEF StateOK
<1>6. win[me.sink] \in Members /\ Ignored(win[me.sink]) \in Members
  BY <1>1, <1>2, <1>5, IgnoredIs
<1>. QED
  BY <1>1, <1>2, <1>3, <1>4, <1>5, <1>6

\* No more of a store is taken than it has.
LEMMA TakenIs ==
  ASSUME NEW i \in 0 .. STORE - 1, NEW size \in Nat
  PROVE  Taken(i, size) \in 0 .. STORE - 1
BY Bounds DEF Taken, Placed

\* Post.
LEMMA PostDoes ==
  ASSUME Types, NEW t \in Threads, Post(t)
  PROVE  LET me == st[t]
             i == Min(me.todo)
             w == me.wins[i]
             last == me.todo = {i} /\ me.sink # None
             s == PostState(me, i, AtOnce(me), last /\ Placed(next[me.kind], me.count))
         IN  /\ me \in State /\ StateOK(me) /\ me.pc = "post" /\ w \in Windows
             /\ i \in me.todo /\ i \in DOMAIN me.wins /\ AtOnce(me) \in BOOLEAN
             /\ s \in State /\ StateOK(s) /\ st' = [st EXCEPT ![t] = s]
             /\ win[w] \in Members /\ ~PostWild(win[w], me.kind) /\ Posted(win[w], me.kind) \in Members
             /\ win' = [win EXCEPT ![w] = Posted(win[w], me.kind)]
             /\ next' = (IF last THEN [next EXCEPT ![me.kind] = Taken(next[me.kind], me.count)] ELSE next)
             /\ next' \in [Kinds -> 0 .. STORE - 1]
             /\ UNCHANGED <<comp, handles, n, sane>>
<1>. DEFINE me == st[t]
            i == Min(me.todo)
            last == me.todo = {i} /\ me.sink # None
<1>1. me \in State /\ StateOK(me) /\ win \in [Windows -> Members] /\ st \in [Threads -> {s \in State : StateOK(s)}]
      /\ next \in [Kinds -> 0 .. STORE - 1]
  BY TypesAre
<1>2. /\ me.pc = "post" /\ ~PostWild(win[me.wins[i]], me.kind) /\ UNCHANGED <<comp, handles, n, sane>>
      /\ win' = [win EXCEPT ![me.wins[i]] = Posted(@, me.kind)]
      /\ next' = IF me.todo = {i} /\ me.sink # None THEN [next EXCEPT ![me.kind] = Taken(@, me.count)] ELSE next
      /\ st' = [st EXCEPT ![t].todo = IF @ = {i} THEN 1 .. Len(me.wins) ELSE @ \ {i},
                      ![t].got = IF me.todo = {i} THEN [j \in 1 .. Len(me.wins) |-> {}] ELSE @,
                      ![t].pc = IF me.todo # {i} THEN "post"
                                ELSE IF AtOnce(me) THEN "eval" ELSE "defer",
                      ![t].placed = me.todo = {i} /\ me.sink # None /\ Placed(next[me.kind], me.count)]
  BY DEF Post
<1>3. me.todo # {} /\ me.todo \subseteq {1, 2} /\ me.todo \subseteq DOMAIN me.wins /\ \A j \in DOMAIN me.wins : me.wins[j] \in Windows
  BY <1>1, <1>2, OperandsAre DEF StateOK, Busy, Beginning
<1>4. i \in me.todo
  BY <1>3, MinIs
<1>5. AtOnce(me) \in BOOLEAN
  BY DEF AtOnce, Blocking
<1>6. (last /\ Placed(next[me.kind], me.count)) \in BOOLEAN
  OBVIOUS
<1>. HIDE DEF i
<1>7. st' = [st EXCEPT ![t] = PostState(me, i, AtOnce(me), last /\ Placed(next[me.kind], me.count))]
  BY <1>1, <1>2 DEF PostState, State
<1>8. LET s == PostState(me, i, AtOnce(me), last /\ Placed(next[me.kind], me.count)) IN s \in State /\ StateOK(s)
  BY <1>1, <1>2, <1>4, <1>5, <1>6, PostStateIs
<1>9. me.kind \in Kinds /\ me.count \in Nat
  BY <1>1, StateIs
<1>10. Posted(win[me.wins[i]], me.kind) \in Members /\ win[me.wins[i]] \in Members /\ me.wins[i] \in Windows
  <2>1. me.wins[i] \in Windows /\ win[me.wins[i]] \in Members
    BY <1>1, <1>3, <1>4
  <2>2. CASE Posts(win[me.wins[i]], me.kind)
    BY <1>2, <1>9, <2>1, <2>2, PostedIs
  <2>3. CASE ~Posts(win[me.wins[i]], me.kind)
    BY <2>1, <2>3 DEF Posted
  <2>. QED BY <2>1, <2>2, <2>3
<1>11. next' \in [Kinds -> 0 .. STORE - 1]
  <2>1. Taken(next[me.kind], me.count) \in 0 .. STORE - 1
    BY <1>1, <1>9, TakenIs
  <2>. QED BY <1>1, <1>2, <1>9, <2>1
<1>. QED
  BY <1>1, <1>2, <1>3, <1>4, <1>5, <1>7, <1>8, <1>10, <1>11 DEF i

Checked == {h \in Handle : HandleOK(h)}

\* The lists of handles, as sequences.
LEMMA QueuesAre ==
  ASSUME Types, NEW k \in Kinds
  PROVE  /\ handles[k] \in Seq(Checked) /\ Len(handles[k]) \in Nat /\ DOMAIN handles[k] = 1 .. Len(handles[k])
         /\ \A a \in DOMAIN handles[k] : handles[k][a] \in Handle /\ HandleOK(handles[k][a])
         /\ handles[k] # <<>> =>
              /\ Head(handles[k]) \in Handle /\ HandleOK(Head(handles[k])) /\ Head(handles[k]) = handles[k][1]
              /\ Tail(handles[k]) \in Seq(Checked) /\ Len(Tail(handles[k])) = Len(handles[k]) - 1
              /\ 1 \in DOMAIN handles[k] /\ DOMAIN Tail(handles[k]) = 1 .. Len(handles[k]) - 1
              /\ \A a \in DOMAIN Tail(handles[k]) : Tail(handles[k])[a] = handles[k][a + 1] /\ a + 1 \in DOMAIN handles[k]
<1>1. handles[k] \in Seq(Checked)
  BY TypesAre DEF Checked
<1>2. PICK q : q = handles[k]
  OBVIOUS
<1>3. q \in Seq(Checked) /\ Len(q) \in Nat /\ DOMAIN q = 1 .. Len(q)
  BY <1>1, <1>2, LenProperties
<1>4. \A a \in DOMAIN q : q[a] \in Handle /\ HandleOK(q[a])
  BY <1>3, ElementOfSeq DEF Checked
<1>5. q # <<>> =>
              /\ Head(q) \in Handle /\ HandleOK(Head(q)) /\ Head(q) = q[1]
              /\ Tail(q) \in Seq(Checked) /\ Len(Tail(q)) = Len(q) - 1
              /\ 1 \in DOMAIN q /\ DOMAIN Tail(q) = 1 .. Len(q) - 1
              /\ \A a \in DOMAIN Tail(q) : Tail(q)[a] = q[a + 1] /\ a + 1 \in DOMAIN q
  <2>1. SUFFICES ASSUME q # <<>>
                 PROVE  /\ Head(q) \in Handle /\ HandleOK(Head(q)) /\ Head(q) = q[1]
                        /\ Tail(q) \in Seq(Checked) /\ Len(Tail(q)) = Len(q) - 1
                        /\ 1 \in DOMAIN q /\ DOMAIN Tail(q) = 1 .. Len(q) - 1
                        /\ \A a \in DOMAIN Tail(q) : Tail(q)[a] = q[a + 1] /\ a + 1 \in DOMAIN q
    OBVIOUS
  <2>2. /\ Head(q) \in Checked /\ Tail(q) \in Seq(Checked) /\ Len(Tail(q)) = Len(q)-1
        /\ \A i \in 1 .. Len(Tail(q)) : Tail(q)[i] = q[i+1]
    BY <1>3, <2>1, HeadTailProperties
  <2>3. Len(q) \in Nat \ {0}
    BY <1>3, <2>1, EmptySeq
  <2>4. DOMAIN Tail(q) = 1 .. Len(q) - 1
    BY <2>2, LenProperties
  <2>5. 1 \in DOMAIN q /\ \A a \in 1 .. Len(q) - 1 : a + 1 \in DOMAIN q
    BY <1>3, <2>3
  <2>6. Head(q) = q[1]
    BY <1>3, <2>1
  <2>. QED BY <2>2, <2>4, <2>5, <2>6 DEF Checked
<1>. QED
  BY <1>2, <1>3, <1>4, <1>5

\* What a statement leaves to a flush: its expression, then the put of its value.
Left(s) == <<Expr(s)>> \o (IF s.sink = None THEN <<>> ELSE <<PutInto(s)>>)

\* Defer: the expression is queued, and the window it goes to after it.
LEMMA DeferDoes ==
  ASSUME Types, NEW t \in Threads, Defer(t)
  PROVE  LET me == st[t]
             k == me.kind
         IN  /\ me \in State /\ StateOK(me) /\ me.pc = "defer" /\ k \in Kinds
             /\ st' = [st EXCEPT ![t] = Idle]
             /\ handles' = [handles EXCEPT ![k] = handles'[k]] /\ handles'[k] \in Seq(Checked)
             /\ handles' \in [Kinds -> Seq(Checked)]
             /\ Len(handles'[k]) = Len(handles[k]) + (IF me.sink = None THEN 1 ELSE 2)
             /\ \A a \in DOMAIN handles[k] : handles'[k][a] = handles[k][a]
             /\ handles'[k][Len(handles[k]) + 1] = Expr(me)
             /\ me.sink # None => handles'[k][Len(handles[k]) + 2] = PutInto(me)
             /\ next' \in [Kinds -> 0 .. STORE - 1]
             /\ UNCHANGED <<comp, win, n, sane>>
<1>. DEFINE me == st[t]
            k == me.kind
<1>1. me \in State /\ StateOK(me) /\ handles \in [Kinds -> Seq(Checked)] /\ next \in [Kinds -> 0 .. STORE - 1]
  BY TypesAre DEF Checked
<1>2. /\ me.pc = "defer" /\ UNCHANGED <<comp, win, n, sane>>
      /\ st' = [st EXCEPT ![t] = Idle]
      /\ handles' = [handles EXCEPT ![k] = @ \o <<Expr(me)>> \o (IF me.sink = None THEN <<>> ELSE <<PutInto(me)>>)]
      /\ next' = [next EXCEPT ![k] = IF me.sink = None THEN Taken(@, OBJECT) ELSE Taken(Taken(@, OBJECT), OBJECT)]
  BY DEF Defer
<1>3. me.pc \in Busy /\ k \in Kinds /\ me.sink \in Windows \cup {None}
  BY <1>1, <1>2, StateIs DEF Busy, Beginning
<1>4. Expr(me) \in Checked /\ (me.sink # None => PutInto(me) \in Checked)
  BY <1>1, <1>3, HandlesAre DEF Checked
<1>. HIDE DEF k
<1>5. PICK q : q = handles[k] /\ q \in Seq(Checked) /\ Len(q) \in Nat /\ DOMAIN q = 1 .. Len(q)
  BY <1>1, <1>3, LenProperties
<1>6. PICK e : e = Expr(me) /\ e \in Checked
  BY <1>4
<1>. DEFINE q1 == q \o <<e>>
<1>7. /\ q1 \in Seq(Checked) /\ Len(q1) = Len(q) + 1 /\ q1[Len(q) + 1] = e
      /\ \A a \in 1 .. Len(q) : q1[a] = q[a]
  <2>1. q1 = Append(q, e)
    BY <1>5, <1>6, AppendIsConcat
  <2>. QED BY <1>5, <1>6, <2>1, AppendProperties
<1>. DEFINE q2 == q1 \o (IF me.sink = None THEN <<>> ELSE <<PutInto(me)>>)
<1>. HIDE DEF q1
<1>8. /\ q2 \in Seq(Checked) /\ Len(q2) = Len(q) + (IF me.sink = None THEN 1 ELSE 2)
      /\ \A a \in 1 .. Len(q) : q2[a] = q[a]
      /\ q2[Len(q) + 1] = e /\ (me.sink # None => q2[Len(q) + 2] = PutInto(me))
  <2>1. CASE me.sink = None
    <3>1. q2 = q1
      BY <1>7, <2>1, ConcatEmptySeq
    <3>. QED BY <1>7, <2>1, <3>1
  <2>2. CASE me.sink # None
    <3>1. PICK p : p = PutInto(me) /\ p \in Checked
      BY <1>4, <2>2
    <3>2. q2 = Append(q1, p)
      BY <1>7, <2>2, <3>1, AppendIsConcat
    <3>3. q2 \in Seq(Checked) /\ Len(q2) = Len(q1) + 1 /\ q2[Len(q1) + 1] = p /\ \A a \in 1 .. Len(q1) : q2[a] = q1[a]
      BY <1>7, <3>1, <3>2, AppendProperties
    <3>4. Len(q1) + 1 = Len(q) + 2 /\ Len(q) + 1 \in 1 .. Len(q1) /\ \A a \in 1 .. Len(q) : a \in 1 .. Len(q1)
      BY <1>5, <1>7
    <3>. HIDE DEF q2
    <3>. QED BY <1>7, <2>2, <3>1, <3>3, <3>4
  <2>. QED BY <2>1, <2>2
<1>9. handles' = [handles EXCEPT ![k] = q2]
  BY <1>1, <1>2, <1>3, <1>5, <1>6 DEF q1
<1>. HIDE DEF q2
<1>10. handles' = [handles EXCEPT ![k] = handles'[k]] /\ handles'[k] = q2 /\ handles' \in [Kinds -> Seq(Checked)]
  BY <1>1, <1>3, <1>8, <1>9
<1>11. next' \in [Kinds -> 0 .. STORE - 1]
  <2>1. next[k] \in 0 .. STORE - 1
    BY <1>1, <1>3
  <2>2. Taken(next[k], OBJECT) \in 0 .. STORE - 1
    BY <2>1, TakenIs, Bounds
  <2>3. Taken(Taken(next[k], OBJECT), OBJECT) \in 0 .. STORE - 1
    BY <2>2, TakenIs, Bounds
  <2>. QED BY <1>1, <1>2, <2>2, <2>3
<1>. QED
  BY <1>1, <1>2, <1>3, <1>5, <1>6, <1>8, <1>10, <1>11 DEF k

\* Eval.
LEMMA EvalDoes ==
  ASSUME Types, NEW t \in Threads, Eval(t)
  PROVE  \E i \in st[t].todo :
           LET me == st[t]
               w == me.wins[i]
               D == Data(win[w], me.kind)
               s == EvalState(me, i, D)
           IN  /\ me \in State /\ StateOK(me) /\ me.pc = "eval" /\ w \in Windows /\ i \in DOMAIN me.wins
               /\ me.kind \in Kinds /\ D \in SUBSET Int
               /\ s \in State /\ StateOK(s) /\ st' = [st EXCEPT ![t] = s]
               /\ win[w] \in Members /\ ~EvalWild(win[w], me.kind) /\ Evaluated(win[w], me.kind) \in Members
               /\ win' = [win EXCEPT ![w] = Evaluated(win[w], me.kind)]
               /\ next' \in [Kinds -> 0 .. STORE - 1]
               /\ UNCHANGED <<comp, handles, n, sane>>
<1>. DEFINE me == st[t]
<1>1. me \in State /\ StateOK(me) /\ win \in [Windows -> Members] /\ st \in [Threads -> {s \in State : StateOK(s)}]
      /\ next \in [Kinds -> 0 .. STORE - 1]
  BY TypesAre
<1>2. me.pc = "eval" /\ UNCHANGED <<comp, handles, n, sane>>
  BY DEF Eval
<1>3. me.todo # {} /\ me.todo \subseteq {1, 2} /\ me.todo \subseteq DOMAIN me.wins /\ \A j \in DOMAIN me.wins : me.wins[j] \in Windows
  BY <1>1, <1>2, OperandsAre DEF StateOK, Busy, Ending
<1>4. PICK i \in (IF me.kind = "elem" THEN me.todo ELSE {Min(me.todo)}) :
       /\ ~EvalWild(win[me.wins[i]], me.kind)
       /\ win' = [win EXCEPT ![me.wins[i]] = Evaluated(@, me.kind)]
       /\ st' = [st EXCEPT ![t].got[i] = Data(win[me.wins[i]], me.kind),
                           ![t].order = Append(@, i), ![t].todo = @ \ {i},
                           ![t].pc = IF me.todo = {i} THEN "store" ELSE "eval"]
       /\ next' = IF me.kind = "bulk" /\ i = 1 /\ Len(me.wins) = 2
                  THEN [next EXCEPT !["bulk"] = Taken(@, me.count)] ELSE next
  BY <1>2 DEF Eval
<1>5. i \in me.todo
  BY <1>3, <1>4, MinIs
<1>6. me.wins[i] \in Windows /\ i \in DOMAIN me.wins /\ me.kind \in Kinds /\ me.count \in Nat
  BY <1>1, <1>3, <1>5, StateIs
<1>7. win[me.wins[i]] \in Members
  BY <1>1, <1>6
<1>8. /\ Evaluated(win[me.wins[i]], me.kind) \in Members /\ NextXfer(win[me.wins[i]], me.kind) \in Record
  BY <1>4, <1>6, <1>7, EvaluatedIs
<1>9. Data(win[me.wins[i]], me.kind) \in SUBSET Int
  <2>1. PICK v : v = win[me.wins[i]] /\ v \in Members
    BY <1>7
  <2>2. NextXfer(v, me.kind).id \in Int
    BY <1>8, <2>1, Bounds DEF Record
  <2>3. v.buf \in [0 .. PREALLOC-1 -> Accesses \cup {0}] /\ v.size \in Nat
    BY <2>1, MembersAre
  <2>4. SizeOf(me.kind, NextXfer(v, me.kind)) \in Nat
    BY <1>8, <2>1 DEF SizeOf, Record
  <2>5. \A j \in v.size .. v.size + SizeOf(me.kind, NextXfer(v, me.kind)) - 1 : (IF j < PREALLOC THEN v.buf[j] ELSE -1) \in Int
    <3>1. PICK d : d = SizeOf(me.kind, NextXfer(v, me.kind)) /\ d \in Nat
      BY <2>4
    <3>2. \A j \in v.size .. v.size + d - 1 : j < PREALLOC => j \in 0 .. PREALLOC - 1
      BY <2>3, <3>1, Bounds
    <3>3. \A j \in v.size .. v.size + d - 1 : j < PREALLOC => v.buf[j] \in Int
      BY <2>3, <3>2, Bounds
    <3>. QED BY <3>1, <3>3
  <2>. QED BY <2>1, <2>2, <2>5 DEF Data
<1>10. st' = [st EXCEPT ![t] = EvalState(me, i, Data(win[me.wins[i]], me.kind))]
  BY <1>1, <1>4 DEF EvalState, State
<1>11. LET s == EvalState(me, i, Data(win[me.wins[i]], me.kind)) IN s \in State /\ StateOK(s)
  BY <1>1, <1>2, <1>5, <1>9, EvalStateIs
<1>12. next' \in [Kinds -> 0 .. STORE - 1]
  <2>1. "bulk" \in Kinds
    BY DEF Kinds
  <2>2. Taken(next["bulk"], me.count) \in 0 .. STORE - 1
    BY <1>1, <1>6, <2>1, TakenIs
  <2>. QED BY <1>1, <1>4, <2>1, <2>2
<1>. QED
  BY <1>1, <1>2, <1>4, <1>5, <1>6, <1>7, <1>8, <1>9, <1>10, <1>11, <1>12

\* Store.
LEMMA StoreDoes ==
  ASSUME Types, NEW t \in Threads, Store(t)
  PROVE  LET me == st[t]
             s == IF me.flushing # None THEN FlushState(me.flushing, me.run, me.sinkId, me.deletes, TRUE)
                  ELSE IF me.sink = None THEN Idle ELSE MovedState(me, "put")
         IN  /\ me \in State /\ StateOK(me) /\ me.pc = "store" /\ me.flushing \in Windows \cup {None}
             /\ me.run \in SUBSET Kinds /\ me.sinkId \in Int /\ me.deletes \in BOOLEAN
             /\ s \in State /\ StateOK(s) /\ st' = [st EXCEPT ![t] = s]
             /\ UNCHANGED <<comp, win, handles, next, n, sane>>
<1>. DEFINE me == st[t]
            s == IF me.flushing # None THEN FlushState(me.flushing, me.run, me.sinkId, me.deletes, TRUE)
                 ELSE IF me.sink = None THEN Idle ELSE MovedState(me, "put")
<1>1. me \in State /\ StateOK(me) /\ st \in [Threads -> {u \in State : StateOK(u)}]
  BY TypesAre
<1>2. me.pc = "store" /\ UNCHANGED <<comp, win, handles, next, n, sane>> /\ st' = [st EXCEPT ![t] = s]
  BY DEF Store, FlushState, MovedState
<1>3. me.flushing \in Windows \cup {None} /\ me.run \in SUBSET Kinds /\ me.sinkId \in Int /\ me.deletes \in BOOLEAN
  BY <1>1, StateIs, Bounds
<1>4. CASE me.flushing # None
  BY <1>2, <1>1, <1>3, <1>4, FlushStateIs
<1>5. CASE me.flushing = None /\ me.sink = None
  BY <1>1, <1>2, <1>3, <1>5, IdleIs
<1>6. CASE me.flushing = None /\ me.sink # None
  BY <1>1, <1>2, <1>3, <1>6, MovedStateIs
<1>. QED
  BY <1>4, <1>5, <1>6

\* Flush.
LEMMA FlushDoes ==
  ASSUME Types, NEW t \in Threads, NEW w \in Windows, Flush(t, w)
  PROVE  LET R == {k \in Kinds : Flag(win[w], k)}
             s == FlushState(w, R, 0, FALSE, FALSE)
         IN  /\ st[t] = Idle /\ comp[w] # "REMOTE_FLUSH" /\ R \in SUBSET Kinds
             /\ s \in State /\ StateOK(s) /\ st' = [st EXCEPT ![t] = s]
             /\ UNCHANGED <<comp, win, handles, next, n, sane>>
<1>. DEFINE R == {k \in Kinds : Flag(win[w], k)}
<1>1. st[t] \in State /\ StateOK(st[t]) /\ st \in [Threads -> {s \in State : StateOK(s)}]
  BY TypesAre
<1>2. /\ st[t].pc = "idle" /\ comp[w] # "REMOTE_FLUSH" /\ UNCHANGED <<comp, win, handles, next, n, sane>>
      /\ st' = [st EXCEPT ![t].pc = "flush", ![t].flushing = w, ![t].run = R]
  BY DEF Flush, Flag
<1>3. st[t] = Idle
  BY <1>1, <1>2 DEF StateOK
<1>4. R \in SUBSET Kinds
  OBVIOUS
<1>. HIDE DEF R
<1>5. st' = [st EXCEPT ![t] = FlushState(w, R, 0, FALSE, FALSE)]
  <2>1. st' = [st EXCEPT ![t] = [Idle EXCEPT !.pc = "flush", !.flushing = w, !.run = R]]
    BY <1>1, <1>2, <1>3
  <2>2. [Idle EXCEPT !.pc = "flush", !.flushing = w, !.run = R] = FlushState(w, R, 0, FALSE, FALSE)
    <3>1. Idle \in State /\ Idle.val = 0 /\ Idle.deletes = FALSE /\ Idle.ran = FALSE
      BY IdleIs DEF Idle
    <3>. QED BY <3>1 DEF FlushState, State
  <2>. QED BY <2>1, <2>2
<1>6. LET s == FlushState(w, R, 0, FALSE, FALSE) IN s \in State /\ StateOK(s)
  <2>1. FALSE \in BOOLEAN /\ 0 \in Int
    OBVIOUS
  <2>. QED BY <1>4, <2>1, FlushStateIs
<1>. QED
  BY <1>2, <1>3, <1>4, <1>5, <1>6 DEF R

\* The kind whose handles a flush goes through.
LEMMA RunningIs ==
  ASSUME Types, NEW t \in Threads
  PROVE  Running(t) \in Kinds /\ Running(t) = Runs(st[t]) /\ (st[t].run # {} => Running(t) \in st[t].run)
<1>1. st[t].run \in SUBSET Kinds
  BY TypesAre, StateIs
<1>. QED
  BY <1>1 DEF Running, Runs, Kinds

\* RunExpr.
LEMMA RunExprDoes ==
  ASSUME Types, NEW t \in Threads, RunExpr(t)
  PROVE  LET me == st[t]
             k == Running(t)
             h == Head(handles[k])
             s == IF h.what = "uninit" THEN TurnState(me, me.run, -1, <<>>, FALSE, TRUE) ELSE RunState(me, k, h)
         IN  /\ me \in State /\ StateOK(me) /\ me.pc = "flush" /\ me.run # {} /\ k \in me.run /\ k \in Kinds
             /\ handles[k] # <<>> /\ h \in Handle /\ HandleOK(h) /\ h.what \in {"expr", "uninit"}
             /\ s \in State /\ StateOK(s) /\ st' = [st EXCEPT ![t] = s]
             /\ handles' = [handles EXCEPT ![k] = Tail(handles[k])] /\ handles' \in [Kinds -> Seq(Checked)]
             /\ UNCHANGED <<comp, win, next, n, sane>>
<1>. DEFINE me == st[t]
            k == Running(t)
            h == Head(handles[k])
<1>1. me \in State /\ StateOK(me) /\ st \in [Threads -> {u \in State : StateOK(u)}] /\ handles \in [Kinds -> Seq(Checked)]
  BY TypesAre DEF Checked
<1>2. /\ me.pc = "flush" /\ me.run # {} /\ handles[k] # <<>> /\ h.what # "put" /\ UNCHANGED <<comp, win, next, n, sane>>
      /\ handles' = [handles EXCEPT ![k] = Tail(@)]
      /\ st' = [st EXCEPT ![t] =
           IF h.what = "uninit" THEN [@ EXCEPT !.val = -1, !.put = <<>>, !.deletes = FALSE, !.ran = TRUE]
           ELSE [@ EXCEPT !.pc = "eval", !.kind = k, !.wins = h.wins, !.ids = h.ids,
                   !.opened = h.opened, !.count = h.count, !.sink = h.sink, !.sinkId = h.id,
                   !.todo = DOMAIN h.wins, !.got = [i \in DOMAIN h.wins |-> {}], !.put = <<>>,
                   !.deletes = h.deletes, !.ran = TRUE]]
  BY DEF RunExpr
<1>3. k \in Kinds /\ k \in me.run
  BY <1>2, RunningIs
<1>. HIDE DEF k
<1>4. h \in Handle /\ HandleOK(h) /\ Tail(handles[k]) \in Seq(Checked)
  BY <1>2, <1>3, QueuesAre
<1>. HIDE DEF h
<1>5. h.what \in {"expr", "uninit"}
  BY <1>2, <1>4, HandleIs
<1>6. h.what = "uninit" => st' = [st EXCEPT ![t] = TurnState(me, me.run, -1, <<>>, FALSE, TRUE)]
  <2>1. me = [me EXCEPT !.run = me.run]
    BY <1>1 DEF State
  <2>2. [me EXCEPT !.val = -1, !.put = <<>>, !.deletes = FALSE, !.ran = TRUE] = TurnState(me, me.run, -1, <<>>, FALSE, TRUE)
    BY <1>1 DEF State, TurnState
  <2>. QED BY <1>1, <1>2, <2>2
<1>7. h.what # "uninit" => st' = [st EXCEPT ![t] = RunState(me, k, h)]
  BY <1>1, <1>2 DEF RunState
<1>8. me.run \in SUBSET Kinds /\ <<>> \in Seq([to : Int, val : Int, id : Int])
  BY <1>1, StateIs
<1>9. LET s == IF h.what = "uninit" THEN TurnState(me, me.run, -1, <<>>, FALSE, TRUE) ELSE RunState(me, k, h)
      IN s \in State /\ StateOK(s) /\ st' = [st EXCEPT ![t] = s]
  <2>3. TRUE \in BOOLEAN /\ FALSE \in BOOLEAN /\ -1 \in Int
    OBVIOUS
  <2>4. LET s == TurnState(me, me.run, -1, <<>>, FALSE, TRUE) IN s \in State /\ StateOK(s)
    <3>. HIDE DEF me
    <3>. QED BY <1>1, <1>2, <1>8, <2>3, TurnStateIs
  <2>1. CASE h.what = "uninit"
    BY <1>6, <2>1, <2>4
  <2>2. CASE h.what = "expr"
    BY <1>1, <1>2, <1>3, <1>4, <1>7, <2>2, RunStateIs
  <2>. QED BY <1>5, <2>1, <2>2
<1>10. handles' = [handles EXCEPT ![k] = Tail(handles[k])] /\ handles' \in [Kinds -> Seq(Checked)]
  BY <1>1, <1>2, <1>3, <1>4
<1>. QED
  BY <1>1, <1>2, <1>3, <1>4, <1>5, <1>9, <1>10 DEF k, h

\* RunPut.
LEMMA RunPutDoes ==
  ASSUME Types, NEW t \in Threads, RunPut(t)
  PROVE  LET me == st[t]
             k == Running(t)
             h == Head(handles[k])
             p == [to |-> NextPut(win[h.sink], k), val |-> me.val, id |-> h.id]
             s == TurnState(me, me.run, 0, <<p>>, me.deletes, TRUE)
         IN  /\ me \in State /\ StateOK(me) /\ me.pc = "flush" /\ me.run # {} /\ k \in me.run /\ k \in Kinds
             /\ handles[k] # <<>> /\ h \in Handle /\ HandleOK(h) /\ h.what = "put" /\ h.sink \in Windows
             /\ me.val # 0 /\ p \in [to : Int, val : Int, id : Int]
             /\ s \in State /\ StateOK(s) /\ st' = [st EXCEPT ![t] = s]
             /\ win[h.sink] \in Members /\ ~PutWild(win[h.sink], k) /\ PutMade(win[h.sink], k) \in Members
             /\ win' = [win EXCEPT ![h.sink] = PutMade(win[h.sink], k)]
             /\ handles' = [handles EXCEPT ![k] = Tail(handles[k])] /\ handles' \in [Kinds -> Seq(Checked)]
             /\ UNCHANGED <<comp, next, n, sane>>
<1>. DEFINE me == st[t]
            k == Running(t)
            h == Head(handles[k])
            p == [to |-> NextPut(win[h.sink], k), val |-> me.val, id |-> h.id]
<1>1. me \in State /\ StateOK(me) /\ st \in [Threads -> {u \in State : StateOK(u)}] /\ handles \in [Kinds -> Seq(Checked)]
      /\ win \in [Windows -> Members]
  BY TypesAre DEF Checked
<1>2. /\ me.pc = "flush" /\ me.run # {} /\ handles[k] # <<>> /\ h.what = "put" /\ UNCHANGED <<comp, next, n, sane>>
      /\ me.val # 0 /\ ~PutWild(win[h.sink], k)
      /\ handles' = [handles EXCEPT ![k] = Tail(@)]
      /\ win' = [win EXCEPT ![h.sink] = PutMade(@, k)]
      /\ st' = [st EXCEPT ![t].val = 0, ![t].ran = TRUE, ![t].put = <<p>>]
  BY DEF RunPut
<1>3. k \in Kinds /\ k \in me.run
  BY <1>2, RunningIs
<1>. HIDE DEF k
<1>4. h \in Handle /\ HandleOK(h) /\ Tail(handles[k]) \in Seq(Checked)
  BY <1>2, <1>3, QueuesAre
<1>. HIDE DEF h
<1>5. h.sink \in Windows /\ h.id \in Int
  BY <1>2, <1>4, HandleIs, Bounds DEF HandleOK
<1>6. win[h.sink] \in Members /\ PutMade(win[h.sink], k) \in Members /\ NextPut(win[h.sink], k) \in Int
  BY <1>1, <1>2, <1>3, <1>5, PutMadeIs, Bounds
<1>7. me.val \in Int /\ me.run \in SUBSET Kinds /\ me.deletes \in BOOLEAN
  BY <1>1, StateIs
<1>8. p \in [to : Int, val : Int, id : Int]
  BY <1>5, <1>6, <1>7
<1>. HIDE DEF p
<1>9. <<p>> \in Seq([to : Int, val : Int, id : Int])
  BY <1>8
<1>10. st' = [st EXCEPT ![t] = TurnState(me, me.run, 0, <<p>>, me.deletes, TRUE)]
  BY <1>1, <1>2 DEF TurnState, State
<1>11. LET s == TurnState(me, me.run, 0, <<p>>, me.deletes, TRUE) IN s \in State /\ StateOK(s)
  <2>1. TRUE \in BOOLEAN /\ 0 \in Int
    OBVIOUS
  <2>. HIDE DEF me
  <2>. QED BY <1>1, <1>2, <1>7, <1>9, <2>1, TurnStateIs
<1>12. handles' = [handles EXCEPT ![k] = Tail(handles[k])] /\ handles' \in [Kinds -> Seq(Checked)]
       /\ win' = [win EXCEPT ![h.sink] = PutMade(win[h.sink], k)]
  BY <1>1, <1>2, <1>3, <1>4, <1>5
<1>. QED
  BY <1>1, <1>2, <1>3, <1>4, <1>5, <1>6, <1>8, <1>10, <1>11, <1>12 DEF k, h, p

\* EndRun.
LEMMA EndRunDoes ==
  ASSUME Types, NEW t \in Threads, EndRun(t)
  PROVE  LET me == st[t]
             s == TurnState(me, me.run \ {Running(t)}, me.val, <<>>, me.deletes, FALSE)
         IN  /\ me \in State /\ StateOK(me) /\ me.pc = "flush" /\ me.run # {} /\ Running(t) \in me.run
             /\ handles[Running(t)] = <<>>
             /\ s \in State /\ StateOK(s) /\ st' = [st EXCEPT ![t] = s]
             /\ next' \in [Kinds -> 0 .. STORE - 1]
             /\ UNCHANGED <<comp, win, handles, n, sane>>
<1>. DEFINE me == st[t]
<1>1. me \in State /\ StateOK(me) /\ st \in [Threads -> {u \in State : StateOK(u)}] /\ next \in [Kinds -> 0 .. STORE - 1]
  BY TypesAre
<1>2. /\ me.pc = "flush" /\ me.run # {} /\ handles[Running(t)] = <<>> /\ UNCHANGED <<comp, win, handles, n, sane>>
      /\ st' = [st EXCEPT ![t].run = @ \ {Running(t)}, ![t].put = <<>>, ![t].ran = FALSE]
      /\ next' = IF me.ran THEN [next EXCEPT ![Running(t)] = 0] ELSE next
  BY DEF EndRun
<1>3. Running(t) \in Kinds /\ Running(t) \in me.run
  BY <1>2, RunningIs
<1>4. st' = [st EXCEPT ![t] = TurnState(me, me.run \ {Running(t)}, me.val, <<>>, me.deletes, FALSE)]
  BY <1>1, <1>2 DEF TurnState, State
<1>5. me.val \in Int /\ me.run \ {Running(t)} \in SUBSET Kinds /\ me.deletes \in BOOLEAN
      /\ <<>> \in Seq([to : Int, val : Int, id : Int])
  BY <1>1, StateIs
<1>6. LET s == TurnState(me, me.run \ {Running(t)}, me.val, <<>>, me.deletes, FALSE) IN s \in State /\ StateOK(s)
  BY <1>1, <1>2, <1>5, TurnStateIs
<1>7. next' \in [Kinds -> 0 .. STORE - 1]
  <2>1. 0 \in 0 .. STORE - 1
    BY Bounds
  <2>. QED BY <1>1, <1>2, <1>3, <2>1
<1>. QED
  BY <1>1, <1>2, <1>3, <1>4, <1>6, <1>7

\* EndFlush.
LEMMA EndFlushDoes ==
  ASSUME Types, NEW t \in Threads, EndFlush(t)
  PROVE  LET me == st[t]
             w == me.flushing
         IN  /\ me \in State /\ StateOK(me) /\ me.pc = "flush" /\ me.run = {} /\ w \in Windows
             /\ st' = [st EXCEPT ![t] = Idle]
             /\ win[w] \in Members /\ Cleared(win[w]) \in Members /\ win' = [win EXCEPT ![w] = Cleared(win[w])]
             /\ UNCHANGED <<comp, handles, next, n, sane>>
<1>. DEFINE me == st[t]
<1>1. me \in State /\ StateOK(me) /\ win \in [Windows -> Members]
  BY TypesAre
<1>2. /\ me.pc = "flush" /\ me.run = {} /\ UNCHANGED <<comp, handles, next, n, sane>>
      /\ st' = [st EXCEPT ![t] = Idle] /\ win' = [win EXCEPT ![me.flushing] = Cleared(@)]
  BY DEF EndFlush
<1>3. me.flushing \in Windows
  BY <1>1, <1>2 DEF StateOK
<1>4. win[me.flushing] \in Members
  BY <1>1, <1>3
<1>5. Cleared(win[me.flushing]) \in Members
  <2>1. PICK v : v = win[me.flushing] /\ v \in Members
    BY <1>4
  <2>2. v.shape \in Shapes /\ v.unfinished \in SUBSET Accesses
    BY <2>1, MembersAre
  <2>. QED BY <2>1, <2>2, NewIs DEF Cleared
<1>. QED
  BY <1>1, <1>2, <1>3, <1>4, <1>5

\* Put, of which the types only matter: supported statements do not come to it.
LEMMA PutDoes ==
  ASSUME Types, NEW t \in Threads, Put(t)
  PROVE  \E s \in State, u \in Members, w \in Windows :
           /\ StateOK(s) /\ st' = [st EXCEPT ![t] = s] /\ win' = [win EXCEPT ![w] = u]
           /\ st[t].pc \in {"put", "again"}
           /\ handles' \in [Kinds -> Seq(Checked)] /\ next' \in [Kinds -> 0 .. STORE - 1]
           /\ UNCHANGED <<comp, n, sane>>
<1>. DEFINE me == st[t]
            w == me.sink
            k == me.kind
            u == IF me.pc = "put" THEN PutMade(win[w], k) ELSE New(win[w].shape)
            s == IF me.pc = "put" /\ comp[w] = "REMOTE_FLUSH" THEN MovedState(me, "again") ELSE Idle
<1>1. me \in State /\ StateOK(me) /\ st \in [Threads -> {x \in State : StateOK(x)}] /\ handles \in [Kinds -> Seq(Checked)]
      /\ win \in [Windows -> Members] /\ next \in [Kinds -> 0 .. STORE - 1]
  BY TypesAre DEF Checked
<1>2. /\ me.pc \in {"put", "again"} /\ ~PutWild(win[w], k) /\ UNCHANGED <<comp, n, sane>>
      /\ win' = [win EXCEPT ![w] = IF me.pc = "put" THEN PutMade(@, k) ELSE New(@.shape)]
      /\ st' = [st EXCEPT ![t] = s]
      /\ handles' = IF comp[w] = "REMOTE_FLUSH" THEN handles
                    ELSE [handles EXCEPT ![k] = @ \o (IF k = "elem" THEN <<Uninit(me)>> ELSE <<>>) \o <<PutInto(me)>>]
      /\ next' = IF comp[w] = "REMOTE_FLUSH" THEN next ELSE [next EXCEPT ![k] = Taken(@, OBJECT)]
  BY DEF Put, MovedState
<1>3. w \in Windows /\ k \in Kinds /\ me.pc \in Busy
  BY <1>1, <1>2, StateIs DEF StateOK, Busy
<1>4. PICK v : v = win[w] /\ v \in Members
  BY <1>1, <1>3
<1>5. u \in Members
  <2>1. PutMade(v, k) \in Members
    BY <1>2, <1>3, <1>4, PutMadeIs
  <2>2. v.shape \in Shapes /\ {} \in SUBSET Accesses
    BY <1>4, MembersAre
  <2>3. New(v.shape) \in Members
    BY <2>2, NewIs
  <2>. QED BY <1>4, <2>1, <2>3
<1>6. s \in State /\ StateOK(s)
  BY <1>1, IdleIs, MovedStateIs
<1>7. Uninit(me) \in Checked /\ PutInto(me) \in Checked
  BY <1>1, <1>3, HandlesAre DEF Checked
<1>8. handles' \in [Kinds -> Seq(Checked)]
  <2>1. PICK q : q = handles[k] /\ q \in Seq(Checked)
    BY <1>1, <1>3
  <2>2. <<Uninit(me)>> \in Seq(Checked) /\ <<PutInto(me)>> \in Seq(Checked) /\ <<>> \in Seq(Checked)
    BY <1>7
  <2>3. (IF k = "elem" THEN <<Uninit(me)>> ELSE <<>>) \in Seq(Checked)
    BY <2>2
  <2>4. q \o (IF k = "elem" THEN <<Uninit(me)>> ELSE <<>>) \o <<PutInto(me)>> \in Seq(Checked)
    BY <2>1, <2>2, <2>3, ConcatProperties
  <2>. HIDE DEF k
  <2>. QED BY <1>1, <1>2, <1>3, <2>1, <2>4
<1>9. next' \in [Kinds -> 0 .. STORE - 1]
  <2>1. Taken(next[k], OBJECT) \in 0 .. STORE - 1
    BY <1>1, <1>3, TakenIs, Bounds
  <2>. QED BY <1>1, <1>2, <1>3, <2>1
<1>10. win' = [win EXCEPT ![w] = u]
  BY <1>1, <1>2, <1>3
<1>. HIDE DEF s, u, w, k
<1>. QED
  BY <1>2, <1>3, <1>5, <1>6, <1>8, <1>9, <1>10

\* Undefined.
LEMMA UndefinedDoes ==
  ASSUME Types, NEW t \in Threads, Undefined(t)
  PROVE  LET s == MovedState(st[t], "undefined")
         IN  /\ s \in State /\ StateOK(s) /\ st' = [st EXCEPT ![t] = s] /\ Wild(t)
             /\ UNCHANGED <<comp, win, handles, next, n, sane>>
<1>1. st[t] \in State /\ StateOK(st[t]) /\ st \in [Threads -> {x \in State : StateOK(x)}]
  BY TypesAre
<1>2. /\ st' = [st EXCEPT ![t].pc = "undefined"] /\ Wild(t)
      /\ UNCHANGED <<comp, win, handles, next, n, sane>>
  BY DEF Undefined
<1>3. st' = [st EXCEPT ![t] = MovedState(st[t], "undefined")]
  BY <1>1, <1>2 DEF MovedState
<1>4. MovedState(st[t], "undefined") \in State /\ StateOK(MovedState(st[t], "undefined"))
  BY <1>1, MovedStateIs
<1>. QED
  BY <1>2, <1>3, <1>4

\* The types hold at first,
LEMMA TypesAtFirst ==
  ASSUME Init
  PROVE  Types
<1>1. comp \in [Windows -> Completions] /\ win \in [Windows -> Members]
  <2>1. \A w \in Windows : win[w] \in Members
    <3>. TAKE w \in Windows
    <3>1. PICK s \in Shapes : win[w] = New(s)
      BY DEF Init
    <3>2. {} \in SUBSET Accesses
      OBVIOUS
    <3>. QED BY <3>1, <3>2, NewIs
  <2>. QED BY <2>1 DEF Init
<1>2. handles \in [Kinds -> Seq({h \in Handle : HandleOK(h)})]
  <2>1. <<>> \in Seq({h \in Handle : HandleOK(h)})
    BY EmptySeq
  <2>. QED BY <2>1 DEF Init
<1>3. next \in [Kinds -> 0 .. STORE - 1] /\ n \in 0 .. MaxAccesses /\ sane \in BOOLEAN
  BY Bounds DEF Init
<1>4. st \in [Threads -> {s \in State : StateOK(s)}]
  BY IdleIs DEF Init
<1>. QED
  BY <1>1, <1>2, <1>3, <1>4 DEF Types

\* What changes a window, the handles or a thread keeps to their types.
LEMMA TypesStay ==
  ASSUME Types, UNCHANGED comp, NEW t \in Threads, NEW s \in State, StateOK(s), st' = [st EXCEPT ![t] = s],
         (UNCHANGED win) \/ \E w \in Windows, u \in Members : win' = [win EXCEPT ![w] = u],
         (UNCHANGED handles) \/ handles' \in [Kinds -> Seq(Checked)],
         (UNCHANGED next) \/ next' \in [Kinds -> 0 .. STORE - 1],
         (UNCHANGED n) \/ n' \in Accesses, (UNCHANGED sane) \/ sane' \in BOOLEAN
  PROVE  Types'
<1>1. st' \in [Threads -> {u \in State : StateOK(u)}]
  BY TypesAre
<1>2. win' \in [Windows -> Members]
  <2>1. win \in [Windows -> Members]
    BY TypesAre
  <2>2. CASE UNCHANGED win
    BY <2>1, <2>2
  <2>3. CASE \E w \in Windows, u \in Members : win' = [win EXCEPT ![w] = u]
    BY <2>1, <2>3
  <2>. QED BY <2>2, <2>3
<1>3. handles' \in [Kinds -> Seq({h \in Handle : HandleOK(h)})] /\ next' \in [Kinds -> 0 .. STORE - 1]
  BY TypesAre DEF Checked
<1>4. n' \in 0 .. MaxAccesses /\ sane' \in BOOLEAN
  BY TypesAre, Bounds
<1>5. comp' \in [Windows -> Completions]
  BY TypesAre
<1>. QED
  BY <1>1, <1>2, <1>3, <1>4, <1>5 DEF Types

\* and every step keeps them, whatever the statements and however many the threads.
LEMMA TypesKept ==
  ASSUME Types, [Next]_vars
  PROVE  Types'
<1>1. CASE UNCHANGED vars
  BY <1>1 DEF vars, Types
<1>2. ASSUME NEW t \in Threads, Begin(t) PROVE Types'
  <2>1. PICK s : s \in State /\ StateOK(s) /\ st' = [st EXCEPT ![t] = s] /\ sane' \in BOOLEAN /\ UNCHANGED <<comp, win, handles, next, n>>
    BY <1>2, BeginDoes
  <2>. QED BY <2>1, TypesStay
<1>3. ASSUME NEW t \in Threads, Open(t) PROVE Types'
  <2>. DEFINE me == st[t]
              r == [id |-> n + 1, count |-> me.count]
  <2>3. PICK i : /\ OpenState(me, i, n + 1) \in State /\ StateOK(OpenState(me, i, n + 1)) /\ st' = [st EXCEPT ![t] = OpenState(me, i, n + 1)]
                 /\ me.wins[i] \in Windows /\ Opened(win[me.wins[i]], me.kind, r) \in Members
                 /\ win' = [win EXCEPT ![me.wins[i]] = Opened(win[me.wins[i]], me.kind, r)]
                 /\ UNCHANGED <<comp, handles, next, sane>>
    BY <1>3, OpenDoes
  <2>. DEFINE s == OpenState(me, i, n + 1)
              w == me.wins[i]
              u == Opened(win[me.wins[i]], me.kind, r)
  <2>1. /\ s \in State /\ StateOK(s) /\ st' = [st EXCEPT ![t] = s]
        /\ w \in Windows /\ u \in Members /\ win' = [win EXCEPT ![w] = u] /\ UNCHANGED <<comp, handles, next, sane>>
    BY <2>3
  <2>. HIDE DEF s, w, u
  <2>2. n' \in Accesses
    BY <1>3, OpenDoes
  <2>. QED BY <2>1, <2>2, TypesStay
<1>4. ASSUME NEW t \in Threads, OpenSink(t) PROVE Types'
  <2>. DEFINE me == st[t]
              r == [id |-> n + 1, count |-> me.count]
              s == SinkState(me, n + 1)
              w == me.sink
              u == Opened(win[w], me.kind, r)
  <2>1. /\ s \in State /\ StateOK(s) /\ st' = [st EXCEPT ![t] = s]
        /\ w \in Windows /\ u \in Members /\ win' = [win EXCEPT ![w] = u] /\ UNCHANGED <<comp, handles, next, sane>>
    BY <1>4, SinkDoes
  <2>. HIDE DEF s, w, u
  <2>2. n' \in Accesses
    BY <1>4, SinkDoes
  <2>. QED BY <2>1, <2>2, TypesStay
<1>5. ASSUME NEW t \in Threads, Ignore(t) PROVE Types'
  <2>1. PICK s, w, u : /\ s \in State /\ StateOK(s) /\ st' = [st EXCEPT ![t] = s]
                       /\ w \in Windows /\ u \in Members /\ win' = [win EXCEPT ![w] = u] /\ UNCHANGED <<comp, handles, next, n, sane>>
    BY <1>5, IgnoreDoes
  <2>. QED BY <2>1, TypesStay
<1>6. ASSUME NEW t \in Threads, Post(t) PROVE Types'
  <2>1. PICK s, w, u : /\ s \in State /\ StateOK(s) /\ st' = [st EXCEPT ![t] = s] /\ next' \in [Kinds -> 0 .. STORE - 1]
                       /\ w \in Windows /\ u \in Members /\ win' = [win EXCEPT ![w] = u] /\ UNCHANGED <<comp, handles, n, sane>>
    BY <1>6, PostDoes
  <2>. QED BY <2>1, TypesStay
<1>7. ASSUME NEW t \in Threads, Defer(t) PROVE Types'
  <2>1. /\ st' = [st EXCEPT ![t] = Idle] /\ handles' \in [Kinds -> Seq(Checked)] /\ next' \in [Kinds -> 0 .. STORE - 1]
        /\ UNCHANGED <<comp, win, n, sane>>
    BY <1>7, DeferDoes
  <2>. QED BY <2>1, IdleIs, TypesStay
<1>8. ASSUME NEW t \in Threads, Eval(t) PROVE Types'
  <2>1. PICK s, w, u : /\ s \in State /\ StateOK(s) /\ st' = [st EXCEPT ![t] = s] /\ next' \in [Kinds -> 0 .. STORE - 1]
                       /\ w \in Windows /\ u \in Members /\ win' = [win EXCEPT ![w] = u] /\ UNCHANGED <<comp, handles, n, sane>>
    BY <1>8, EvalDoes
  <2>. QED BY <2>1, TypesStay
<1>9. ASSUME NEW t \in Threads, Store(t) PROVE Types'
  <2>1. PICK s : s \in State /\ StateOK(s) /\ st' = [st EXCEPT ![t] = s] /\ UNCHANGED <<comp, win, handles, next, n, sane>>
    BY <1>9, StoreDoes
  <2>. QED BY <2>1, TypesStay
<1>10. ASSUME NEW t \in Threads, Put(t) PROVE Types'
  <2>1. PICK s, u, w :
           /\ s \in State /\ u \in Members /\ w \in Windows
           /\ StateOK(s) /\ st' = [st EXCEPT ![t] = s] /\ win' = [win EXCEPT ![w] = u]
           /\ handles' \in [Kinds -> Seq(Checked)] /\ next' \in [Kinds -> 0 .. STORE - 1]
           /\ UNCHANGED <<comp, n, sane>>
    BY <1>10, PutDoes
  <2>. QED BY <2>1, TypesStay
<1>11. ASSUME NEW t \in Threads, NEW w \in Windows, Flush(t, w) PROVE Types'
  <2>1. PICK s : s \in State /\ StateOK(s) /\ st' = [st EXCEPT ![t] = s] /\ UNCHANGED <<comp, win, handles, next, n, sane>>
    BY <1>11, FlushDoes
  <2>. QED BY <2>1, TypesStay
<1>12. ASSUME NEW t \in Threads, RunExpr(t) PROVE Types'
  <2>1. PICK s : /\ s \in State /\ StateOK(s) /\ st' = [st EXCEPT ![t] = s] /\ handles' \in [Kinds -> Seq(Checked)]
                 /\ UNCHANGED <<comp, win, next, n, sane>>
    BY <1>12, RunExprDoes
  <2>. QED BY <2>1, TypesStay
<1>13. ASSUME NEW t \in Threads, RunPut(t) PROVE Types'
  <2>. DEFINE h == Head(handles[Running(t)])
              s == TurnState(st[t], st[t].run, 0, <<[to |-> NextPut(win[h.sink], Running(t)), val |-> st[t].val, id |-> h.id]>>,
                             st[t].deletes, TRUE)
  <2>1. /\ s \in State /\ StateOK(s) /\ st' = [st EXCEPT ![t] = s] /\ handles' \in [Kinds -> Seq(Checked)]
        /\ h.sink \in Windows /\ PutMade(win[h.sink], Running(t)) \in Members
        /\ win' = [win EXCEPT ![h.sink] = PutMade(win[h.sink], Running(t))] /\ UNCHANGED <<comp, next, n, sane>>
    BY <1>13, RunPutDoes
  <2>. HIDE DEF h, s
  <2>. QED BY <2>1, TypesStay
<1>14. ASSUME NEW t \in Threads, EndRun(t) PROVE Types'
  <2>1. PICK s : /\ s \in State /\ StateOK(s) /\ st' = [st EXCEPT ![t] = s] /\ next' \in [Kinds -> 0 .. STORE - 1]
                 /\ UNCHANGED <<comp, win, handles, n, sane>>
    BY <1>14, EndRunDoes
  <2>. QED BY <2>1, TypesStay
<1>15. ASSUME NEW t \in Threads, EndFlush(t) PROVE Types'
  <2>1. PICK w, u : /\ w \in Windows /\ u \in Members /\ win' = [win EXCEPT ![w] = u] /\ st' = [st EXCEPT ![t] = Idle]
                    /\ UNCHANGED <<comp, handles, next, n, sane>>
    BY <1>15, EndFlushDoes
  <2>. QED BY <2>1, IdleIs, TypesStay
<1>16. ASSUME NEW t \in Threads, Undefined(t) PROVE Types'
  <2>1. PICK s : s \in State /\ StateOK(s) /\ st' = [st EXCEPT ![t] = s] /\ UNCHANGED <<comp, win, handles, next, n, sane>>
    BY <1>16, UndefinedDoes
  <2>. QED BY <2>1, TypesStay
<1>. QED
  BY <1>1, <1>2, <1>3, <1>4, <1>5, <1>6, <1>7, <1>8, <1>9, <1>10, <1>11, <1>12, <1>13, <1>14, <1>15, <1>16
     DEF Next, Step, Evaluation, Flushing

-----------------------------------------------------------------------------
(***************************************************************************)
(* What a step must keep of the invariant.                                 *)
(***************************************************************************)
Typed(B, W, H, X, s, m) ==
  /\ B \subseteq Windows /\ W \in [Windows -> Members] /\ H \in [Kinds -> Seq(Checked)]
  /\ X \in [Kinds -> 0 .. STORE - 1] /\ s \in State /\ StateOK(s) /\ m \in Nat
Sane(B, W, H, X, s, m) == Typed(B, W, H, X, s, m) /\ StatementOK(B, W, H, X, s, m)

\* What the types say of the parts of the invariant.
LEMMA TypedIs ==
  ASSUME NEW B, NEW W, NEW H, NEW X, NEW s, NEW m, Typed(B, W, H, X, s, m)
  PROVE  /\ B \subseteq Windows /\ W \in [Windows -> Members] /\ H \in [Kinds -> Seq(Checked)]
         /\ X \in [Kinds -> 0 .. STORE - 1] /\ s \in State /\ StateOK(s) /\ m \in Nat
         /\ \A w \in Windows : W[w] \in Members
         /\ \A k \in Kinds : /\ H[k] \in Seq(Checked) /\ Len(H[k]) \in Nat /\ DOMAIN H[k] = 1 .. Len(H[k])
                             /\ X[k] \in Nat /\ X[k] < STORE
                             /\ \A a \in DOMAIN H[k] : H[k][a] \in Handle /\ HandleOK(H[k][a])
<1>1. /\ B \subseteq Windows /\ W \in [Windows -> Members] /\ H \in [Kinds -> Seq(Checked)]
      /\ X \in [Kinds -> 0 .. STORE - 1] /\ s \in State /\ StateOK(s) /\ m \in Nat
  BY DEF Typed
<1>2. ASSUME NEW k \in Kinds
      PROVE  /\ H[k] \in Seq(Checked) /\ Len(H[k]) \in Nat /\ DOMAIN H[k] = 1 .. Len(H[k])
             /\ X[k] \in Nat /\ X[k] < STORE
             /\ \A a \in DOMAIN H[k] : H[k][a] \in Handle /\ HandleOK(H[k][a])
  <2>1. PICK q : q = H[k] /\ q \in Seq(Checked)
    BY <1>1
  <2>2. Len(q) \in Nat /\ DOMAIN q = 1 .. Len(q)
    BY <2>1, LenProperties
  <2>3. \A a \in DOMAIN q : q[a] \in Handle /\ HandleOK(q[a])
    BY <2>1, <2>2, ElementOfSeq DEF Checked
  <2>4. X[k] \in 0 .. STORE - 1
    BY <1>1
  <2>5. X[k] \in Nat /\ X[k] < STORE
    BY <2>4, Bounds
  <2>. QED BY <2>1, <2>2, <2>3, <2>5
<1>. QED
  BY <1>1, <1>2

\* The operands of one window are counted one by one.
LEMMA AmongIs ==
  ASSUME NEW s, NEW S \in SUBSET {1, 2}, NEW i \in {1, 2}, NEW w
  PROVE  /\ Among(s, S, w) \in Nat /\ Among(s, {}, w) = 0 /\ Among(s, S, w) <= 2
         /\ i \notin S => Among(s, S \cup {i}, w) = Among(s, S, w) + (IF s.wins[i] = w THEN 1 ELSE 0)
         /\ i \in S => Among(s, S, w) = Among(s, S \ {i}, w) + (IF s.wins[i] = w THEN 1 ELSE 0)
         /\ i \in S /\ s.wins[i] = w => Among(s, S, w) >= 1
BY DEF Among

\* The count is of the operands' windows only.
LEMMA AmongSame ==
  ASSUME NEW s, NEW u, u.wins = s.wins, NEW S, NEW w
  PROVE  Among(u, S, w) = Among(s, S, w)
BY DEF Among

\* A window's invariant tells of a statement only how many records it expects.
LEMMA SoundSame ==
  ASSUME NEW B, NEW v \in Members, NEW s, NEW u, NEW w, NEW k \in Kinds, NEW m \in Nat, NEW l \in Nat,
         Sound(B, v, s, w, k, m), l = m \/ l = m + 1, Expected(u, w) = Expected(s, w)
  PROVE  Sound(B, v, u, w, k, l)
<1>1. Good(v, k, l)
  BY LaterGood DEF Sound
<1>. QED
  BY <1>1 DEF Sound

\* One window changes, and the others expect what they did.
LEMMA AllSoundAgain ==
  ASSUME NEW B, NEW W \in [Windows -> Members], NEW s, NEW u, NEW m \in Nat, NEW l \in Nat, l = m \/ l = m + 1,
         AllSound(B, W, s, m), NEW z \in Windows, NEW v \in Members, NEW k \in Kinds, Sound(B, v, u, z, k, l),
         \A w \in Windows \ {z} : Expected(u, w) = Expected(s, w),
         u.pc \in Beginning \cup Ending =>
           s.pc \in Beginning \cup Ending /\ Uses(u) = Uses(s) /\ Uses(u) \subseteq Windows /\ u.kind = s.kind /\ u.kind = k,
         u.kind \in Kinds
  PROVE  AllSound(B, [W EXCEPT ![z] = v], u, l)
<1>. DEFINE V == [W EXCEPT ![z] = v]
<1>1. V[z] = v /\ \A w \in Windows \ {z} : V[w] = W[w] /\ W[w] \in Members
  OBVIOUS
<1>. HIDE DEF V
<1>2. \A w \in Windows : \E j \in Kinds : Sound(B, V[w], u, w, j, l)
  <2>. TAKE w \in Windows
  <2>1. CASE w = z
    BY <1>1, <2>1
  <2>2. CASE w # z
    <3>1. PICK j \in Kinds : Sound(B, W[w], s, w, j, m)
      BY DEF AllSound
    <3>2. Sound(B, W[w], u, w, j, l)
      BY <1>1, <2>2, <3>1, SoundSame
    <3>. QED BY <1>1, <2>2, <3>2
  <2>. QED BY <2>1, <2>2
<1>3. ASSUME u.pc \in Beginning \cup Ending, NEW w \in Uses(u) PROVE Sound(B, V[w], u, w, u.kind, l)
  <2>1. w \in Windows /\ w \in Uses(s) /\ u.kind = s.kind /\ s.pc \in Beginning \cup Ending
    BY <1>3
  <2>2. CASE w = z
    BY <1>1, <1>3, <2>2
  <2>3. CASE w # z
    <3>1. Sound(B, W[w], s, w, u.kind, m)
      BY <2>1 DEF AllSound
    <3>2. Sound(B, W[w], u, w, u.kind, l)
      BY <1>1, <2>1, <2>3, <3>1, SoundSame
    <3>. QED BY <1>1, <2>1, <2>3, <3>2
  <2>. QED BY <2>2, <2>3
<1>. QED
  BY <1>2, <1>3 DEF AllSound, V

\* No window changes.
LEMMA AllSoundStill ==
  ASSUME NEW B, NEW W \in [Windows -> Members], NEW s, NEW u, NEW m \in Nat, AllSound(B, W, s, m),
         \A w \in Windows : Expected(u, w) = Expected(s, w),
         u.pc \in Beginning \cup Ending =>
           s.pc \in Beginning \cup Ending /\ Uses(u) = Uses(s) /\ Uses(u) \subseteq Windows /\ u.kind = s.kind,
         u.kind \in Kinds
  PROVE  AllSound(B, W, u, m)
<1>1. \A w \in Windows : \E j \in Kinds : Sound(B, W[w], u, w, j, m)
  <2>. TAKE w \in Windows
  <2>1. PICK j \in Kinds : Sound(B, W[w], s, w, j, m)
    BY DEF AllSound
  <2>2. W[w] \in Members
    OBVIOUS
  <2>. QED BY <2>1, <2>2, SoundSame
<1>2. ASSUME u.pc \in Beginning \cup Ending, NEW w \in Uses(u) PROVE Sound(B, W[w], u, w, u.kind, m)
  <2>1. w \in Windows /\ Sound(B, W[w], s, w, u.kind, m)
    BY <1>2 DEF AllSound
  <2>2. W[w] \in Members
    BY <2>1
  <2>. QED BY <2>1, <2>2, SoundSame
<1>. QED
  BY <1>1, <1>2 DEF AllSound

\* The handles stay as they are, and the flags they rely on.
LEMMA QueuedStill ==
  ASSUME NEW B, NEW W, NEW V, NEW H, NEW m \in Nat, NEW l \in Nat, m <= l, Queued(B, W, H, m),
         \A k \in Kinds : \A a \in DOMAIN H[k] : \A w \in Uses(H[k][a]) : Flag(W[w], k) => Flag(V[w], k)
  PROVE  Queued(B, V, H, l)
<1>1. ASSUME NEW k \in Kinds, NEW a \in DOMAIN H[k] PROVE QueuedOne(B, V, H[k][a], k, l)
  <2>1. PICK h : h = H[k][a]
    OBVIOUS
  <2>2. QueuedOne(B, W, h, k, m) /\ \A w \in Uses(h) : Flag(W[w], k) => Flag(V[w], k)
    BY <2>1 DEF Queued
  <2>3. \A x \in 1 .. m : x \in 1 .. l
    OBVIOUS
  <2>4. Ordered(h, m) => Ordered(h, l)
    BY <2>3 DEF Ordered
  <2>5. h.id \in 0 .. l
    BY <2>2 DEF QueuedOne
  <2>. QED BY <2>1, <2>2, <2>4, <2>5 DEF QueuedOne
<1>. QED
  BY <1>1 DEF Queued

\* Nothing but what a handle or a statement names.
LEMMA UsesAre ==
  ASSUME NEW s, s.wins \in Seq(Windows), s.sink \in Windows \cup {None}
  PROVE  /\ Uses(s) \subseteq Windows /\ Range(s.wins) \subseteq Uses(s)
         /\ \A i \in DOMAIN s.wins : s.wins[i] \in Uses(s) /\ s.wins[i] \in Range(s.wins)
         /\ \A w \in Range(s.wins) : \E i \in DOMAIN s.wins : s.wins[i] = w
         /\ s.sink # None => s.sink \in Uses(s) /\ s.sink \in Windows
         /\ \A w \in Uses(s) : w \in Range(s.wins) \/ (w = s.sink /\ s.sink # None)
<1>1. \A i \in DOMAIN s.wins : s.wins[i] \in Windows
  BY LenProperties, ElementOfSeq
<1>. QED
  BY <1>1 DEF Uses, Range

\* A statement's own part, the handles' part, and the types.
LEMMA SaneIs ==
  ASSUME NEW B, NEW W, NEW H, NEW X, NEW s, NEW m, Sane(B, W, H, X, s, m)
  PROVE  /\ Typed(B, W, H, X, s, m) /\ StatementOK(B, W, H, X, s, m)
         /\ s.pc \in Pcs \ {"put", "again", "undefined"}
         /\ AllSound(B, W, s, m) /\ (s.pc \in Beginning => Begun(B, W, X, s, m)) /\ (s.pc \in Ending => Ended(B, W, s, m))
         /\ Queued(B, W, H, m) /\ After(H, s) /\ Before(H, s) /\ Turns(H, s) /\ FlushOK(H, s) /\ Linked(W, H, s)
BY DEF Sane, StatementOK

\* A statement that no flush evaluates goes on: it is no matter to the handles.
LEMMA RestStill ==
  ASSUME NEW H, NEW s, NEW u, s.pc # "flush", u.pc # "flush", s.flushing = None, u.flushing = None,
         u.put = s.put, u.deletes = s.deletes, u.run = s.run, Turns(H, s), FlushOK(H, s)
  PROVE  Before(H, u) /\ Turns(H, u) /\ FlushOK(H, u)
<1>1. Due(s) = 0 /\ Due(u) = 0 /\ Runs(s) = Runs(u)
  BY DEF Due, Runs
<1>2. Turns(H, u)
  BY <1>1 DEF Turns
<1>. QED
  BY <1>2 DEF Before, FlushOK

\* One window changes, and what waits for it.
LEMMA LinkedAgain ==
  ASSUME NEW W \in [Windows -> Members], NEW H, NEW G, NEW s, NEW u, Linked(W, H, s), NEW z \in Windows, NEW v \in Members,
         Pending(v) = QueuedGets(G, z) \cup HeldGets(u, z), ToPut(v) = QueuedPuts(G, z) \cup HeldPuts(u, z),
         \A w \in Windows \ {z} : /\ QueuedGets(G, w) \cup HeldGets(u, w) = QueuedGets(H, w) \cup HeldGets(s, w)
                                  /\ QueuedPuts(G, w) \cup HeldPuts(u, w) = QueuedPuts(H, w) \cup HeldPuts(s, w)
  PROVE  Linked([W EXCEPT ![z] = v], G, u)
<1>. DEFINE V == [W EXCEPT ![z] = v]
<1>1. V[z] = v /\ \A w \in Windows \ {z} : V[w] = W[w]
  OBVIOUS
<1>. HIDE DEF V
<1>2. ASSUME NEW w \in Windows
      PROVE  Pending(V[w]) = QueuedGets(G, w) \cup HeldGets(u, w) /\ ToPut(V[w]) = QueuedPuts(G, w) \cup HeldPuts(u, w)
  <2>1. CASE w = z
    BY <1>1, <2>1
  <2>2. CASE w # z
    <3>1. Pending(W[w]) = QueuedGets(H, w) \cup HeldGets(s, w) /\ ToPut(W[w]) = QueuedPuts(H, w) \cup HeldPuts(s, w)
      BY DEF Linked
    <3>. QED BY <1>1, <2>2, <3>1
  <2>. QED BY <2>1, <2>2
<1>. QED
  BY <1>2 DEF Linked, V

\* The operands of a statement, and the accesses they are numbered by.
LEMMA NumbersAre ==
  ASSUME NEW s \in State, StateOK(s), s.pc \in Busy
  PROVE  /\ \A i \in DOMAIN s.wins : s.ids[i] \in 0 .. MaxAccesses /\ s.ids[i] \in Int /\ s.wins[i] \in Windows
         /\ DOMAIN s.ids = DOMAIN s.wins /\ 1 \in DOMAIN s.wins /\ DOMAIN s.wins \subseteq {1, 2}
         /\ s.sinkId \in Int
<1>1. DOMAIN s.wins = DOMAIN s.ids /\ DOMAIN s.wins \in {{1}, {1, 2}} /\ \A i \in DOMAIN s.wins : s.wins[i] \in Windows /\ i \in Nat
  BY OperandsAre
<1>2. \A i \in DOMAIN s.ids : s.ids[i] \in 0 .. MaxAccesses
  <2>1. PICK q : q = s.ids /\ q \in Seq(0 .. MaxAccesses)
    BY StateIs
  <2>2. \A i \in DOMAIN q : q[i] \in 0 .. MaxAccesses
    BY <2>1, LenProperties, ElementOfSeq
  <2>. QED BY <2>1, <2>2
<1>. QED
  BY <1>1, <1>2, StateIs, Bounds

\* The accesses of the handles are some of those made.
LEMMA QueuedIds ==
  ASSUME NEW B, NEW W, NEW H \in [Kinds -> Seq(Checked)], NEW m \in Nat, Queued(B, W, H, m),
         NEW k \in Kinds, NEW a \in DOMAIN H[k]
  PROVE  /\ H[k][a].id \in 0 .. m
         /\ \A j \in DOMAIN H[k][a].ids : H[k][a].ids[j] \in 1 .. m
<1>1. H[k][a] \in Handle /\ HandleOK(H[k][a])
  <2>1. PICK q : q = H[k] /\ q \in Seq(Checked)
    OBVIOUS
  <2>2. q[a] \in Checked
    BY <2>1, ElementOfSeq, LenProperties
  <2>. QED BY <2>1, <2>2 DEF Checked
<1>2. QueuedOne(B, W, H[k][a], k, m)
  BY DEF Queued
<1>3. H[k][a].what = "put" => DOMAIN H[k][a].ids = {}
  BY <1>1 DEF HandleOK
<1>. QED
  BY <1>2, <1>3 DEF QueuedOne, Ordered

\* A window changes, and is used no less.
LEMMA QueuedOn ==
  ASSUME NEW B, NEW W \in [Windows -> Members], NEW H \in [Kinds -> Seq(Checked)], NEW m \in Nat, NEW l \in Nat, m <= l,
         Queued(B, W, H, m), NEW z \in Windows, NEW v \in Members, \A k \in Kinds : Flag(W[z], k) => Flag(v, k)
  PROVE  Queued(B, [W EXCEPT ![z] = v], H, l)
<1>. DEFINE V == [W EXCEPT ![z] = v]
<1>1. \A k \in Kinds : \A a \in DOMAIN H[k] : \A w \in Uses(H[k][a]) : Flag(W[w], k) => Flag(V[w], k)
  <2>. TAKE k \in Kinds
  <2>. TAKE a \in DOMAIN H[k]
  <2>. TAKE w \in Uses(H[k][a])
  <2>1. PICK q : q = H[k] /\ q \in Seq(Checked)
    OBVIOUS
  <2>2. q[a] \in Checked
    BY <2>1, ElementOfSeq, LenProperties
  <2>3. w \in Windows
    BY <2>1, <2>2, HandleIs, UsesAre DEF Checked
  <2>. QED BY <2>3
<1>. HIDE DEF V
<1>. QED
  BY <1>1, QueuedStill DEF V

-----------------------------------------------------------------------------
(***************************************************************************)
(* Every step keeps it.                                                    *)
(***************************************************************************)
LEMMA IgnoreKeeps ==
  ASSUME NEW B, NEW W, NEW H, NEW X, NEW s, NEW m, Sane(B, W, H, X, s, m), s.pc = "ignore"
  PROVE  LET v == W[s.sink]
         IN  /\ v.info[LastList(v)] # <<>>
             /\ StatementOK(B, [W EXCEPT ![s.sink] = Ignored(v)], H, X, MovedState(s, "post"), m)
<1>. DEFINE w == s.sink
            v == W[w]
            k == s.kind
            q == ListOf(v, k)
            u == Ignored(v)
            t == MovedState(s, "post")
            V == [W EXCEPT ![w] = u]
            L == Len(v.info[q])
<1>1. /\ B \subseteq Windows /\ W \in [Windows -> Members] /\ H \in [Kinds -> Seq(Checked)]
      /\ s \in State /\ StateOK(s) /\ m \in Nat /\ k \in Kinds
  BY TypedIs, SaneIs, StateIs
<1>2. s.pc \in Busy /\ s.pc \in Beginning /\ w \in Windows /\ w # None /\ v \in Members
  BY <1>1, Bounds DEF Busy, Beginning, StateOK
<1>3. /\ t \in State /\ StateOK(t) /\ t.pc = "post" /\ t.ids = s.ids /\ t.opened = s.opened /\ t.todo = s.todo
      /\ t.kind = s.kind /\ t.wins = s.wins /\ t.count = s.count /\ t.got = s.got
      /\ t.order = s.order /\ t.sink = s.sink /\ t.sinkId = s.sinkId /\ t.flushing = s.flushing
      /\ t.run = s.run /\ t.val = s.val /\ t.put = s.put /\ t.placed = s.placed /\ t.deletes = s.deletes
  BY <1>1, MovedStateIs
<1>4. Begun(B, W, X, s, m) /\ AllSound(B, W, s, m) /\ Queued(B, W, H, m) /\ After(H, s) /\ Turns(H, s) /\ FlushOK(H, s)
      /\ Linked(W, H, s)
  BY <1>2, SaneIs
<1>5. Uses(s) \subseteq Windows /\ w \in Uses(s) /\ Range(s.wins) \subseteq Uses(s) /\ Uses(t) = Uses(s)
  BY <1>1, <1>2, <1>3, StateIs, UsesAre DEF Uses
<1>6. Sound(B, v, s, w, k, m) /\ w \notin B /\ Flag(v, k) /\ (v.shape.view = "LOCAL_VIEW" \/ v.shape.ndims = 1)
  BY <1>2, <1>4, <1>5 DEF AllSound, Begun, Agreed
<1>7. Good(v, k, m) /\ Only(v, k) /\ (v.bufc < PREALLOC => Unposted(v, k) = Expected(s, w))
  BY <1>6 DEF Sound
<1>8. LastList(v) = q
  <2>1. v.isElem \in BOOLEAN /\ v.isBulk \in BOOLEAN /\ v.shape \in Shapes
    BY <1>2, MembersAre
  <2>2. v.shape.ndims \in Nat \ {0}
    BY <2>1, ShapeAssumption
  <2>. QED
    BY <1>1, <1>6, <1>7, <2>1, <2>2 DEF LastList, IgnoredList, GlobalIgnoredList, ListOf, Flag, Only, Kinds
<1>9. /\ s.sinkId = m /\ L > 0 /\ v.info[q][L].id = m
      /\ v.xfers[q] < L /\ v.gets[q] < L /\ \A i \in DOMAIN v.puts[q] : v.puts[q][i] < m
  BY <1>2, <1>4 DEF Begun, Ignoring
<1>10. /\ Good(u, k, m) /\ Flag(u, k) /\ Only(u, k) /\ v.info[LastList(v)] # <<>>
       /\ Pending(u) = Pending(v) \ {m} /\ ToPut(u) = ToPut(v) \cup {m}
       /\ Unposted(u, k) = Unposted(v, k) - 1 /\ u.bufc = v.bufc /\ u.shape = v.shape
       /\ u.gets[q] = v.gets[q] /\ Len(u.info[q]) = L - 1
       /\ \A i \in 1 .. L - 1 : u.info[q][i] = v.info[q][i]
  <2>. HIDE DEF k, v
  <2>. QED BY <1>1, <1>2, <1>6, <1>7, <1>8, <1>9, IgnoredGood
<1>11. u \in Members /\ u.isElem = v.isElem /\ u.isBulk = v.isBulk
  <2>. HIDE DEF v
  <2>. QED BY <1>2, <1>10, IgnoredIs
<1>12. V[w] = u /\ \A z \in Windows \ {w} : V[z] = W[z]
  BY <1>1, <1>2
<1>13. \A z \in Windows : V[z].bufc = W[z].bufc /\ V[z].shape = W[z].shape /\ V[z].isElem = W[z].isElem /\ V[z].isBulk = W[z].isBulk
  BY <1>10, <1>11, <1>12
<1>14. m \in Accesses /\ m # 0
  <2>1. L \in Nat /\ q \in Lists /\ \A i \in 1 .. L : v.info[q][i].id \in Accesses
    <3>. HIDE DEF v
    <3>. QED BY <1>2, ListIs, ListsAre
  <2>2. L \in 1 .. L
    BY <1>9, <2>1
  <2>. QED BY <1>9, <2>1, <2>2, Bounds
<1>. HIDE DEF u, V, t
<1>15. ASSUME NEW z PROVE Expected(s, z) = Expected(t, z) + (IF z = w THEN 1 ELSE 0) /\ Expected(t, z) \in Nat
  <2>1. Opening(t) = Opening(s) /\ Opening(s) = s.todo /\ s.todo \in SUBSET {1, 2}
    BY <1>1, <1>2, <1>3, OperandsAre DEF Opening
  <2>4. Among(s, s.todo, z) \in Nat
    BY <2>1 DEF Among
  <2>2. Among(s, s.todo, z) \in Nat /\ Among(t, s.todo, z) = Among(s, s.todo, z)
    BY <1>3, <2>4, AmongSame
  <2>3. Sinking(t, z) = 0 /\ Sinking(s, z) = IF z = w THEN 1 ELSE 0
    BY <1>3 DEF Sinking
  <2>. QED BY <2>1, <2>2, <2>3 DEF Expected
<1>16. Sound(B, u, t, w, k, m)
  <2>1. v.bufc < PREALLOC => Unposted(u, k) = Expected(t, w)
    BY <1>7, <1>10, <1>15
  <2>. QED BY <1>6, <1>10, <2>1 DEF Sound
<1>17. AllSound(B, V, t, m)
  <2>1. \A z \in Windows \ {w} : Expected(t, z) = Expected(s, z)
    BY <1>15
  <2>2. s.pc \in Beginning \cup Ending /\ Uses(t) = Uses(s) /\ Uses(t) \subseteq Windows /\ t.kind = s.kind /\ t.kind = k /\ t.kind \in Kinds
    BY <1>1, <1>2, <1>3, <1>5
  <2>. HIDE DEF w, k
  <2>. QED BY <1>1, <1>2, <1>4, <1>11, <1>16, <2>1, <2>2, AllSoundAgain DEF V
<1>18. Begun(B, V, X, t, m)
  <2>1. Agreed(B, V, t)
    <3>1. Agreed(B, W, s)
      BY <1>4 DEF Begun
    <3>2. \A z \in Windows : Flag(V[z], k) = Flag(W[z], k)
      BY <1>13 DEF Flag
    <3>3. \A i \in DOMAIN s.wins : s.wins[i] \in Windows
      BY <1>1, <1>2, NumbersAre
    <3>. QED BY <1>2, <1>3, <1>5, <1>13, <3>1, <3>2, <3>3 DEF Agreed
  <2>2. ASSUME NEW z \in Range(t.wins)
        PROVE  /\ t.kind = "bulk" => Room(V[z], Among(t, ToPost(t), z), t.count)
               /\ V[z].bufc < PREALLOC =>
                    \A i \in V[z].gets[ListOf(V[z], k)] + 1 .. Len(V[z].info[ListOf(V[z], k)]) : V[z].info[ListOf(V[z], k)][i].count = s.count
    <3>1. z \in Windows /\ z \in Range(s.wins)
      BY <1>3, <1>5
    <3>2. ToPost(t) = ToPost(s) /\ Among(t, ToPost(s), z) = Among(s, ToPost(s), z)
      <4>1. s.todo = DOMAIN s.wins
        BY <1>1, <1>2 DEF StateOK
      <4>. QED BY <1>2, <1>3, <4>1, AmongSame DEF ToPost
    <3>3. /\ k = "bulk" => Room(W[z], Among(s, ToPost(s), z), s.count)
          /\ W[z].bufc < PREALLOC =>
               \A i \in W[z].gets[ListOf(W[z], k)] + 1 .. Len(W[z].info[ListOf(W[z], k)]) :
                 \/ z = w /\ i = Len(W[z].info[ListOf(W[z], k)])
                 \/ W[z].info[ListOf(W[z], k)][i].count = s.count
      BY <1>4, <3>1 DEF Begun, Roomy
    <3>4. k = "bulk" => Room(V[z], Among(s, ToPost(s), z), s.count)
      BY <1>13, <3>1, <3>3 DEF Room
    <3>5. CASE z # w
      BY <1>3, <1>12, <3>1, <3>2, <3>3, <3>4, <3>5
    <3>6. CASE z = w
      <4>1. ListOf(V[z], k) = q /\ V[z] = u
        BY <1>10, <1>12, <3>6, SameList
      <4>2. ASSUME v.bufc < PREALLOC, NEW i \in v.gets[q] + 1 .. L - 1 PROVE u.info[q][i].count = s.count
        <5>1. L \in Nat /\ q \in Lists /\ v.gets[q] \in Nat
          <6>. HIDE DEF v
          <6>. QED BY <1>2, ListIs, ListsAre
        <5>. HIDE DEF q
        <5>2. i \in 1 .. L - 1 /\ i \in v.gets[q] + 1 .. L /\ i # L
          BY <5>1
        <5>3. v.info[q][i].count = s.count
          BY <3>3, <3>6, <4>2, <5>2 DEF q
        <5>. QED BY <1>10, <5>2, <5>3
      <4>. QED BY <1>3, <1>10, <3>2, <3>4, <3>6, <4>1, <4>2
    <3>. QED BY <3>5, <3>6
  <2>3. Roomy(V, t)
    BY <1>3, <2>2 DEF Roomy
  <2>4. Stored(X, t)
    BY <1>2, <1>3, <1>4 DEF Begun, Stored
  <2>5. Numbered(t, m)
    BY <1>2, <1>3, <1>4, <1>9, <1>14 DEF Begun, Numbered, Ordered
  <2>. QED BY <1>3, <1>4, <2>1, <2>3, <2>4, <2>5 DEF Begun, Ignoring
<1>19. Queued(B, V, H, m)
  <2>1. m <= m /\ \A j \in Kinds : Flag(v, j) => Flag(u, j)
    BY <1>1, <1>11 DEF Flag
  <2>. HIDE DEF w, v
  <2>. QED BY <1>1, <1>2, <1>4, <1>11, <2>1, QueuedOn DEF V, v
<1>20. After(H, t)
  BY <1>2, <1>3, <1>4 DEF After
<1>21. Before(H, t) /\ Turns(H, t) /\ FlushOK(H, t)
  BY <1>2, <1>3, <1>4, RestStill DEF Begun
<1>22. Linked(V, H, t)
  <2>1. \A z \in Windows : HeldGets(t, z) = HeldGets(s, z) \ {m} /\ HeldPuts(t, z) = HeldPuts(s, z) \cup (IF z = w THEN {m} ELSE {})
    <3>. TAKE z \in Windows
    <3>1. \A i \in DOMAIN s.wins : s.ids[i] # m
      BY <1>1, <1>2, <1>4, <1>9, <1>14, NumbersAre DEF Begun, Numbered
    <3>2. HeldGets(t, z) = HeldGets(s, z) \ {m}
      BY <1>2, <1>3, <1>9, <3>1 DEF HeldGets
    <3>3. HeldPuts(t, z) = HeldPuts(s, z) \cup (IF z = w THEN {m} ELSE {})
      BY <1>2, <1>3, <1>9, <1>14 DEF HeldPuts
    <3>. QED BY <3>2, <3>3
  <2>2. \A z \in Windows : m \notin QueuedGets(H, z)
    <3>1. \A j \in Kinds : \A a \in DOMAIN H[j] : \A i \in DOMAIN H[j][a].wins : H[j][a].ids[i] # m
      <4>. TAKE j \in Kinds
      <4>. TAKE a \in DOMAIN H[j]
      <4>. TAKE i \in DOMAIN H[j][a].wins
      <4>1. H[j][a] \in Handle /\ HandleOK(H[j][a]) /\ QueuedOne(B, W, H[j][a], j, m)
        BY <1>4, SaneIs, TypedIs DEF Queued
      <4>2. i \in DOMAIN H[j][a].ids
        BY <4>1, HandleIs DEF HandleOK, QueuedOne
      <4>3. H[j][a].ids[i] \in 1 .. m
        BY <1>1, <1>4, <4>2, QueuedIds
      <4>4. s.ids[1] # 0 /\ s.ids[1] < m /\ s.ids[1] \in Int /\ 1 \in DOMAIN s.ids
        <5>1. 1 \in DOMAIN s.ids /\ s.ids[1] \in Int
          BY <1>1, <1>2, NumbersAre
        <5>2. Ordered(s, m) /\ \A b \in DOMAIN s.ids : s.ids[b] < s.sinkId
          BY <1>2, <1>4, <1>9, <1>14 DEF Begun, Numbered
        <5>. QED BY <1>9, <5>1, <5>2 DEF Ordered
      <4>5. H[j][a].ids[i] < s.ids[1]
        BY <1>2, <1>4, <4>2, <4>4 DEF After
      <4>. QED BY <1>1, <4>3, <4>4, <4>5
    <3>. QED BY <3>1 DEF QueuedGets
  <2>3. Pending(v) = QueuedGets(H, w) \cup HeldGets(s, w) /\ ToPut(v) = QueuedPuts(H, w) \cup HeldPuts(s, w)
    BY <1>2, <1>4 DEF Linked
  <2>4. Pending(u) = QueuedGets(H, w) \cup HeldGets(t, w) /\ ToPut(u) = QueuedPuts(H, w) \cup HeldPuts(t, w)
    BY <1>2, <1>10, <2>1, <2>2, <2>3
  <2>5. \A z \in Windows \ {w} : m \notin HeldGets(s, z)
    <3>1. \A i \in DOMAIN s.wins : s.ids[i] # m
      BY <1>1, <1>2, <1>4, <1>9, <1>14, NumbersAre DEF Begun, Numbered
    <3>. QED BY <3>1 DEF HeldGets
  <2>6. \A z \in Windows \ {w} : /\ QueuedGets(H, z) \cup HeldGets(t, z) = QueuedGets(H, z) \cup HeldGets(s, z)
                                 /\ QueuedPuts(H, z) \cup HeldPuts(t, z) = QueuedPuts(H, z) \cup HeldPuts(s, z)
    BY <2>1, <2>5
  <2>. QED BY <1>1, <1>2, <1>4, <1>11, <2>4, <2>6, LinkedAgain DEF V
<1>23. t.pc \in Pcs \ {"put", "again", "undefined"} /\ t.pc \notin Ending
  BY <1>3 DEF Pcs, Busy, Beginning, Ending
<1>24. StatementOK(B, V, H, X, t, m)
  BY <1>17, <1>18, <1>19, <1>20, <1>21, <1>22, <1>23 DEF StatementOK
<1>. QED
  BY <1>10, <1>24 DEF V, u, t

\* The win(...) to the right of >> adds a record that its window, and no handle, waits for.
LEMMA SinkKeeps ==
  ASSUME NEW B, NEW W, NEW H, NEW X, NEW s, NEW m, Sane(B, W, H, X, s, m), s.pc = "sink", m + 1 \in Accesses,
         NEW r \in Record, r.id = m + 1, r.count = s.count
  PROVE  StatementOK(B, [W EXCEPT ![s.sink] = Opened(W[s.sink], s.kind, r)], H, X, SinkState(s, m + 1), m + 1)
<1>. DEFINE w == s.sink
            v == W[w]
            k == s.kind
            q == ListOf(v, k)
            u == Opened(v, k, r)
            t == SinkState(s, m + 1)
            V == [W EXCEPT ![w] = u]
            L == Len(v.info[q])
<1>1. /\ B \subseteq Windows /\ W \in [Windows -> Members] /\ H \in [Kinds -> Seq(Checked)]
      /\ s \in State /\ StateOK(s) /\ m \in Nat /\ k \in Kinds
  BY TypedIs, SaneIs, StateIs
<1>2. s.pc \in Busy /\ s.pc \in Beginning /\ w \in Windows /\ w # None /\ v \in Members /\ m + 1 \in Nat /\ m <= m + 1
  BY <1>1, Bounds DEF Busy, Beginning, StateOK
<1>3. /\ t \in State /\ StateOK(t) /\ t.pc = "ignore" /\ t.ids = s.ids /\ t.opened = s.opened /\ t.todo = s.todo
      /\ t.kind = s.kind /\ t.wins = s.wins /\ t.count = s.count /\ t.got = s.got
      /\ t.order = s.order /\ t.sink = s.sink /\ t.sinkId = m + 1 /\ t.flushing = s.flushing
      /\ t.run = s.run /\ t.val = s.val /\ t.put = s.put /\ t.placed = s.placed /\ t.deletes = s.deletes
  BY <1>1, SinkStateIs
<1>4. Begun(B, W, X, s, m) /\ AllSound(B, W, s, m) /\ Queued(B, W, H, m) /\ After(H, s) /\ Turns(H, s) /\ FlushOK(H, s)
      /\ Linked(W, H, s)
  BY <1>2, SaneIs
<1>5. Uses(s) \subseteq Windows /\ w \in Uses(s) /\ Range(s.wins) \subseteq Uses(s) /\ Uses(t) = Uses(s)
  BY <1>1, <1>2, <1>3, StateIs, UsesAre DEF Uses
<1>6. Sound(B, v, s, w, k, m) /\ w \notin B
  BY <1>2, <1>4, <1>5 DEF AllSound, Begun, Agreed
<1>7. Good(v, k, m) /\ Only(v, k) /\ (v.bufc < PREALLOC => Unposted(v, k) = Expected(s, w))
  BY <1>6 DEF Sound
<1>8. /\ Good(u, k, m + 1) /\ Flag(u, k) /\ Only(u, k)
      /\ Pending(u) = Pending(v) \cup {m + 1} /\ ToPut(u) = ToPut(v) /\ u.puts = v.puts
      /\ Unposted(u, k) = Unposted(v, k) + 1 /\ u.bufc = v.bufc /\ u.shape = v.shape
      /\ u.gets[q] = v.gets[q] /\ u.xfers[q] = v.xfers[q]
      /\ Len(u.info[q]) = L + 1 /\ u.info[q][Len(u.info[q])] = r
      /\ v.gets[q] <= L /\ v.xfers[q] <= L
      /\ \A i \in 1 .. L : u.info[q][i] = v.info[q][i]
      /\ \A i \in DOMAIN v.puts[q] : v.puts[q][i] < m + 1
  <2>. HIDE DEF k, v
  <2>. QED BY <1>1, <1>2, <1>7, OpenedGood
<1>9. u \in Members /\ u.isElem = (v.isElem \/ k = "elem") /\ u.isBulk = (v.isBulk \/ k = "bulk") /\ ListOf(u, k) = q
  <2>. HIDE DEF v, k
  <2>. QED BY <1>1, <1>2, <1>8, OpenedIs, SameList
<1>10. L \in Nat /\ v.gets[q] \in Nat /\ v.xfers[q] \in Nat
  <2>1. q \in Lists
    BY ListIs
  <2>. HIDE DEF v
  <2>. QED BY <1>2, <2>1, ListsAre
<1>11. V[w] = u /\ \A z \in Windows \ {w} : V[z] = W[z]
  BY <1>1, <1>2
<1>12. \A z \in Windows : V[z].bufc = W[z].bufc /\ V[z].shape = W[z].shape /\ \A j \in Kinds : Flag(W[z], j) => Flag(V[z], j)
  BY <1>8, <1>9, <1>11 DEF Flag
<1>13. m + 1 # 0 /\ \A i \in DOMAIN s.ids : s.ids[i] <= m /\ s.ids[i] # 0
  <2>1. Ordered(s, m)
    BY <1>4 DEF Begun, Numbered
  <2>. QED BY <1>1, <2>1 DEF Ordered
<1>. HIDE DEF u, V, t
<1>14. ASSUME NEW z PROVE Expected(t, z) = Expected(s, z) + (IF z = w THEN 1 ELSE 0) /\ Expected(s, z) \in Nat
  <2>1. Opening(t) = Opening(s) /\ Opening(s) = s.todo /\ s.todo \in SUBSET {1, 2}
    BY <1>1, <1>2, <1>3, OperandsAre DEF Opening
  <2>2. Among(s, s.todo, z) \in Nat
    BY <2>1 DEF Among
  <2>3. Among(t, s.todo, z) = Among(s, s.todo, z)
    BY <1>3, AmongSame
  <2>4. Sinking(s, z) = 0 /\ Sinking(t, z) = IF z = w THEN 1 ELSE 0
    BY <1>3 DEF Sinking
  <2>. QED BY <2>1, <2>2, <2>3, <2>4 DEF Expected
<1>15. Sound(B, u, t, w, k, m + 1)
  <2>1. u.bufc < PREALLOC => Unposted(u, k) = Expected(t, w)
    BY <1>7, <1>8, <1>14
  <2>. QED BY <1>6, <1>8, <2>1 DEF Sound
<1>16. AllSound(B, V, t, m + 1)
  <2>1. \A z \in Windows \ {w} : Expected(t, z) = Expected(s, z)
    BY <1>14
  <2>2. s.pc \in Beginning \cup Ending /\ Uses(t) = Uses(s) /\ Uses(t) \subseteq Windows /\ t.kind = s.kind /\ t.kind = k /\ t.kind \in Kinds
    BY <1>1, <1>2, <1>3, <1>5
  <2>. HIDE DEF w, k
  <2>. QED BY <1>1, <1>2, <1>4, <1>9, <1>15, <2>1, <2>2, AllSoundAgain DEF V
<1>17. Begun(B, V, X, t, m + 1)
  <2>1. Agreed(B, V, t)
    <3>1. Agreed(B, W, s)
      BY <1>4 DEF Begun
    <3>2. \A i \in DOMAIN s.wins : s.wins[i] \in Windows
      BY <1>1, <1>2, NumbersAre
    <3>. QED BY <1>1, <1>2, <1>3, <1>5, <1>8, <1>11, <1>12, <3>1, <3>2 DEF Agreed
  <2>2. ASSUME NEW z \in Range(t.wins)
        PROVE  /\ t.kind = "bulk" => Room(V[z], Among(t, ToPost(t), z), t.count)
               /\ V[z].bufc < PREALLOC =>
                    \A i \in V[z].gets[ListOf(V[z], k)] + 1 .. Len(V[z].info[ListOf(V[z], k)]) :
                      \/ z = w /\ i = Len(V[z].info[ListOf(V[z], k)])
                      \/ V[z].info[ListOf(V[z], k)][i].count = s.count
    <3>1. z \in Windows /\ z \in Range(s.wins)
      BY <1>3, <1>5
    <3>2. ToPost(t) = ToPost(s) /\ Among(t, ToPost(s), z) = Among(s, ToPost(s), z)
      BY <1>3, AmongSame DEF ToPost
    <3>3. /\ k = "bulk" => Room(W[z], Among(s, ToPost(s), z), s.count)
          /\ W[z].bufc < PREALLOC =>
               \A i \in W[z].gets[ListOf(W[z], k)] + 1 .. Len(W[z].info[ListOf(W[z], k)]) : W[z].info[ListOf(W[z], k)][i].count = s.count
      BY <1>4, <3>1 DEF Begun, Roomy
    <3>4. k = "bulk" => Room(V[z], Among(s, ToPost(s), z), s.count)
      BY <1>12, <3>1, <3>3 DEF Room
    <3>5. CASE z # w
      BY <1>3, <1>11, <3>1, <3>2, <3>3, <3>4, <3>5
    <3>6. CASE z = w
      <4>1. ASSUME v.bufc < PREALLOC, NEW i \in v.gets[q] + 1 .. L + 1, i # L + 1 PROVE u.info[q][i].count = s.count
        <5>. HIDE DEF q
        <5>1. i \in 1 .. L /\ i \in v.gets[q] + 1 .. L
          BY <1>10, <4>1
        <5>2. v.info[q][i].count = s.count
          BY <3>3, <3>6, <4>1, <5>1 DEF q
        <5>. QED BY <1>8, <5>1, <5>2
      <4>2. V[z] = u /\ ListOf(V[z], k) = q
        BY <1>9, <1>11, <3>6
      <4>3. u.bufc < PREALLOC => \A i \in u.gets[q] + 1 .. Len(u.info[q]) : i = Len(u.info[q]) \/ u.info[q][i].count = s.count
        <5>1. u.bufc = v.bufc /\ u.gets[q] = v.gets[q] /\ Len(u.info[q]) = L + 1
          BY <1>8
        <5>. HIDE DEF q, v, L
        <5>. QED BY <4>1, <5>1
      <4>. HIDE DEF q, v, w, k, L
      <4>. QED BY <1>3, <3>2, <3>4, <3>6, <4>2, <4>3 DEF k
    <3>. QED BY <3>5, <3>6
  <2>3. Roomy(V, t)
    BY <1>3, <2>2 DEF Roomy
  <2>4. Stored(X, t)
    BY <1>3, <1>4 DEF Begun, Stored
  <2>5. Ordered(t, m + 1)
    <3>1. Ordered(s, m)
      BY <1>4 DEF Begun, Numbered
    <3>2. \A x \in 1 .. m : x \in 1 .. m + 1
      BY <1>1
    <3>. QED BY <1>3, <3>1, <3>2 DEF Ordered
  <2>6. Numbered(t, m + 1)
    <3>1. \A i \in DOMAIN s.ids : s.ids[i] < m + 1
      BY <1>1, <1>2, <1>13, NumbersAre
    <3>2. m + 1 <= m + 1
      BY <1>1
    <3>. QED BY <1>3, <1>13, <2>5, <3>1, <3>2 DEF Numbered
  <2>7. Ignoring(V, t, m + 1)
    <3>1. L + 1 > 0 /\ v.xfers[q] < L + 1 /\ v.gets[q] < L + 1
      <4>1. v.gets[q] <= L /\ v.xfers[q] <= L
        BY <1>8
      <4>. HIDE DEF L, v, q
      <4>. QED BY <1>10, <4>1
    <3>. QED BY <1>3, <1>8, <1>9, <1>11, <3>1 DEF Ignoring
  <2>. QED BY <1>3, <1>4, <2>1, <2>3, <2>4, <2>6, <2>7 DEF Begun
<1>18. Queued(B, V, H, m + 1)
  <2>1. \A j \in Kinds : Flag(v, j) => Flag(u, j)
    BY <1>2, <1>11, <1>12
  <2>. HIDE DEF w, v
  <2>. QED BY <1>1, <1>2, <1>4, <1>9, <2>1, QueuedOn DEF V, v
<1>19. After(H, t)
  <2>1. \A j \in Kinds : \A a \in DOMAIN H[j] : H[j][a].id < m + 1
    <3>1. \A j \in Kinds : \A a \in DOMAIN H[j] : H[j][a].id \in 0 .. m
      BY <1>1, <1>4, QueuedIds
    <3>. QED BY <1>1, <3>1
  <2>. QED BY <1>2, <1>3, <1>4, <2>1 DEF After
<1>20. Before(H, t) /\ Turns(H, t) /\ FlushOK(H, t)
  BY <1>2, <1>3, <1>4, RestStill DEF Begun
<1>21. Linked(V, H, t)
  <2>1. \A z \in Windows : HeldGets(t, z) = HeldGets(s, z) \cup (IF z = w THEN {m + 1} ELSE {}) /\ HeldPuts(t, z) = HeldPuts(s, z)
    BY <1>2, <1>3 DEF HeldGets, HeldPuts
  <2>2. Pending(v) = QueuedGets(H, w) \cup HeldGets(s, w) /\ ToPut(v) = QueuedPuts(H, w) \cup HeldPuts(s, w)
    BY <1>2, <1>4 DEF Linked
  <2>3. Pending(u) = QueuedGets(H, w) \cup HeldGets(t, w) /\ ToPut(u) = QueuedPuts(H, w) \cup HeldPuts(t, w)
    BY <1>2, <1>8, <2>1, <2>2
  <2>4. \A z \in Windows \ {w} : /\ QueuedGets(H, z) \cup HeldGets(t, z) = QueuedGets(H, z) \cup HeldGets(s, z)
                                 /\ QueuedPuts(H, z) \cup HeldPuts(t, z) = QueuedPuts(H, z) \cup HeldPuts(s, z)
    BY <2>1
  <2>. QED BY <1>1, <1>2, <1>4, <1>9, <2>3, <2>4, LinkedAgain DEF V
<1>22. t.pc \in Pcs \ {"put", "again", "undefined"} /\ t.pc \notin Ending
  BY <1>3 DEF Pcs, Busy, Beginning, Ending
<1>23. StatementOK(B, V, H, X, t, m + 1)
  BY <1>16, <1>17, <1>18, <1>19, <1>20, <1>21, <1>22 DEF StatementOK
<1>. QED
  BY <1>23 DEF V, u, t

\* The order of two operands, when the second is opened.
LEMMA PairIs ==
  ASSUME NEW x \in Nat, NEW y \in Nat
  PROVE  Append(<<x>>, y) = <<x, y>>
<1>. DEFINE a == Append(<<x>>, y)
            b == <<x, y>>
<1>1. <<x>> \in Seq(Nat) /\ Len(<<x>>) = 1 /\ <<x>>[1] = x
  OBVIOUS
<1>2. a \in Seq(Nat) /\ Len(a) = 2 /\ a[1] = x /\ a[2] = y
  BY <1>1, AppendProperties
<1>3. b \in Seq(Nat) /\ Len(b) = 2 /\ b[1] = x /\ b[2] = y
  OBVIOUS
<1>. HIDE DEF a, b
<1>4. \A j \in 1 .. Len(a) : a[j] = b[j]
  BY <1>2, <1>3
<1>5. a = b
  BY <1>2, <1>3, <1>4, SeqEqual
<1>. QED
  BY <1>5 DEF a, b

\* The win(...) of an operand: its record comes after all others.
LEMMA OpenKeeps ==
  ASSUME NEW B, NEW W, NEW H, NEW X, NEW s, NEW m, Sane(B, W, H, X, s, m), s.pc = "open", m + 1 \in Accesses,
         NEW i \in s.todo, NEW r \in Record, r.id = m + 1, r.count = s.count
  PROVE  StatementOK(B, [W EXCEPT ![s.wins[i]] = Opened(W[s.wins[i]], s.kind, r)], H, X, OpenState(s, i, m + 1), m + 1)
<1>. DEFINE w == s.wins[i]
            v == W[w]
            k == s.kind
            q == ListOf(v, k)
            u == Opened(v, k, r)
            t == OpenState(s, i, m + 1)
            V == [W EXCEPT ![w] = u]
            L == Len(v.info[q])
            D == DOMAIN s.wins
<1>1. /\ B \subseteq Windows /\ W \in [Windows -> Members] /\ H \in [Kinds -> Seq(Checked)]
      /\ s \in State /\ StateOK(s) /\ m \in Nat /\ k \in Kinds
  BY TypedIs, SaneIs, StateIs
<1>2. s.pc \in Busy /\ s.pc \in Beginning /\ i \in D /\ s.todo \subseteq D /\ m + 1 \in Nat /\ m <= m + 1
  BY <1>1 DEF Busy, Beginning, StateOK
<1>3. /\ DOMAIN s.ids = D /\ D \in {{1}, {1, 2}} /\ (D = {1} <=> Len(s.wins) = 1) /\ Len(s.wins) \in {1, 2}
      /\ \A j \in D : s.wins[j] \in Windows /\ s.ids[j] \in Int
      /\ D \subseteq {1, 2} /\ s.todo \in SUBSET {1, 2} /\ s.opened \in Seq(Nat)
  BY <1>1, <1>2, OperandsAre, NumbersAre, StateIs
<1>4. w \in Windows /\ v \in Members /\ w # None
  BY <1>1, <1>2, <1>3, Bounds
<1>5. /\ t \in State /\ StateOK(t) /\ t.opened = Append(s.opened, i)
      /\ DOMAIN t.ids = DOMAIN s.ids /\ t.ids[i] = m + 1 /\ \A j \in DOMAIN s.ids \ {i} : t.ids[j] = s.ids[j]
      /\ s.todo = {i} => t.todo = D /\ t.pc = IF s.sink = None THEN "post" ELSE "sink"
      /\ s.todo # {i} => t.todo = s.todo \ {i} /\ t.pc = "open"
      /\ t.kind = s.kind /\ t.wins = s.wins /\ t.count = s.count /\ t.got = s.got
      /\ t.order = s.order /\ t.sink = s.sink /\ t.sinkId = s.sinkId /\ t.flushing = s.flushing
      /\ t.run = s.run /\ t.val = s.val /\ t.put = s.put /\ t.placed = s.placed /\ t.deletes = s.deletes
  BY <1>1, OpenStateIs
<1>6. Begun(B, W, X, s, m) /\ AllSound(B, W, s, m) /\ Queued(B, W, H, m) /\ After(H, s) /\ Turns(H, s) /\ FlushOK(H, s)
      /\ Linked(W, H, s)
  BY <1>2, SaneIs
<1>7. Uses(s) \subseteq Windows /\ w \in Uses(s) /\ Range(s.wins) \subseteq Uses(s) /\ Uses(t) = Uses(s)
  BY <1>1, <1>2, <1>5, StateIs, UsesAre DEF Uses
<1>8. Sound(B, v, s, w, k, m) /\ Good(v, k, m) /\ (w \notin B => Only(v, k)) /\ (v.bufc < PREALLOC => Unposted(v, k) = Expected(s, w))
  BY <1>2, <1>6, <1>7 DEF AllSound, Sound
<1>9. /\ Good(u, k, m + 1) /\ Flag(u, k) /\ (Only(v, k) => Only(u, k))
      /\ Pending(u) = Pending(v) \cup {m + 1} /\ ToPut(u) = ToPut(v) /\ u.puts = v.puts
      /\ Unposted(u, k) = Unposted(v, k) + 1 /\ u.bufc = v.bufc /\ u.shape = v.shape
      /\ u.gets[q] = v.gets[q]
      /\ Len(u.info[q]) = L + 1 /\ u.info[q][Len(u.info[q])] = r
      /\ \A j \in 1 .. L : u.info[q][j] = v.info[q][j]
  <2>. HIDE DEF k, v
  <2>. QED BY <1>1, <1>4, <1>8, OpenedGood
<1>10. u \in Members /\ u.isElem = (v.isElem \/ k = "elem") /\ u.isBulk = (v.isBulk \/ k = "bulk") /\ ListOf(u, k) = q
  <2>. HIDE DEF v, k
  <2>. QED BY <1>1, <1>4, <1>9, OpenedIs, SameList
<1>11. L \in Nat /\ v.gets[q] \in Nat
  <2>1. q \in Lists
    BY ListIs
  <2>. HIDE DEF v
  <2>. QED BY <1>4, <2>1, ListsAre
<1>12. V[w] = u /\ \A z \in Windows \ {w} : V[z] = W[z]
  BY <1>1, <1>4
<1>13. \A z \in Windows : V[z].bufc = W[z].bufc /\ V[z].shape = W[z].shape /\ \A j \in Kinds : Flag(W[z], j) => Flag(V[z], j)
  BY <1>9, <1>10, <1>12 DEF Flag
<1>14. /\ s.sinkId = 0 /\ \A j \in D : s.ids[j] <= m /\ (s.ids[j] = 0 <=> j \in s.todo)
       /\ Len(s.wins) = 1 => s.opened = <<>>
       /\ Len(s.wins) = 2 => \/ s.todo = {1, 2} /\ s.opened = <<>>
                             \/ s.todo = {1} /\ s.opened = <<2>>
                             \/ s.todo = {2} /\ s.opened = <<1>>
  BY <1>3, <1>6 DEF Begun, Numbered
<1>15. t.ids[i] = m + 1 /\ DOMAIN t.ids = D /\ \A j \in D \ {i} : t.ids[j] = s.ids[j]
  BY <1>2, <1>3, <1>5
<1>. HIDE DEF u, V, t
<1>16. ASSUME NEW z PROVE Expected(t, z) = Expected(s, z) + (IF z = w THEN 1 ELSE 0) /\ Expected(s, z) \in Nat
  <2>1. Opening(t) = Opening(s) \cup {i} /\ i \notin Opening(s) /\ Opening(s) \in SUBSET {1, 2} /\ i \in {1, 2}
    BY <1>2, <1>3, <1>5 DEF Opening
  <2>2. Among(t, Opening(t), z) = Among(s, Opening(t), z)
    BY <1>5, AmongSame
  <2>3. Among(s, Opening(s), z) \in Nat /\ Among(s, Opening(t), z) = Among(s, Opening(s), z) + (IF z = w THEN 1 ELSE 0)
    <3>1. PICK S : S = Opening(s) /\ S \in SUBSET {1, 2}
      BY <2>1
    <3>2. Among(s, S, z) \in Nat /\ Among(s, S \cup {i}, z) = Among(s, S, z) + (IF s.wins[i] = z THEN 1 ELSE 0)
      <4>1. (1 \in S \cup {i} <=> 1 \in S \/ i = 1) /\ (2 \in S \cup {i} <=> 2 \in S \/ i = 2) /\ i \notin S /\ i \in {1, 2}
        BY <2>1, <3>1
      <4>. QED BY <4>1 DEF Among
    <3>3. Opening(t) = S \cup {i}
      BY <2>1, <3>1
    <3>. QED BY <3>1, <3>2, <3>3
  <2>4. Sinking(s, z) = 0 /\ Sinking(t, z) = 0
    BY <1>5 DEF Sinking
  <2>. QED BY <2>2, <2>3, <2>4 DEF Expected
<1>17. Sound(B, u, t, w, k, m + 1)
  <2>1. u.bufc < PREALLOC => Unposted(u, k) = Expected(t, w)
    BY <1>8, <1>9, <1>16
  <2>. QED BY <1>8, <1>9, <2>1 DEF Sound
<1>18. AllSound(B, V, t, m + 1)
  <2>1. \A z \in Windows \ {w} : Expected(t, z) = Expected(s, z)
    BY <1>16
  <2>2. s.pc \in Beginning \cup Ending /\ Uses(t) = Uses(s) /\ Uses(t) \subseteq Windows /\ t.kind = s.kind /\ t.kind = k /\ t.kind \in Kinds
    BY <1>1, <1>2, <1>5, <1>7
  <2>. HIDE DEF w, k
  <2>. QED BY <1>1, <1>2, <1>4, <1>6, <1>10, <1>17, <2>1, <2>2, AllSoundAgain DEF V
<1>19. t.pc \in {"open", "post", "sink"} /\ (t.pc = "open" <=> s.todo # {i}) /\ (t.pc = "post" => s.sink = None)
  BY <1>5
<1>20. Begun(B, V, X, t, m + 1)
  <2>1. Agreed(B, V, t)
    <3>1. Agreed(B, W, s)
      BY <1>6 DEF Begun
    <3>2. \A j \in D : j \notin t.todo \/ t.pc # "open" => Flag(V[t.wins[j]], t.kind)
      <4>. TAKE j \in D
      <4>1. CASE s.wins[j] = w
        BY <1>5, <1>9, <1>12, <4>1
      <4>2. CASE s.wins[j] # w
        <5>1. j # i
          BY <4>2
        <5>2. (j \notin t.todo \/ t.pc # "open") => j \notin s.todo
          BY <1>5, <5>1
        <5>3. j \notin s.todo => Flag(W[s.wins[j]], k)
          BY <3>1 DEF Agreed
        <5>. QED BY <1>3, <1>5, <1>12, <4>2, <5>2, <5>3
      <4>. QED BY <4>1, <4>2
    <3>3. t.sink # None => V[t.sink].shape.view = "LOCAL_VIEW" \/ V[t.sink].shape.ndims = 1
      <4>1. s.sink \in Windows \cup {None}
        BY <1>1, StateIs
      <4>2. s.sink # None => W[s.sink].shape.view = "LOCAL_VIEW" \/ W[s.sink].shape.ndims = 1
        BY <3>1 DEF Agreed
      <4>. QED BY <1>5, <1>13, <4>1, <4>2
    <3>4. \A z \in Uses(t) : z \in B => t.sink = None /\ \A y \in Uses(t) : y \in B
      <4>1. \A z \in Uses(s) : z \in B => s.sink = None /\ \A y \in Uses(s) : y \in B
        BY <3>1 DEF Agreed
      <4>. QED BY <1>5, <1>7, <4>1
    <3>5. t.pc # "defer" /\ ~(t.pc \in {"ignore", "post", "defer"} /\ t.sink # None)
      BY <1>5, <1>19
    <3>6. DOMAIN t.wins = D
      BY <1>5
    <3>. HIDE DEF k, D
    <3>. QED BY <3>2, <3>3, <3>4, <3>5, <3>6 DEF Agreed
  <2>2. ASSUME NEW z \in Range(t.wins)
        PROVE  /\ t.kind = "bulk" => Room(V[z], Among(t, ToPost(t), z), t.count)
               /\ V[z].bufc < PREALLOC =>
                    \A j \in V[z].gets[ListOf(V[z], k)] + 1 .. Len(V[z].info[ListOf(V[z], k)]) :
                      V[z].info[ListOf(V[z], k)][j].count = s.count
    <3>1. z \in Windows /\ z \in Range(s.wins)
      BY <1>5, <1>7
    <3>2. ToPost(t) = ToPost(s) /\ Among(t, ToPost(s), z) = Among(s, ToPost(s), z)
      BY <1>5, AmongSame DEF ToPost
    <3>3. /\ k = "bulk" => Room(W[z], Among(s, ToPost(s), z), s.count)
          /\ W[z].bufc < PREALLOC =>
               \A j \in W[z].gets[ListOf(W[z], k)] + 1 .. Len(W[z].info[ListOf(W[z], k)]) : W[z].info[ListOf(W[z], k)][j].count = s.count
      BY <1>6, <3>1 DEF Begun, Roomy
    <3>4. k = "bulk" => Room(V[z], Among(s, ToPost(s), z), s.count)
      BY <1>13, <3>1, <3>3 DEF Room
    <3>5. CASE z # w
      BY <1>5, <1>12, <3>1, <3>2, <3>3, <3>4, <3>5
    <3>6. CASE z = w
      <4>1. ASSUME v.bufc < PREALLOC, NEW j \in v.gets[q] + 1 .. L + 1, j # L + 1 PROVE u.info[q][j].count = s.count
        <5>. HIDE DEF q, v, L
        <5>1. j \in 1 .. L /\ j \in v.gets[q] + 1 .. L
          BY <1>11, <4>1
        <5>2. v.info[q][j].count = s.count
          BY <3>3, <3>6, <4>1, <5>1 DEF q, v, L
        <5>. QED BY <1>9, <5>1, <5>2
      <4>2. V[z] = u /\ ListOf(V[z], k) = q
        BY <1>10, <1>12, <3>6
      <4>3. u.bufc < PREALLOC => \A j \in u.gets[q] + 1 .. Len(u.info[q]) : u.info[q][j].count = s.count
        <5>1. u.bufc = v.bufc /\ u.gets[q] = v.gets[q] /\ Len(u.info[q]) = L + 1 /\ u.info[q][L + 1] = r
          BY <1>9
        <5>. HIDE DEF q, v, L
        <5>. QED BY <4>1, <5>1
      <4>. HIDE DEF q, v, w, k, L
      <4>. QED BY <1>5, <3>2, <3>4, <3>6, <4>2, <4>3 DEF k
    <3>. QED BY <3>5, <3>6
  <2>3. Roomy(V, t)
    BY <1>5, <2>2 DEF Roomy
  <2>4. Stored(X, t)
    BY <1>5, <1>6, <1>19 DEF Begun, Stored
  <2>5. t.pc # "open" => Ordered(t, m + 1)
    <3>. SUFFICES ASSUME s.todo = {i} PROVE Ordered(t, m + 1)
      BY <1>19
    <3>1. \A j \in D : t.ids[j] \in 1 .. m + 1 /\ (j # i => t.ids[j] < t.ids[i])
      <4>. TAKE j \in D
      <4>1. CASE j = i
        BY <1>1, <1>15, <4>1
      <4>2. CASE j # i
        <5>1. t.ids[j] = s.ids[j] /\ s.ids[j] # 0 /\ s.ids[j] <= m /\ s.ids[j] \in 0 .. MaxAccesses
          BY <1>1, <1>2, <1>14, <1>15, <4>2, NumbersAre
        <5>2. s.ids[j] \in Nat
          BY <5>1, Bounds
        <5>. QED BY <1>1, <1>15, <5>1, <5>2
      <4>. QED BY <4>1, <4>2
    <3>6. Append(<<>>, 1) = <<1>> /\ Append(<<1>>, 2) = <<1, 2>> /\ Append(<<2>>, 1) = <<2, 1>>
      <4>1. Append(<<>>, 1) = <<1>>
        OBVIOUS
      <4>2. Append(<<1>>, 2) = <<1, 2>>
        BY PairIs
      <4>3. Append(<<2>>, 1) = <<2, 1>>
        BY PairIs
      <4>. QED BY <4>1, <4>2, <4>3
    <3>2. Len(s.wins) = 1 => t.opened = <<1>>
      <4>1. Len(s.wins) = 1 => i = 1 /\ s.opened = <<>>
        BY <1>2, <1>3, <1>14
      <4>. QED BY <1>5, <3>6, <4>1
    <3>3. Len(s.wins) = 2 => (i = 1 /\ t.opened = <<2, 1>>) \/ (i = 2 /\ t.opened = <<1, 2>>)
      <4>2. {i} # {1, 2} /\ ({i} = {1} => i = 1) /\ ({i} = {2} => i = 2)
        OBVIOUS
      <4>1. Len(s.wins) = 2 => (i = 1 /\ s.opened = <<2>>) \/ (i = 2 /\ s.opened = <<1>>)
        BY <1>14, <4>2
      <4>. QED BY <1>5, <3>6, <4>1
    <3>4. Len(s.wins) = 2 => D = {1, 2}
      BY <1>3
    <3>5. Len(s.wins) = 2 => \/ t.opened = <<1, 2>> /\ t.ids[1] < t.ids[2]
                             \/ t.opened = <<2, 1>> /\ t.ids[2] < t.ids[1]
      BY <3>1, <3>3, <3>4
    <3>. QED BY <1>5, <1>15, <3>1, <3>2, <3>5 DEF Ordered
  <2>6. Numbered(t, m + 1)
    <3>1. t.pc = "open" => \A j \in D : t.ids[j] <= m + 1 /\ (t.ids[j] = 0 <=> j \in t.todo)
      <4>. SUFFICES ASSUME t.pc = "open", NEW j \in D PROVE t.ids[j] <= m + 1 /\ (t.ids[j] = 0 <=> j \in t.todo)
        OBVIOUS
      <4>1. t.todo = s.todo \ {i}
        BY <1>5, <1>19
      <4>2. CASE j = i
        BY <1>1, <1>15, <4>1, <4>2
      <4>3. CASE j # i
        BY <1>1, <1>3, <1>14, <1>15, <4>1, <4>3
      <4>. QED BY <4>2, <4>3
    <3>2. t.pc = "open" => /\ Len(s.wins) # 1
                           /\ Len(s.wins) = 2 => \/ t.todo = {1} /\ t.opened = <<2>>
                                                 \/ t.todo = {2} /\ t.opened = <<1>>
      <4>. SUFFICES ASSUME s.todo # {i}, t.todo = s.todo \ {i}
                    PROVE  /\ Len(s.wins) # 1
                           /\ Len(s.wins) = 2 => \/ t.todo = {1} /\ t.opened = <<2>>
                                                 \/ t.todo = {2} /\ t.opened = <<1>>
        BY <1>5, <1>19
      <4>1. Len(s.wins) # 1
        BY <1>2, <1>3
      <4>2. Len(s.wins) = 2 => s.todo = {1, 2} /\ s.opened = <<>>
        BY <1>14
      <4>3. i \in {1, 2}
        BY <1>3
      <4>4. Append(<<>>, i) = <<i>>
        OBVIOUS
      <4>5. Len(s.wins) = 2 => t.opened = <<i>> /\ t.todo = {1, 2} \ {i}
        BY <1>5, <4>2, <4>4
      <4>6. {1, 2} \ {1} = {2} /\ {1, 2} \ {2} = {1}
        OBVIOUS
      <4>. QED BY <4>1, <4>3, <4>5, <4>6
    <3>. QED BY <1>5, <1>14, <1>15, <1>19, <2>5, <3>1, <3>2 DEF Numbered
  <2>7. Ignoring(V, t, m + 1)
    BY <1>19 DEF Ignoring
  <2>. QED BY <1>5, <1>6, <2>1, <2>3, <2>4, <2>6, <2>7 DEF Begun
<1>21. Queued(B, V, H, m + 1)
  <2>1. \A j \in Kinds : Flag(v, j) => Flag(u, j)
    BY <1>4, <1>12, <1>13
  <2>. HIDE DEF w, v
  <2>. QED BY <1>1, <1>2, <1>4, <1>6, <1>10, <2>1, QueuedOn DEF V, v
<1>22. After(H, t)
  <2>. SUFFICES ASSUME NEW j \in Kinds, NEW a \in DOMAIN H[j], NEW e \in D, NEW f \in DOMAIN H[j][a].ids, t.ids[e] # 0
                PROVE  H[j][a].ids[f] < t.ids[e]
    BY <1>5, <1>14, <1>15 DEF After
  <2>1. CASE e = i
    <3>1. H[j][a].ids[f] \in 1 .. m
      BY <1>1, <1>6, QueuedIds
    <3>. QED BY <1>1, <1>15, <2>1, <3>1
  <2>2. CASE e # i
    BY <1>2, <1>3, <1>6, <1>15, <2>2 DEF After
  <2>. QED BY <2>1, <2>2
<1>23. Before(H, t) /\ Turns(H, t) /\ FlushOK(H, t)
  BY <1>2, <1>5, <1>6, <1>19, RestStill DEF Begun
<1>24. Linked(V, H, t)
  <2>1. \A z \in Windows : HeldGets(t, z) = HeldGets(s, z) \cup (IF z = w THEN {m + 1} ELSE {})
    <3>. TAKE z \in Windows
    <3>1. 0 \notin Accesses /\ s.ids[i] = 0
      BY <1>2, <1>14, Bounds
    <3>2. \A x : (\E j \in D : t.wins[j] = z /\ t.ids[j] = x) <=> (\E j \in D \ {i} : s.wins[j] = z /\ s.ids[j] = x) \/ (z = w /\ x = m + 1)
      BY <1>2, <1>5, <1>15
    <3>3. \A x \in Accesses : (\E j \in D \ {i} : s.wins[j] = z /\ s.ids[j] = x) <=> (\E j \in D : s.wins[j] = z /\ s.ids[j] = x)
      BY <3>1
    <3>4. \A j \in DOMAIN s.got : s.got[j] = {}
      BY <1>6 DEF Begun
    <3>5. HeldGets(t, z) = {x \in Accesses : \E j \in D : t.wins[j] = z /\ t.ids[j] = x}
      BY <1>5, <1>19, <3>4 DEF HeldGets
    <3>6. HeldGets(s, z) = {x \in Accesses : \E j \in D : s.wins[j] = z /\ s.ids[j] = x}
      BY <3>4 DEF HeldGets
    <3>. QED BY <3>2, <3>3, <3>5, <3>6
  <2>2. \A z \in Windows : HeldPuts(t, z) = HeldPuts(s, z)
    BY <1>5, <1>19, Bounds DEF HeldPuts
  <2>3. Pending(v) = QueuedGets(H, w) \cup HeldGets(s, w) /\ ToPut(v) = QueuedPuts(H, w) \cup HeldPuts(s, w)
    BY <1>4, <1>6 DEF Linked
  <2>4. Pending(u) = QueuedGets(H, w) \cup HeldGets(t, w) /\ ToPut(u) = QueuedPuts(H, w) \cup HeldPuts(t, w)
    BY <1>4, <1>9, <2>1, <2>2, <2>3
  <2>5. \A z \in Windows \ {w} : /\ QueuedGets(H, z) \cup HeldGets(t, z) = QueuedGets(H, z) \cup HeldGets(s, z)
                                 /\ QueuedPuts(H, z) \cup HeldPuts(t, z) = QueuedPuts(H, z) \cup HeldPuts(s, z)
    BY <2>1, <2>2
  <2>. HIDE DEF w
  <2>. QED BY <1>1, <1>4, <1>6, <1>10, <2>4, <2>5, LinkedAgain DEF V
<1>25. t.pc \in Pcs \ {"put", "again", "undefined"} /\ t.pc \notin Ending
  BY <1>19 DEF Pcs, Busy, Beginning, Ending
<1>26. StatementOK(B, V, H, X, t, m + 1)
  BY <1>18, <1>20, <1>21, <1>22, <1>23, <1>24, <1>25 DEF StatementOK
<1>. QED
  BY <1>26 DEF V, u, t

\* What is left of the room by a get.
LEMMA RoomLess ==
  ASSUME NEW v \in Members, NEW u \in Members, NEW c \in Nat, NEW M \in Nat, Room(v, M + 1, c)
  PROVE  /\ v.bufc >= PREALLOC \/ (v.bufc + c <= PREALLOC /\ (v.bufc = 0 => c < PREALLOC))
         /\ (u.bufc = v.bufc \/ u.bufc = v.bufc + c) /\ (u.bufc = v.bufc => v.bufc >= PREALLOC) => Room(u, M, c)
<1>1. PICK b : b \in Nat /\ b = v.bufc
  BY MembersAre
<1>2. PREALLOC \in Nat
  BY Bounds
<1>3. \A j \in 1 .. M + 1 : LET x == b + (j - 1) * c IN x >= PREALLOC \/ (x + c <= PREALLOC /\ (x = 0 => c < PREALLOC))
  BY <1>1 DEF Room
<1>4. b >= PREALLOC \/ (b + c <= PREALLOC /\ (b = 0 => c < PREALLOC))
  <2>1. 1 \in 1 .. M + 1 /\ (1 - 1) * c = 0
    OBVIOUS
  <2>2. b + (1 - 1) * c = b
    BY <1>1, <2>1
  <2>. QED BY <1>3, <2>1, <2>2
<1>5. ASSUME u.bufc = b, b >= PREALLOC PROVE Room(u, M, c)
  <2>1. \A j \in 1 .. M : (j - 1) * c \in Nat
    OBVIOUS
  <2>2. \A j \in 1 .. M : b + (j - 1) * c >= PREALLOC
    BY <1>1, <1>2, <1>5, <2>1
  <2>. QED BY <1>5, <2>2 DEF Room
<1>6. ASSUME u.bufc = b + c PROVE Room(u, M, c)
  <2>1. ASSUME NEW j \in 1 .. M
        PROVE  LET x == b + c + (j - 1) * c IN x >= PREALLOC \/ (x + c <= PREALLOC /\ (x = 0 => c < PREALLOC))
    <3>1. j + 1 \in 1 .. M + 1
      OBVIOUS
    <3>2. b + ((j + 1) - 1) * c = b + c + (j - 1) * c
      BY <1>1
    <3>. QED BY <1>3, <3>1, <3>2
  <2>. QED BY <1>6, <2>1 DEF Room
<1>. QED
  BY <1>1, <1>4, <1>5, <1>6

\* A get of an operand is posted: the records expected are there and have room in the buffer.
LEMMA PostKeeps ==
  ASSUME NEW B, NEW W, NEW H, NEW X, NEW s, NEW m, Sane(B, W, H, X, s, m), s.pc = "post", NEW i \in s.todo,
         NEW at \in BOOLEAN, s.sink = None => (at <=> \A j \in DOMAIN s.wins : s.wins[j] \in B), s.sink # None => (at <=> s.sink \in B),
         NEW pl \in BOOLEAN, pl => s.todo = {i} /\ s.sink # None /\ Placed(X[s.kind], s.count),
         NEW Y, s.todo # {i} => Y = X, pl => Y[s.kind] = Taken(X[s.kind], s.count)
  PROVE  /\ ~PostWild(W[s.wins[i]], s.kind)
         /\ StatementOK(B, [W EXCEPT ![s.wins[i]] = Posted(W[s.wins[i]], s.kind)], H, Y, PostState(s, i, at, pl), m)
<1>. DEFINE w == s.wins[i]
            v == W[w]
            k == s.kind
            q == ListOf(v, k)
            u == Posted(v, k)
            t == PostState(s, i, at, pl)
            V == [W EXCEPT ![w] = u]
            L == Len(v.info[q])
            D == DOMAIN s.wins
            r == NextGet(v, k)
<1>1. /\ B \subseteq Windows /\ W \in [Windows -> Members] /\ H \in [Kinds -> Seq(Checked)]
      /\ s \in State /\ StateOK(s) /\ m \in Nat /\ k \in Kinds /\ s.count \in Nat /\ s.sink \in Windows \cup {None}
  BY TypedIs, SaneIs, StateIs
<1>2. s.pc \in Busy /\ s.pc \in Beginning /\ i \in D /\ s.todo \subseteq D
  BY <1>1 DEF Busy, Beginning, StateOK
<1>3. /\ DOMAIN s.ids = D /\ \A j \in D : s.wins[j] \in Windows
      /\ D \subseteq {1, 2} /\ s.todo \in SUBSET {1, 2} /\ i \in {1, 2}
  BY <1>1, <1>2, OperandsAre, NumbersAre, StateIs
<1>4. w \in Windows /\ v \in Members
  BY <1>1, <1>2, <1>3
<1>5. /\ t \in State /\ StateOK(t)
      /\ s.todo = {i} => /\ t.todo = D /\ DOMAIN t.got = D /\ \A j \in D : t.got[j] = {}
                         /\ t.pc = IF at THEN "eval" ELSE "defer"
      /\ s.todo # {i} => t.todo = s.todo \ {i} /\ t.got = s.got /\ t.pc = "post"
      /\ t.placed = pl /\ t.ids = s.ids /\ t.opened = s.opened
      /\ t.kind = s.kind /\ t.wins = s.wins /\ t.count = s.count
      /\ t.order = s.order /\ t.sink = s.sink /\ t.sinkId = s.sinkId /\ t.flushing = s.flushing
      /\ t.run = s.run /\ t.val = s.val /\ t.put = s.put /\ t.deletes = s.deletes
  BY <1>1, PostStateIs
<1>6. Begun(B, W, X, s, m) /\ AllSound(B, W, s, m) /\ Queued(B, W, H, m) /\ After(H, s) /\ Turns(H, s) /\ FlushOK(H, s)
      /\ Linked(W, H, s)
  BY <1>2, SaneIs
<1>7. Uses(s) \subseteq Windows /\ w \in Uses(s) /\ w \in Range(s.wins) /\ Range(s.wins) \subseteq Uses(s) /\ Uses(t) = Uses(s)
  BY <1>1, <1>2, <1>5, StateIs, UsesAre DEF Uses
<1>8. Sound(B, v, s, w, k, m) /\ Good(v, k, m) /\ (w \notin B => Only(v, k)) /\ (v.bufc < PREALLOC => Unposted(v, k) = Expected(s, w))
  BY <1>2, <1>6, <1>7 DEF AllSound, Sound
<1>9. L \in Nat /\ v.gets[q] \in Nat /\ v.bufc \in Nat /\ PREALLOC \in Nat /\ q \in Lists
  <2>1. q \in Lists
    BY ListIs
  <2>. HIDE DEF v
  <2>. QED BY <1>4, <2>1, ListsAre, MembersAre, Bounds
<1>10. ASSUME NEW z PROVE Expected(s, z) = Expected(t, z) + (IF z = w THEN 1 ELSE 0) /\ Expected(t, z) \in Nat
                          /\ Expected(s, z) = Among(s, s.todo, z)
                          /\ (t.pc = "post" => Among(t, ToPost(t), z) = Expected(t, z)) /\ (t.pc = "defer" => Expected(t, z) = 0)
  <2>1. Opening(s) = s.todo /\ Opening(t) = s.todo \ {i} /\ (t.pc = "post" => ToPost(t) = s.todo \ {i}) /\ (t.pc = "defer" => s.todo \ {i} = {})
    BY <1>5 DEF Opening, ToPost
  <2>2. Among(t, s.todo \ {i}, z) = Among(s, s.todo \ {i}, z)
    BY <1>5, AmongSame
  <2>3. Among(s, s.todo, z) = Among(s, s.todo \ {i}, z) + (IF s.wins[i] = z THEN 1 ELSE 0) /\ Among(s, s.todo \ {i}, z) \in Nat /\ Among(s, {}, z) = 0
    <3>. HIDE DEF w, D
    <3>1. (1 \in s.todo \ {i} <=> 1 \in s.todo /\ i # 1) /\ (2 \in s.todo \ {i} <=> 2 \in s.todo /\ i # 2)
      OBVIOUS
    <3>. QED BY <1>3, <3>1 DEF Among
  <2>4. Sinking(s, z) = 0 /\ Sinking(t, z) = 0
    <3>1. t.pc # "ignore"
      BY <1>5
    <3>. QED BY <3>1 DEF Sinking
  <2>5. z = w <=> s.wins[i] = z
    OBVIOUS
  <2>6. Expected(s, z) = Among(s, s.todo, z) + 0 /\ Expected(t, z) = Among(t, s.todo \ {i}, z) + 0
    BY <2>1, <2>4 DEF Expected
  <2>. HIDE DEF w
  <2>7. Expected(s, z) = Among(s, s.todo, z) /\ Expected(t, z) = Among(s, s.todo \ {i}, z)
        /\ Among(s, s.todo, z) = Among(s, s.todo \ {i}, z) + (IF z = w THEN 1 ELSE 0)
    BY <2>2, <2>3, <2>5, <2>6
  <2>8. t.pc = "defer" => Among(s, s.todo \ {i}, z) = 0
    BY <2>1, <2>3
  <2>9. t.pc = "post" => Among(t, ToPost(t), z) = Among(s, s.todo \ {i}, z)
    BY <2>1, <2>2
  <2>. QED BY <2>3, <2>7, <2>8, <2>9
<1>11. k = "bulk" => /\ Room(v, Expected(t, w) + 1, s.count)
                     /\ v.bufc < PREALLOC => v.bufc + s.count <= PREALLOC /\ (v.bufc = 0 => s.count < PREALLOC)
  <2>. SUFFICES ASSUME k = "bulk"
                PROVE  /\ Room(v, Expected(t, w) + 1, s.count)
                       /\ v.bufc < PREALLOC => v.bufc + s.count <= PREALLOC /\ (v.bufc = 0 => s.count < PREALLOC)
    OBVIOUS
  <2>1. Room(v, Among(s, s.todo, w), s.count)
    BY <1>6, <1>7 DEF Begun, Roomy, ToPost
  <2>2. PICK M : M \in Nat /\ M = Expected(t, w) /\ Among(s, s.todo, w) = M + 1
    BY <1>10
  <2>3. Room(v, M + 1, s.count)
    BY <2>1, <2>2
  <2>4. v.bufc >= PREALLOC \/ (v.bufc + s.count <= PREALLOC /\ (v.bufc = 0 => s.count < PREALLOC))
    <3>. HIDE DEF v
    <3>. QED BY <1>1, <1>4, <2>2, <2>3, RoomLess
  <2>5. \E b : b \in Nat /\ b = v.bufc
    BY <1>9
  <2>. HIDE DEF v
  <2>. QED BY <1>9, <2>2, <2>3, <2>4, <2>5
<1>12. v.bufc < PREALLOC => /\ Unposted(v, k) >= 1 /\ v.gets[q] < L
                            /\ v.gets[q] + 1 \in v.gets[q] + 1 .. L /\ r.count = s.count
  <2>. SUFFICES ASSUME v.bufc < PREALLOC
                PROVE  Unposted(v, k) >= 1 /\ v.gets[q] < L /\ v.gets[q] + 1 \in v.gets[q] + 1 .. L /\ r.count = s.count
    OBVIOUS
  <2>1. Unposted(v, k) >= 1 /\ Unposted(v, k) = L - v.gets[q]
    BY <1>8, <1>10 DEF Unposted
  <2>2. PICK g, l : g \in Nat /\ l \in Nat /\ g = v.gets[q] /\ l = L
    BY <1>9
  <2>0. l - g >= 1
    BY <2>1, <2>2
  <2>3. g < l /\ g + 1 \in g + 1 .. l
    <3>. HIDE DEF v, q, L, k, r
    <3>. QED BY <2>0, <2>2
  <2>4. v.info[q][g + 1].count = s.count
    BY <1>6, <1>7, <2>2, <2>3 DEF Begun, Roomy
  <2>. QED BY <2>1, <2>2, <2>3, <2>4 DEF NextGet
<1>13. SizeOf(k, r) = (IF k = "elem" THEN 1 ELSE r.count)
  BY DEF SizeOf
<1>14. ~PostWild(v, k)
  <2>1. v.bufc < PREALLOC => ~(v.gets[q] >= L) /\ ~(v.bufc + SizeOf(k, r) > PREALLOC)
    <3>. SUFFICES ASSUME v.bufc < PREALLOC PROVE ~(v.gets[q] >= L) /\ ~(v.bufc + SizeOf(k, r) > PREALLOC)
      OBVIOUS
    <3>1. v.gets[q] < L /\ r.count = s.count
      BY <1>12
    <3>2. SizeOf(k, r) = 1 \/ (k = "bulk" /\ SizeOf(k, r) = s.count)
      BY <1>1, <1>13, <3>1 DEF Kinds
    <3>3. k = "bulk" => v.bufc + s.count <= PREALLOC
      BY <1>11
    <3>. HIDE DEF v, q, r, L, k
    <3>. QED BY <1>1, <1>9, <3>1, <3>2, <3>3
  <2>. QED BY <2>1 DEF PostWild
<1>15. Posts(v, k) <=> v.bufc < PREALLOC
  <2>1. v.bufc < PREALLOC /\ k = "bulk" /\ v.bufc = 0 => NextGet(v, k).count < PREALLOC
    BY <1>11, <1>12
  <2>. QED BY <2>1 DEF Posts
<1>16. /\ Good(u, k, m) /\ (Flag(v, k) => Flag(u, k)) /\ (Only(v, k) => Only(u, k))
       /\ Pending(u) = Pending(v) /\ ToPut(u) = ToPut(v) /\ u.shape = v.shape
       /\ u.info = v.info /\ u.puts = v.puts /\ u.isElem = v.isElem /\ u.isBulk = v.isBulk
       /\ \/ v.bufc >= PREALLOC /\ u = v
          \/ /\ v.bufc < PREALLOC /\ Unposted(u, k) = Unposted(v, k) - 1
             /\ u.bufc = v.bufc + SizeOf(k, r) /\ u.gets[q] = v.gets[q] + 1
  <2>1. ~(v.bufc < PREALLOC) => v.bufc >= PREALLOC
    BY <1>9
  <2>. HIDE DEF v, k
  <2>. QED BY <1>1, <1>4, <1>8, <1>14, <1>15, <2>1, PostedGood
<1>17. u \in Members
  <2>1. CASE v.bufc < PREALLOC
    <3>. HIDE DEF v, k
    <3>. QED BY <1>1, <1>4, <1>14, <1>15, <2>1, PostedIs
  <2>2. CASE v.bufc >= PREALLOC
    <3>1. ~(v.bufc < PREALLOC)
      BY <1>9, <2>2
    <3>. QED BY <1>4, <1>16, <3>1
  <2>. QED BY <1>9, <2>1, <2>2
<1>18. V[w] = u /\ \A z \in Windows \ {w} : V[z] = W[z]
  BY <1>1, <1>4
<1>19. \A z \in Windows : V[z].shape = W[z].shape /\ V[z].isElem = W[z].isElem /\ V[z].isBulk = W[z].isBulk
  BY <1>16, <1>18
<1>20. ListOf(u, k) = q
  BY <1>16, SameList
<1>. HIDE DEF u, V, t
<1>21. Sound(B, u, t, w, k, m)
  <2>1. u.bufc < PREALLOC => Unposted(u, k) = Expected(t, w)
    <3>1. CASE v.bufc >= PREALLOC
      <4>1. ~(u.bufc < PREALLOC)
        BY <1>9, <1>16, <3>1
      <4>. QED BY <4>1
    <3>2. CASE v.bufc < PREALLOC
      <4>1. ~(v.bufc >= PREALLOC)
        BY <1>9, <3>2
      <4>2. Unposted(u, k) = Unposted(v, k) - 1 /\ Unposted(v, k) = Expected(s, w)
        BY <1>8, <1>16, <3>2, <4>1
      <4>. QED BY <1>10, <4>2
    <3>. QED BY <1>9, <3>1, <3>2
  <2>. QED BY <1>8, <1>16, <2>1 DEF Sound
<1>22. AllSound(B, V, t, m)
  <2>1. \A z \in Windows \ {w} : Expected(t, z) = Expected(s, z)
    BY <1>10
  <2>2. s.pc \in Beginning \cup Ending /\ Uses(t) = Uses(s) /\ Uses(t) \subseteq Windows /\ t.kind = s.kind /\ t.kind = k /\ t.kind \in Kinds
    BY <1>1, <1>2, <1>5, <1>7
  <2>. HIDE DEF w, k
  <2>. QED BY <1>1, <1>2, <1>4, <1>6, <1>17, <1>21, <2>1, <2>2, AllSoundAgain DEF V
<1>23. t.pc \in {"post", "eval", "defer"} /\ (t.pc = "post" <=> s.todo # {i}) /\ (t.pc = "eval" <=> s.todo = {i} /\ at)
  BY <1>5
<1>24. \A j \in DOMAIN t.got : t.got[j] = {}
  BY <1>5, <1>6 DEF Begun
<1>25. Agreed(B, W, s) /\ Ordered(s, m) /\ Numbered(s, m) /\ s.flushing = None /\ s.val = 0 /\ s.order = <<>>
  BY <1>6 DEF Begun, Numbered
<1>26. ASSUME t.pc \in {"post", "defer"} PROVE Begun(B, V, Y, t, m)
  <2>1. Agreed(B, V, t)
    <3>1. \A z \in Windows : Flag(V[z], k) = Flag(W[z], k)
      BY <1>19 DEF Flag
    <3>2. t.sink # None => V[t.sink].shape.view = "LOCAL_VIEW" \/ V[t.sink].shape.ndims = 1
      BY <1>1, <1>5, <1>19, <1>25 DEF Agreed
    <3>3. \A z \in Uses(t) : z \in B => t.sink = None /\ \A y \in Uses(t) : y \in B
      BY <1>5, <1>7, <1>25 DEF Agreed
    <3>4. t.pc = "defer" => \A z \in Uses(t) : z \notin B
      <4>. SUFFICES ASSUME t.pc = "defer", NEW z \in Uses(t), z \in B PROVE FALSE
        OBVIOUS
      <4>1. s.sink = None /\ \A y \in Uses(s) : y \in B
        BY <1>5, <1>7, <3>3
      <4>2. at
        BY <1>1, <4>1, StateIs, UsesAre
      <4>. QED BY <1>23, <4>2
    <3>5. \A j \in DOMAIN t.wins : Flag(V[t.wins[j]], t.kind)
      <4>1. \A j \in D : Flag(W[s.wins[j]], k)
        BY <1>25 DEF Agreed
      <4>. QED BY <1>3, <1>5, <3>1, <4>1
    <3>6. t.sink # None => Flag(V[t.sink], t.kind)
      <4>1. s.sink # None => Flag(W[s.sink], k)
        BY <1>25 DEF Agreed
      <4>. QED BY <1>1, <1>5, <3>1, <4>1
    <3>. HIDE DEF k, D
    <3>. QED BY <3>2, <3>3, <3>4, <3>5, <3>6 DEF Agreed
  <2>2. ASSUME NEW z \in Range(t.wins)
        PROVE  /\ k = "bulk" => Room(V[z], Among(t, ToPost(t), z), s.count)
               /\ V[z].bufc < PREALLOC =>
                    \A j \in V[z].gets[ListOf(V[z], k)] + 1 .. Len(V[z].info[ListOf(V[z], k)]) :
                      V[z].info[ListOf(V[z], k)][j].count = s.count
    <3>1. z \in Windows /\ z \in Range(s.wins)
      BY <1>5, <1>7
    <3>2. /\ k = "bulk" => Room(W[z], Among(s, s.todo, z), s.count)
          /\ W[z].bufc < PREALLOC =>
               \A j \in W[z].gets[ListOf(W[z], k)] + 1 .. Len(W[z].info[ListOf(W[z], k)]) : W[z].info[ListOf(W[z], k)][j].count = s.count
      BY <1>6, <3>1 DEF Begun, Roomy, ToPost
    <3>3. k = "bulk" => Room(V[z], Among(t, ToPost(t), z), s.count)
      <4>. SUFFICES ASSUME k = "bulk" PROVE Room(V[z], Among(t, ToPost(t), z), s.count)
        OBVIOUS
      <4>1. CASE t.pc = "defer"
        <5>1. Among(t, ToPost(t), z) = 0
          BY <4>1 DEF ToPost, Among
        <5>2. 1 .. 0 = {}
          OBVIOUS
        <5>. QED BY <5>1, <5>2 DEF Room
      <4>2. CASE t.pc = "post" /\ z # w
        <5>1. Among(t, ToPost(t), z) = Among(s, s.todo, z)
          BY <1>10, <4>2
        <5>. QED BY <1>18, <3>1, <3>2, <4>2, <5>1
      <4>3. CASE t.pc = "post" /\ z = w
        <5>1. Among(t, ToPost(t), w) = Expected(t, w) /\ Expected(t, w) \in Nat
          BY <1>10, <4>3
        <5>2. Room(v, Expected(t, w) + 1, s.count)
          BY <1>11
        <5>3. v.bufc < PREALLOC => SizeOf(k, r) = s.count
          BY <1>12, <1>13
        <5>4. (u.bufc = v.bufc \/ u.bufc = v.bufc + s.count) /\ (u.bufc = v.bufc => v.bufc >= PREALLOC \/ s.count = 0)
          <6>1. CASE v.bufc >= PREALLOC
            <7>1. u = v
              BY <1>9, <1>16, <6>1
            <7>. QED BY <6>1, <7>1
          <6>2. CASE v.bufc < PREALLOC
            <7>1. u.bufc = v.bufc + SizeOf(k, r)
              BY <1>9, <1>16, <6>2
            <7>2. u.bufc = v.bufc + s.count
              BY <5>3, <6>2, <7>1
            <7>. HIDE DEF v
            <7>. QED BY <1>1, <1>9, <7>2
          <6>. QED BY <1>9, <6>1, <6>2
        <5>5. s.count # 0
          BY <1>1, StateIs
        <5>6. Room(u, Expected(t, w), s.count)
          <6>. HIDE DEF v
          <6>. QED BY <1>1, <1>4, <1>17, <5>1, <5>2, <5>4, <5>5, RoomLess
        <5>. QED BY <1>18, <4>3, <5>1, <5>6
      <4>. QED BY <1>26, <4>1, <4>2, <4>3
    <3>4. CASE z # w
      BY <1>18, <3>1, <3>2, <3>3, <3>4
    <3>5. CASE z = w
      <4>1. V[z] = u /\ ListOf(V[z], k) = q /\ u.info = v.info
        BY <1>16, <1>18, <1>20, <3>5
      <4>2. v.bufc < PREALLOC => \A j \in v.gets[q] + 1 .. L : v.info[q][j].count = s.count
        BY <3>2, <3>5
      <4>3. u.bufc < PREALLOC => \A j \in u.gets[q] + 1 .. L : v.info[q][j].count = s.count
        <5>. SUFFICES ASSUME u.bufc < PREALLOC, NEW j \in u.gets[q] + 1 .. L PROVE v.info[q][j].count = s.count
          OBVIOUS
        <5>1. v.bufc < PREALLOC
          BY <1>9, <1>16
        <5>2. u.gets[q] = v.gets[q] + 1
          BY <1>9, <1>16, <5>1
        <5>3. j \in v.gets[q] + 1 .. L
          <6>. HIDE DEF v, L, q
          <6>. QED BY <1>9, <5>2
        <5>. QED BY <4>2, <5>1, <5>3
      <4>. HIDE DEF q, v, w, k, L
      <4>. QED BY <3>3, <4>1, <4>3 DEF L
    <3>. QED BY <3>4, <3>5
  <2>3. Roomy(V, t)
    BY <1>5, <2>2 DEF Roomy
  <2>4. Stored(Y, t)
    <3>1. CASE t.pc = "post"
      <4>1. Y = X /\ t.pc # "defer"
        BY <1>23, <3>1
      <4>2. s.sink # None /\ Placed(X[k], s.count) => Placed(X[k] + s.count, OBJECT)
        BY <1>6 DEF Begun, Stored
      <4>. QED BY <1>5, <4>1, <4>2 DEF Stored
    <3>2. CASE t.pc = "defer"
      <4>1. s.sink # None /\ Placed(X[k], s.count) => Placed(X[k] + s.count, OBJECT)
        BY <1>6 DEF Begun, Stored
      <4>2. pl => Placed(Y[k], OBJECT)
        BY <4>1 DEF Taken
      <4>. QED BY <1>5, <3>2, <4>2 DEF Stored
    <3>. QED BY <1>26, <3>1, <3>2
  <2>5. Numbered(t, m)
    <3>1. Ordered(t, m)
      BY <1>5, <1>25 DEF Ordered
    <3>. QED BY <1>5, <1>23, <1>25, <3>1 DEF Numbered
  <2>6. Ignoring(V, t, m)
    BY <1>26 DEF Ignoring
  <2>. QED BY <1>5, <1>24, <1>25, <2>1, <2>3, <2>4, <2>5, <2>6 DEF Begun
<1>27. ASSUME t.pc = "eval" PROVE Ended(B, V, t, m) /\ t.sink = None
  <2>1. at /\ s.todo = {i} /\ t.todo = D /\ (\A j \in D : t.got[j] = {}) /\ DOMAIN t.got = D /\ t.order = <<>> /\ D # {}
    BY <1>2, <1>5, <1>23, <1>25, <1>27
  <2>2. s.sink = None
    <3>. SUFFICES ASSUME s.sink # None PROVE FALSE
      OBVIOUS
    <3>1. s.sink \in B /\ s.sink \in Uses(s)
      BY <1>1, <2>1, StateIs, UsesAre
    <3>. QED BY <1>25, <3>1 DEF Agreed
  <2>3. Range(s.wins) \subseteq B
    <3>1. \A j \in D : s.wins[j] \in B
      BY <2>1, <2>2
    <3>. QED BY <3>1 DEF Range
  <2>4. s.sinkId = 0
    BY <1>25, <2>2 DEF Numbered
  <2>5. Ordered(t, m)
    BY <1>5, <1>25 DEF Ordered
  <2>6. ReadOK(t)
    <3>1. DOMAIN t.wins = D /\ D \ t.todo = {}
      BY <1>5, <2>1
    <3>2. \A j \in D : t.todo # D \ {j}
      BY <2>1
    <3>. HIDE DEF D
    <3>. QED BY <2>1, <3>1, <3>2 DEF ReadOK
  <2>. QED BY <1>5, <1>25, <1>27, <2>1, <2>2, <2>3, <2>4, <2>5, <2>6 DEF Ended
<1>28. Queued(B, V, H, m)
  <2>1. m <= m /\ \A j \in Kinds : Flag(v, j) => Flag(u, j)
    BY <1>1, <1>16 DEF Flag
  <2>. HIDE DEF w, v
  <2>. QED BY <1>1, <1>4, <1>6, <1>17, <2>1, QueuedOn DEF V, v
<1>29. After(H, t)
  BY <1>2, <1>5, <1>6 DEF After
<1>30. Before(H, t) /\ Turns(H, t) /\ FlushOK(H, t)
  BY <1>2, <1>5, <1>6, <1>23, <1>25, RestStill
<1>31. Linked(V, H, t)
  <2>1. \A j \in DOMAIN s.got : s.got[j] = {}
    BY <1>6 DEF Begun
  <2>2. \A z \in Windows : HeldGets(t, z) = HeldGets(s, z)
    BY <1>5, <1>23, <1>24, <2>1 DEF HeldGets
  <2>3. \A z \in Windows : HeldPuts(t, z) = HeldPuts(s, z)
    <3>1. \A z \in Windows : t.pc = "eval" => s.sink # z
      BY <1>5, <1>27, Bounds
    <3>2. t.pc # "eval" => t.pc \in {"post", "defer"}
      BY <1>23
    <3>. QED BY <1>5, <3>1, <3>2 DEF HeldPuts
  <2>4. Pending(v) = QueuedGets(H, w) \cup HeldGets(s, w) /\ ToPut(v) = QueuedPuts(H, w) \cup HeldPuts(s, w)
    BY <1>4, <1>6 DEF Linked
  <2>5. Pending(u) = QueuedGets(H, w) \cup HeldGets(t, w) /\ ToPut(u) = QueuedPuts(H, w) \cup HeldPuts(t, w)
    BY <1>4, <1>16, <2>2, <2>3, <2>4
  <2>. HIDE DEF w
  <2>. QED BY <1>1, <1>4, <1>6, <1>17, <2>2, <2>3, <2>5, LinkedAgain DEF V
<1>32. t.pc \in Pcs \ {"put", "again", "undefined"} /\ (t.pc \in Beginning <=> t.pc \in {"post", "defer"}) /\ (t.pc \in Ending <=> t.pc = "eval")
  BY <1>23 DEF Pcs, Busy, Beginning, Ending
<1>33. StatementOK(B, V, H, Y, t, m)
  BY <1>22, <1>26, <1>27, <1>28, <1>29, <1>30, <1>31, <1>32 DEF StatementOK
<1>. QED
  BY <1>14, <1>33 DEF V, u, t

\* Sets of one and of two.
LEMMA OneOrTwo ==
  /\ \A x : Cardinality({x}) = 1
  /\ \A x, y : x # y => Cardinality({x, y}) = 2
<1>1. \A x : IsFiniteSet({x}) /\ Cardinality({x}) = 1
  BY FS_Singleton
<1>2. ASSUME NEW x, NEW y, x # y PROVE Cardinality({x, y}) = 2
  <2>1. IsFiniteSet({x} \cup {y}) /\ Cardinality({x} \cup {y}) = IF y \in {x} THEN Cardinality({x}) ELSE Cardinality({x}) + 1
    BY <1>1, FS_AddElement
  <2>2. {x} \cup {y} = {x, y}
    OBVIOUS
  <2>. QED BY <1>1, <1>2, <2>1, <2>2
<1>. QED BY <1>1, <1>2

\* A set of operands has as many members as are in it.
LEMMA PairCount ==
  ASSUME NEW A \in SUBSET {1, 2}
  PROVE  Cardinality(A) = (IF 1 \in A THEN 1 ELSE 0) + (IF 2 \in A THEN 1 ELSE 0)
<1>1. A = {} \/ A = {1} \/ A = {2} \/ A = {1, 2}
  OBVIOUS
<1>2. Cardinality({}) = 0 /\ Cardinality({1}) = 1 /\ Cardinality({2}) = 1 /\ Cardinality({1, 2}) = 2
  <2>1. 1 # 2
    OBVIOUS
  <2>. QED BY <2>1, FS_EmptySet, OneOrTwo
<1>3. CASE A = {}
  BY <1>2, <1>3
<1>4. CASE A = {1}
  <2>1. 1 \in A /\ 2 \notin A
    BY <1>4
  <2>. QED BY <1>2, <1>4, <2>1
<1>5. CASE A = {2}
  <2>1. 2 \in A /\ 1 \notin A
    BY <1>5
  <2>. QED BY <1>2, <1>5, <2>1
<1>6. CASE A = {1, 2}
  <2>1. 1 \in A /\ 2 \in A
    BY <1>6
  <2>. QED BY <1>2, <1>6, <2>1
<1>. QED BY <1>1, <1>3, <1>4, <1>5, <1>6

\* What a statement asks room for is what it will post.
LEMMA AmongCount ==
  ASSUME NEW a \in 1 .. 2, NEW ws \in [1 .. a -> Windows], NEW s, s.wins = ws, NEW w, NEW A,
         A = {i \in DOMAIN ws : ws[i] = w}
  PROVE  Cardinality(A) = Among(s, DOMAIN ws, w)
<1>1. Among(s, DOMAIN ws, w) = (IF 1 \in A THEN 1 ELSE 0) + (IF 2 \in A THEN 1 ELSE 0)
  BY DEF Among
<1>2. A \in SUBSET {1, 2}
  OBVIOUS
<1>. QED BY <1>1, <1>2, PairCount

\* Supported, of constants.
Allowed(B, W, X, k, ws, x, c) ==
  LET used == {ws[i] : i \in DOMAIN ws} \cup ({x} \ {None}) IN
  /\ \A w \in used : w \in B => x = None /\ \A u \in used : u \in B
  /\ \A w \in used : w \notin B => IF k = "elem" THEN ~W[w].isBulk ELSE ~W[w].isElem
  /\ k = "bulk" => \A w \in used : Room(W[w], Cardinality({i \in DOMAIN ws : ws[i] = w}), c)
  /\ x # None => W[x].shape.view = "LOCAL_VIEW" \/ W[x].shape.ndims = 1
  /\ x # None /\ Placed(X[k], c) => Placed(X[k] + c, OBJECT)

\* A window that no statement is about and that flagged none of the other kind changes its kind.
LEMMA FreeSound ==
  ASSUME NEW B, NEW W, NEW H, NEW X, NEW m, Sane(B, W, H, X, Idle, m), NEW z \in Windows, NEW k \in Kinds,
         z \notin B => \A j \in Kinds \ {k} : ~Flag(W[z], j)
  PROVE  Sound(B, W[z], Idle, z, k, m)
<1>. DEFINE v == W[z]
<1>1. /\ B \subseteq Windows /\ W \in [Windows -> Members] /\ H \in [Kinds -> Seq(Checked)] /\ m \in Nat /\ v \in Members
      /\ AllSound(B, W, Idle, m) /\ Queued(B, W, H, m) /\ Linked(W, H, Idle)
  BY TypedIs, SaneIs
<1>2. PICK l \in Kinds : Sound(B, v, Idle, z, l, m)
  BY <1>1 DEF AllSound
<1>3. Expected(Idle, z) = 0
  BY DEF Expected, Opening, Sinking, Among, Idle
<1>4. CASE l = k
  BY <1>2, <1>4
<1>5. CASE l # k
  <2>1. ~Flag(v, k) \/ z \in B
    BY <1>2, <1>5 DEF Sound, Only, Flag, Kinds
  <2>2. \A j \in Kinds : z \notin B => ~Flag(v, j)
    BY <2>1
  <2>3. ASSUME NEW j \in Kinds, NEW a \in DOMAIN H[j] PROVE z \notin Uses(H[j][a])
    <3>1. QueuedOne(B, W, H[j][a], j, m)
      BY <1>1 DEF Queued
    <3>. QED BY <2>2, <3>1 DEF QueuedOne
  <2>4. ASSUME NEW j \in Kinds, NEW a \in DOMAIN H[j]
        PROVE  /\ \A i \in DOMAIN H[j][a].wins : H[j][a].wins[i] # z
               /\ H[j][a].what = "put" => H[j][a].sink # z
    <3>1. PICK h : h = H[j][a] /\ h \in Handle /\ HandleOK(h)
      BY TypedIs, SaneIs
    <3>2. h.wins \in Seq(Windows) /\ h.sink \in Windows \cup {None} /\ (h.what = "put" => h.sink \in Windows)
      BY <3>1, HandleIs DEF HandleOK
    <3>3. /\ \A i \in DOMAIN h.wins : h.wins[i] \in Uses(h)
          /\ h.sink # None => h.sink \in Uses(h)
      BY <3>2, UsesAre
    <3>4. h.what = "put" => h.sink # None
      BY <3>2, Bounds
    <3>. QED BY <2>3, <3>1, <3>3, <3>4
  <2>5. QueuedGets(H, z) = {} /\ QueuedPuts(H, z) = {}
    BY <2>4 DEF QueuedGets, QueuedPuts
  <2>6. HeldGets(Idle, z) = {}
    BY DEF HeldGets, Idle
  <2>7. Pending(v) = {}
    BY <1>1, <2>5, <2>6 DEF Linked
  <2>8. \A q \in Lists : v.puts[q] = <<>>
    <3>1. z \in B => \A q \in Lists : v.puts[q] = <<>>
      BY <1>2 DEF Sound
    <3>2. z \notin B => ~Flag(v, l)
      BY <2>2
    <3>. QED BY <1>2, <3>1, <3>2 DEF Sound, Good
  <2>9. Good(v, l, m) /\ (v.bufc < PREALLOC => Unposted(v, l) = 0)
    BY <1>2, <1>3 DEF Sound
  <2>10. Good(v, k, m) /\ (v.bufc < PREALLOC => Unposted(v, k) = 0)
    <3>. HIDE DEF v
    <3>. QED BY <1>1, <2>7, <2>8, <2>9, SwitchGood
  <2>11. z \notin B => Only(v, k)
    BY <2>2 DEF Only, Flag, Kinds
  <2>. QED BY <1>3, <2>8, <2>10, <2>11 DEF Sound
<1>. QED BY <1>4, <1>5

\* A supported statement begins as the invariant has it.
LEMMA BeginKeeps ==
  ASSUME NEW B, NEW W, NEW H, NEW X, NEW m, Sane(B, W, H, X, Idle, m), NEW k \in Kinds, NEW a \in 1 .. 2,
         NEW x \in Windows \cup {None}, NEW ws \in [1 .. a -> Windows], NEW c \in Nat \ {0}, Allowed(B, W, X, k, ws, x, c)
  PROVE  StatementOK(B, W, H, X, BeginState(k, ws, a, x, c), m)
<1>. DEFINE t == BeginState(k, ws, a, x, c)
            D == 1 .. a
<1>1. /\ B \subseteq Windows /\ W \in [Windows -> Members] /\ H \in [Kinds -> Seq(Checked)] /\ m \in Nat
      /\ AllSound(B, W, Idle, m) /\ Queued(B, W, H, m) /\ Turns(H, Idle) /\ FlushOK(H, Idle) /\ Linked(W, H, Idle)
  BY TypedIs, SaneIs
<1>0. DOMAIN ws = D /\ Len(ws) = a
  BY BeginStateIs
<1>2. /\ t \in State /\ StateOK(t)
      /\ DOMAIN t.ids = D /\ (\A i \in D : t.ids[i] = 0) /\ t.opened = <<>> /\ t.todo = D /\ t.pc = "open"
      /\ t.kind = k /\ t.wins = ws /\ t.count = c /\ t.got = <<>>
      /\ t.order = <<>> /\ t.sink = x /\ t.sinkId = 0 /\ t.flushing = None
      /\ t.run = {} /\ t.val = 0 /\ t.put = <<>> /\ t.deletes = FALSE
      /\ DOMAIN ws = D /\ Len(ws) = a
  <2>1. t \in State /\ StateOK(t)
    BY BeginStateIs
  <2>2. DOMAIN t.ids = D /\ (\A i \in D : t.ids[i] = 0)
    <3>1. t.ids = [i \in 1 .. a |-> 0]
      BY DEF BeginState, Idle
    <3>. QED BY <3>1
  <2>3. t.opened = <<>> /\ t.todo = D /\ t.pc = "open"
    BY DEF BeginState, Idle
  <2>4. t.kind = k /\ t.wins = ws /\ t.count = c /\ t.got = <<>>
    BY DEF BeginState, Idle
  <2>5. t.order = <<>> /\ t.sink = x /\ t.sinkId = 0 /\ t.flushing = None
    BY DEF BeginState, Idle
  <2>6. t.run = {} /\ t.val = 0 /\ t.put = <<>> /\ t.deletes = FALSE
    BY DEF BeginState, Idle
  <2>. HIDE DEF t, D
  <2>. QED BY <1>0, <2>1, <2>2, <2>3, <2>4, <2>5, <2>6
<1>3. D \in {{1}, {1, 2}} /\ D \subseteq {1, 2} /\ (a = 2 => D = {1, 2})
  OBVIOUS
<1>. HIDE DEF t, D
<1>4. Uses(t) = {ws[i] : i \in DOMAIN ws} \cup ({x} \ {None})
  BY <1>2 DEF Uses, Range
<1>5. Uses(t) \subseteq Windows /\ Range(ws) \subseteq Uses(t) /\ \A i \in D : ws[i] \in Uses(t)
  BY <1>2, <1>4 DEF Range, D
<1>6. \A w : Expected(t, w) = 0 /\ Expected(Idle, w) = 0
  <2>. TAKE w
  <2>1. Opening(t) = {} /\ Opening(Idle) = {} /\ Sinking(t, w) = 0 /\ Sinking(Idle, w) = 0
    BY <1>2 DEF Opening, Sinking, Idle
  <2>2. Among(t, {}, w) = 0 /\ Among(Idle, {}, w) = 0
    BY DEF Among
  <2>. QED BY <2>1, <2>2 DEF Expected
<1>7. ASSUME NEW w \in Windows, NEW l \in Kinds, Sound(B, W[w], Idle, w, l, m)
      PROVE  Sound(B, W[w], t, w, l, m)
  BY <1>6, <1>7 DEF Sound
<1>8. ASSUME NEW w \in Uses(t) PROVE Sound(B, W[w], t, w, k, m) /\ Sound(B, W[w], Idle, w, k, m)
  <2>1. w \in Windows
    BY <1>5
  <2>2. w \notin B => \A j \in Kinds \ {k} : ~Flag(W[w], j)
    BY <1>4 DEF Allowed, Flag, Kinds
  <2>3. Sound(B, W[w], Idle, w, k, m)
    BY <2>1, <2>2, FreeSound
  <2>. QED BY <1>7, <2>1, <2>3
<1>9. AllSound(B, W, t, m)
  BY <1>1, <1>2, <1>7, <1>8 DEF AllSound
<1>10. Agreed(B, W, t)
  BY <1>2, <1>4 DEF Agreed, Allowed
<1>11. ASSUME NEW w \in Range(t.wins)
       PROVE  /\ k = "bulk" => Room(W[w], Among(t, ToPost(t), w), c)
              /\ W[w].bufc < PREALLOC => W[w].gets[ListOf(W[w], k)] + 1 .. Len(W[w].info[ListOf(W[w], k)]) = {}
  <2>1. w \in Uses(t) /\ w \in Windows /\ W[w] \in Members /\ ListOf(W[w], k) \in Lists
    BY <1>1, <1>2, <1>5, ListIs
  <2>2. ToPost(t) = DOMAIN ws
    BY <1>2 DEF ToPost
  <2>3. PICK A : A = {i \in DOMAIN ws : ws[i] = w}
    OBVIOUS
  <2>6. Cardinality(A) = Among(t, DOMAIN ws, w)
    <3>1. t.wins = ws
      BY <1>2
    <3>. QED BY <2>3, <3>1, AmongCount, Zenon
  <2>4. k = "bulk" => Room(W[w], Cardinality({i \in DOMAIN ws : ws[i] = w}), c)
    BY <1>4, <2>1 DEF Allowed
  <2>5. ASSUME W[w].bufc < PREALLOC PROVE W[w].gets[ListOf(W[w], k)] + 1 .. Len(W[w].info[ListOf(W[w], k)]) = {}
    <3>1. Len(W[w].info[ListOf(W[w], k)]) - W[w].gets[ListOf(W[w], k)] = 0
      BY <1>6, <1>8, <2>1, <2>5 DEF Sound, Unposted
    <3>2. PICK g, l : g \in Nat /\ l \in Nat /\ g = W[w].gets[ListOf(W[w], k)] /\ l = Len(W[w].info[ListOf(W[w], k)])
      BY <2>1, ListsAre
    <3>3. l - g = 0
      BY <3>1, <3>2
    <3>4. g + 1 .. l = {}
      BY <3>2, <3>3
    <3>. QED BY <3>2, <3>4
  <2>. QED BY <2>2, <2>3, <2>4, <2>5, <2>6
<1>12. Roomy(W, t)
  BY <1>2, <1>11 DEF Roomy
<1>13. Stored(X, t)
  <2>1. x # None /\ Placed(X[k], c) => Placed(X[k] + c, OBJECT)
    BY DEF Allowed
  <2>2. t.pc # "defer"
    BY <1>2
  <2>. QED BY <1>2, <2>1, <2>2 DEF Stored
<1>14. Numbered(t, m)
  <2>1. \A i \in D : 0 <= m
    BY <1>1
  <2>2. DOMAIN t.ids = D /\ \A i \in D : t.ids[i] = 0
    BY <1>2
  <2>3. Len(t.wins) = 2 => t.todo = {1, 2}
    BY <1>2, <1>3
  <2>. QED BY <1>2, <2>1, <2>2, <2>3 DEF Numbered
<1>15. Begun(B, W, X, t, m)
  <2>1. DOMAIN t.got = {}
    BY <1>2
  <2>2. Ignoring(W, t, m)
    BY <1>2 DEF Ignoring
  <2>. QED BY <1>2, <1>10, <1>12, <1>13, <1>14, <2>1, <2>2 DEF Begun
<1>16. After(H, t)
  BY <1>2 DEF After
<1>17. Before(H, t) /\ Turns(H, t) /\ FlushOK(H, t)
  BY <1>1, <1>2, RestStill DEF Idle
<1>18. Linked(W, H, t)
  <2>1. \A z : HeldGets(t, z) = {} /\ HeldGets(Idle, z) = {} /\ HeldPuts(t, z) = {} /\ HeldPuts(Idle, z) = {}
    <3>1. \A i \in DOMAIN t.wins : t.ids[i] = 0
      BY <1>2
    <3>2. 0 \notin Accesses
      BY Bounds
    <3>3. DOMAIN Idle.wins = {} /\ Idle.pc = "idle"
      BY DEF Idle
    <3>. QED BY <1>2, <3>1, <3>2, <3>3 DEF HeldGets, HeldPuts
  <2>. QED BY <1>1, <2>1 DEF Linked
<1>19. t.pc \in Pcs \ {"put", "again", "undefined"} /\ t.pc \notin Ending
  BY <1>2 DEF Pcs, Busy, Beginning, Ending
<1>. QED
  BY <1>1, <1>9, <1>15, <1>16, <1>17, <1>18, <1>19 DEF StatementOK, t
\* Handles G are H and the expression e of statement s and, if it puts, its put p; of the
\* stores X is taken.
Deferred(H, G, X, s, e, p) ==
  /\ \A j \in Kinds \ {s.kind} : G[j] = H[j]
  /\ s.sink = None => Len(G[s.kind]) = Len(H[s.kind]) + 1
  /\ s.sink # None => Len(G[s.kind]) = Len(H[s.kind]) + 2
  /\ \A a \in DOMAIN H[s.kind] : G[s.kind][a] = H[s.kind][a]
  /\ e = G[s.kind][Len(H[s.kind]) + 1] /\ e.what = "expr"
  /\ e.wins = s.wins /\ e.ids = s.ids /\ e.opened = s.opened /\ e.sink = s.sink /\ e.id = s.sinkId
  /\ e.deletes => s.placed /\ ~Placed(X[s.kind], OBJECT)
  /\ s.sink # None => /\ p = G[s.kind][Len(H[s.kind]) + 2] /\ p.what = "put" /\ p.wins = <<>> /\ p.ids = <<>>
                      /\ p.sink = s.sink /\ p.id = s.sinkId /\ ~p.deletes

\* A statement becomes a handle, and what it puts another one.
LEMMA DeferKeeps ==
  ASSUME NEW B, NEW W, NEW H, NEW X, NEW s, NEW m, Sane(B, W, H, X, s, m), s.pc = "defer",
         NEW G \in [Kinds -> Seq(Checked)], NEW e, NEW p, Deferred(H, G, X, s, e, p), NEW Y
  PROVE  StatementOK(B, W, G, Y, Idle, m)
<1>. USE DEF Deferred
<1>. DEFINE k == s.kind
            l == Len(H[k])
            D == DOMAIN s.wins
<1>1. /\ B \subseteq Windows /\ W \in [Windows -> Members] /\ H \in [Kinds -> Seq(Checked)]
      /\ s \in State /\ StateOK(s) /\ m \in Nat /\ k \in Kinds /\ s.sink \in Windows \cup {None} /\ l \in Nat
      /\ \A j \in Kinds : DOMAIN H[j] = 1 .. Len(H[j]) /\ Len(H[j]) \in Nat
  BY TypedIs, SaneIs, StateIs
<1>2. s.pc \in Busy /\ s.pc \in Beginning
  BY DEF Busy, Beginning
<1>3. /\ DOMAIN s.ids = D /\ D \subseteq {1, 2} /\ 1 \in D
      /\ \A j \in D : s.wins[j] \in Windows /\ s.ids[j] \in Int
  BY <1>1, <1>2, NumbersAre
<1>4. Begun(B, W, X, s, m) /\ AllSound(B, W, s, m) /\ Queued(B, W, H, m) /\ After(H, s) /\ Turns(H, s) /\ FlushOK(H, s)
      /\ Linked(W, H, s)
  BY <1>2, SaneIs
<1>5. /\ Agreed(B, W, s) /\ Ordered(s, m) /\ (s.sink # None <=> s.sinkId # 0) /\ (s.sinkId # 0 => s.sinkId <= m)
      /\ s.sinkId \in 0 .. m /\ (s.placed => Placed(X[k], OBJECT)) /\ \A j \in DOMAIN s.got : s.got[j] = {}
  <2>1. /\ Agreed(B, W, s) /\ Ordered(s, m) /\ (s.sink # None <=> s.sinkId # 0) /\ (s.sinkId # 0 => s.sinkId <= m)
        /\ (s.placed => Placed(X[k], OBJECT)) /\ \A j \in DOMAIN s.got : s.got[j] = {}
    BY <1>4 DEF Begun, Numbered, Stored
  <2>2. s.sinkId \in Nat
    BY <1>1, StateIs
  <2>. QED BY <1>1, <2>1, <2>2
<1>6. \A w \in Uses(s) : w \notin B /\ Flag(W[w], k)
  <2>. TAKE w \in Uses(s)
  <2>1. w \notin B
    BY <1>5 DEF Agreed
  <2>2. \A j \in D : Flag(W[s.wins[j]], k)
    BY <1>5 DEF Agreed
  <2>3. s.sink # None => Flag(W[s.sink], k)
    BY <1>5 DEF Agreed
  <2>. QED BY <2>1, <2>2, <2>3 DEF Uses, Range
<1>7. ~e.deletes
  BY <1>5
\* The queues.
<1>8. \A j \in Kinds : DOMAIN G[j] = 1 .. Len(G[j])
  BY LenProperties
<1>9. DOMAIN H[k] = 1 .. l /\ DOMAIN G[k] = 1 .. (l + (IF s.sink = None THEN 1 ELSE 2))
  BY <1>1, <1>8
<1>10. ASSUME NEW j \in Kinds, NEW a \in DOMAIN G[j]
       PROVE  /\ a \in Nat
              /\ \/ a \in DOMAIN H[j] /\ G[j][a] = H[j][a]
                 \/ j = k /\ a = l + 1 /\ G[j][a] = e
                 \/ j = k /\ a = l + 2 /\ s.sink # None /\ G[j][a] = p
  <2>1. CASE j # k
    <3>1. G[j] = H[j]
      BY <2>1
    <3>. QED BY <1>1, <3>1
  <2>2. CASE j = k
    <3>1. a \in 1 .. (l + (IF s.sink = None THEN 1 ELSE 2))
      BY <1>9, <2>2
    <3>2. a \in 1 .. l \/ a = l + 1 \/ (a = l + 2 /\ s.sink # None)
      <4>. HIDE DEF l
      <4>. QED BY <1>1, <3>1
    <3>3. a \in 1 .. l => a \in DOMAIN H[j] /\ G[j][a] = H[j][a]
      BY <1>9, <2>2
    <3>4. a \in Nat
      <4>. HIDE DEF l
      <4>. QED BY <1>1, <3>1
    <3>. QED BY <2>2, <3>2, <3>3, <3>4
  <2>. QED BY <2>1, <2>2
<1>11. ASSUME NEW j \in Kinds, NEW a \in DOMAIN H[j] PROVE a \in DOMAIN G[j] /\ G[j][a] = H[j][a] /\ (j = k => a \in Nat /\ a <= l)
  <2>1. CASE j # k
    <3>1. G[j] = H[j]
      BY <2>1
    <3>. QED BY <2>1, <3>1
  <2>2. CASE j = k
    <3>1. a \in 1 .. l
      BY <1>9, <2>2
    <3>2. a \in 1 .. (l + (IF s.sink = None THEN 1 ELSE 2)) /\ a \in Nat /\ a <= l
      <4>. HIDE DEF l
      <4>. QED BY <1>1, <3>1
    <3>. QED BY <1>9, <2>2, <3>1, <3>2
  <2>. QED BY <2>1, <2>2
<1>12. l + 1 \in DOMAIN G[k] /\ (s.sink # None => l + 2 \in DOMAIN G[k]) /\ l + 1 \notin DOMAIN H[k] /\ l + 2 \notin DOMAIN H[k] /\ l + 1 # l + 2
  <2>1. /\ l + 1 \in 1 .. (l + (IF s.sink = None THEN 1 ELSE 2)) /\ (s.sink # None => l + 2 \in 1 .. (l + (IF s.sink = None THEN 1 ELSE 2)))
        /\ l + 1 \notin 1 .. l /\ l + 2 \notin 1 .. l /\ l + 1 # l + 2
    <3>. HIDE DEF l
    <3>. QED BY <1>1
  <2>. HIDE DEF l, k
  <2>. QED BY <1>9, <2>1
<1>13. G[k][l + 1] = e /\ (s.sink # None => G[k][l + 2] = p)
  OBVIOUS
<1>14. e.what = "expr" /\ e.wins = s.wins /\ e.ids = s.ids /\ e.opened = s.opened /\ e.sink = s.sink /\ e.id = s.sinkId
  OBVIOUS
<1>15. s.sink # None => p.what = "put" /\ p.wins = <<>> /\ p.ids = <<>> /\ p.sink = s.sink /\ p.id = s.sinkId /\ ~p.deletes
  OBVIOUS
<1>. HIDE DEF l, k
\* Handle by handle, and two by two.
<1>16. QueuedOne(B, W, e, k, m)
  <2>1. Ordered(e, m)
    BY <1>5, <1>14 DEF Ordered
  <2>2. Uses(e) = Uses(s)
    BY <1>14 DEF Uses
  <2>. QED BY <1>5, <1>6, <1>7, <1>14, <2>1, <2>2 DEF QueuedOne
<1>17. s.sink # None => QueuedOne(B, W, p, k, m)
  <2>. SUFFICES ASSUME s.sink # None PROVE QueuedOne(B, W, p, k, m)
    OBVIOUS
  <2>1. Uses(p) \subseteq Uses(s)
    BY <1>15 DEF Uses, Range
  <2>. QED BY <1>5, <1>6, <1>15, <2>1 DEF QueuedOne
<1>18. \A j \in Kinds : \A a \in DOMAIN G[j] : QueuedOne(B, W, G[j][a], j, m)
  <2>. TAKE j \in Kinds
  <2>. TAKE a \in DOMAIN G[j]
  <2>1. a \in DOMAIN H[j] => QueuedOne(B, W, H[j][a], j, m)
    BY <1>4 DEF Queued
  <2>. QED BY <1>10, <1>16, <1>17, <2>1
<1>19. ASSUME NEW j \in Kinds, NEW a \in DOMAIN G[j], NEW b \in DOMAIN G[j], a < b PROVE QueuedTwo(G[j][a], G[j][b])
  <2>1. CASE b \in DOMAIN H[j] /\ G[j][b] = H[j][b]
    <3>1. a \in DOMAIN H[j] /\ G[j][a] = H[j][a]
      <4>1. j = k => b <= l /\ a \in Nat /\ b \in Nat
        BY <1>10, <1>11, <2>1
      <4>2. j = k => a # l + 1 /\ a # l + 2
        BY <1>1, <1>19, <4>1
      <4>. QED BY <1>10, <4>2
    <3>. QED BY <1>4, <1>19, <2>1, <3>1 DEF Queued
  <2>2. CASE j = k /\ b = l + 1 /\ G[j][b] = e
    <3>1. a \in DOMAIN H[j] /\ G[j][a] = H[j][a]
      <4>1. a \in Nat
        BY <1>10
      <4>2. a # l + 1 /\ a # l + 2
        BY <1>1, <1>19, <2>2, <4>1
      <4>. QED BY <1>10, <4>2
    <3>2. \A i \in DOMAIN s.ids : s.ids[i] # 0
      BY <1>1, <1>5 DEF Ordered
    <3>3. \A i \in DOMAIN H[j][a].ids, y \in DOMAIN e.ids : H[j][a].ids[i] < e.ids[y]
      BY <1>2, <1>4, <1>14, <3>1, <3>2 DEF After
    <3>. QED BY <1>14, <2>2, <3>1, <3>3 DEF QueuedTwo
  <2>3. CASE j = k /\ b = l + 2 /\ s.sink # None /\ G[j][b] = p
    <3>1. DOMAIN p.ids = {}
      BY <1>15, <2>3
    <3>2. CASE G[j][a] = e
      BY <1>14, <2>3, <3>1, <3>2 DEF QueuedTwo
    <3>3. CASE a \in DOMAIN H[j] /\ G[j][a] = H[j][a]
      <4>1. H[j][a].id < s.sinkId
        BY <1>2, <1>4, <1>5, <2>3, <3>3 DEF After
      <4>. QED BY <1>15, <2>3, <3>1, <3>3, <4>1 DEF QueuedTwo
    <3>4. a # l + 2
      <4>1. a \in Nat
        BY <1>10
      <4>. QED BY <1>1, <1>19, <2>3, <4>1
    <3>. QED BY <1>10, <3>2, <3>3, <3>4
  <2>. QED BY <1>10, <2>1, <2>2, <2>3
<1>20. ASSUME NEW j \in Kinds, NEW a \in DOMAIN G[j], G[j][a].what = "expr", G[j][a].sink # None
       PROVE  a + 1 \in DOMAIN G[j] /\ G[j][a + 1].what = "put"
  <2>1. CASE a \in DOMAIN H[j] /\ G[j][a] = H[j][a]
    <3>1. a + 1 \in DOMAIN H[j] /\ H[j][a + 1].what = "put"
      BY <1>4, <1>20, <2>1 DEF Queued
    <3>. QED BY <1>11, <3>1
  <2>2. CASE j = k /\ a = l + 1 /\ G[j][a] = e
    <3>1. l + 1 + 1 = l + 2
      BY <1>1
    <3>2. s.sink # None
      BY <1>14, <1>20, <2>2
    <3>. QED BY <1>12, <1>13, <1>15, <2>2, <3>1, <3>2
  <2>3. CASE j = k /\ a = l + 2 /\ s.sink # None /\ G[j][a] = p
    BY <1>15, <1>20, <2>3
  <2>. QED BY <1>10, <2>1, <2>2, <2>3
<1>21. ASSUME NEW j \in Kinds, NEW a \in DOMAIN G[j], a + 1 \in DOMAIN G[j], G[j][a + 1].what = "put"
       PROVE  G[j][a].what = "expr" /\ G[j][a].sink # None /\ G[j][a + 1].id = G[j][a].id
  <2>0. a \in Nat
    BY <1>10
  <2>1. CASE a + 1 \in DOMAIN H[j] /\ G[j][a + 1] = H[j][a + 1]
    <3>1. a \in DOMAIN H[j]
      <4>1. a + 1 \in 1 .. Len(H[j]) /\ a \in 1 .. Len(G[j]) /\ Len(H[j]) \in Nat /\ DOMAIN H[j] = 1 .. Len(H[j])
        BY <1>1, <1>8, <2>1
      <4>2. a \in 1 .. Len(H[j])
        BY <2>0, <4>1
      <4>. QED BY <4>1, <4>2
    <3>2. G[j][a] = H[j][a]
      BY <1>11, <3>1
    <3>3. H[j][a].what = "expr" /\ H[j][a].sink # None /\ H[j][a + 1].id = H[j][a].id
      BY <1>4, <1>21, <2>1, <3>1 DEF Queued
    <3>. QED BY <2>1, <3>2, <3>3
  <2>2. CASE j = k /\ a + 1 = l + 1 /\ G[j][a + 1] = e
    BY <1>14, <1>21, <2>2
  <2>3. CASE j = k /\ a + 1 = l + 2 /\ s.sink # None /\ G[j][a + 1] = p
    <3>1. a = l + 1
      BY <1>1, <2>0, <2>3
    <3>. QED BY <1>13, <1>14, <1>15, <2>3, <3>1
  <2>. QED BY <1>10, <1>21, <2>1, <2>2, <2>3
<1>22. Queued(B, W, G, m)
  BY <1>18, <1>19, <1>20, <1>21 DEF Queued
<1>23. Turns(G, Idle)
  <2>1. Due(s) = 0 /\ Due(Idle) = 0
    BY <1>2 DEF Due, Ending, Beginning, Idle
  <2>2. ASSUME NEW j \in Kinds, G[j] # <<>>, G[j][1].what = "put" PROVE FALSE
    <3>1. 1 \in DOMAIN G[j]
      <4>1. PICK y : y = G[j] /\ y \in Seq(Checked)
        OBVIOUS
      <4>2. 1 \in DOMAIN y
        BY <2>2, <4>1, EmptySeq, LenProperties
      <4>. QED BY <4>1, <4>2
    <3>2. CASE 1 \in DOMAIN H[j] /\ G[j][1] = H[j][1]
      <4>1. H[j] # <<>>
        BY <3>2
      <4>. QED BY <1>4, <2>1, <2>2, <3>2, <4>1 DEF Turns
    <3>3. 1 # l + 2
      BY <1>1
    <3>. QED BY <1>10, <1>14, <2>2, <3>1, <3>2, <3>3
  <2>. QED BY <2>1, <2>2 DEF Turns
<1>24. FlushOK(G, Idle) /\ After(G, Idle) /\ Before(G, Idle)
  BY DEF FlushOK, After, Before, Idle, Beginning, Ending
<1>25. AllSound(B, W, Idle, m)
  <2>1. ASSUME NEW w \in Windows PROVE Expected(Idle, w) = Expected(s, w)
    <3>1. Opening(s) = {} /\ Opening(Idle) = {} /\ Sinking(s, w) = 0 /\ Sinking(Idle, w) = 0
      BY DEF Opening, Sinking, Idle
    <3>2. Among(s, {}, w) = 0 /\ Among(Idle, {}, w) = 0
      BY DEF Among
    <3>. QED BY <3>1, <3>2 DEF Expected
  <2>2. Idle.pc \notin Beginning \cup Ending /\ Idle.kind \in Kinds
    BY DEF Idle, Beginning, Ending, Kinds
  <2>. QED BY <1>1, <1>4, <2>1, <2>2, AllSoundStill
<1>26. Linked(W, G, Idle)
  <2>. SUFFICES ASSUME NEW w \in Windows
                PROVE  /\ Pending(W[w]) = QueuedGets(G, w) \cup HeldGets(Idle, w)
                       /\ ToPut(W[w]) = QueuedPuts(G, w) \cup HeldPuts(Idle, w)
    BY DEF Linked
  <2>1. Pending(W[w]) = QueuedGets(H, w) \cup HeldGets(s, w) /\ ToPut(W[w]) = QueuedPuts(H, w) \cup HeldPuts(s, w)
    BY <1>4 DEF Linked
  <2>2. HeldGets(Idle, w) = {} /\ HeldPuts(Idle, w) = {}
    BY DEF HeldGets, HeldPuts, Idle
  <2>3. HeldGets(s, w) = {x \in Accesses : \E i \in DOMAIN s.wins : s.wins[i] = w /\ s.ids[i] = x}
    BY <1>5 DEF HeldGets
  <2>4. HeldPuts(s, w) = {x \in Accesses : s.sink = w /\ s.sinkId = x}
    BY DEF HeldPuts
  <2>5. \A x \in Accesses : x \in QueuedGets(G, w) <=> x \in QueuedGets(H, w) \cup HeldGets(s, w)
    <3>. TAKE x \in Accesses
    <3>1. ASSUME x \in QueuedGets(G, w) PROVE x \in QueuedGets(H, w) \cup HeldGets(s, w)
      <4>1. PICK j, a : j \in Kinds /\ a \in DOMAIN G[j] /\ (\E i \in DOMAIN G[j][a].wins : G[j][a].wins[i] = w /\ G[j][a].ids[i] = x)
        BY <3>1 DEF QueuedGets
      <4>2. G[j][a] = p => s.sink = None
        BY <1>15, <4>1
      <4>3. G[j][a] = e => x \in HeldGets(s, w)
        BY <1>14, <2>3, <4>1
      <4>4. a \in DOMAIN H[j] /\ G[j][a] = H[j][a] => x \in QueuedGets(H, w)
        BY <4>1 DEF QueuedGets
      <4>. QED BY <1>10, <4>1, <4>2, <4>3, <4>4
    <3>2. ASSUME x \in QueuedGets(H, w) PROVE x \in QueuedGets(G, w)
      <4>1. PICK j, a : j \in Kinds /\ a \in DOMAIN H[j] /\ (\E i \in DOMAIN H[j][a].wins : H[j][a].wins[i] = w /\ H[j][a].ids[i] = x)
        BY <3>2 DEF QueuedGets
      <4>2. a \in DOMAIN G[j] /\ G[j][a] = H[j][a]
        BY <1>11, <4>1
      <4>. QED BY <4>1, <4>2 DEF QueuedGets
    <3>3. ASSUME x \in HeldGets(s, w) PROVE x \in QueuedGets(G, w)
      BY <1>1, <1>12, <1>13, <1>14, <2>3, <3>3 DEF QueuedGets
    <3>. QED BY <3>1, <3>2, <3>3
  <2>6. \A x \in Accesses : x \in QueuedPuts(G, w) <=> x \in QueuedPuts(H, w) \cup HeldPuts(s, w)
    <3>. TAKE x \in Accesses
    <3>1. ASSUME x \in QueuedPuts(G, w) PROVE x \in QueuedPuts(H, w) \cup HeldPuts(s, w)
      <4>1. PICK j, a : j \in Kinds /\ a \in DOMAIN G[j] /\ G[j][a].what = "put" /\ G[j][a].sink = w /\ G[j][a].id = x
        BY <3>1 DEF QueuedPuts
      <4>2. G[j][a] = p /\ s.sink # None => x \in HeldPuts(s, w)
        BY <1>15, <2>4, <4>1
      <4>3. G[j][a] # e
        BY <1>14, <4>1
      <4>4. a \in DOMAIN H[j] /\ G[j][a] = H[j][a] => x \in QueuedPuts(H, w)
        BY <4>1 DEF QueuedPuts
      <4>. QED BY <1>10, <4>1, <4>2, <4>3, <4>4
    <3>2. ASSUME x \in QueuedPuts(H, w) PROVE x \in QueuedPuts(G, w)
      <4>1. PICK j, a : j \in Kinds /\ a \in DOMAIN H[j] /\ H[j][a].what = "put" /\ H[j][a].sink = w /\ H[j][a].id = x
        BY <3>2 DEF QueuedPuts
      <4>2. a \in DOMAIN G[j] /\ G[j][a] = H[j][a]
        BY <1>11, <4>1
      <4>. QED BY <4>1, <4>2 DEF QueuedPuts
    <3>3. ASSUME x \in HeldPuts(s, w) PROVE x \in QueuedPuts(G, w)
      <4>1. s.sink = w /\ s.sinkId = x /\ s.sink # None
        BY <2>4, <3>3, Bounds
      <4>. QED BY <1>1, <1>12, <1>13, <1>15, <4>1 DEF QueuedPuts
    <3>. QED BY <3>1, <3>2, <3>3
  <2>7. QueuedGets(G, w) \subseteq Accesses /\ QueuedGets(H, w) \subseteq Accesses /\ HeldGets(s, w) \subseteq Accesses
        /\ QueuedPuts(G, w) \subseteq Accesses /\ QueuedPuts(H, w) \subseteq Accesses /\ HeldPuts(s, w) \subseteq Accesses
    BY DEF QueuedGets, HeldGets, QueuedPuts, HeldPuts
  <2>. QED BY <2>1, <2>2, <2>5, <2>6, <2>7
<1>27. Idle.pc \in Pcs \ {"put", "again", "undefined"} /\ Idle.pc \notin Beginning /\ Idle.pc \notin Ending
  BY DEF Idle, Pcs, Busy, Beginning, Ending
<1>. QED
  BY <1>22, <1>23, <1>24, <1>25, <1>26, <1>27 DEF StatementOK

\* The accesses of a statement's operands differ.
LEMMA IdsDiffer ==
  ASSUME NEW s \in State, StateOK(s), s.pc \in Busy, NEW m \in Nat, Ordered(s, m)
  PROVE  /\ \A a, b \in DOMAIN s.ids : a # b => s.ids[a] # s.ids[b]
         /\ \A a \in DOMAIN s.ids : s.ids[a] \in Int /\ s.ids[a] \in 1 .. m /\ s.ids[a] \in Accesses
<1>1. DOMAIN s.wins = DOMAIN s.ids /\ DOMAIN s.wins \in {{1}, {1, 2}} /\ (DOMAIN s.wins = {1} <=> Len(s.wins) = 1) /\ Len(s.wins) \in {1, 2}
  BY OperandsAre
<1>2. \A a \in DOMAIN s.ids : s.ids[a] \in 1 .. m /\ s.ids[a] \in 0 .. MaxAccesses
  BY <1>1, NumbersAre DEF Ordered
<1>3. \A a \in DOMAIN s.ids : s.ids[a] \in Int /\ s.ids[a] \in Accesses
  BY <1>2, Bounds
<1>4. CASE Len(s.wins) = 1
  <2>1. DOMAIN s.ids = {1}
    BY <1>1, <1>4
  <2>. QED BY <1>2, <1>3, <2>1
<1>5. CASE Len(s.wins) = 2
  <2>1. DOMAIN s.ids = {1, 2}
    BY <1>1, <1>5
  <2>2. s.ids[1] < s.ids[2] \/ s.ids[2] < s.ids[1]
    BY <1>5 DEF Ordered
  <2>3. s.ids[1] # s.ids[2]
    BY <1>3, <2>1, <2>2
  <2>. QED BY <1>2, <1>3, <2>1, <2>3
<1>. QED BY <1>1, <1>4, <1>5

\* The next evaluation of an operand's window reads what the statement under way asked for, and
\* has not read.
LEMMA NextIsHeld ==
  ASSUME NEW B, NEW W, NEW H, NEW X, NEW s, NEW m, Sane(B, W, H, X, s, m), s.pc = "eval", NEW i \in s.todo,
         NEW w, w = s.wins[i], NEW r, r = NextXfer(W[w], s.kind)
  PROVE  /\ w \in Windows /\ W[w] \in Members
         /\ Sound(B, W[w], s, w, s.kind, m) /\ Expected(s, w) = 0 /\ Pending(W[w]) # {}
         /\ Data(W[w], s.kind) = {r.id} /\ r.id \in HeldGets(s, w) /\ r.id \notin QueuedGets(H, w)
         /\ \A y \in HeldGets(s, w) : y = r.id \/ r.id < y
<1>. DEFINE v == W[w]
            k == s.kind
            D == DOMAIN s.wins
<1>1. /\ B \subseteq Windows /\ W \in [Windows -> Members] /\ H \in [Kinds -> Seq(Checked)]
      /\ s \in State /\ StateOK(s) /\ m \in Nat /\ k \in Kinds /\ s.sink \in Windows \cup {None}
  BY TypedIs, SaneIs, StateIs
<1>2. s.pc \in Busy /\ s.pc \in Ending /\ s.pc \notin Beginning /\ i \in D /\ s.todo \subseteq D
  BY <1>1 DEF Busy, Ending, Beginning, StateOK
<1>3. /\ DOMAIN s.ids = D /\ D \subseteq {1, 2} /\ 1 \in D
      /\ \A j \in D : s.wins[j] \in Windows
      /\ DOMAIN s.got = D
  <2>1. Len(s.got) = Len(s.wins)
    BY <1>1, <1>2 DEF StateOK
  <2>. QED BY <1>1, <1>2, <2>1, NumbersAre, StateIs
<1>4. w \in Windows /\ v \in Members
  BY <1>1, <1>2, <1>3
<1>5. Ended(B, W, s, m) /\ AllSound(B, W, s, m) /\ Queued(B, W, H, m) /\ Before(H, s) /\ Linked(W, H, s)
  BY <1>2, SaneIs
<1>6. Ordered(s, m) /\ ReadOK(s)
  BY <1>5 DEF Ended
<1>7. /\ \A a, b \in D : a # b => s.ids[a] # s.ids[b]
      /\ \A a \in D : s.ids[a] \in Int /\ s.ids[a] \in 1 .. m /\ s.ids[a] \in Accesses
  BY <1>1, <1>2, <1>3, <1>6, IdsDiffer
<1>8. Uses(s) \subseteq Windows /\ \A j \in D : s.wins[j] \in Uses(s) /\ s.wins[j] \in Range(s.wins)
  BY <1>1, StateIs, UsesAre
<1>9. Sound(B, v, s, w, k, m)
  BY <1>2, <1>5, <1>8 DEF AllSound
<1>10. Expected(s, w) = 0
  <2>1. Opening(s) = {} /\ Sinking(s, w) = 0
    BY DEF Opening, Sinking
  <2>2. Among(s, {}, w) = 0
    BY DEF Among
  <2>. QED BY <2>1, <2>2 DEF Expected
<1>. HIDE DEF v, k, D
\* Something of w is left to read.
<1>11. \E y \in Accesses : y \in HeldGets(s, w)
  <2>1. \A j \in s.todo : s.got[j] = {}
    BY <1>2, <1>3, <1>6 DEF ReadOK, D
  <2>2. CASE \A a \in D : s.ids[i] \notin s.got[a]
    <3>1. s.ids[i] \in HeldGets(s, w)
      BY <1>2, <1>3, <1>7, <2>2 DEF HeldGets, D
    <3>. QED BY <1>2, <1>7, <3>1
  <2>3. CASE \E a \in D : s.ids[i] \in s.got[a]
    <3>1. PICK a \in D : s.ids[i] \in s.got[a]
      BY <2>3
    <3>2. a \notin s.todo
      BY <2>1, <3>1
    <3>3. PICK j \in D : s.got[a] = {s.ids[j]} /\ s.wins[j] = s.wins[a]
      BY <1>3, <1>6, <3>1, <3>2 DEF ReadOK, D
    <3>4. j = i /\ s.wins[a] = w /\ a # i
      BY <1>2, <1>7, <3>1, <3>2, <3>3
    <3>5. \A b \in D : s.ids[a] \notin s.got[b]
      <4>. TAKE b \in D
      <4>1. CASE b = a
        BY <1>2, <1>7, <3>3, <3>4, <4>1
      <4>2. CASE b = i
        BY <2>1, <4>2
      <4>3. b = a \/ b = i
        BY <1>2, <1>3, <3>4
      <4>. QED BY <4>1, <4>2, <4>3
    <3>6. s.ids[a] \in HeldGets(s, w)
      BY <1>3, <1>7, <3>1, <3>4, <3>5 DEF HeldGets, D
    <3>. QED BY <1>7, <3>1, <3>6
  <2>. QED BY <2>2, <2>3
<1>12. Pending(v) = QueuedGets(H, w) \cup HeldGets(s, w)
  BY <1>4, <1>5 DEF Linked, v
\* What the handles are to read of w is later.
<1>13. \A y \in QueuedGets(H, w) : \A j \in D : s.ids[j] < y
  <2>. SUFFICES ASSUME NEW y \in QueuedGets(H, w), NEW j \in D PROVE s.ids[j] < y
    OBVIOUS
  <2>1. PICK l, a, b : l \in Kinds /\ a \in DOMAIN H[l] /\ b \in DOMAIN H[l][a].wins /\ H[l][a].wins[b] = w /\ H[l][a].ids[b] = y
    BY DEF QueuedGets
  <2>2. PICK h : h = H[l][a] /\ h \in Handle /\ HandleOK(h) /\ QueuedOne(B, W, h, l, m)
    BY <1>5, <2>1, SaneIs, TypedIs DEF Queued
  <2>3. w \in Uses(h) /\ b \in DOMAIN h.ids
    <3>1. h.wins \in Seq(Windows) /\ h.sink \in Windows \cup {None} /\ DOMAIN h.wins = DOMAIN h.ids
      BY <2>2, HandleIs DEF HandleOK, QueuedOne
    <3>. QED BY <2>1, <2>2, <3>1, UsesAre
  <2>4. w \notin B /\ Flag(v, l)
    BY <2>2, <2>3 DEF QueuedOne, v
  <2>5. l = k
    BY <1>9, <2>1, <2>4, <1>1 DEF Sound, Only, Flag, v, k, Kinds
  <2>6. s.flushing # None
    BY <1>2, <1>5, <1>8, <2>4 DEF Ended, D
  <2>7. s.ids[j] < h.ids[b]
    BY <1>2, <1>3, <1>5, <2>1, <2>2, <2>3, <2>5, <2>6 DEF Before, k, D
  <2>. QED BY <2>1, <2>2, <2>7
<1>14. /\ Data(v, k) = {r.id} /\ r.id \in Pending(v) /\ r.id \in Accesses
       /\ \A y \in Pending(v) : y = r.id \/ r.id < y
  <2>1. Pending(v) # {}
    BY <1>11, <1>12
  <2>2. Good(v, k, m) /\ (v.bufc < PREALLOC => Unposted(v, k) = 0)
    BY <1>9, <1>10 DEF Sound, v, k
  <2>3. r = NextXfer(v, k)
    BY DEF v, k
  <2>. QED BY <1>1, <1>4, <2>1, <2>2, <2>3, EvaluatedGood
<1>15. r.id \notin QueuedGets(H, w)
  <2>. SUFFICES ASSUME r.id \in QueuedGets(H, w) PROVE FALSE
    OBVIOUS
  <2>1. PICK y \in Accesses : y \in HeldGets(s, w)
    BY <1>11
  <2>2. PICK j \in D : s.ids[j] = y
    <3>1. s.pc # "ignore"
      OBVIOUS
    <3>. QED BY <2>1, <3>1 DEF HeldGets, D
  <2>3. y < r.id /\ (y = r.id \/ r.id < y)
    BY <1>12, <1>13, <1>14, <2>1, <2>2
  <2>4. y \in Int /\ r.id \in Int
    BY <1>14, <2>1, Bounds
  <2>. QED BY <2>3, <2>4
<1>. QED
  BY <1>4, <1>9, <1>10, <1>11, <1>12, <1>14, <1>15 DEF v, k

\* An operand's evaluation finds the data of one of the statement's operands in that window.
LEMMA EvalKeeps ==
  ASSUME NEW B, NEW W, NEW H, NEW X, NEW s, NEW m, Sane(B, W, H, X, s, m), s.pc = "eval", NEW i \in s.todo, NEW Y
  PROVE  LET v == W[s.wins[i]]
         IN  /\ ~EvalWild(v, s.kind)
             /\ StatementOK(B, [W EXCEPT ![s.wins[i]] = Evaluated(v, s.kind)], H, Y, EvalState(s, i, Data(v, s.kind)), m)
<1>. DEFINE w == s.wins[i]
            v == W[w]
            k == s.kind
            r == NextXfer(v, k)
            u == Evaluated(v, k)
            t == EvalState(s, i, Data(v, k))
            V == [W EXCEPT ![w] = u]
            D == DOMAIN s.wins
<1>1. /\ B \subseteq Windows /\ W \in [Windows -> Members] /\ H \in [Kinds -> Seq(Checked)]
      /\ s \in State /\ StateOK(s) /\ m \in Nat /\ k \in Kinds /\ s.sink \in Windows \cup {None}
  BY TypedIs, SaneIs, StateIs
<1>2. s.pc \in Busy /\ s.pc \in Ending /\ s.pc \notin Beginning /\ i \in D /\ s.todo \subseteq D
  BY <1>1 DEF Busy, Ending, Beginning, StateOK
<1>3. /\ DOMAIN s.ids = D /\ D \in {{1}, {1, 2}} /\ (D = {1} <=> Len(s.wins) = 1) /\ Len(s.wins) \in {1, 2} /\ D \subseteq {1, 2}
      /\ (\A j \in D : s.wins[j] \in Windows) /\ DOMAIN s.got = D
  <2>1. Len(s.got) = Len(s.wins)
    BY <1>1, <1>2 DEF StateOK
  <2>. QED BY <1>1, <1>2, <2>1, OperandsAre, NumbersAre, StateIs
<1>4. /\ w \in Windows /\ v \in Members
      /\ Sound(B, v, s, w, k, m) /\ Expected(s, w) = 0 /\ Pending(v) # {}
      /\ Data(v, k) = {r.id} /\ r.id \in HeldGets(s, w) /\ r.id \notin QueuedGets(H, w)
      /\ \A y \in HeldGets(s, w) : y = r.id \/ r.id < y
  BY NextIsHeld
<1>5. Ended(B, W, s, m) /\ AllSound(B, W, s, m) /\ Queued(B, W, H, m) /\ Before(H, s) /\ Turns(H, s) /\ FlushOK(H, s) /\ Linked(W, H, s)
  BY <1>2, SaneIs
<1>6. Ordered(s, m) /\ ReadOK(s)
  BY <1>5 DEF Ended
<1>7. /\ \A a, b \in D : a # b => s.ids[a] # s.ids[b]
      /\ \A a \in D : s.ids[a] \in Int /\ s.ids[a] \in 1 .. m /\ s.ids[a] \in Accesses
  BY <1>1, <1>2, <1>3, <1>6, IdsDiffer
<1>8. /\ ~EvalWild(v, k) /\ Good(u, k, m) /\ (Flag(v, k) => Flag(u, k)) /\ (Only(v, k) => Only(u, k))
      /\ Pending(u) = Pending(v) \ {r.id} /\ ToPut(u) = ToPut(v)
      /\ Unposted(u, k) = Unposted(v, k) /\ u.bufc = v.bufc /\ u.puts = v.puts
  <2>1. Good(v, k, m) /\ (v.bufc < PREALLOC => Unposted(v, k) = 0)
    BY <1>4 DEF Sound
  <2>. HIDE DEF v, k
  <2>. QED BY <1>1, <1>4, <2>1, EvaluatedGood
<1>9. u \in Members /\ u.isElem = v.isElem /\ u.isBulk = v.isBulk
  <2>. HIDE DEF v, k
  <2>. QED BY <1>1, <1>4, <1>8, EvaluatedIs
<1>10. /\ t \in State /\ StateOK(t)
       /\ DOMAIN t.got = D /\ t.got[i] = {r.id} /\ \A j \in D \ {i} : t.got[j] = s.got[j]
       /\ t.order = Append(s.order, i) /\ t.todo = s.todo \ {i}
       /\ (s.todo = {i} => t.pc = "store") /\ (s.todo # {i} => t.pc = "eval")
       /\ t.ids = s.ids /\ t.opened = s.opened
       /\ t.kind = s.kind /\ t.wins = s.wins /\ t.count = s.count
       /\ t.sink = s.sink /\ t.sinkId = s.sinkId /\ t.flushing = s.flushing
       /\ t.run = s.run /\ t.val = s.val /\ t.put = s.put /\ t.deletes = s.deletes
  <2>1. Data(v, k) \in SUBSET Int
    BY <1>4, Bounds DEF HeldGets
  <2>. HIDE DEF v, k
  <2>. QED BY <1>1, <1>3, <1>4, <2>1, EvalStateIs
<1>11. Uses(s) \subseteq Windows /\ w \in Uses(s) /\ Range(s.wins) \subseteq Uses(s) /\ Uses(t) = Uses(s)
  BY <1>1, <1>2, <1>10, StateIs, UsesAre DEF Uses
<1>12. V[w] = u /\ \A z \in Windows \ {w} : V[z] = W[z]
  BY <1>1, <1>4
<1>13. t.pc \in Ending /\ t.pc \notin Beginning /\ t.pc \in Pcs \ {"put", "again", "undefined"} /\ t.pc \notin {"open", "sink", "ignore", "post", "defer", "flush"}
  BY <1>10 DEF Ending, Beginning, Pcs, Busy
\* Which operand it is.
<1>14. PICK j \in D : s.wins[j] = w /\ s.ids[j] = r.id /\ \A a \in D : r.id \notin s.got[a]
  <2>1. r.id \in HeldGets(s, w)
    BY <1>4
  <2>. HIDE DEF w, r, D
  <2>. QED BY <1>3, <2>1 DEF HeldGets, D
<1>. HIDE DEF u, V, t, v, k, r, w
<1>15. AllSound(B, V, t, m)
  <2>1. \A z : Expected(t, z) = Expected(s, z)
    <3>. TAKE z
    <3>1. Opening(s) = {} /\ Opening(t) = {} /\ Sinking(s, z) = 0 /\ Sinking(t, z) = 0
      BY <1>13 DEF Opening, Sinking
    <3>2. Among(s, {}, z) = 0 /\ Among(t, {}, z) = 0
      BY DEF Among
    <3>. QED BY <3>1, <3>2 DEF Expected
  <2>2. Sound(B, u, t, w, k, m)
    BY <1>4, <1>8, <2>1 DEF Sound
  <2>3. s.pc \in Beginning \cup Ending /\ Uses(t) = Uses(s) /\ Uses(t) \subseteq Windows /\ t.kind = s.kind /\ t.kind = k /\ t.kind \in Kinds
    BY <1>1, <1>2, <1>10, <1>11 DEF k
  <2>. QED BY <1>1, <1>4, <1>5, <1>9, <2>1, <2>2, <2>3, AllSoundAgain DEF V
\* What was read.
<1>16. j # i => D = {1, 2} /\ D = {i, j} /\ \A a \in D : a = i \/ a = j
  BY <1>2, <1>3, <1>14
<1>17. s.got[i] = {} /\ \A a \in s.todo : s.got[a] = {}
  BY <1>2, <1>3, <1>6 DEF ReadOK
<1>18. /\ \A a \in DOMAIN t.got : t.got[a] = {} <=> a \in t.todo
       /\ \A a \in DOMAIN t.got \ t.todo : \E b \in DOMAIN t.ids : t.got[a] = {t.ids[b]} /\ t.wins[b] = t.wins[a]
       /\ \A a, b \in DOMAIN t.got \ t.todo : a # b => t.got[a] # t.got[b]
  <2>1. \A a \in D \ {i} : s.got[a] = {} <=> a \in s.todo
    BY <1>3, <1>6 DEF ReadOK
  <2>2. \A a \in D \ {i} : a \notin s.todo => \E b \in D : s.got[a] = {s.ids[b]} /\ s.wins[b] = s.wins[a]
    BY <1>3, <1>6 DEF ReadOK
  <2>3. \A a, b \in D \ {i} : a \notin s.todo /\ b \notin s.todo /\ a # b => s.got[a] # s.got[b]
    BY <1>3, <1>6 DEF ReadOK
  <2>4. \A a \in DOMAIN t.got : t.got[a] = {} <=> a \in t.todo
    BY <1>10, <2>1
  <2>5. \E b \in D : t.got[i] = {s.ids[b]} /\ s.wins[b] = s.wins[i]
    BY <1>10, <1>14 DEF w
  <2>6. \A a \in D \ {i} : a \notin s.todo => t.got[a] # t.got[i]
    BY <1>10, <1>14
  <2>. HIDE DEF D
  <2>7. \A a \in D \ s.todo : a # i
    BY <1>2
  <2>8. ASSUME NEW a \in DOMAIN t.got \ t.todo PROVE \E b \in DOMAIN t.ids : t.got[a] = {t.ids[b]} /\ t.wins[b] = t.wins[a]
    BY <1>3, <1>10, <2>2, <2>5 DEF D
  <2>9. ASSUME NEW a \in DOMAIN t.got \ t.todo, NEW b \in DOMAIN t.got \ t.todo, a # b PROVE t.got[a] # t.got[b]
    BY <1>10, <2>3, <2>6, <2>9
  <2>. QED BY <2>4, <2>8, <2>9
<1>19. s.todo = D => s.order = <<>> /\ t.order = <<i>>
  <2>1. s.todo = D => s.order = <<>>
    BY <1>6 DEF ReadOK
  <2>2. Append(<<>>, i) = <<i>>
    BY <1>2, <1>3
  <2>. QED BY <1>10, <2>1, <2>2
<1>20. \A a \in D : s.todo = D \ {a} => s.order = <<a>> /\ t.order = <<a, i>>
  <2>. SUFFICES ASSUME NEW a \in D, s.todo = D \ {a} PROVE s.order = <<a>> /\ t.order = <<a, i>>
    OBVIOUS
  <2>1. s.order = <<a>>
    BY <1>6 DEF ReadOK
  <2>2. a \in Nat /\ i \in Nat
    BY <1>2, <1>3
  <2>3. Append(<<a>>, i) = <<a, i>>
    BY <2>2, PairIs
  <2>. QED BY <1>10, <2>1, <2>3
<1>21. \/ s.todo = D
       \/ \E a \in D : a # i /\ s.todo = D \ {a} /\ s.todo = {i} /\ D = {1, 2}
  BY <1>2, <1>3
<1>22. /\ t.todo = DOMAIN t.wins => t.order = <<>>
       /\ \A a \in DOMAIN t.wins : t.todo = DOMAIN t.wins \ {a} => t.order = <<a>>
       /\ Len(t.wins) = 2 /\ t.todo = {} => t.order \in {<<1, 2>>, <<2, 1>>}
  <2>1. DOMAIN t.wins = D /\ t.todo # D /\ Len(t.wins) = Len(s.wins)
    BY <1>2, <1>10
  <2>2. \A a \in D : t.todo = D \ {a} => a = i /\ s.todo = D
    <3>. SUFFICES ASSUME NEW a \in D, t.todo = D \ {a} PROVE a = i /\ s.todo = D
      OBVIOUS
    <3>1. i \notin t.todo /\ i \in D
      BY <1>2, <1>10
    <3>2. a = i
      BY <3>1
    <3>3. \A b \in D : b \in s.todo
      BY <1>10, <3>2
    <3>. QED BY <1>2, <3>2, <3>3
  <2>3. ASSUME Len(t.wins) = 2, t.todo = {} PROVE t.order \in {<<1, 2>>, <<2, 1>>}
    <3>1. D = {1, 2} /\ s.todo = {i}
      <4>1. 1 # 2
        OBVIOUS
      <4>. QED BY <1>2, <1>3, <1>10, <2>1, <2>3, <4>1
    <3>2. PICK a \in D : a # i /\ s.todo = D \ {a}
      <4>1. {1, 2} # {i}
        OBVIOUS
      <4>. QED BY <1>21, <3>1, <4>1
    <3>3. t.order = <<a, i>>
      BY <1>20, <3>2
    <3>. QED BY <1>2, <3>1, <3>2, <3>3
  <2>. QED BY <1>19, <2>1, <2>2, <2>3
<1>23. ASSUME \A a \in DOMAIN t.order : t.order[a] = t.opened[a]
       PROVE  \A a \in DOMAIN t.got \ t.todo : t.got[a] = {t.ids[a]}
  <2>1. CASE s.todo = D
    <3>1. \A a \in DOMAIN t.got \ t.todo : a = i
      BY <1>10, <2>1
    <3>2. j = i
      <4>. SUFFICES ASSUME j # i PROVE FALSE
        OBVIOUS
      <4>1. t.order = <<i>> /\ 1 \in DOMAIN t.order /\ t.order[1] = i
        BY <1>19, <2>1
      <4>2. s.opened[1] = i
        BY <1>10, <1>23, <4>1
      <4>3. Len(s.wins) = 2
        BY <1>3, <1>16
      <4>4. s.opened = <<i, j>> /\ s.ids[i] < s.ids[j]
        <5>1. (i = 1 /\ j = 2) \/ (i = 2 /\ j = 1)
          BY <1>2, <1>3, <1>14
        <5>2. (s.opened = <<1, 2>> /\ s.ids[1] < s.ids[2]) \/ (s.opened = <<2, 1>> /\ s.ids[2] < s.ids[1])
          BY <1>6, <4>3 DEF Ordered
        <5>3. <<1, 2>>[1] = 1 /\ <<2, 1>>[1] = 2
          OBVIOUS
        <5>. QED BY <4>2, <5>1, <5>2, <5>3
      <4>5. s.ids[i] \in HeldGets(s, w)
        <5>1. \A a \in D : s.got[a] = {}
          BY <1>17, <2>1
        <5>. QED BY <1>2, <1>3, <1>7, <5>1 DEF HeldGets, w
      <4>6. s.ids[i] = s.ids[j] \/ s.ids[j] < s.ids[i]
        BY <1>4, <1>14, <4>5
      <4>. QED BY <1>2, <1>7, <1>14, <4>4, <4>6
    <3>. QED BY <1>10, <1>14, <3>1, <3>2
  <2>2. CASE \E a \in D : a # i /\ s.todo = D \ {a} /\ s.todo = {i} /\ D = {1, 2}
    <3>1. PICK o \in D : o # i /\ s.todo = D \ {o} /\ s.todo = {i} /\ D = {1, 2}
      BY <2>2
    <3>2. s.order = <<o>> /\ t.order = <<o, i>>
      BY <1>20, <3>1
    <3>3. \A a \in DOMAIN s.order : s.order[a] = s.opened[a]
      <4>1. DOMAIN <<o>> = {1} /\ DOMAIN <<o, i>> = {1, 2} /\ <<o>>[1] = o /\ <<o, i>>[1] = o
        OBVIOUS
      <4>2. t.opened[1] = o
        BY <1>23, <3>2, <4>1
      <4>. QED BY <1>10, <3>2, <4>1, <4>2
    <3>4. s.got[o] = {s.ids[o]}
      BY <1>3, <1>6, <3>1, <3>3 DEF ReadOK
    <3>5. j = i
      BY <1>2, <1>3, <1>14, <3>1, <3>4
    <3>6. \A a \in D : a = i \/ a = o
      BY <1>2, <3>1
    <3>. QED BY <1>10, <1>14, <3>1, <3>4, <3>5, <3>6
  <2>. QED BY <1>21, <2>1, <2>2
<1>24. ReadOK(t)
  BY <1>18, <1>22, <1>23 DEF ReadOK
<1>25. \A z \in Windows : \A l \in Kinds : Flag(V[z], l) = Flag(W[z], l)
  BY <1>4, <1>9, <1>12 DEF Flag, v
<1>26. Ended(B, V, t, m)
  <2>1. t.todo = {} <=> t.pc = "store"
    BY <1>10
  <2>2. Ordered(t, m)
    BY <1>6, <1>10 DEF Ordered
  <2>3. t.flushing = None => t.sink = None /\ t.sinkId = 0 /\ Range(t.wins) \subseteq B
    BY <1>5, <1>10 DEF Ended
  <2>4. Runs(t) = Runs(s)
    BY <1>10 DEF Runs
  <2>5. t.flushing # None => /\ t.run # {} /\ t.kind = Runs(t)
                             /\ \A z \in Uses(t) : z \notin B /\ Flag(V[z], t.kind)
                             /\ t.sink # None <=> t.sinkId # 0
    <3>. SUFFICES ASSUME t.flushing # None
                  PROVE  /\ t.run # {} /\ t.kind = Runs(t)
                         /\ \A z \in Uses(t) : z \notin B /\ Flag(V[z], t.kind)
                         /\ t.sink # None <=> t.sinkId # 0
      OBVIOUS
    <3>1. /\ s.run # {} /\ s.kind = Runs(s)
          /\ \A z \in Uses(s) : z \notin B /\ Flag(W[z], s.kind)
          /\ s.sink # None <=> s.sinkId # 0
      BY <1>5, <1>10 DEF Ended
    <3>2. \A z \in Uses(t) : z \notin B /\ Flag(V[z], t.kind)
      BY <1>1, <1>10, <1>11, <1>25, <3>1 DEF k
    <3>. QED BY <1>10, <2>4, <3>1, <3>2
  <2>. QED BY <1>24, <2>1, <2>2, <2>3, <2>5 DEF Ended
<1>27. Queued(B, V, H, m)
  <2>1. m <= m /\ \A l \in Kinds : Flag(W[w], l) => Flag(u, l)
    BY <1>1, <1>4, <1>12, <1>25
  <2>. QED BY <1>1, <1>4, <1>5, <1>9, <2>1, QueuedOn DEF V
<1>28. After(H, t) /\ Before(H, t)
  BY <1>2, <1>5, <1>10, <1>13 DEF After, Before
<1>29. Turns(H, t)
  <2>1. Due(t) = Due(s) /\ Runs(t) = Runs(s)
    BY <1>2, <1>10, <1>13 DEF Due, Runs
  <2>. QED BY <1>5, <1>10, <2>1 DEF Turns
<1>30. FlushOK(H, t)
  BY <1>2, <1>5, <1>10, <1>11, <1>13 DEF FlushOK
<1>31. Linked(V, H, t)
  <2>1. HeldGets(t, w) = HeldGets(s, w) \ {r.id}
    <3>1. ASSUME NEW x \in Accesses PROVE (\A a \in DOMAIN t.got : x \notin t.got[a]) <=> x # r.id /\ \A a \in DOMAIN s.got : x \notin s.got[a]
      BY <1>2, <1>3, <1>10, <1>17
    <3>. QED BY <1>10, <1>13, <3>1 DEF HeldGets
  <2>2. ASSUME NEW z \in Windows, z # w PROVE HeldGets(t, z) = HeldGets(s, z)
    <3>1. ASSUME NEW x \in Accesses PROVE (\A a \in DOMAIN t.got : x \notin t.got[a]) <=> x # r.id /\ \A a \in DOMAIN s.got : x \notin s.got[a]
      BY <1>2, <1>3, <1>10, <1>17
    <3>2. \A a \in D : s.wins[a] = z => s.ids[a] # r.id
      BY <1>7, <1>14, <2>2
    <3>. QED BY <1>10, <1>13, <3>1, <3>2 DEF HeldGets
  <2>3. \A z : HeldPuts(t, z) = {} /\ HeldPuts(s, z) = {}
    BY <1>13 DEF HeldPuts
  <2>4. Pending(v) = QueuedGets(H, w) \cup HeldGets(s, w) /\ ToPut(v) = QueuedPuts(H, w) \cup HeldPuts(s, w)
    BY <1>4, <1>5 DEF Linked, v
  <2>5. Pending(u) = QueuedGets(H, w) \cup HeldGets(t, w) /\ ToPut(u) = QueuedPuts(H, w) \cup HeldPuts(t, w)
    BY <1>4, <1>8, <2>1, <2>3, <2>4
  <2>. QED BY <1>1, <1>4, <1>5, <1>9, <2>2, <2>3, <2>5, LinkedAgain DEF V
<1>32. StatementOK(B, V, H, Y, t, m)
  BY <1>13, <1>15, <1>26, <1>27, <1>28, <1>29, <1>30, <1>31 DEF StatementOK
<1>. QED
  BY <1>8, <1>32 DEF V, u, t, v, k, w

\* When a statement has read all there is nothing left of it but, in a flush, its put.
LEMMA StoreKeeps ==
  ASSUME NEW B, NEW W, NEW H, NEW X, NEW s, NEW m, Sane(B, W, H, X, s, m), s.pc = "store",
         NEW t, s.flushing # None => t = FlushState(s.flushing, s.run, s.sinkId, s.deletes, TRUE),
         s.flushing = None => t = Idle
  PROVE  (s.flushing = None => s.sink = None) /\ StatementOK(B, W, H, X, t, m)
<1>. DEFINE D == DOMAIN s.wins
<1>1. /\ B \subseteq Windows /\ W \in [Windows -> Members] /\ H \in [Kinds -> Seq(Checked)]
      /\ s \in State /\ StateOK(s) /\ m \in Nat /\ s.kind \in Kinds
      /\ s.flushing \in Windows \cup {None} /\ s.run \in SUBSET Kinds /\ s.sinkId \in Int /\ s.deletes \in BOOLEAN
  <2>1. s \in State
    BY TypedIs, SaneIs
  <2>2. s.sinkId \in Int
    BY <2>1, StateIs
  <2>. QED BY <2>2, TypedIs, SaneIs, StateIs
<1>2. s.pc \in Busy /\ s.pc \in Ending /\ s.pc \notin Beginning
  BY DEF Busy, Ending, Beginning
<1>3. /\ DOMAIN s.ids = D /\ D \in {{1}, {1, 2}} /\ DOMAIN s.got = D
  <2>1. Len(s.got) = Len(s.wins)
    BY <1>1, <1>2 DEF StateOK
  <2>. QED BY <1>1, <1>2, <2>1, OperandsAre, StateIs
<1>4. Ended(B, W, s, m) /\ AllSound(B, W, s, m) /\ Queued(B, W, H, m) /\ Turns(H, s) /\ FlushOK(H, s) /\ Linked(W, H, s)
  BY <1>2, SaneIs
<1>5. s.todo = {} /\ ReadOK(s) /\ (s.flushing = None => s.sink = None)
  BY <1>4 DEF Ended
<1>8. t.pc \in {"idle", "flush"} /\ DOMAIN t.wins = {} /\ Turns(H, t) /\ FlushOK(H, t) /\ t.kind \in Kinds
  <2>1. CASE s.flushing # None
    <3>1. t = FlushState(s.flushing, s.run, s.sinkId, s.deletes, TRUE) /\ s.flushing \in Windows /\ TRUE \in BOOLEAN
      BY <1>1, <2>1
    <3>2. t.pc = "flush" /\ t.flushing = s.flushing /\ t.run = s.run /\ t.val = s.sinkId /\ t.deletes = s.deletes
          /\ DOMAIN t.wins = {} /\ DOMAIN t.put = {} /\ t.kind \in Kinds
      BY <3>1 DEF FlushState, Idle, Kinds
    <3>3. Turns(H, t)
      <4>1. Due(t) = Due(s) /\ Runs(t) = Runs(s) /\ t.run = s.run
        BY <2>1, <3>2 DEF Due, Runs, Ending
      <4>. QED BY <1>4, <4>1 DEF Turns
    <3>4. FlushOK(H, t)
      <4>1. t.pc \notin Ending
        BY <3>2 DEF Ending
      <4>. QED BY <1>4, <2>1, <3>2, <4>1 DEF FlushOK
    <3>. QED BY <3>2, <3>3, <3>4
  <2>2. CASE s.flushing = None
    <3>1. t = Idle /\ t.pc = "idle" /\ DOMAIN t.wins = {} /\ t.kind \in Kinds
      BY <2>2 DEF Idle, Kinds
    <3>2. Turns(H, t)
      <4>1. Due(t) = 0 /\ Due(s) = 0
        BY <2>2, <3>1 DEF Due, Ending
      <4>. QED BY <1>4, <4>1 DEF Turns
    <3>3. FlushOK(H, t)
      <4>1. ~Idle.deletes /\ Idle.pc # "flush" /\ Idle.flushing = None /\ Idle.run = {} /\ DOMAIN Idle.put = {}
        BY DEF Idle
      <4>. QED BY <3>1, <4>1 DEF FlushOK
    <3>. QED BY <3>1, <3>2, <3>3
  <2>. QED BY <2>1, <2>2
<1>9. t.pc \notin Beginning /\ t.pc \notin Ending /\ t.pc \in Pcs \ {"put", "again", "undefined"}
  BY <1>8 DEF Beginning, Ending, Pcs, Busy
<1>10. AllSound(B, W, t, m)
  <2>1. ASSUME NEW w \in Windows PROVE Expected(t, w) = Expected(s, w)
    <3>1. Opening(s) = {} /\ Opening(t) = {} /\ Sinking(s, w) = 0 /\ Sinking(t, w) = 0
      BY <1>8 DEF Opening, Sinking
    <3>2. Among(s, {}, w) = 0 /\ Among(t, {}, w) = 0
      BY DEF Among
    <3>. QED BY <3>1, <3>2 DEF Expected
  <2>. QED BY <1>1, <1>4, <1>8, <1>9, <2>1, AllSoundStill
<1>11. \A j \in D : \E a \in D : s.ids[j] \in s.got[a]
  <2>1. \A a \in D : \E b \in D : s.got[a] = {s.ids[b]}
    BY <1>3, <1>5 DEF ReadOK
  <2>2. \A a, b \in D : a # b => s.got[a] # s.got[b]
    BY <1>3, <1>5 DEF ReadOK
  <2>3. CASE D = {1}
    BY <2>1, <2>3
  <2>4. CASE D = {1, 2}
    <3>1. 1 # 2
      OBVIOUS
    <3>2. PICK b \in {1, 2} : s.got[1] = {s.ids[b]}
      BY <2>1, <2>4
    <3>3. PICK c \in {1, 2} : s.got[2] = {s.ids[c]}
      BY <2>1, <2>4
    <3>4. b # c
      BY <2>2, <2>4, <3>1, <3>2, <3>3
    <3>. QED BY <2>4, <3>2, <3>3, <3>4
  <2>. QED BY <1>3, <2>3, <2>4
<1>12. Linked(W, H, t)
  <2>1. \A w : HeldGets(s, w) = {} /\ HeldPuts(s, w) = {}
    BY <1>3, <1>11 DEF HeldGets, HeldPuts
  <2>2. \A w : HeldGets(t, w) = {} /\ HeldPuts(t, w) = {}
    BY <1>8 DEF HeldGets, HeldPuts
  <2>. QED BY <1>4, <2>1, <2>2 DEF Linked
<1>. QED
  BY <1>4, <1>5, <1>8, <1>9, <1>10, <1>12 DEF StatementOK, After, Before

\* A flush begins.
LEMMA FlushKeeps ==
  ASSUME NEW B, NEW W, NEW H, NEW X, NEW m, Sane(B, W, H, X, Idle, m), NEW z \in Windows,
         NEW R \in SUBSET Kinds, \A k \in Kinds \ R : ~Flag(W[z], k),
         NEW t, t = FlushState(z, R, 0, FALSE, FALSE)
  PROVE  StatementOK(B, W, H, X, t, m)
<1>1. /\ B \subseteq Windows /\ W \in [Windows -> Members] /\ H \in [Kinds -> Seq(Checked)] /\ m \in Nat
      /\ AllSound(B, W, Idle, m) /\ Queued(B, W, H, m) /\ Turns(H, Idle) /\ Linked(W, H, Idle)
  BY TypedIs, SaneIs
<1>2. t.pc = "flush" /\ t.flushing = z /\ t.run = R /\ t.val = 0 /\ t.deletes = FALSE
      /\ DOMAIN t.wins = {} /\ DOMAIN t.put = {} /\ t.kind \in Kinds
  BY DEF FlushState, Idle, Kinds
<1>3. t.pc \notin Beginning /\ t.pc \notin Ending /\ t.pc \in Pcs \ {"put", "again", "undefined"}
  BY <1>2 DEF Beginning, Ending, Pcs, Busy
<1>4. AllSound(B, W, t, m)
  <2>1. ASSUME NEW w \in Windows PROVE Expected(t, w) = Expected(Idle, w)
    <3>1. Opening(Idle) = {} /\ Opening(t) = {} /\ Sinking(Idle, w) = 0 /\ Sinking(t, w) = 0
      BY <1>2 DEF Opening, Sinking, Idle
    <3>2. Among(Idle, {}, w) = 0 /\ Among(t, {}, w) = 0
      BY DEF Among
    <3>. QED BY <3>1, <3>2 DEF Expected
  <2>. QED BY <1>1, <1>2, <1>3, <2>1, AllSoundStill
<1>5. Turns(H, t)
  <2>1. Due(t) = 0 /\ Due(Idle) = 0
    BY <1>2 DEF Due, Idle, Ending
  <2>. QED BY <1>1, <2>1 DEF Turns
<1>6. FlushOK(H, t)
  <2>1. ASSUME NEW k \in Kinds \ R, NEW a \in DOMAIN H[k] PROVE z \notin Uses(H[k][a])
    <3>1. QueuedOne(B, W, H[k][a], k, m)
      BY <1>1 DEF Queued
    <3>. QED BY <3>1 DEF QueuedOne
  <2>2. z # None /\ ~t.deletes
    BY <1>2, Bounds
  <2>3. \A k \in Kinds \ t.run : \A a \in DOMAIN H[k] : t.flushing \notin Uses(H[k][a])
    BY <1>2, <2>1
  <2>4. t.flushing # None /\ DOMAIN t.put = {}
    BY <1>2, <2>2
  <2>. QED BY <1>3, <2>2, <2>3, <2>4 DEF FlushOK
<1>7. Linked(W, H, t)
  <2>1. \A w : HeldGets(Idle, w) = {} /\ HeldPuts(Idle, w) = {}
    BY DEF HeldGets, HeldPuts, Idle
  <2>2. \A w : HeldGets(t, w) = {} /\ HeldPuts(t, w) = {}
    BY <1>2 DEF HeldGets, HeldPuts
  <2>. QED BY <1>1, <2>1, <2>2 DEF Linked
<1>. QED
  BY <1>1, <1>3, <1>4, <1>5, <1>6, <1>7 DEF StatementOK, After, Before

\* H[k]'s first handle is taken.
Popped(H, k, G) == G[k] = Tail(H[k]) /\ \A j \in Kinds \ {k} : G[j] = H[j]

\* Queue R is Q without its first handle.
Follows(R, Q) ==
  /\ 1 \in DOMAIN Q
  /\ \A a \in DOMAIN R : a \in Nat /\ 1 < a + 1 /\ a + 1 \in DOMAIN Q /\ R[a] = Q[a + 1]
  /\ \A b \in DOMAIN Q : b = 1 \/ \E a \in DOMAIN R : b = a + 1
  /\ R # <<>> => 1 \in DOMAIN R /\ 2 \in DOMAIN Q /\ R[1] = Q[2]
  /\ 2 \in DOMAIN Q => 1 \in DOMAIN R /\ R # <<>> /\ R[1] = Q[2]

\* Without its first handle a queue is in order still.
LEMMA QueueTail ==
  ASSUME NEW B, NEW W, NEW H \in [Kinds -> Seq(Checked)], NEW m, Queued(B, W, H, m), NEW k \in Kinds, H[k] # <<>>,
         NEW G \in [Kinds -> Seq(Checked)], Popped(H, k, G)
  PROVE  Queued(B, W, G, m) /\ Follows(G[k], H[k])
<1>1. /\ \A j \in Kinds : H[j] \in Seq(Checked) /\ Len(H[j]) \in Nat /\ DOMAIN H[j] = 1 .. Len(H[j])
      /\ \A j \in Kinds : G[j] \in Seq(Checked) /\ Len(G[j]) \in Nat /\ DOMAIN G[j] = 1 .. Len(G[j])
      /\ G[k] = Tail(H[k]) /\ \A j \in Kinds \ {k} : G[j] = H[j]
  BY DEF Popped
<1>2. Len(H[k]) # 0 /\ Len(G[k]) = Len(H[k]) - 1 /\ \A a \in 1 .. Len(H[k]) - 1 : G[k][a] = H[k][a + 1]
  <2>1. H[k] \in Seq(Checked) /\ H[k] # <<>>
    BY <1>1
  <2>. QED BY <1>1, <2>1
<1>3. PICK L \in Nat : L = Len(H[k]) /\ L # 0 /\ DOMAIN H[k] = 1 .. L /\ DOMAIN G[k] = 1 .. L - 1
  BY <1>1, <1>2
<1>4. \A a \in DOMAIN G[k] : a \in Nat /\ 1 < a + 1 /\ a + 1 \in DOMAIN H[k] /\ G[k][a] = H[k][a + 1]
  BY <1>2, <1>3
<1>5. \A b \in DOMAIN H[k] : b = 1 \/ \E a \in DOMAIN G[k] : b = a + 1
  <2>. SUFFICES ASSUME NEW b \in 1 .. L, b # 1 PROVE b - 1 \in 1 .. L - 1 /\ b = (b - 1) + 1
    BY <1>3
  <2>. QED OBVIOUS
<1>6. G[k] # <<>> => 1 \in DOMAIN G[k] /\ 2 \in DOMAIN H[k] /\ G[k][1] = H[k][2]
  <2>. SUFFICES ASSUME G[k] # <<>> PROVE 1 \in DOMAIN G[k] /\ 2 \in DOMAIN H[k] /\ G[k][1] = H[k][2]
    OBVIOUS
  <2>1. Len(G[k]) # 0
    BY <1>1
  <2>2. 1 \in DOMAIN G[k]
    BY <1>1, <2>1
  <2>3. 1 + 1 = 2
    OBVIOUS
  <2>. QED BY <1>4, <2>2, <2>3
<1>7. 2 \in DOMAIN H[k] => 1 \in DOMAIN G[k] /\ G[k] # <<>> /\ G[k][1] = H[k][2]
  <2>1. 2 \in DOMAIN H[k] => 1 \in DOMAIN G[k]
    BY <1>3
  <2>2. 1 \in DOMAIN G[k] => G[k] # <<>>
    OBVIOUS
  <2>. QED BY <1>6, <2>1, <2>2
<1>8. Queued(B, W, G, m)
  <2>. SUFFICES ASSUME NEW j \in Kinds
                PROVE  /\ \A a \in DOMAIN G[j] : QueuedOne(B, W, G[j][a], j, m)
                       /\ \A a, b \in DOMAIN G[j] : a < b => QueuedTwo(G[j][a], G[j][b])
                       /\ \A a \in DOMAIN G[j] : G[j][a].what = "expr" /\ G[j][a].sink # None =>
                            a + 1 \in DOMAIN G[j] /\ G[j][a + 1].what = "put"
                       /\ \A a \in DOMAIN G[j] : a + 1 \in DOMAIN G[j] /\ G[j][a + 1].what = "put" =>
                            G[j][a].what = "expr" /\ G[j][a].sink # None /\ G[j][a + 1].id = G[j][a].id
    BY DEF Queued
  <2>1. /\ \A a \in DOMAIN H[j] : QueuedOne(B, W, H[j][a], j, m)
        /\ \A a, b \in DOMAIN H[j] : a < b => QueuedTwo(H[j][a], H[j][b])
        /\ \A a \in DOMAIN H[j] : H[j][a].what = "expr" /\ H[j][a].sink # None =>
             a + 1 \in DOMAIN H[j] /\ H[j][a + 1].what = "put"
        /\ \A a \in DOMAIN H[j] : a + 1 \in DOMAIN H[j] /\ H[j][a + 1].what = "put" =>
             H[j][a].what = "expr" /\ H[j][a].sink # None /\ H[j][a + 1].id = H[j][a].id
    BY DEF Queued
  <2>2. CASE j # k
    <3>1. G[j] = H[j]
      BY <1>1, <2>2
    <3>. QED BY <2>1, <3>1
  <2>3. CASE j = k
    <3>1. \A a \in DOMAIN G[j] : QueuedOne(B, W, G[j][a], j, m)
      BY <1>4, <2>1, <2>3
    <3>2. ASSUME NEW a \in DOMAIN G[j], NEW b \in DOMAIN G[j], a < b PROVE QueuedTwo(G[j][a], G[j][b])
      <4>1. a + 1 < b + 1 /\ a + 1 \in DOMAIN H[j] /\ b + 1 \in DOMAIN H[j] /\ G[j][a] = H[j][a + 1] /\ G[j][b] = H[j][b + 1]
        BY <1>4, <2>3, <3>2
      <4>. QED BY <2>1, <4>1
    <3>3. \A a \in DOMAIN G[j] : (a + 1) + 1 \in DOMAIN H[j] => a + 1 \in DOMAIN G[j] /\ G[j][a + 1] = H[j][(a + 1) + 1]
      <4>1. \A a \in DOMAIN G[j] : (a + 1) + 1 \in DOMAIN H[j] => a + 1 \in DOMAIN G[j]
        BY <1>3, <2>3
      <4>. QED BY <1>4, <2>3, <4>1
    <3>4. ASSUME NEW a \in DOMAIN G[j], G[j][a].what = "expr", G[j][a].sink # None
          PROVE  a + 1 \in DOMAIN G[j] /\ G[j][a + 1].what = "put"
      <4>1. a + 1 \in DOMAIN H[j] /\ G[j][a] = H[j][a + 1]
        BY <1>4, <2>3
      <4>2. (a + 1) + 1 \in DOMAIN H[j] /\ H[j][(a + 1) + 1].what = "put"
        BY <2>1, <3>4, <4>1
      <4>. QED BY <3>3, <4>2
    <3>5. ASSUME NEW a \in DOMAIN G[j], a + 1 \in DOMAIN G[j], G[j][a + 1].what = "put"
          PROVE  G[j][a].what = "expr" /\ G[j][a].sink # None /\ G[j][a + 1].id = G[j][a].id
      <4>1. a + 1 \in DOMAIN H[j] /\ G[j][a] = H[j][a + 1] /\ (a + 1) + 1 \in DOMAIN H[j] /\ G[j][a + 1] = H[j][(a + 1) + 1]
        BY <1>4, <2>3, <3>5
      <4>. QED BY <2>1, <3>5, <4>1
    <3>. QED BY <3>1, <3>2, <3>4, <3>5
  <2>. QED BY <2>2, <2>3
<1>9. Follows(G[k], H[k])
  <2>1. 1 \in DOMAIN H[k]
    BY <1>3
  <2>. QED BY <1>4, <1>5, <1>6, <1>7, <2>1 DEF Follows
<1>. QED BY <1>8, <1>9

\* What handle h is to read of w, and to put into it.
ToRead(h, w, x) == \E i \in DOMAIN h.wins : h.wins[i] = w /\ h.ids[i] = x
PutsInto(h, w, x) == h.what = "put" /\ h.sink = w /\ h.id = x

\* Handles H are to read of w and to put into it what those of G are, and what h is.
Splits(H, G, h, w) ==
  \A x \in Accesses : /\ x \in QueuedGets(H, w) <=> x \in QueuedGets(G, w) \/ ToRead(h, w, x)
                      /\ x \in QueuedPuts(H, w) <=> x \in QueuedPuts(G, w) \/ PutsInto(h, w, x)

\* The handles without the first one of a kind are to read and to put all but what it is to.
LEMMA QueueLess ==
  ASSUME NEW B, NEW W, NEW H \in [Kinds -> Seq(Checked)], NEW m, Queued(B, W, H, m), NEW k \in Kinds, H[k] # <<>>,
         NEW G \in [Kinds -> Seq(Checked)], Popped(H, k, G),
         NEW h, h = H[k][1], NEW w
  PROVE  Splits(H, G, h, w)
<1>. SUFFICES ASSUME NEW x \in Accesses
              PROVE  /\ x \in QueuedGets(H, w) <=> x \in QueuedGets(G, w) \/ ToRead(h, w, x)
                     /\ x \in QueuedPuts(H, w) <=> x \in QueuedPuts(G, w) \/ PutsInto(h, w, x)
  BY DEF Splits
<1>1. /\ 1 \in DOMAIN H[k]
      /\ \A a \in DOMAIN G[k] : a + 1 \in DOMAIN H[k] /\ G[k][a] = H[k][a + 1]
      /\ \A b \in DOMAIN H[k] : b = 1 \/ \E a \in DOMAIN G[k] : b = a + 1
  <2>1. Follows(G[k], H[k])
    BY QueueTail
  <2>. QED BY <2>1 DEF Follows
<1>2. ASSUME NEW g PROVE (\E j \in Kinds : \E a \in DOMAIN H[j] : H[j][a] = g)
                          <=> g = h \/ \E j \in Kinds : \E a \in DOMAIN G[j] : G[j][a] = g
  <2>1. ASSUME NEW j \in Kinds, NEW a \in DOMAIN H[j], H[j][a] = g PROVE g = h \/ \E l \in Kinds : \E b \in DOMAIN G[l] : G[l][b] = g
    <3>1. CASE j # k
      <4>1. G[j] = H[j]
        BY <3>1 DEF Popped
      <4>. QED BY <2>1, <4>1
    <3>2. CASE j = k /\ a = 1
      BY <2>1, <3>2
    <3>3. CASE j = k /\ a # 1
      <4>1. PICK b \in DOMAIN G[k] : a = b + 1
        BY <1>1, <3>3
      <4>2. G[k][b] = g
        BY <1>1, <2>1, <3>3, <4>1
      <4>. QED BY <4>2
    <3>. QED BY <3>1, <3>2, <3>3
  <2>2. ASSUME NEW j \in Kinds, NEW a \in DOMAIN G[j], G[j][a] = g PROVE \E l \in Kinds : \E b \in DOMAIN H[l] : H[l][b] = g
    <3>1. CASE j # k
      <4>1. G[j] = H[j]
        BY <3>1 DEF Popped
      <4>. QED BY <2>2, <4>1
    <3>2. CASE j = k
      BY <1>1, <2>2, <3>2
    <3>. QED BY <3>1, <3>2
  <2>3. g = h => \E l \in Kinds : \E b \in DOMAIN H[l] : H[l][b] = g
    BY <1>1
  <2>. QED BY <2>1, <2>2, <2>3
<1>3. x \in QueuedGets(H, w) <=> x \in QueuedGets(G, w) \/ \E i \in DOMAIN h.wins : h.wins[i] = w /\ h.ids[i] = x
  <2>. DEFINE In(F, g) == \E j \in Kinds : \E a \in DOMAIN F[j] : F[j][a] = g
              P(g) == \E i \in DOMAIN g.wins : g.wins[i] = w /\ g.ids[i] = x
  <2>1. x \in QueuedGets(H, w) <=> \E g : In(H, g) /\ P(g)
    BY DEF QueuedGets
  <2>2. x \in QueuedGets(G, w) <=> \E g : In(G, g) /\ P(g)
    BY DEF QueuedGets
  <2>3. \A g : In(H, g) <=> g = h \/ In(G, g)
    BY <1>2
  <2>. HIDE DEF In
  <2>4. (\E g : In(H, g) /\ P(g)) <=> (\E g : In(G, g) /\ P(g)) \/ P(h)
    <3>. HIDE DEF P
    <3>. QED BY <2>3, Zenon
  <2>. QED BY <2>1, <2>2, <2>4
<1>4. x \in QueuedPuts(H, w) <=> x \in QueuedPuts(G, w) \/ (h.what = "put" /\ h.sink = w /\ h.id = x)
  <2>. DEFINE In(F, g) == \E j \in Kinds : \E a \in DOMAIN F[j] : F[j][a] = g
              P(g) == g.what = "put" /\ g.sink = w /\ g.id = x
  <2>1. x \in QueuedPuts(H, w) <=> \E g : In(H, g) /\ P(g)
    BY DEF QueuedPuts
  <2>2. x \in QueuedPuts(G, w) <=> \E g : In(G, g) /\ P(g)
    BY DEF QueuedPuts
  <2>3. \A g : In(H, g) <=> g = h \/ In(G, g)
    BY <1>2
  <2>. HIDE DEF In
  <2>4. (\E g : In(H, g) /\ P(g)) <=> (\E g : In(G, g) /\ P(g)) \/ P(h)
    <3>. HIDE DEF P
    <3>. QED BY <2>3, Zenon
  <2>. QED BY <2>1, <2>2, <2>4
<1>. QED BY <1>3, <1>4 DEF ToRead, PutsInto

\* A flush turns to a handle's expression.
LEMMA RunExprKeeps ==
  ASSUME NEW B, NEW W, NEW H, NEW X, NEW s, NEW m, Sane(B, W, H, X, s, m), s.pc = "flush", s.run # {},
         NEW k, k = Runs(s), H[k] # <<>>, NEW h, h = H[k][1], h.what # "put",
         NEW G \in [Kinds -> Seq(Checked)], Popped(H, k, G), NEW t, h.what = "expr" => t = RunState(s, k, h)
  PROVE  h.what = "expr" /\ StatementOK(B, W, G, X, t, m)
<1>. DEFINE D == DOMAIN h.wins
<1>1. /\ B \subseteq Windows /\ W \in [Windows -> Members] /\ H \in [Kinds -> Seq(Checked)]
      /\ s \in State /\ StateOK(s) /\ m \in Nat /\ s.run \in SUBSET Kinds
  BY TypedIs, SaneIs, StateIs
<1>2. AllSound(B, W, s, m) /\ Queued(B, W, H, m) /\ Turns(H, s) /\ FlushOK(H, s) /\ Linked(W, H, s)
  BY SaneIs
<1>3. k \in Kinds /\ k \in s.run
  BY <1>1 DEF Runs, Kinds
<1>4. Queued(B, W, G, m) /\ Follows(G[k], H[k])
  BY <1>1, <1>2, <1>3, QueueTail
<1>5. 1 \in DOMAIN H[k] /\ h \in Handle /\ HandleOK(h) /\ QueuedOne(B, W, h, k, m)
  <2>1. 1 \in DOMAIN H[k]
    BY <1>4 DEF Follows
  <2>2. h \in Handle /\ HandleOK(h)
    BY <1>3, <2>1, SaneIs, TypedIs
  <2>3. QueuedOne(B, W, h, k, m)
    BY <1>2, <1>3, <2>1 DEF Queued
  <2>. QED BY <2>1, <2>2, <2>3
<1>6. /\ h.what = "expr" /\ ~h.deletes /\ Ordered(h, m) /\ (h.sink # None <=> h.id # 0)
      /\ \A w \in Uses(h) : w \notin B /\ Flag(W[w], k)
  BY <1>5 DEF QueuedOne
<1>7. /\ t \in State /\ StateOK(t)
      /\ t.pc = "eval" /\ t.kind = k /\ t.wins = h.wins /\ t.ids = h.ids /\ t.opened = h.opened
      /\ t.sink = h.sink /\ t.sinkId = h.id /\ t.todo = D
      /\ DOMAIN t.got = D /\ (\A i \in D : t.got[i] = {}) /\ DOMAIN t.put = {} /\ t.deletes = h.deletes
      /\ t.order = <<>> /\ t.flushing = s.flushing /\ t.run = s.run /\ t.val = s.val
      /\ DOMAIN h.wins = DOMAIN h.ids /\ 1 \in D
  <2>1. t = RunState(s, k, h)
    BY <1>6
  <2>2. t \in State /\ StateOK(t) /\ D \in {{1}, {1, 2}} /\ DOMAIN h.wins = DOMAIN h.ids
    BY <1>1, <1>3, <1>5, <1>6, <2>1, RunStateIs
  <2>3. /\ t.pc = "eval" /\ t.kind = k /\ t.wins = h.wins /\ t.ids = h.ids /\ t.opened = h.opened
        /\ t.sink = h.sink /\ t.sinkId = h.id /\ t.todo = D
        /\ t.put = <<>> /\ t.deletes = h.deletes
        /\ t.order = <<>> /\ t.flushing = s.flushing /\ t.run = s.run /\ t.val = s.val
    BY <1>1, <2>1 DEF RunState, State, StateOK
  <2>4. t.got = [i \in DOMAIN h.wins |-> {}]
    BY <1>1, <1>3, <1>5, <1>6, <2>1, RunStateIs
  <2>5. DOMAIN t.got = D /\ \A i \in D : t.got[i] = {}
    BY <2>4
  <2>6. 1 \in D
    BY <2>2
  <2>7. DOMAIN t.put = {}
    BY <2>3
  <2>. QED BY <2>2, <2>3, <2>5, <2>6, <2>7
<1>8. /\ t.pc \in Ending /\ t.pc \notin Beginning /\ t.pc \in Pcs \ {"put", "again", "undefined"}
      /\ s.pc \notin Ending /\ s.pc \notin Beginning /\ s.flushing # None
  BY <1>2, <1>7 DEF Ending, Beginning, Pcs, Busy, FlushOK
<1>9. Uses(t) = Uses(h) /\ Uses(t) \subseteq Windows
  <2>1. Uses(t) = Uses(h)
    BY <1>7 DEF Uses
  <2>2. t.wins \in Seq(Windows) /\ t.sink \in Windows \cup {None}
    BY <1>7, StateIs
  <2>. QED BY <2>1, <2>2, UsesAre
<1>10. ASSUME NEW w PROVE Expected(t, w) = Expected(s, w)
  <2>1. Opening(s) = {} /\ Opening(t) = {} /\ Sinking(s, w) = 0 /\ Sinking(t, w) = 0
    BY <1>7 DEF Opening, Sinking
  <2>2. Among(s, {}, w) = 0 /\ Among(t, {}, w) = 0
    BY DEF Among
  <2>. QED BY <2>1, <2>2 DEF Expected
<1>11. AllSound(B, W, t, m)
  <2>1. ASSUME NEW w \in Windows, NEW l \in Kinds, Sound(B, W[w], s, w, l, m) PROVE Sound(B, W[w], t, w, l, m)
    <3>1. W[w] \in Members /\ Expected(t, w) = Expected(s, w)
      BY <1>1, <1>10
    <3>. QED BY <1>1, <2>1, <3>1, SoundSame
  <2>2. ASSUME NEW w \in Windows PROVE \E l \in Kinds : Sound(B, W[w], t, w, l, m)
    <3>1. PICK l \in Kinds : Sound(B, W[w], s, w, l, m)
      BY <1>2 DEF AllSound
    <3>. QED BY <2>1, <3>1
  <2>3. ASSUME NEW w \in Uses(t) PROVE Sound(B, W[w], t, w, t.kind, m)
    <3>1. w \in Windows /\ w \notin B /\ Flag(W[w], k)
      BY <1>6, <1>9
    <3>2. PICK l \in Kinds : Sound(B, W[w], t, w, l, m)
      BY <2>2, <3>1
    <3>3. l = k
      BY <1>3, <3>1, <3>2 DEF Sound, Only, Flag, Kinds
    <3>. QED BY <1>7, <3>2, <3>3
  <2>. QED BY <2>2, <2>3 DEF AllSound
<1>12. Ended(B, W, t, m)
  <2>1. ReadOK(t)
    <3>1. DOMAIN t.got \ t.todo = {} /\ DOMAIN t.wins = D
      BY <1>7
    <3>2. t.todo # {}
      BY <1>7
    <3>3. \A i \in DOMAIN t.wins : t.todo # DOMAIN t.wins \ {i}
      BY <1>7, <3>1
    <3>. QED BY <1>7, <3>1, <3>2, <3>3 DEF ReadOK
  <2>2. Ordered(t, m)
    BY <1>6, <1>7 DEF Ordered
  <2>3. t.kind = Runs(t)
    BY <1>7 DEF Runs
  <2>4. t.todo = {} <=> t.pc = "store"
    BY <1>7
  <2>. QED BY <1>6, <1>7, <1>8, <1>9, <2>1, <2>2, <2>3, <2>4 DEF Ended
<1>13. Before(G, t)
  <2>. SUFFICES ASSUME NEW a \in DOMAIN G[k], NEW i \in DOMAIN t.ids, NEW j \in DOMAIN G[k][a].ids
                PROVE  t.ids[i] < G[k][a].ids[j]
    BY <1>7 DEF Before
  <2>1. 1 < a + 1 /\ a + 1 \in DOMAIN H[k] /\ G[k][a] = H[k][a + 1]
    BY <1>4 DEF Follows
  <2>2. QueuedTwo(h, G[k][a])
    BY <1>2, <1>3, <1>5, <2>1 DEF Queued
  <2>. QED BY <1>7, <2>2 DEF QueuedTwo
<1>14. Turns(G, t)
  <2>1. Due(t) = h.id /\ Runs(t) = k
    BY <1>7, <1>8 DEF Due, Runs
  <2>2. ASSUME h.id # 0 PROVE G[k] # <<>> /\ G[k][1].what = "put"
    <3>1. h.sink # None
      BY <1>6, <2>2
    <3>2. 1 + 1 \in DOMAIN H[k] /\ H[k][1 + 1].what = "put"
      BY <1>2, <1>3, <1>5, <1>6, <3>1 DEF Queued
    <3>3. 1 + 1 = 2
      OBVIOUS
    <3>4. 2 \in DOMAIN H[k] /\ H[k][2].what = "put"
      BY <3>2, <3>3
    <3>. QED BY <1>4, <3>4 DEF Follows
  <2>3. ASSUME NEW j \in Kinds, G[j] # <<>>, G[j][1].what = "put" PROVE j = k /\ h.id # 0 /\ G[j][1].id = h.id
    <3>1. CASE j # k
      <4>1. G[j] = H[j]
        BY <3>1 DEF Popped
      <4>. QED BY <1>2, <2>3, <3>1, <4>1 DEF Turns
    <3>2. CASE j = k
      <4>1. 2 \in DOMAIN H[k] /\ H[k][2].what = "put" /\ G[k][1] = H[k][2]
        BY <1>4, <2>3, <3>2 DEF Follows
      <4>2. 1 + 1 = 2
        OBVIOUS
      <4>3. 1 + 1 \in DOMAIN H[k] /\ H[k][1 + 1].what = "put"
        BY <4>1, <4>2
      <4>4. h.sink # None /\ H[k][1 + 1].id = h.id
        BY <1>2, <1>3, <1>5, <4>3 DEF Queued
      <4>. QED BY <1>6, <3>2, <4>1, <4>2, <4>4
    <3>. QED BY <3>1, <3>2
  <2>. QED BY <1>7, <2>1, <2>2, <2>3 DEF Turns
<1>15. FlushOK(G, t)
  <2>1. \A j \in Kinds \ t.run : \A a \in DOMAIN G[j] : t.flushing \notin Uses(G[j][a])
    <3>1. \A j \in Kinds \ t.run : G[j] = H[j]
      BY <1>3, <1>7 DEF Popped
    <3>. QED BY <1>2, <1>7, <1>8, <3>1 DEF FlushOK
  <2>. QED BY <1>3, <1>6, <1>7, <1>8, <2>1 DEF FlushOK
<1>16. Linked(W, G, t)
  <2>. SUFFICES ASSUME NEW w \in Windows
                PROVE  /\ Pending(W[w]) = QueuedGets(G, w) \cup HeldGets(t, w)
                       /\ ToPut(W[w]) = QueuedPuts(G, w) \cup HeldPuts(t, w)
    BY DEF Linked
  <2>1. Pending(W[w]) = QueuedGets(H, w) \cup HeldGets(s, w) /\ ToPut(W[w]) = QueuedPuts(H, w) \cup HeldPuts(s, w)
    BY <1>2 DEF Linked
  <2>2. HeldGets(s, w) = {} /\ HeldPuts(s, w) = {} /\ HeldPuts(t, w) = {}
    <3>1. DOMAIN s.wins = {}
      BY <1>1 DEF StateOK
    <3>. QED BY <1>7, <3>1 DEF HeldGets, HeldPuts
  <2>3. \A x \in Accesses : x \in HeldGets(t, w) <=> ToRead(h, w, x)
    BY <1>7 DEF HeldGets, ToRead
  <2>4. \A x \in Accesses : /\ x \in QueuedGets(H, w) <=> x \in QueuedGets(G, w) \/ ToRead(h, w, x)
                            /\ x \in QueuedPuts(H, w) <=> x \in QueuedPuts(G, w) \/ PutsInto(h, w, x)
    <3>1. Splits(H, G, h, w)
      BY <1>1, <1>2, <1>3, QueueLess
    <3>. QED BY <3>1 DEF Splits
  <2>5. \A x : ~PutsInto(h, w, x)
    BY DEF PutsInto
  <2>6. /\ QueuedGets(H, w) \subseteq Accesses /\ QueuedGets(G, w) \subseteq Accesses /\ HeldGets(t, w) \subseteq Accesses
        /\ QueuedPuts(H, w) \subseteq Accesses /\ QueuedPuts(G, w) \subseteq Accesses
    BY DEF QueuedGets, HeldGets, QueuedPuts
  <2>7. QueuedGets(H, w) = QueuedGets(G, w) \cup HeldGets(t, w)
    BY <2>3, <2>4, <2>6
  <2>8. QueuedPuts(H, w) = QueuedPuts(G, w)
    BY <2>4, <2>5, <2>6
  <2>. QED BY <2>1, <2>2, <2>7, <2>8
<1>. QED
  BY <1>4, <1>6, <1>8, <1>11, <1>12, <1>13, <1>14, <1>15, <1>16 DEF StatementOK, After

\* The put h of kind k, which a flush s comes to, may be made.
Puttable(W, s, h, k) == s.val # 0 /\ ~s.deletes /\ ~PutWild(W[h.sink], k)

\* A flush makes the put of the expression it ran last.
LEMMA RunPutKeeps ==
  ASSUME NEW B, NEW W, NEW H, NEW X, NEW s, NEW m, Sane(B, W, H, X, s, m), s.pc = "flush", s.run # {},
         NEW k, k = Runs(s), H[k] # <<>>, NEW h, h = H[k][1], h.what = "put",
         NEW G \in [Kinds -> Seq(Checked)], Popped(H, k, G),
         NEW p, p.to = NextPut(W[h.sink], k), p.val = s.val, p.id = h.id,
         NEW t, t = TurnState(s, s.run, 0, <<p>>, s.deletes, TRUE)
  PROVE  /\ Puttable(W, s, h, k)
         /\ StatementOK(B, [W EXCEPT ![h.sink] = PutMade(W[h.sink], k)], G, X, t, m)
<1>. DEFINE w == h.sink
            v == W[w]
            u == PutMade(v, k)
            V == [W EXCEPT ![w] = u]
            y == NextPut(v, k)
<1>1. /\ B \subseteq Windows /\ W \in [Windows -> Members] /\ H \in [Kinds -> Seq(Checked)]
      /\ s \in State /\ StateOK(s) /\ m \in Nat /\ s.run \in SUBSET Kinds /\ s.kind \in Kinds
  BY TypedIs, SaneIs, StateIs
<1>2. AllSound(B, W, s, m) /\ Queued(B, W, H, m) /\ Turns(H, s) /\ FlushOK(H, s) /\ Linked(W, H, s)
  BY SaneIs
<1>3. k \in Kinds /\ k \in s.run
  BY <1>1 DEF Runs, Kinds
<1>4. Queued(B, W, G, m) /\ Follows(G[k], H[k])
  BY <1>1, <1>2, <1>3, QueueTail
<1>5. 1 \in DOMAIN H[k] /\ h \in Handle /\ HandleOK(h) /\ QueuedOne(B, W, h, k, m)
  <2>1. 1 \in DOMAIN H[k]
    BY <1>4 DEF Follows
  <2>2. h \in Handle /\ HandleOK(h)
    BY <1>3, <2>1, SaneIs, TypedIs
  <2>3. QueuedOne(B, W, h, k, m)
    BY <1>2, <1>3, <2>1 DEF Queued
  <2>. QED BY <2>1, <2>2, <2>3
<1>6. /\ w \in Windows /\ v \in Members /\ w \notin B /\ Flag(v, k) /\ h.wins = <<>>
      /\ h.id # 0 /\ h.id \in Accesses /\ h.id \in Int
  <2>1. w \in Windows /\ h.wins = <<>> /\ h.id \in 0 .. MaxAccesses
    BY <1>5, HandleIs DEF HandleOK
  <2>2. w \in Uses(h)
    BY <2>1, Bounds DEF Uses
  <2>3. w \notin B /\ Flag(v, k) /\ h.id # 0
    BY <1>5, <2>2 DEF QueuedOne
  <2>4. h.id \in Accesses /\ h.id \in Int
    BY <2>1, <2>3, Bounds
  <2>. QED BY <1>1, <2>1, <2>3, <2>4
<1>7. h.id = s.val /\ s.val # 0 /\ ~s.deletes /\ s.flushing # None
  <2>1. h.id = Due(s)
    BY <1>2, <1>3 DEF Turns
  <2>. QED BY <1>2, <1>6, <2>1 DEF Due, FlushOK
<1>8. /\ t.pc = "flush" /\ t.wins = s.wins /\ t.sink = s.sink /\ t.ids = s.ids /\ t.kind = s.kind
      /\ DOMAIN t.put = {1} /\ t.put[1] = p /\ t.deletes = s.deletes /\ t.flushing = s.flushing /\ t.run = s.run /\ t.val = 0
      /\ DOMAIN s.wins = {}
  <2>1. t.put = <<p>>
    BY <1>1 DEF TurnState, State
  <2>2. DOMAIN <<p>> = {1} /\ <<p>>[1] = p
    OBVIOUS
  <2>3. DOMAIN s.wins = {}
    BY <1>1 DEF StateOK
  <2>4. DOMAIN t.put = {1} /\ t.put[1] = p
    BY <2>1, <2>2, Zenon
  <2>. QED BY <1>1, <2>3, <2>4 DEF TurnState, State
<1>9. /\ t.pc \notin Ending /\ t.pc \notin Beginning /\ t.pc \in Pcs \ {"put", "again", "undefined"}
      /\ s.pc \notin Ending /\ s.pc \notin Beginning
  BY <1>8 DEF Ending, Beginning, Pcs, Busy
<1>. HIDE DEF w, v
<1>10. ASSUME NEW l \in Kinds, NEW z, z = w, NEW a \in DOMAIN H[l], H[l][a].what = "put", H[l][a].sink = z PROVE Flag(v, l)
  <2>1. PICK g : g = H[l][a]
    OBVIOUS
  <2>2. QueuedOne(B, W, g, l, m)
    BY <1>2, <2>1 DEF Queued
  <2>3. w \in Uses(g)
    BY <1>6, <1>10, <2>1, Bounds DEF Uses
  <2>. QED BY <2>2, <2>3 DEF QueuedOne, v
<1>11. Sound(B, v, s, w, k, m)
  <2>1. PICK l \in Kinds : Sound(B, v, s, w, l, m)
    BY <1>2, <1>6 DEF AllSound, v
  <2>2. l = k
    BY <1>3, <1>6, <2>1 DEF Sound, Only, Flag, Kinds
  <2>. QED BY <2>1, <2>2
<1>12. Good(v, k, m) /\ Only(v, k)
  BY <1>6, <1>11 DEF Sound
<1>13. ASSUME NEW l \in Kinds, Flag(v, l) PROVE l = k
  BY <1>3, <1>12, <1>13 DEF Only, Flag, Kinds
<1>14. \A z : Splits(H, G, h, z)
  <2>. TAKE z
  <2>. QED BY <1>1, <1>2, <1>3, QueueLess
<1>15. \A z, x : ~ToRead(h, z, x) /\ (PutsInto(h, z, x) <=> z = w /\ x = h.id)
  <2>1. DOMAIN h.wins = {}
    BY <1>6
  <2>. QED BY <2>1 DEF ToRead, PutsInto, w
<1>16. \A z : /\ QueuedGets(H, z) \subseteq Accesses /\ QueuedGets(G, z) \subseteq Accesses
              /\ QueuedPuts(H, z) \subseteq Accesses /\ QueuedPuts(G, z) \subseteq Accesses
  BY DEF QueuedGets, QueuedPuts
<1>17. /\ \A z : QueuedGets(H, z) = QueuedGets(G, z)
       /\ \A z : z # w => QueuedPuts(H, z) = QueuedPuts(G, z)
       /\ QueuedPuts(H, w) = QueuedPuts(G, w) \cup {h.id}
  <2>1. ASSUME NEW z PROVE QueuedGets(H, z) = QueuedGets(G, z)
    <3>1. \A x \in Accesses : x \in QueuedGets(H, z) <=> x \in QueuedGets(G, z)
      BY <1>14, <1>15 DEF Splits
    <3>. QED BY <1>16, <3>1
  <2>2. ASSUME NEW z, z # w PROVE QueuedPuts(H, z) = QueuedPuts(G, z)
    <3>1. \A x \in Accesses : x \in QueuedPuts(H, z) <=> x \in QueuedPuts(G, z)
      BY <1>14, <1>15, <2>2 DEF Splits
    <3>. QED BY <1>16, <3>1
  <2>3. QueuedPuts(H, w) = QueuedPuts(G, w) \cup {h.id}
    <3>1. \A x \in Accesses : x \in QueuedPuts(H, w) <=> x \in QueuedPuts(G, w) \/ x = h.id
      BY <1>14, <1>15 DEF Splits
    <3>. QED BY <1>6, <1>16, <3>1
  <2>. QED BY <2>1, <2>2, <2>3
<1>18. \A z : HeldGets(s, z) = {} /\ HeldPuts(s, z) = {} /\ HeldGets(t, z) = {} /\ HeldPuts(t, z) = {}
  BY <1>8 DEF HeldGets, HeldPuts
<1>19. Pending(v) = QueuedGets(H, w) /\ ToPut(v) = QueuedPuts(H, w)
  BY <1>2, <1>6, <1>18 DEF Linked, v
<1>20. /\ ~PutWild(v, k) /\ u \in Members /\ Good(u, k, m) /\ (Only(v, k) => Only(u, k))
       /\ y \in ToPut(v) /\ y \in Accesses /\ \A e \in ToPut(v) : e = y \/ y < e
       /\ ToPut(u) = ToPut(v) \ {y} /\ Pending(u) = Pending(v)
       /\ Unposted(u, k) = Unposted(v, k) /\ u.bufc = v.bufc /\ u.puts = v.puts
  <2>1. ToPut(v) # {}
    BY <1>17, <1>19
  <2>. QED BY <1>1, <1>3, <1>6, <1>12, <2>1, PutMadeGood
<1>21. u.isElem = v.isElem /\ u.isBulk = v.isBulk
  BY <1>3, <1>6, <1>20, PutMadeIs
<1>22. \A x \in QueuedPuts(G, w) : h.id < x
  <2>. SUFFICES ASSUME NEW x \in QueuedPuts(G, w) PROVE h.id < x
    OBVIOUS
  <2>1. PICK l, a : l \in Kinds /\ a \in DOMAIN G[l] /\ G[l][a].what = "put" /\ G[l][a].sink = w /\ G[l][a].id = x
    BY DEF QueuedPuts
  <2>2. CASE l # k
    <3>1. G[l] = H[l]
      BY <2>1, <2>2 DEF Popped
    <3>. QED BY <1>10, <1>13, <2>1, <2>2, <3>1
  <2>3. CASE l = k
    <3>1. 1 < a + 1 /\ a + 1 \in DOMAIN H[k] /\ G[k][a] = H[k][a + 1]
      BY <1>4, <2>1, <2>3 DEF Follows
    <3>2. QueuedTwo(h, G[k][a])
      BY <1>2, <1>3, <1>5, <3>1 DEF Queued
    <3>. QED BY <2>1, <2>3, <3>2 DEF QueuedTwo
  <2>. QED BY <2>2, <2>3
<1>23. y = h.id
  <2>1. y \in QueuedPuts(G, w) => h.id < y
    BY <1>22
  <2>2. y = h.id \/ y \in QueuedPuts(G, w)
    BY <1>17, <1>19, <1>20
  <2>3. h.id = y \/ y < h.id
    BY <1>17, <1>19, <1>20
  <2>4. y \in Int
    BY <1>20, Bounds
  <2>. HIDE DEF y
  <2>. QED BY <1>6, <2>1, <2>2, <2>3, <2>4
<1>24. h.id \notin QueuedPuts(G, w)
  BY <1>6, <1>22
<1>. HIDE DEF u, y, V
<1>25. AllSound(B, V, t, m)
  <2>1. \A z : Expected(t, z) = Expected(s, z)
    <3>. TAKE z
    <3>1. Opening(s) = {} /\ Opening(t) = {} /\ Sinking(s, z) = 0 /\ Sinking(t, z) = 0
      BY <1>8 DEF Opening, Sinking
    <3>2. Among(s, {}, z) = 0 /\ Among(t, {}, z) = 0
      BY DEF Among
    <3>. QED BY <3>1, <3>2 DEF Expected
  <2>2. Sound(B, u, t, w, k, m)
    BY <1>6, <1>11, <1>12, <1>20, <2>1 DEF Sound
  <2>3. t.pc \notin Beginning \cup Ending /\ t.kind \in Kinds /\ (m = m \/ m = m + 1)
    BY <1>1, <1>8, <1>9
  <2>4. \A z \in Windows \ {w} : Expected(t, z) = Expected(s, z)
    BY <2>1
  <2>. QED BY <1>1, <1>2, <1>3, <1>6, <1>20, <2>2, <2>3, <2>4, AllSoundAgain DEF V
<1>26. Queued(B, V, G, m)
  <2>1. m <= m /\ \A l \in Kinds : Flag(W[w], l) => Flag(u, l)
    BY <1>1, <1>21 DEF Flag, v
  <2>. QED BY <1>1, <1>4, <1>6, <1>20, <2>1, QueuedOn DEF V
<1>27. Turns(G, t)
  <2>1. Due(t) = 0
    BY <1>8 DEF Due
  <2>2. ASSUME NEW j \in Kinds, G[j] # <<>>, G[j][1].what = "put" PROVE FALSE
    <3>1. CASE j # k
      <4>1. G[j] = H[j]
        BY <3>1 DEF Popped
      <4>. QED BY <1>2, <2>2, <3>1, <4>1 DEF Turns
    <3>2. CASE j = k
      <4>1. 2 \in DOMAIN H[k] /\ H[k][2].what = "put"
        BY <1>4, <2>2, <3>2 DEF Follows
      <4>2. 1 + 1 = 2
        OBVIOUS
      <4>3. 1 + 1 \in DOMAIN H[k] /\ H[k][1 + 1].what = "put"
        BY <4>1, <4>2
      <4>. QED BY <1>2, <1>3, <1>5, <4>3 DEF Queued
    <3>. QED BY <3>1, <3>2
  <2>. QED BY <2>1, <2>2 DEF Turns
<1>28. FlushOK(G, t)
  <2>1. \A j \in Kinds \ t.run : \A a \in DOMAIN G[j] : t.flushing \notin Uses(G[j][a])
    <3>1. \A j \in Kinds \ t.run : G[j] = H[j]
      BY <1>3, <1>8 DEF Popped
    <3>. QED BY <1>2, <1>7, <1>8, <3>1 DEF FlushOK
  <2>2. p.to = p.id /\ p.val = p.id
    BY <1>7, <1>23 DEF y, v, w
  <2>3. \A i \in DOMAIN t.put : t.put[i].to = t.put[i].id /\ t.put[i].val = t.put[i].id
    BY <1>8, <2>2
  <2>. QED BY <1>7, <1>8, <1>9, <2>1, <2>3 DEF FlushOK
<1>29. Linked(V, G, t)
  <2>1. Pending(u) = QueuedGets(G, w) \cup HeldGets(t, w) /\ ToPut(u) = QueuedPuts(G, w) \cup HeldPuts(t, w)
    <3>1. HeldGets(t, w) = {} /\ HeldPuts(t, w) = {}
      BY <1>18
    <3>2. Pending(u) = QueuedGets(G, w)
      <4>1. QueuedGets(H, w) = QueuedGets(G, w)
        BY <1>17
      <4>. QED BY <1>19, <1>20, <4>1
    <3>3. ToPut(u) = QueuedPuts(G, w)
      BY <1>17, <1>19, <1>20, <1>23, <1>24
    <3>. QED BY <3>1, <3>2, <3>3
  <2>2. \A z \in Windows \ {w} : /\ QueuedGets(G, z) \cup HeldGets(t, z) = QueuedGets(H, z) \cup HeldGets(s, z)
                                 /\ QueuedPuts(G, z) \cup HeldPuts(t, z) = QueuedPuts(H, z) \cup HeldPuts(s, z)
    BY <1>17, <1>18
  <2>3. V[w] = u /\ \A z \in Windows \ {w} : V[z] = W[z]
    BY <1>1, <1>6 DEF V
  <2>4. \A z \in Windows \ {w} : /\ Pending(V[z]) = QueuedGets(G, z) \cup HeldGets(t, z)
                                 /\ ToPut(V[z]) = QueuedPuts(G, z) \cup HeldPuts(t, z)
    BY <1>2, <2>2, <2>3 DEF Linked
  <2>5. Pending(V[w]) = QueuedGets(G, w) \cup HeldGets(t, w) /\ ToPut(V[w]) = QueuedPuts(G, w) \cup HeldPuts(t, w)
    BY <2>1, <2>3
  <2>. QED BY <2>4, <2>5 DEF Linked
<1>30. StatementOK(B, V, G, X, t, m)
  BY <1>9, <1>25, <1>26, <1>27, <1>28, <1>29 DEF StatementOK, After, Before
<1>31. Puttable(W, s, h, k)
  BY <1>7, <1>20 DEF Puttable, v, w
<1>. QED
  BY <1>30, <1>31 DEF V, u, v, w

\* A flush has no handle of a kind left.
LEMMA EndRunKeeps ==
  ASSUME NEW B, NEW W, NEW H, NEW X, NEW s, NEW m, Sane(B, W, H, X, s, m), s.pc = "flush", s.run # {},
         NEW k, k = Runs(s), H[k] = <<>>, NEW t, t = TurnState(s, s.run \ {k}, s.val, <<>>, s.deletes, FALSE), NEW Y
  PROVE  StatementOK(B, W, H, Y, t, m)
<1>1. /\ W \in [Windows -> Members] /\ s \in State /\ StateOK(s) /\ m \in Nat /\ s.run \in SUBSET Kinds /\ s.kind \in Kinds
  BY TypedIs, SaneIs, StateIs
<1>2. AllSound(B, W, s, m) /\ Queued(B, W, H, m) /\ Turns(H, s) /\ FlushOK(H, s) /\ Linked(W, H, s)
  BY SaneIs
<1>3. s.val = 0
  BY <1>2 DEF Turns, Due
<1>4. /\ t.pc = "flush" /\ t.wins = s.wins /\ t.sink = s.sink /\ t.ids = s.ids /\ t.kind = s.kind
      /\ DOMAIN t.put = {} /\ t.deletes = s.deletes /\ t.flushing = s.flushing /\ t.run = s.run \ {k} /\ t.val = 0
      /\ DOMAIN s.wins = {}
  <2>1. DOMAIN s.wins = {} /\ DOMAIN <<>> = {}
    BY <1>1 DEF StateOK
  <2>. QED BY <1>1, <1>3, <2>1 DEF TurnState, State
<1>5. /\ t.pc \notin Ending /\ t.pc \notin Beginning /\ t.pc \in Pcs \ {"put", "again", "undefined"}
      /\ t.pc \notin Beginning \cup Ending
  BY <1>4 DEF Ending, Beginning, Pcs, Busy
<1>6. AllSound(B, W, t, m)
  <2>1. ASSUME NEW w \in Windows PROVE Expected(t, w) = Expected(s, w)
    <3>1. Opening(s) = {} /\ Opening(t) = {} /\ Sinking(s, w) = 0 /\ Sinking(t, w) = 0
      BY <1>4 DEF Opening, Sinking
    <3>2. Among(s, {}, w) = 0 /\ Among(t, {}, w) = 0
      BY DEF Among
    <3>. QED BY <3>1, <3>2 DEF Expected
  <2>2. t.kind \in Kinds
    BY <1>1, <1>4
  <2>. QED BY <1>1, <1>2, <1>5, <2>1, <2>2, AllSoundStill
<1>7. Turns(H, t)
  <2>1. Due(t) = 0 /\ Due(s) = 0
    BY <1>3, <1>4 DEF Due
  <2>. QED BY <1>2, <2>1 DEF Turns
<1>8. FlushOK(H, t)
  <2>1. \A j \in Kinds \ t.run : \A a \in DOMAIN H[j] : t.flushing \notin Uses(H[j][a])
    <3>1. DOMAIN H[k] = {}
      OBVIOUS
    <3>. QED BY <1>2, <1>4, <3>1 DEF FlushOK
  <2>2. \A i \in DOMAIN t.put : t.put[i].to = t.put[i].id /\ t.put[i].val = t.put[i].id
    BY <1>4
  <2>. QED BY <1>2, <1>4, <1>5, <2>1, <2>2 DEF FlushOK
<1>9. Linked(W, H, t)
  <2>1. \A z : HeldGets(s, z) = {} /\ HeldPuts(s, z) = {} /\ HeldGets(t, z) = {} /\ HeldPuts(t, z) = {}
    BY <1>4 DEF HeldGets, HeldPuts
  <2>. QED BY <1>2, <2>1 DEF Linked
<1>. QED
  BY <1>2, <1>5, <1>6, <1>7, <1>8, <1>9 DEF StatementOK, After, Before

\* A flush has no handle left that is to read or to put into its window, and clears it.
LEMMA EndFlushKeeps ==
  ASSUME NEW B, NEW W, NEW H, NEW X, NEW s, NEW m, Sane(B, W, H, X, s, m), s.pc = "flush", s.run = {}
  PROVE  StatementOK(B, [W EXCEPT ![s.flushing] = Cleared(W[s.flushing])], H, X, Idle, m)
<1>. DEFINE w == s.flushing
            v == W[w]
            u == Cleared(v)
            V == [W EXCEPT ![w] = u]
<1>1. /\ W \in [Windows -> Members] /\ s \in State /\ StateOK(s) /\ m \in Nat /\ H \in [Kinds -> Seq(Checked)]
  BY TypedIs, SaneIs
<1>2. AllSound(B, W, s, m) /\ Queued(B, W, H, m) /\ Turns(H, s) /\ FlushOK(H, s) /\ Linked(W, H, s)
  BY SaneIs
<1>3. w \in Windows /\ v \in Members /\ w # None /\ DOMAIN s.wins = {}
  <2>1. w \in Windows /\ DOMAIN s.wins = {}
    BY <1>1 DEF StateOK
  <2>. QED BY <1>1, <2>1, Bounds
<1>4. /\ u \in Members /\ \A q \in Lists : u.info[q] = <<>> /\ u.puts[q] = <<>> /\ u.gets[q] = 0 /\ u.xfers[q] = 0
      /\ u.putc = 0 /\ u.bufc = 0 /\ u.size = 0 /\ ~u.isElem /\ ~u.isBulk
  <2>1. v.shape \in Shapes /\ v.unfinished \in SUBSET Accesses
    BY <1>3, MembersAre
  <2>. HIDE DEF v
  <2>. QED BY <2>1, NewIs DEF Cleared
<1>. HIDE DEF w, v, u, V
<1>5. \A k \in Kinds : Good(u, k, m) /\ Pending(u) = {} /\ ToPut(u) = {} /\ Unposted(u, k) = 0
  <2>. TAKE k \in Kinds
  <2>. QED BY <1>1, <1>4, NewGood
<1>6. V[w] = u /\ \A z \in Windows \ {w} : V[z] = W[z]
  BY <1>1, <1>3 DEF V
<1>7. \A k \in Kinds : \A a \in DOMAIN H[k] : w \notin Uses(H[k][a])
  BY <1>2, <1>3 DEF FlushOK, w
<1>8. AllSound(B, V, Idle, m)
  <2>1. \A z : Expected(Idle, z) = Expected(s, z) /\ Expected(Idle, z) = 0
    <3>. TAKE z
    <3>1. Opening(s) = {} /\ Opening(Idle) = {} /\ Sinking(s, z) = 0 /\ Sinking(Idle, z) = 0
      BY DEF Opening, Sinking, Idle
    <3>2. Among(s, {}, z) = 0 /\ Among(Idle, {}, z) = 0
      BY DEF Among
    <3>. QED BY <3>1, <3>2 DEF Expected
  <2>2. PICK k : k \in Kinds
    BY DEF Kinds
  <2>3. Sound(B, u, Idle, w, k, m)
    BY <1>4, <1>5, <2>1, <2>2 DEF Sound, Only
  <2>4. Idle.pc \notin Beginning \cup Ending /\ Idle.kind \in Kinds /\ (m = m \/ m = m + 1)
    BY DEF Idle, Beginning, Ending, Kinds
  <2>5. \A z \in Windows \ {w} : Expected(Idle, z) = Expected(s, z)
    BY <2>1
  <2>. QED BY <1>1, <1>2, <1>3, <1>4, <2>2, <2>3, <2>4, <2>5, AllSoundAgain DEF V
<1>9. Queued(B, V, H, m)
  <2>1. \A k \in Kinds : \A a \in DOMAIN H[k] : \A z \in Uses(H[k][a]) : z \in Windows \ {w}
    <3>. SUFFICES ASSUME NEW k \in Kinds, NEW a \in DOMAIN H[k], NEW z \in Uses(H[k][a]) PROVE z \in Windows \ {w}
      OBVIOUS
    <3>1. H[k][a] \in Handle
      BY SaneIs, TypedIs
    <3>2. PICK h : h = H[k][a]
      OBVIOUS
    <3>3. h.wins \in Seq(Windows) /\ h.sink \in Windows \cup {None}
      BY <3>1, <3>2, HandleIs
    <3>. QED BY <1>7, <3>2, <3>3, UsesAre
  <2>2. \A k \in Kinds : \A a \in DOMAIN H[k] : \A z \in Uses(H[k][a]) : Flag(W[z], k) => Flag(V[z], k)
    BY <1>6, <2>1
  <2>3. m <= m
    BY <1>1
  <2>. QED BY <1>1, <1>2, <2>2, <2>3, QueuedStill
<1>10. Turns(H, Idle)
  <2>1. Due(Idle) = 0
    BY DEF Due, Idle, Ending
  <2>. QED BY <1>2, <2>1 DEF Turns
<1>11. FlushOK(H, Idle)
  <2>1. ~Idle.deletes /\ Idle.pc # "flush" /\ Idle.flushing = None /\ Idle.run = {} /\ DOMAIN Idle.put = {}
    BY DEF Idle
  <2>. QED BY <2>1 DEF FlushOK
<1>12. Linked(V, H, Idle)
  <2>1. \A z : HeldGets(Idle, z) = {} /\ HeldPuts(Idle, z) = {} /\ HeldGets(s, z) = {} /\ HeldPuts(s, z) = {}
    BY <1>3 DEF HeldGets, HeldPuts, Idle
  <2>2. QueuedGets(H, w) = {}
    <3>. SUFFICES ASSUME NEW k \in Kinds, NEW a \in DOMAIN H[k], NEW i \in DOMAIN H[k][a].wins PROVE H[k][a].wins[i] # w
      BY DEF QueuedGets
    <3>1. PICK h : h = H[k][a]
      OBVIOUS
    <3>2. H[k][a] \in Handle
      BY SaneIs, TypedIs
    <3>3. h.wins \in Seq(Windows) /\ h.sink \in Windows \cup {None}
      BY <3>1, <3>2, HandleIs
    <3>. QED BY <1>7, <3>1, <3>3, UsesAre
  <2>3. QueuedPuts(H, w) = {}
    BY <1>3, <1>7 DEF QueuedPuts, Uses
  <2>4. \A z \in Windows \ {w} : /\ Pending(V[z]) = QueuedGets(H, z) \cup HeldGets(Idle, z)
                                 /\ ToPut(V[z]) = QueuedPuts(H, z) \cup HeldPuts(Idle, z)
    BY <1>2, <1>6, <2>1 DEF Linked
  <2>5. Pending(V[w]) = QueuedGets(H, w) \cup HeldGets(Idle, w) /\ ToPut(V[w]) = QueuedPuts(H, w) \cup HeldPuts(Idle, w)
    <3>1. Pending(u) = {} /\ ToPut(u) = {}
      BY <1>5 DEF Kinds
    <3>. QED BY <1>6, <2>1, <2>2, <2>3, <3>1
  <2>. QED BY <2>4, <2>5 DEF Linked
<1>13. Idle.pc \in Pcs \ {"put", "again", "undefined"} /\ Idle.pc \notin Beginning /\ Idle.pc \notin Ending
  BY DEF Idle, Pcs, Busy, Beginning, Ending
<1>14. StatementOK(B, V, H, X, Idle, m)
  BY <1>8, <1>9, <1>10, <1>11, <1>12, <1>13 DEF StatementOK, After, Before
<1>. QED
  BY <1>14 DEF V, u, v, w

-----------------------------------------------------------------------------
(***************************************************************************)
(* Every step keeps the invariant of the statements.                       *)
(***************************************************************************)
LEMMA SaneNow ==
  ASSUME Types, StatementsOK, NEW t \in Threads
  PROVE  Sane(BlockingWindows, win, handles, next, st[t], n)
<1>1. BlockingWindows \subseteq Windows
  BY DEF BlockingWindows
<1>2. /\ win \in [Windows -> Members] /\ handles \in [Kinds -> Seq(Checked)] /\ next \in [Kinds -> 0 .. STORE - 1]
      /\ st[t] \in State /\ StateOK(st[t]) /\ n \in Nat
  BY TypesAre DEF Checked
<1>3. Typed(BlockingWindows, win, handles, next, st[t], n)
  BY <1>1, <1>2 DEF Typed
<1>4. StatementOK(BlockingWindows, win, handles, next, st[t], n)
  BY DEF StatementsOK
<1>. QED BY <1>3, <1>4 DEF Sane

\* With one thread there is no other to be disturbed.
LEMMA OneStep ==
  ASSUME OneThread, Types, UNCHANGED comp, NEW t \in Threads, NEW s, st' = [st EXCEPT ![t] = s],
         StatementOK(BlockingWindows, win', handles', next', s, n')
  PROVE  StatementsOK'
<1>1. BlockingWindows' = BlockingWindows
  BY DEF BlockingWindows, Blocking
<1>2. st'[t] = s
  BY TypesAre
<1>3. \A u \in Threads : u = t
  BY DEF OneThread
<1>. QED BY <1>1, <1>2, <1>3 DEF StatementsOK

\* Every action in turn, by what the lemmas above say of it: Begin,
LEMMA BeginStays ==
  ASSUME OneThread, Types, StatementsOK, NEW t \in Threads, Begin(t), sane'
  PROVE  StatementsOK'
<1>1. PICK k \in Kinds, m \in 1 .. 2, x \in Windows \cup {None} : \E ws \in [1 .. m -> Windows], c \in Nat \ {0} :
        LET s == BeginState(k, ws, m, x, c)
        IN  /\ st[t] = Idle /\ sane
            /\ n + m + (IF x = None THEN 0 ELSE 1) <= MaxAccesses
            /\ s \in State /\ StateOK(s) /\ st' = [st EXCEPT ![t] = s]
            /\ sane' = Supported(k, ws, x, c) /\ sane' \in BOOLEAN
            /\ UNCHANGED <<comp, win, handles, next, n>>
  BY BeginDoes
<1>2. PICK ws \in [1 .. m -> Windows], c \in Nat \ {0} :
        /\ st[t] = Idle /\ st' = [st EXCEPT ![t] = BeginState(k, ws, m, x, c)]
        /\ Supported(k, ws, x, c) /\ UNCHANGED <<comp, win, handles, next, n>>
  BY <1>1
<1>3. Sane(BlockingWindows, win, handles, next, Idle, n)
  BY <1>2, SaneNow
<1>4. Allowed(BlockingWindows, win, next, k, ws, x, c)
  <2>1. \A w \in Windows : Blocking(w) <=> w \in BlockingWindows
    BY DEF BlockingWindows
  <2>2. {ws[i] : i \in DOMAIN ws} \cup ({x} \ {None}) \subseteq Windows
    BY Bounds
  <2>. QED BY <1>2, <2>1, <2>2 DEF Supported, Allowed, Fits
<1>5. StatementOK(BlockingWindows, win, handles, next, BeginState(k, ws, m, x, c), n)
  BY <1>3, <1>4, BeginKeeps
<1>. QED BY <1>2, <1>5, OneStep

\* Open,
LEMMA OpenStays ==
  ASSUME OneThread, Types, StatementsOK, NEW t \in Threads, Open(t)
  PROVE  StatementsOK'
<1>1. PICK i \in st[t].todo :
        LET me == st[t]
            w == me.wins[i]
            r == [id |-> n + 1, count |-> me.count]
            s == OpenState(me, i, n + 1)
        IN  /\ me \in State /\ StateOK(me) /\ me.pc = "open" /\ w \in Windows /\ i \in DOMAIN me.wins
            /\ n \in Nat /\ n + 1 \in Accesses /\ r \in Record
            /\ s \in State /\ StateOK(s) /\ st' = [st EXCEPT ![t] = s]
            /\ win[w] \in Members /\ Opened(win[w], me.kind, r) \in Members
            /\ win' = [win EXCEPT ![w] = Opened(win[w], me.kind, r)]
            /\ n' = n + 1 /\ UNCHANGED <<comp, handles, next, sane>>
  BY OpenDoes
<1>. DEFINE me == st[t]
            r == [id |-> n + 1, count |-> me.count]
<1>2. Sane(BlockingWindows, win, handles, next, me, n)
  BY SaneNow
<1>3. r.id = n + 1 /\ r.count = me.count
  OBVIOUS
<1>4. StatementOK(BlockingWindows, [win EXCEPT ![me.wins[i]] = Opened(win[me.wins[i]], me.kind, r)], handles, next,
                  OpenState(me, i, n + 1), n + 1)
  <2>1. me.pc = "open" /\ n + 1 \in Accesses /\ r \in Record
    BY <1>1
  <2>. HIDE DEF me, r
  <2>. QED BY <1>1, <1>2, <1>3, <2>1, OpenKeeps DEF me
<1>5. StatementOK(BlockingWindows, win', handles', next', OpenState(me, i, n + 1), n')
  BY <1>1, <1>4
<1>. QED BY <1>1, <1>5, OneStep

\* OpenSink,
LEMMA SinkStays ==
  ASSUME OneThread, Types, StatementsOK, NEW t \in Threads, OpenSink(t)
  PROVE  StatementsOK'
<1>. DEFINE me == st[t]
            w == me.sink
            r == [id |-> n + 1, count |-> me.count]
<1>1. /\ me.pc = "sink" /\ n + 1 \in Accesses /\ r \in Record
      /\ st' = [st EXCEPT ![t] = SinkState(me, n + 1)]
      /\ win' = [win EXCEPT ![w] = Opened(win[w], me.kind, r)]
      /\ n' = n + 1 /\ UNCHANGED <<comp, handles, next>>
  BY SinkDoes
<1>2. Sane(BlockingWindows, win, handles, next, me, n)
  BY SaneNow
<1>3. r.id = n + 1 /\ r.count = me.count
  OBVIOUS
<1>4. StatementOK(BlockingWindows, [win EXCEPT ![w] = Opened(win[w], me.kind, r)], handles, next, SinkState(me, n + 1), n + 1)
  <2>. HIDE DEF me, r
  <2>. QED BY <1>1, <1>2, <1>3, SinkKeeps
<1>. QED BY <1>1, <1>4, OneStep

\* Ignore,
LEMMA IgnoreStays ==
  ASSUME OneThread, Types, StatementsOK, NEW t \in Threads, Ignore(t)
  PROVE  StatementsOK'
<1>. DEFINE me == st[t]
            w == me.sink
<1>1. /\ me.pc = "ignore" /\ st' = [st EXCEPT ![t] = MovedState(me, "post")]
      /\ win' = [win EXCEPT ![w] = Ignored(win[w])] /\ UNCHANGED <<comp, handles, next, n>>
  BY IgnoreDoes
<1>2. Sane(BlockingWindows, win, handles, next, me, n)
  BY SaneNow
<1>3. StatementOK(BlockingWindows, [win EXCEPT ![w] = Ignored(win[w])], handles, next, MovedState(me, "post"), n)
  BY <1>1, <1>2, IgnoreKeeps
<1>. QED BY <1>1, <1>3, OneStep

\* Post,
LEMMA PostStays ==
  ASSUME OneThread, Types, StatementsOK, NEW t \in Threads, Post(t)
  PROVE  StatementsOK'
<1>. DEFINE me == st[t]
            i == Min(me.todo)
            w == me.wins[i]
            k == me.kind
            last == me.todo = {i} /\ me.sink # None
            pl == last /\ Placed(next[k], me.count)
            s == PostState(me, i, AtOnce(me), pl)
            V == [win EXCEPT ![w] = Posted(win[w], k)]
<1>1. /\ me \in State /\ StateOK(me) /\ me.pc = "post" /\ w \in Windows
      /\ i \in me.todo /\ i \in DOMAIN me.wins /\ AtOnce(me) \in BOOLEAN
      /\ st' = [st EXCEPT ![t] = s]
      /\ win' = V /\ next' = (IF last THEN [next EXCEPT ![k] = Taken(next[k], me.count)] ELSE next)
      /\ UNCHANGED <<comp, handles, n>>
  BY PostDoes
<1>2. Sane(BlockingWindows, win, handles, next, me, n)
  BY SaneNow
<1>3. k \in Kinds /\ next[k] = next[k] /\ DOMAIN next = Kinds
  BY <1>1, StateIs, TypesAre
<1>4. /\ me.sink = None => (AtOnce(me) <=> \A j \in DOMAIN me.wins : me.wins[j] \in BlockingWindows)
      /\ me.sink # None => (AtOnce(me) <=> me.sink \in BlockingWindows)
  <2>1. \A j \in DOMAIN me.wins : me.wins[j] \in Windows
    BY <1>1, StateIs
  <2>2. me.sink # None => me.sink \in Windows
    BY <1>1, StateIs
  <2>. QED BY <2>1, <2>2 DEF AtOnce, BlockingWindows
<1>5. /\ pl \in BOOLEAN /\ (pl => me.todo = {i} /\ me.sink # None /\ Placed(next[k], me.count))
      /\ me.todo # {i} => next' = next
      /\ pl => next'[k] = Taken(next[k], me.count)
  <2>1. pl \in BOOLEAN /\ (pl => me.todo = {i} /\ me.sink # None /\ Placed(next[k], me.count))
    BY DEF Placed
  <2>2. me.todo # {i} => next' = next
    BY <1>1
  <2>3. pl => next'[k] = Taken(next[k], me.count)
    BY <1>1, <1>3
  <2>. QED BY <2>1, <2>2, <2>3
<1>6. StatementOK(BlockingWindows, V, handles, next', s, n)
  <2>. HIDE DEF i, pl, me
  <2>. QED BY <1>1, <1>2, <1>4, <1>5, PostKeeps
<1>7. StatementOK(BlockingWindows, win', handles', next', s, n')
  BY <1>1, <1>6
<1>. QED BY <1>1, <1>7, OneStep

\* Defer,
LEMMA DeferStays ==
  ASSUME OneThread, Types, StatementsOK, NEW t \in Threads, Defer(t)
  PROVE  StatementsOK'
<1>. DEFINE me == st[t]
            k == me.kind
            e == Expr(me)
            p == PutInto(me)
<1>1. /\ me \in State /\ StateOK(me) /\ me.pc = "defer" /\ k \in Kinds
      /\ st' = [st EXCEPT ![t] = Idle]
      /\ handles' = [handles EXCEPT ![k] = handles'[k]]
      /\ handles' \in [Kinds -> Seq(Checked)]
      /\ Len(handles'[k]) = Len(handles[k]) + (IF me.sink = None THEN 1 ELSE 2)
      /\ \A a \in DOMAIN handles[k] : handles'[k][a] = handles[k][a]
      /\ handles'[k][Len(handles[k]) + 1] = e
      /\ me.sink # None => handles'[k][Len(handles[k]) + 2] = p
      /\ UNCHANGED <<comp, win, n, sane>>
  BY DeferDoes
<1>2. Sane(BlockingWindows, win, handles, next, me, n)
  BY SaneNow
<1>3. me.pc \in Busy
  BY <1>1 DEF Busy, Beginning
<1>4. /\ e.what = "expr" /\ e.wins = me.wins /\ e.ids = me.ids /\ e.opened = me.opened /\ e.sink = me.sink /\ e.id = me.sinkId
      /\ e.deletes => me.placed /\ ~Placed(next[k], OBJECT)
  BY DEF Expr
<1>5. p.what = "put" /\ p.wins = <<>> /\ p.ids = <<>> /\ p.sink = me.sink /\ p.id = me.sinkId /\ ~p.deletes
  BY DEF PutInto
<1>6. \A j \in Kinds \ {k} : handles'[j] = handles[j]
  <2>1. handles \in [Kinds -> Seq(Checked)]
    BY TypesAre DEF Checked
  <2>. HIDE DEF k
  <2>. QED BY <1>1, <2>1
<1>7. StatementOK(BlockingWindows, win, handles', next', Idle, n)
  <2>1. e = handles'[k][Len(handles[k]) + 1] /\ (me.sink # None => p = handles'[k][Len(handles[k]) + 2])
    BY <1>1
  <2>. HIDE DEF e, p, me
  <2>2. PICK G : G = handles'
    OBVIOUS
  <2>3. (me.sink = None => Len(G[me.kind]) = Len(handles[me.kind]) + 1) /\ (me.sink # None => Len(G[me.kind]) = Len(handles[me.kind]) + 2)
    BY <1>1, <2>2
  <2>4. /\ G \in [Kinds -> Seq(Checked)] /\ \A j \in Kinds \ {me.kind} : G[j] = handles[j]
        /\ \A a \in DOMAIN handles[me.kind] : G[me.kind][a] = handles[me.kind][a]
        /\ e = G[me.kind][Len(handles[me.kind]) + 1] /\ (me.sink # None => p = G[me.kind][Len(handles[me.kind]) + 2])
    BY <1>1, <1>6, <2>1, <2>2
  <2>5. e.deletes => me.placed /\ ~Placed(next[me.kind], OBJECT)
    BY <1>4
  <2>6. Deferred(handles, G, next, me, e, p)
    BY <1>4, <1>5, <2>3, <2>4, <2>5 DEF Deferred
  <2>7. me.pc = "defer" /\ G \in [Kinds -> Seq(Checked)]
    BY <1>1, <2>4
  <2>8. StatementOK(BlockingWindows, win, G, next', Idle, n)
    BY <1>2, <2>6, <2>7, DeferKeeps
  <2>. QED BY <2>2, <2>8
<1>8. StatementOK(BlockingWindows, win', handles', next', Idle, n')
  BY <1>1, <1>7
<1>. QED BY <1>1, <1>8, OneStep

\* Eval,
LEMMA EvalStays ==
  ASSUME OneThread, Types, StatementsOK, NEW t \in Threads, Eval(t)
  PROVE  StatementsOK'
<1>. DEFINE me == st[t]
            k == me.kind
<1>1. PICK i \in me.todo :
        /\ me.pc = "eval" /\ st' = [st EXCEPT ![t] = EvalState(me, i, Data(win[me.wins[i]], k))]
        /\ win' = [win EXCEPT ![me.wins[i]] = Evaluated(win[me.wins[i]], k)]
        /\ UNCHANGED <<comp, handles, n>>
  BY EvalDoes
<1>2. Sane(BlockingWindows, win, handles, next, me, n)
  BY SaneNow
<1>3. StatementOK(BlockingWindows, [win EXCEPT ![me.wins[i]] = Evaluated(win[me.wins[i]], k)], handles, next',
                  EvalState(me, i, Data(win[me.wins[i]], k)), n)
  <2>. HIDE DEF me
  <2>. QED BY <1>1, <1>2, EvalKeeps
<1>4. StatementOK(BlockingWindows, win', handles', next', EvalState(me, i, Data(win[me.wins[i]], k)), n')
  BY <1>1, <1>3
<1>. QED BY <1>1, <1>4, OneStep

\* Store,
LEMMA StoreStays ==
  ASSUME OneThread, Types, StatementsOK, NEW t \in Threads, Store(t)
  PROVE  StatementsOK'
<1>. DEFINE me == st[t]
            f == FlushState(me.flushing, me.run, me.sinkId, me.deletes, TRUE)
            s == IF me.flushing # None THEN f ELSE Idle
<1>1. /\ me.pc = "store"
      /\ st' = [st EXCEPT ![t] = IF me.flushing # None THEN f ELSE IF me.sink = None THEN Idle ELSE MovedState(me, "put")]
      /\ UNCHANGED <<comp, win, handles, next, n>>
  BY StoreDoes
<1>2. Sane(BlockingWindows, win, handles, next, me, n)
  BY SaneNow
<1>3. (me.flushing # None => s = f) /\ (me.flushing = None => s = Idle)
  OBVIOUS
<1>4. (me.flushing = None => me.sink = None) /\ StatementOK(BlockingWindows, win, handles, next, s, n)
  <2>. HIDE DEF s
  <2>. QED BY <1>1, <1>2, <1>3, StoreKeeps
<1>5. st' = [st EXCEPT ![t] = s]
  BY <1>1, <1>4
<1>6. StatementOK(BlockingWindows, win', handles', next', s, n')
  BY <1>1, <1>4
<1>. HIDE DEF s
<1>. QED BY <1>1, <1>5, <1>6, OneStep

\* Flush,
LEMMA FlushStays ==
  ASSUME OneThread, Types, StatementsOK, NEW t \in Threads, NEW w \in Windows, Flush(t, w)
  PROVE  StatementsOK'
<1>. DEFINE R == {k \in Kinds : Flag(win[w], k)}
            s == FlushState(w, R, 0, FALSE, FALSE)
<1>1. st[t] = Idle /\ st' = [st EXCEPT ![t] = s] /\ UNCHANGED <<comp, win, handles, next, n>>
  BY FlushDoes
<1>2. Sane(BlockingWindows, win, handles, next, Idle, n)
  BY <1>1, SaneNow
<1>3. R \in SUBSET Kinds /\ \A k \in Kinds \ R : ~Flag(win[w], k)
  OBVIOUS
<1>4. StatementOK(BlockingWindows, win, handles, next, s, n)
  <2>. HIDE DEF R
  <2>. QED BY <1>2, <1>3, FlushKeeps
<1>5. StatementOK(BlockingWindows, win', handles', next', s, n')
  BY <1>1, <1>4
<1>. HIDE DEF s
<1>. QED BY <1>1, <1>5, OneStep

\* The list of handles that a flush goes through loses its first.
LEMMA PoppedNow ==
  ASSUME Types, NEW k \in Kinds, handles' = [handles EXCEPT ![k] = Tail(handles[k])]
  PROVE  Popped(handles, k, handles')
<1>1. DOMAIN handles = Kinds
  BY TypesAre
<1>. QED BY <1>1 DEF Popped

\* RunExpr,
LEMMA RunExprStays ==
  ASSUME OneThread, Types, StatementsOK, NEW t \in Threads, RunExpr(t)
  PROVE  StatementsOK'
<1>. DEFINE me == st[t]
            k == Running(t)
            h == Head(handles[k])
            s == RunState(me, k, h)
<1>1. /\ me \in State /\ StateOK(me) /\ me.pc = "flush" /\ me.run # {} /\ k \in Kinds /\ handles[k] # <<>>
      /\ h.what \in {"expr", "uninit"}
      /\ st' = [st EXCEPT ![t] = IF h.what = "uninit" THEN TurnState(me, me.run, -1, <<>>, FALSE, TRUE) ELSE s]
      /\ handles' = [handles EXCEPT ![k] = Tail(handles[k])] /\ handles' \in [Kinds -> Seq(Checked)]
      /\ UNCHANGED <<comp, win, next, n>>
  BY RunExprDoes
<1>2. Sane(BlockingWindows, win, handles, next, me, n)
  BY SaneNow
<1>3. k = Runs(me) /\ h = handles[k][1] /\ h.what # "put" /\ Popped(handles, k, handles')
  BY <1>1, RunningIs, QueuesAre, PoppedNow
<1>4. h.what = "expr" => s = RunState(me, k, h)
  OBVIOUS
<1>5. h.what = "expr" /\ StatementOK(BlockingWindows, win, handles', next, s, n)
  <2>1. me.pc = "flush" /\ me.run # {} /\ handles[k] # <<>> /\ handles' \in [Kinds -> Seq(Checked)]
    BY <1>1
  <2>. HIDE DEF me, k, h, s
  <2>2. PICK G \in [Kinds -> Seq(Checked)] : G = handles'
    BY <2>1
  <2>3. Popped(handles, k, G)
    BY <1>3, <2>2
  <2>4. StatementOK(BlockingWindows, win, G, next, s, n) /\ h.what = "expr"
    BY <1>2, <1>3, <1>4, <2>1, <2>3, RunExprKeeps, Zenon
  <2>. QED BY <2>2, <2>4
<1>6. st' = [st EXCEPT ![t] = s]
  BY <1>1, <1>5
<1>7. StatementOK(BlockingWindows, win', handles', next', s, n')
  BY <1>1, <1>5
<1>. HIDE DEF s
<1>. QED BY <1>1, <1>6, <1>7, OneStep

\* RunPut,
LEMMA RunPutStays ==
  ASSUME OneThread, Types, StatementsOK, NEW t \in Threads, RunPut(t)
  PROVE  StatementsOK'
<1>. DEFINE me == st[t]
            k == Running(t)
            h == Head(handles[k])
            p == [to |-> NextPut(win[h.sink], k), val |-> me.val, id |-> h.id]
            s == TurnState(me, me.run, 0, <<p>>, me.deletes, TRUE)
            V == [win EXCEPT ![h.sink] = PutMade(win[h.sink], k)]
<1>1. /\ me.pc = "flush" /\ me.run # {} /\ k \in Kinds /\ handles[k] # <<>> /\ h.what = "put"
      /\ st' = [st EXCEPT ![t] = s] /\ win' = V
      /\ handles' = [handles EXCEPT ![k] = Tail(handles[k])] /\ handles' \in [Kinds -> Seq(Checked)]
      /\ UNCHANGED <<comp, next, n>>
  BY RunPutDoes
<1>2. Sane(BlockingWindows, win, handles, next, me, n)
  BY SaneNow
<1>3. k = Runs(me) /\ h = handles[k][1] /\ Popped(handles, k, handles')
  BY <1>1, RunningIs, QueuesAre, PoppedNow
<1>4. p.to = NextPut(win[h.sink], k) /\ p.val = me.val /\ p.id = h.id
  OBVIOUS
<1>5. StatementOK(BlockingWindows, V, handles', next, s, n)
  <2>. HIDE DEF me, k, h, p
  <2>. QED BY <1>1, <1>2, <1>3, <1>4, RunPutKeeps
<1>6. StatementOK(BlockingWindows, win', handles', next', s, n')
  BY <1>1, <1>5
<1>. HIDE DEF s
<1>. QED BY <1>1, <1>6, OneStep

\* EndRun,
LEMMA EndRunStays ==
  ASSUME OneThread, Types, StatementsOK, NEW t \in Threads, EndRun(t)
  PROVE  StatementsOK'
<1>. DEFINE me == st[t]
            k == Running(t)
            s == TurnState(me, me.run \ {k}, me.val, <<>>, me.deletes, FALSE)
<1>1. /\ me.pc = "flush" /\ me.run # {} /\ handles[k] = <<>>
      /\ st' = [st EXCEPT ![t] = s] /\ UNCHANGED <<comp, win, handles, n>>
  BY EndRunDoes
<1>2. Sane(BlockingWindows, win, handles, next, me, n)
  BY SaneNow
<1>3. k = Runs(me)
  BY RunningIs
<1>4. StatementOK(BlockingWindows, win, handles, next', s, n)
  <2>. HIDE DEF me, k
  <2>. QED BY <1>1, <1>2, <1>3, EndRunKeeps
<1>5. StatementOK(BlockingWindows, win', handles', next', s, n')
  BY <1>1, <1>4
<1>. HIDE DEF s
<1>. QED BY <1>1, <1>5, OneStep

\* EndFlush.
LEMMA EndFlushStays ==
  ASSUME OneThread, Types, StatementsOK, NEW t \in Threads, EndFlush(t)
  PROVE  StatementsOK'
<1>. DEFINE me == st[t]
            w == me.flushing
            V == [win EXCEPT ![w] = Cleared(win[w])]
<1>1. /\ me.pc = "flush" /\ me.run = {}
      /\ st' = [st EXCEPT ![t] = Idle] /\ win' = V /\ UNCHANGED <<comp, handles, next, n>>
  BY EndFlushDoes
<1>2. Sane(BlockingWindows, win, handles, next, me, n)
  BY SaneNow
<1>3. StatementOK(BlockingWindows, V, handles, next, Idle, n)
  <2>. HIDE DEF me
  <2>. QED BY <1>1, <1>2, EndFlushKeeps
<1>4. StatementOK(BlockingWindows, win', handles', next', Idle, n')
  BY <1>1, <1>3
<1>. QED BY <1>1, <1>4, OneStep

\* Statements that are supported do not put at once.
LEMMA NoPut ==
  ASSUME OneThread, Types, StatementsOK, NEW t \in Threads
  PROVE  ~Put(t)
<1>1. st[t].pc \notin {"put", "again"}
  BY SaneNow, SaneIs
<1>. QED BY <1>1 DEF Put

\* The put a flush comes to may be made.
LEMMA RunPutSafe ==
  ASSUME NEW B, NEW W, NEW H, NEW X, NEW s, NEW m, Sane(B, W, H, X, s, m), s.pc = "flush", s.run # {},
         NEW k, k = Runs(s), H[k] # <<>>, NEW h, h = H[k][1], h.what = "put"
  PROVE  Puttable(W, s, h, k)
<1>1. H \in [Kinds -> Seq(Checked)] /\ k \in Kinds
  BY SaneIs, TypedIs DEF Runs, Kinds
<1>2. PICK G : G = [H EXCEPT ![k] = Tail(H[k])]
  OBVIOUS
<1>3. Tail(H[k]) \in Seq(Checked)
  <2>1. H[k] \in Seq(Checked) /\ H[k] # <<>>
    BY <1>1
  <2>. QED BY <2>1
<1>4. G \in [Kinds -> Seq(Checked)] /\ Popped(H, k, G)
  BY <1>1, <1>2, <1>3 DEF Popped
<1>5. PICK p : p = [to |-> NextPut(W[h.sink], k), val |-> s.val, id |-> h.id]
  OBVIOUS
<1>6. p.to = NextPut(W[h.sink], k) /\ p.val = s.val /\ p.id = h.id
  BY <1>5
<1>. DEFINE t == TurnState(s, s.run, 0, <<p>>, s.deletes, TRUE)
            V == [W EXCEPT ![h.sink] = PutMade(W[h.sink], k)]
<1>8. Puttable(W, s, h, k) /\ StatementOK(B, V, G, X, t, m)
  BY <1>4, <1>6, RunPutKeeps
<1>. QED BY <1>8

\* No call that follows leaves a list or the buffer.
LEMMA NothingWild ==
  ASSUME OneThread, Types, StatementsOK, NEW t \in Threads
  PROVE  ~Wild(t)
<1>. DEFINE me == st[t]
            k == Running(t)
            h == Head(handles[k])
<1>1. Sane(BlockingWindows, win, handles, next, me, n)
  BY SaneNow
<1>2. /\ me \in State /\ StateOK(me)
      /\ me.pc \in {"idle", "open", "sink", "ignore", "post", "defer", "eval", "store", "flush"}
  <2>1. me.pc \in Pcs \ {"put", "again", "undefined"}
    BY <1>1, SaneIs
  <2>. QED BY <2>1, TypesAre DEF Pcs, Busy, Beginning, Ending
<1>3. CASE me.pc = "ignore"
  <2>1. win[me.sink].info[LastList(win[me.sink])] # <<>>
    BY <1>1, <1>3, IgnoreKeeps
  <2>. QED BY <1>3, <2>1 DEF Wild
<1>4. CASE me.pc = "post"
  <2>1. PICK i : i = Min(me.todo)
    OBVIOUS
  <2>2. i \in me.todo
    <3>1. me.todo \in SUBSET {1, 2} /\ me.todo # {}
      <4>1. me.pc \in Busy
        BY <1>4 DEF Busy, Beginning
      <4>. QED BY <1>2, <1>4, <4>1, OperandsAre DEF StateOK
    <3>. QED BY <2>1, <3>1, MinIs
  <2>3. PICK at \in BOOLEAN : (at <=> IF me.sink = None THEN \A j \in DOMAIN me.wins : me.wins[j] \in BlockingWindows
                                      ELSE me.sink \in BlockingWindows)
    OBVIOUS
  <2>4. PICK pl \in BOOLEAN : ~pl
    OBVIOUS
  <2>5. ~PostWild(win[me.wins[i]], me.kind)
    <3>. HIDE DEF me
    <3>. QED BY <1>1, <1>4, <2>2, <2>3, <2>4, PostKeeps
  <2>. QED BY <1>4, <2>1, <2>5 DEF Wild
<1>5. CASE me.pc = "eval"
  <2>1. ASSUME NEW i \in me.todo PROVE ~EvalWild(win[me.wins[i]], me.kind)
    <3>. HIDE DEF me
    <3>. QED BY <1>1, <1>5, EvalKeeps
  <2>. QED BY <1>5, <2>1 DEF Wild
<1>6. CASE me.pc = "flush"
  <2>. SUFFICES ASSUME me.run # {}, handles[k] # <<>>, h.what = "put"
                PROVE  me.val # 0 /\ ~me.deletes /\ ~PutWild(win[h.sink], k)
    BY <1>6 DEF Wild
  <2>1. k \in Kinds /\ k = Runs(me) /\ h = handles[k][1]
    BY RunningIs, QueuesAre
  <2>. HIDE DEF me, k, h
  <2>2. me.pc = "flush" /\ me.run # {} /\ handles[k] # <<>> /\ h.what = "put"
    BY <1>6
  <2>3. Puttable(win, me, h, k)
    BY <1>1, <2>1, <2>2, RunPutSafe
  <2>. QED BY <2>3 DEF Puttable
<1>7. CASE me.pc \in {"idle", "open", "sink", "defer", "store"}
  BY <1>7 DEF Wild
<1>. QED BY <1>2, <1>3, <1>4, <1>5, <1>6, <1>7

\* The invariant of the statements holds at first,
LEMMA StatementsAtFirst ==
  ASSUME Init
  PROVE  StatementsOK
<1>. SUFFICES ASSUME NEW t \in Threads PROVE StatementOK(BlockingWindows, win, handles, next, Idle, 0)
  BY DEF Init, StatementsOK
<1>1. (\A k \in Kinds : handles[k] = <<>>) /\ 0 \in Nat
  BY DEF Init
<1>2. ASSUME NEW w \in Windows
      PROVE  /\ \A k \in Kinds : Good(win[w], k, 0) /\ Pending(win[w]) = {} /\ ToPut(win[w]) = {} /\ Unposted(win[w], k) = 0
             /\ \A q \in Lists : win[w].puts[q] = <<>>
             /\ ~win[w].isElem /\ ~win[w].isBulk
  <2>1. PICK s \in Shapes : win[w] = New(s)
    BY DEF Init
  <2>2. PICK u : u = New(s)
    OBVIOUS
  <2>3. /\ u \in Members
        /\ \A q \in Lists : u.info[q] = <<>> /\ u.puts[q] = <<>> /\ u.gets[q] = 0 /\ u.xfers[q] = 0
        /\ u.putc = 0 /\ u.bufc = 0 /\ u.size = 0 /\ ~u.isElem /\ ~u.isBulk
    <3>1. {} \in SUBSET Accesses
      OBVIOUS
    <3>. QED BY <2>2, <3>1, NewIs
  <2>4. ASSUME NEW k \in Kinds PROVE Good(u, k, 0) /\ Pending(u) = {} /\ ToPut(u) = {} /\ Unposted(u, k) = 0
    BY <1>1, <2>3, NewGood
  <2>. QED BY <2>1, <2>2, <2>3, <2>4
<1>3. Idle.pc \in Pcs \ {"put", "again", "undefined"} /\ Idle.pc \notin Beginning \cup Ending /\ Idle.kind \in Kinds
  BY DEF Idle, Pcs, Busy, Beginning, Ending, Kinds
<1>4. AllSound(BlockingWindows, win, Idle, 0)
  <2>1. ASSUME NEW w \in Windows PROVE \E k \in Kinds : Sound(BlockingWindows, win[w], Idle, w, k, 0)
    <3>1. Expected(Idle, w) = 0
      <4>1. Opening(Idle) = {} /\ Sinking(Idle, w) = 0
        BY DEF Opening, Sinking, Idle
      <4>2. Among(Idle, {}, w) = 0
        BY DEF Among
      <4>. QED BY <4>1, <4>2 DEF Expected
    <3>2. PICK k : k \in Kinds
      BY <1>3
    <3>3. Sound(BlockingWindows, win[w], Idle, w, k, 0)
      BY <1>2, <3>1, <3>2 DEF Sound, Only
    <3>. QED BY <3>2, <3>3
  <2>. QED BY <1>3, <2>1 DEF AllSound
<1>5. \A k \in Kinds : DOMAIN handles[k] = {}
  BY <1>1
<1>6. Queued(BlockingWindows, win, handles, 0)
  BY <1>5 DEF Queued
<1>7. Turns(handles, Idle)
  <2>1. Due(Idle) = 0
    BY DEF Due, Idle, Ending
  <2>. QED BY <1>1, <2>1 DEF Turns
<1>8. FlushOK(handles, Idle)
  <2>1. ~Idle.deletes /\ Idle.pc # "flush" /\ Idle.flushing = None /\ Idle.run = {} /\ DOMAIN Idle.put = {}
    BY DEF Idle
  <2>. QED BY <2>1 DEF FlushOK
<1>9. Linked(win, handles, Idle)
  <2>1. \A w : QueuedGets(handles, w) = {} /\ QueuedPuts(handles, w) = {}
    BY <1>5 DEF QueuedGets, QueuedPuts
  <2>2. \A w : HeldGets(Idle, w) = {} /\ HeldPuts(Idle, w) = {}
    BY DEF HeldGets, HeldPuts, Idle
  <2>. QED BY <1>2, <1>3, <2>1, <2>2 DEF Linked
<1>. QED BY <1>3, <1>4, <1>6, <1>7, <1>8, <1>9 DEF StatementOK, After, Before

\* and every step keeps it.
LEMMA StatementsStay ==
  ASSUME OneThread, Types, StatementsOK, sane', [Next]_vars
  PROVE  StatementsOK'
<1>1. CASE UNCHANGED vars
  BY <1>1 DEF vars, StatementsOK, BlockingWindows, Blocking
<1>2. ASSUME NEW t \in Threads, Begin(t) PROVE StatementsOK'
  BY <1>2, BeginStays
<1>3. ASSUME NEW t \in Threads, Step(t) PROVE StatementsOK'
  <2>1. CASE Open(t)
    BY <2>1, OpenStays
  <2>2. CASE OpenSink(t)
    BY <2>2, SinkStays
  <2>3. CASE Ignore(t)
    BY <2>3, IgnoreStays
  <2>4. CASE Evaluation(t)
    BY <2>4, PostStays, DeferStays, EvalStays, StoreStays, NoPut DEF Evaluation
  <2>5. CASE Flushing(t)
    BY <2>5, RunExprStays, RunPutStays, EndRunStays, EndFlushStays DEF Flushing
  <2>6. CASE Undefined(t)
    BY <2>6, NothingWild DEF Undefined
  <2>. QED BY <1>3, <2>1, <2>2, <2>3, <2>4, <2>5, <2>6 DEF Step
<1>4. ASSUME NEW t \in Threads, NEW w \in Windows, Flush(t, w) PROVE StatementsOK'
  BY <1>4, FlushStays
<1>. QED BY <1>1, <1>2, <1>3, <1>4 DEF Next

\* After an unsupported statement no step makes the program sane again.
LEMMA SaneBefore ==
  ASSUME [Next]_vars, sane'
  PROVE  sane
<1>1. CASE UNCHANGED vars
  BY <1>1 DEF vars
<1>2. ASSUME NEW t \in Threads, Begin(t) PROVE sane
  BY <1>2 DEF Begin
<1>3. ASSUME NEW t \in Threads, Step(t) PROVE sane
  <2>1. UNCHANGED sane
    BY <1>3 DEF Step, Evaluation, Flushing, Open, OpenSink, Ignore, Post, Defer, Eval, Store, Put, RunExpr, RunPut, EndRun,
                EndFlush, Undefined
  <2>. QED BY <2>1
<1>4. ASSUME NEW t \in Threads, NEW w \in Windows, Flush(t, w) PROVE sane
  BY <1>4 DEF Flush
<1>. QED BY <1>1, <1>2, <1>3, <1>4 DEF Next

\* Supported statements of one thread keep the invariant.
THEOREM Invariant ==
  ASSUME OneThread
  PROVE  Spec => []ExpressionsInv
<1>1. Init => ExpressionsInv
  BY TypesAtFirst, StatementsAtFirst DEF ExpressionsInv
<1>2. ExpressionsInv /\ [Next]_vars => ExpressionsInv'
  <2>. SUFFICES ASSUME ExpressionsInv, [Next]_vars PROVE ExpressionsInv'
    OBVIOUS
  <2>1. Types'
    BY TypesKept DEF ExpressionsInv
  <2>2. ASSUME sane' PROVE StatementsOK'
    BY <2>2, SaneBefore, StatementsStay DEF ExpressionsInv
  <2>. QED BY <2>1, <2>2 DEF ExpressionsInv
<1>. QED BY <1>1, <1>2, PTL DEF Spec

-----------------------------------------------------------------------------
(***************************************************************************)
(* What the invariant says.                                                *)
(***************************************************************************)
\* Types, for one thread; after supported statements only, the counters point into their
\* lists: TypeOK.
THEOREM TypeCorrect ==
  ASSUME OneThread
  PROVE  Spec => []TypeOK
<1>1. ASSUME ExpressionsInv PROVE TypeOK
  <2>1. Types
    BY <1>1 DEF ExpressionsInv
  <2>2. ASSUME NEW w \in Windows, sane
        PROVE  /\ \A q \in Lists : {win[w].gets[q], win[w].xfers[q]} \subseteq 0 .. Len(win[w].info[q])
               /\ \E q \in Lists : win[w].putc <= Len(win[w].puts[q])
    <3>1. PICK t \in Threads : TRUE
      BY DEF OneThread
    <3>2. AllSound(BlockingWindows, win, st[t], n)
      BY <1>1, <2>2, <3>1, SaneNow, SaneIs DEF ExpressionsInv
    <3>3. PICK k \in Kinds : Good(win[w], k, n)
      BY <3>2 DEF AllSound, Sound
    <3>4. ListOf(win[w], k) \in Lists
      BY ListIs
    <3>. QED BY <3>3, <3>4 DEF Good
  <2>3. ASSUME NEW w \in Windows
        PROVE  LET v == win[w] IN
               /\ v.shape \in Shapes
               /\ \A q \in Lists : /\ v.info[q] \in Seq(Record) /\ v.puts[q] \in Seq(Accesses)
                                   /\ v.gets[q] \in Nat /\ v.xfers[q] \in Nat
               /\ v.bufc \in Nat /\ v.size \in Nat /\ v.putc \in Nat
               /\ v.buf \in [0 .. PREALLOC-1 -> Accesses \cup {0}]
               /\ v.isElem \in BOOLEAN /\ v.isBulk \in BOOLEAN
               /\ v.unfinished \subseteq Accesses
    <3>1. win[w] \in Members
      BY <2>1, TypesAre
    <3>. QED BY <3>1, MembersAre
  <2>4. \A k \in Kinds : next[k] < STORE
    BY <2>1, TypesAre
  <2>5. ASSUME NEW t \in Threads
        PROVE  /\ st[t].pc \in {"idle", "open", "sink", "ignore", "post", "defer", "eval", "store",
                                "put", "again", "flush", "undefined"}
               /\ st[t].todo \subseteq DOMAIN st[t].wins
    <3>1. st[t] \in State /\ StateOK(st[t])
      BY <2>1, TypesAre
    <3>2. st[t].pc \in Pcs
      BY <3>1, StateIs
    <3>. QED BY <3>1, <3>2 DEF StateOK, Pcs, Busy, Beginning, Ending
  <2>6. comp \in [Windows -> Completions] /\ n \in 0 .. MaxAccesses /\ sane \in BOOLEAN
    BY <2>1 DEF Types
  <2>. QED BY <2>2, <2>3, <2>4, <2>5, <2>6 DEF TypeOK
<1>. QED BY <1>1, Invariant, PTL

\* For one thread's supported statements, whose evaluation reads the buffer at counters only:
\* OwnData.
THEOREM ReadsItsOwn ==
  ASSUME OneThread
  PROVE  Spec => []OwnData
<1>1. ASSUME ExpressionsInv PROVE OwnData
  <2>. SUFFICES ASSUME sane, NEW t \in Threads PROVE ReadOwn(t)
    BY DEF OwnData
  <2>1. PICK me : me = st[t]
    OBVIOUS
  <2>2. /\ Types /\ me \in State /\ StateOK(me)
        /\ (me.pc \in Beginning => Begun(BlockingWindows, win, next, me, n))
        /\ (me.pc \in Ending => Ended(BlockingWindows, win, me, n))
        /\ me.pc \in Pcs \ {"put", "again", "undefined"}
    BY <1>1, <2>1, SaneNow, SaneIs, TypesAre DEF ExpressionsInv
  <2>3. CASE me.pc \in Ending
    <3>1. ReadOK(me)
      BY <2>2, <2>3 DEF Ended
    <3>2. \A i : i \in {j \in DOMAIN me.got : me.got[j] # {}} <=> i \in DOMAIN me.got \ me.todo
      BY <3>1 DEF ReadOK
    <3>3. DOMAIN me.ids = DOMAIN me.ids /\ \A i \in DOMAIN me.got \ me.todo : \E j \in DOMAIN me.ids : me.got[i] = {me.ids[j]}
      BY <3>1 DEF ReadOK
    <3>4. \A i, j \in DOMAIN me.got \ me.todo : i # j => me.got[i] # me.got[j]
      BY <3>1 DEF ReadOK
    <3>5. (\A i \in DOMAIN me.order : me.order[i] = me.opened[i]) => \A i \in DOMAIN me.got \ me.todo : me.got[i] = {me.ids[i]}
      BY <3>1 DEF ReadOK
    <3>. QED BY <2>1, <3>2, <3>3, <3>4, <3>5 DEF ReadOwn
  <2>4. CASE me.pc \notin Ending
    <3>1. \A i \in DOMAIN me.got : me.got[i] = {}
      <4>1. me.pc \notin Beginning => DOMAIN me.got = {}
        <5>1. me.pc \notin Beginning => me.pc \in {"idle", "flush"}
          BY <2>2, <2>4 DEF Pcs, Busy
        <5>. QED BY <2>2, <5>1 DEF StateOK, Idle
      <4>. QED BY <2>2, <4>1 DEF Begun
    <3>. QED BY <2>1, <3>1 DEF ReadOwn
  <2>. QED BY <2>3, <2>4
<1>. QED BY <1>1, Invariant, PTL

\* The records that the handles wait for.
LEMMA QueuedAwaited ==
  ASSUME Types, StatementsOK, OneThread, NEW w \in Windows, NEW x, x # 0
  PROVE  (\E h \in UNION {Range(handles[k]) : k \in Kinds} : x \in Of(h, w)) <=> x \in QueuedGets(handles, w)
<1>1. PICK t \in Threads : TRUE
  BY DEF OneThread
<1>2. handles \in [Kinds -> Seq(Checked)] /\ Queued(BlockingWindows, win, handles, n)
  <2>1. Queued(BlockingWindows, win, handles, n)
    BY <1>1, SaneNow, SaneIs
  <2>. QED BY <2>1, TypesAre DEF Checked
<1>3. ASSUME NEW k \in Kinds, NEW a \in DOMAIN handles[k]
      PROVE  \A i \in DOMAIN handles[k][a].wins : handles[k][a].ids[i] \in 0 .. MaxAccesses
  <2>. DEFINE h == handles[k][a]
  <2>1. handles[k] \in Seq(Checked)
    BY <1>2
  <2>2. h \in Checked
    BY <2>1
  <2>3. h.what \in {"expr", "put"}
    BY <1>2, <1>3 DEF Queued, QueuedOne
  <2>4. h \in Handle /\ HandleOK(h)
    BY <2>2 DEF Checked
  <2>. HIDE DEF h
  <2>5. CASE h.what = "put"
    <3>1. DOMAIN h.wins = {}
      BY <2>4, <2>5 DEF HandleOK
    <3>. QED BY <3>1 DEF h
  <2>6. CASE h.what = "expr"
    <3>1. DOMAIN h.wins = DOMAIN h.ids /\ h.ids \in Seq(0 .. MaxAccesses)
      BY <2>4, <2>6, HandleIs DEF HandleOK
    <3>2. \A i \in DOMAIN h.wins : h.ids[i] \in 0 .. MaxAccesses
      BY <3>1, ElementOfSeq, LenProperties
    <3>. QED BY <3>2 DEF h
  <2>. QED BY <2>3, <2>5, <2>6
<1>4. ASSUME NEW h
      PROVE  x \in Of(h, w) <=> \E i \in DOMAIN h.wins : h.wins[i] = w /\ h.ids[i] = x
  BY DEF Of
<1>5. ASSUME NEW h
      PROVE  h \in UNION {Range(handles[k]) : k \in Kinds} <=> \E k \in Kinds : \E a \in DOMAIN handles[k] : h = handles[k][a]
  BY DEF Range
<1>6. x \in 0 .. MaxAccesses => x \in Accesses
  BY Bounds
<1>7. (\E h \in UNION {Range(handles[k]) : k \in Kinds} : x \in Of(h, w))
        <=> \E k \in Kinds : \E a \in DOMAIN handles[k] : x \in Of(handles[k][a], w)
  BY <1>5
<1>8. (\E k \in Kinds : \E a \in DOMAIN handles[k] : x \in Of(handles[k][a], w))
        <=> \E k \in Kinds : \E a \in DOMAIN handles[k] : \E i \in DOMAIN handles[k][a].wins :
              handles[k][a].wins[i] = w /\ handles[k][a].ids[i] = x
  BY <1>4
<1>. QED BY <1>3, <1>6, <1>7, <1>8 DEF QueuedGets

\* The same of the records the statement under way waits for.
LEMMA HeldAwaited ==
  ASSUME Types, StatementsOK, NEW t \in Threads, NEW w \in Windows, NEW x, x # 0
  PROVE  \/ x \in Of(st[t], w) \ ReadBy(t)
         \/ st[t].pc = "ignore" /\ st[t].sink = w /\ st[t].sinkId = x
         <=> x \in HeldGets(st[t], w)
<1>1. PICK me : me = st[t]
  OBVIOUS
<1>2. me \in State /\ StateOK(me) /\ me.pc \in Pcs \ {"put", "again", "undefined"}
  BY <1>1, SaneNow, SaneIs, TypesAre
<1>3. \A i \in DOMAIN me.wins : me.ids[i] \in 0 .. MaxAccesses
  <2>1. CASE me.pc \in Busy
    <3>1. DOMAIN me.wins = DOMAIN me.ids /\ me.ids \in Seq(0 .. MaxAccesses)
      BY <1>2, <2>1, StateIs DEF StateOK
    <3>. QED BY <3>1, ElementOfSeq, LenProperties
  <2>2. CASE me.pc \in {"idle", "flush"}
    <3>1. me.wins = <<>>
      BY <1>2, <2>2 DEF StateOK, Idle
    <3>. QED BY <3>1
  <2>. QED BY <1>2, <2>1, <2>2 DEF Pcs
<1>4. me.sinkId \in 0 .. MaxAccesses
  BY <1>2, StateIs
<1>5. x \in 0 .. MaxAccesses => x \in Accesses
  BY Bounds
<1>6. x \in Of(me, w) <=> \E i \in DOMAIN me.wins : me.wins[i] = w /\ me.ids[i] = x
  BY DEF Of
<1>7. x \in ReadBy(t) <=> \E j \in DOMAIN me.got : x \in me.got[j]
  BY <1>1 DEF ReadBy
<1>. QED BY <1>1, <1>3, <1>4, <1>5, <1>6, <1>7 DEF HeldGets

\* Whatever was posted, flushed or put before them, the records of the expressions that
\* wait are kept, and no other: RecordsKept.  Linked ties the windows' lists to the handles.
THEOREM RecordsAreKept ==
  ASSUME OneThread
  PROVE  Spec => []RecordsKept
<1>1. ASSUME ExpressionsInv PROVE RecordsKept
  <2>. SUFFICES ASSUME sane, NEW w \in Windows PROVE Recorded(w) = Awaited(w) \ {0}
    BY DEF RecordsKept
  <2>1. Types /\ StatementsOK
    BY <1>1 DEF ExpressionsInv
  <2>2. PICK t : Threads = {t}
    BY DEF OneThread
  <2>3. Recorded(w) = Pending(win[w])
    BY DEF Recorded, Pending
  <2>4. Pending(win[w]) = QueuedGets(handles, w) \cup HeldGets(st[t], w)
    BY <2>1, <2>2, SaneNow, SaneIs DEF Linked
  <2>5. ASSUME NEW x
        PROVE  x \in Awaited(w) <=> \/ \E h \in UNION {Range(handles[k]) : k \in Kinds} : x \in Of(h, w)
                                    \/ x \in Of(st[t], w) \ ReadBy(t)
                                    \/ st[t].pc = "ignore" /\ st[t].sink = w /\ st[t].sinkId = x
    <3>. DEFINE A == UNION {Of(h, w) : h \in UNION {Range(handles[k]) : k \in Kinds}}
                C == UNION {Of(st[u], w) \ ReadBy(u) : u \in Threads}
                D == {st[u].sinkId : u \in {v \in Threads : st[v].pc = "ignore" /\ st[v].sink = w}}
    <3>1. x \in A <=> \E h \in UNION {Range(handles[k]) : k \in Kinds} : x \in Of(h, w)
      OBVIOUS
    <3>2. x \in C <=> x \in Of(st[t], w) \ ReadBy(t)
      BY <2>2
    <3>3. x \in D <=> st[t].pc = "ignore" /\ st[t].sink = w /\ st[t].sinkId = x
      BY <2>2
    <3>4. Awaited(w) = A \cup C \cup D
      BY DEF Awaited
    <3>. QED BY <3>1, <3>2, <3>3, <3>4
  <2>6. ASSUME NEW x, x # 0
        PROVE  x \in Awaited(w) <=> x \in Recorded(w)
    <3>1. (\E h \in UNION {Range(handles[k]) : k \in Kinds} : x \in Of(h, w)) <=> x \in QueuedGets(handles, w)
      BY <2>1, <2>6, QueuedAwaited
    <3>2. \/ x \in Of(st[t], w) \ ReadBy(t)
          \/ st[t].pc = "ignore" /\ st[t].sink = w /\ st[t].sinkId = x
          <=> x \in HeldGets(st[t], w)
      BY <2>1, <2>2, <2>6, HeldAwaited
    <3>. QED BY <2>3, <2>4, <2>5, <3>1, <3>2
  <2>7. 0 \notin Recorded(w)
    BY <2>3, <2>4, Bounds DEF QueuedGets, HeldGets
  <2>. QED BY <2>6, <2>7
<1>. QED BY <1>1, Invariant, PTL

\* A flush makes every put where its own statement said and with the value of its own
\* expression: PutsOwn.  The lists a window's puts come from and the handles keep one order.
THEOREM PutsAreOwn ==
  ASSUME OneThread
  PROVE  Spec => []PutsOwn
<1>1. ASSUME ExpressionsInv PROVE PutsOwn
  <2>1. ASSUME sane, NEW t \in Threads
        PROVE  \A i \in DOMAIN st[t].put : st[t].put[i].to = st[t].put[i].id /\ st[t].put[i].val = st[t].put[i].id
    BY <1>1, <2>1, SaneNow, SaneIs DEF ExpressionsInv, FlushOK
  <2>. QED BY <2>1 DEF PutsOwn, Range
<1>. QED BY <1>1, Invariant, PTL

\* For one thread's supported statements no list of a window and no buffer is left, and flush
\* frees what it may: NeverUndefined.
THEOREM StaysDefined ==
  ASSUME OneThread
  PROVE  Spec => []NeverUndefined
<1>1. ASSUME ExpressionsInv PROVE NeverUndefined
  BY <1>1, SaneNow, SaneIs DEF ExpressionsInv, NeverUndefined
<1>. QED BY <1>1, Invariant, PTL
=============================================================================
