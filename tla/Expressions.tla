----------------------------- MODULE Expressions -----------------------------
(***************************************************************************)
(* Expressions over EXPR windows, with the classic handles: local-view     *)
(* windows, and the elements of global ones.                               *)
(* win(...) records an access in the window and yields an expression; + and *)
(* its kin combine two; >> posts a get for every operand and then, if the  *)
(* windows block, evaluates the expression, else leaves it to a flush.     *)
(* The window's side of it is ExprWindow's.                                *)
(***************************************************************************)
EXTENDS ExprWindow, FiniteSetsExt

CONSTANTS
  Threads,      \* the threads that make expressions
  Windows,      \* the windows
  None,         \* no window
  Completions,  \* the values of wcmpl_ considered
  Counts,       \* element counts of bulk accesses
  STORE,        \* DEFAULT_EEXPR_SIZE and DEFAULT_BEXPR_SIZE, in elements
  OBJECT        \* the size of an expression object, in elements

ASSUME NoneAssumption == None \notin Windows
ASSUME BoundsAssumption == {STORE, OBJECT} \subseteq Nat /\ STORE # 0 /\ Counts \subseteq Nat \ {0}
ASSUME CompletionAssumption == Completions \subseteq {"NO_FLUSH", "LOCAL_FLUSH", "REMOTE_FLUSH"}
\* The handles have no lock: expressions of several threads are evaluated at once.
ASSUME ThreadAssumption == (\A t, u \in Threads : t = u) \/ "NO_FLUSH" \notin Completions

VARIABLES
  comp,      \* every window's wcmpl_, for ever
  win,       \* every window's members
  handles,   \* Handles<T>: eexpr_handles_ and bexpr_handles_
  next,      \* eexpr_next_ and bexpr_next_: how much of its store is taken
  st,        \* what every thread is doing
  n,         \* the number of accesses made
  sane       \* history: no unsupported statement was made

vars == <<comp, win, handles, next, st, n, sane>>

\* A thread between two statements.
Idle == [pc |-> "idle", kind |-> "elem", wins |-> <<>>, ids |-> <<>>, count |-> 1,
         todo |-> {}, opened |-> <<>>, got |-> <<>>, order |-> <<>>,
         sink |-> None, sinkId |-> 0,
         flushing |-> None, run |-> {}, val |-> 0, put |-> <<>>,
         placed |-> FALSE, deletes |-> FALSE, ran |-> FALSE]

Init ==
  /\ comp \in [Windows -> Completions]
  /\ win \in [Windows -> {New(s) : s \in Shapes}]
  /\ handles = [k \in Kinds |-> <<>>] /\ next = [k \in Kinds |-> 0]
  /\ st = [t \in Threads |-> Idle]
  /\ n = 0 /\ sane = TRUE

Blocking(w) == comp[w] # "NO_FLUSH"      \* is_win_b()

\* get_eexpr_ptr() and get_bexpr_ptr(): whether a store of which i is taken has
\* size left, and how much is taken then; what is refused goes to the heap.
Placed(i, size) == i + size < STORE
Taken_slip(i, size) == i + size
Taken(i, size) == IF Placed(i, size) THEN i + size ELSE i
-----------------------------------------------------------------------------
\* The gets of a bulk expression's operands fit w's buffer.
Fits(w, ws, c) == Room(win[w], Cardinality({i \in DOMAIN ws : ws[i] = w}), c)

\* The statements the code gets right: all their windows block or none does, what
\* they put into does not (a blocking put is made twice, see Put), a window that
\* defers is used by element or in bulk but not both between two flushes, bulk
\* gets fit, an element is not put into a global window of several dimensions
\* (whose access is then sought among the bulk ones), and where the result of a
\* deferred expression finds room in the store so does the expression: flush
\* frees both as it is told of the latter.
Supported(k, ws, s, c) ==
  LET used == {ws[i] : i \in DOMAIN ws} \cup ({s} \ {None}) IN
  /\ \A w \in used : Blocking(w) => s = None /\ \A u \in used : Blocking(u)
  /\ \A w \in used : ~Blocking(w) => IF k = "elem" THEN ~win[w].isBulk ELSE ~win[w].isElem
  /\ k = "bulk" => \A w \in used : Fits(w, ws, c)
  /\ s # None => win[s].shape.view = "LOCAL_VIEW" \/ win[s].shape.ndims = 1
  /\ s # None /\ Placed(next[k], c) => Placed(next[k] + c, OBJECT)

\* A statement: one or two operands, and a variable (None) or a window they go to.
\* A global window's bulk accesses are not modelled.
Begin(t) ==
  /\ st[t].pc = "idle" /\ sane
  /\ \E k \in Kinds, m \in 1 .. 2, s \in Windows \cup {None} :
     \E ws \in [1 .. m -> Windows], c \in (IF k = "elem" THEN {1} ELSE Counts) :
       /\ n + m + (IF s = None THEN 0 ELSE 1) <= MaxAccesses
       /\ k = "bulk" =>
            \A w \in Range(ws) \cup ({s} \ {None}) : win[w].shape.view = "LOCAL_VIEW"
       /\ st' = [st EXCEPT ![t] = [Idle EXCEPT
                  !.pc = "open", !.kind = k, !.wins = ws, !.count = c, !.sink = s,
                  !.ids = [i \in 1 .. m |-> 0], !.todo = 1 .. m]]
       /\ sane' = Supported(k, ws, s, c)
  /\ UNCHANGED <<comp, win, handles, next, n>>

\* The operands' win(...): C++ fixes no order for those of +.
Open(t) ==
  LET me == st[t] IN
  /\ me.pc = "open" /\ n < MaxAccesses
  /\ \E i \in me.todo :
       /\ win' = [win EXCEPT ![me.wins[i]] =
                    Opened(@, me.kind, [id |-> n + 1, count |-> me.count])]
       /\ st' = [st EXCEPT ![t].ids[i] = n + 1, ![t].opened = Append(@, i),
                   ![t].todo = IF @ = {i} THEN 1 .. Len(me.wins) ELSE @ \ {i},
                   ![t].pc = IF me.todo # {i} THEN "open"
                             ELSE IF me.sink = None THEN "post" ELSE "sink"]
  /\ n' = n + 1
  /\ UNCHANGED <<comp, handles, next, sane>>

\* The win(...) to the right of >>, which comes after its left.
OpenSink(t) ==
  /\ st[t].pc = "sink" /\ n < MaxAccesses
  /\ win' = [win EXCEPT ![st[t].sink] =
               Opened(@, st[t].kind, [id |-> n + 1, count |-> st[t].count])]
  /\ st' = [st EXCEPT ![t].sinkId = n + 1, ![t].pc = "ignore"]
  /\ n' = n + 1
  /\ UNCHANGED <<comp, handles, next, sane>>

Ignore(t) ==
  LET v == win[st[t].sink] IN
  /\ st[t].pc = "ignore" /\ v.info[LastList(v)] # <<>>
  /\ win' = [win EXCEPT ![st[t].sink] = Ignored(@)]
  /\ st' = [st EXCEPT ![t].pc = "post"]
  /\ UNCHANGED <<comp, handles, next, n, sane>>

\* Whether >> evaluates: the operands' windows say, or else the one it puts into.
AtOnce(s) == IF s.sink = None THEN \A i \in DOMAIN s.wins : Blocking(s.wins[i])
             ELSE Blocking(s.sink)

\* The outstanding_gets() of the operands, from left to right; then the memory for
\* the result, if it goes to a window.
Post(t) ==
  LET me == st[t]
      i  == Min(me.todo) IN
  /\ me.pc = "post" /\ ~PostWild(win[me.wins[i]], me.kind)
  /\ win' = [win EXCEPT ![me.wins[i]] = Posted(@, me.kind)]
  /\ st' = [st EXCEPT ![t].todo = IF @ = {i} THEN 1 .. Len(me.wins) ELSE @ \ {i},
                      ![t].got = IF me.todo = {i} THEN [j \in 1 .. Len(me.wins) |-> {}] ELSE @,
                      ![t].pc = IF me.todo # {i} THEN "post"
                                ELSE IF AtOnce(me) THEN "eval" ELSE "defer",
                      ![t].placed = me.todo = {i} /\ me.sink # None /\ Placed(next[me.kind], me.count)]
  /\ next' = IF me.todo = {i} /\ me.sink # None THEN [next EXCEPT ![me.kind] = Taken(@, me.count)] ELSE next
  /\ UNCHANGED <<comp, handles, n, sane>>

\* A handle; flush deletes the result although it is in the store, if its is_placed_,
\* which tells of the expression object, is false.
Expr(s) == [what |-> "expr", wins |-> s.wins, ids |-> s.ids, opened |-> s.opened,
            count |-> s.count, sink |-> s.sink, id |-> s.sinkId,
            deletes |-> s.placed /\ ~Placed(next[s.kind], OBJECT)]
PutInto(s) == [what |-> "put", wins |-> <<>>, ids |-> <<>>, opened |-> <<>>,
               count |-> s.count, sink |-> s.sink, id |-> s.sinkId, deletes |-> FALSE]
Uninit(s) == [PutInto(s) EXCEPT !.what = "uninit"]

Defer(t) ==
  LET me == st[t] IN
  /\ me.pc = "defer"
  /\ handles' = [handles EXCEPT ![me.kind] =
                   @ \o <<Expr(me)>> \o (IF me.sink = None THEN <<>> ELSE <<PutInto(me)>>)]
  /\ next' = [next EXCEPT ![me.kind] = IF me.sink = None THEN Taken(@, OBJECT)
                                       ELSE Taken(Taken(@, OBJECT), OBJECT)]
  /\ st' = [st EXCEPT ![t] = Idle]
  /\ UNCHANGED <<comp, win, n, sane>>

\* eval() or fillInto() of one operand: the order of the elements' is free.  The
\* second bulk operand takes memory of its own.
Eval(t) ==
  LET me == st[t] IN
  /\ me.pc = "eval"
  /\ \E i \in (IF me.kind = "elem" THEN me.todo ELSE {Min(me.todo)}) :
       /\ ~EvalWild(win[me.wins[i]], me.kind)
       /\ win' = [win EXCEPT ![me.wins[i]] = Evaluated(@, me.kind)]
       /\ st' = [st EXCEPT ![t].got[i] = Data(win[me.wins[i]], me.kind),
                           ![t].order = Append(@, i), ![t].todo = @ \ {i},
                           ![t].pc = IF me.todo = {i} THEN "store" ELSE "eval"]
       /\ next' = IF me.kind = "bulk" /\ i = 1 /\ Len(me.wins) = 2
                  THEN [next EXCEPT !["bulk"] = Taken(@, me.count)] ELSE next
  /\ UNCHANGED <<comp, handles, n, sane>>

\* The value is stored; what follows depends on who evaluated it.
Store(t) ==
  LET me == st[t] IN
  /\ me.pc = "store"
  /\ st' = [st EXCEPT ![t] =
       IF me.flushing # None
         THEN [Idle EXCEPT !.pc = "flush", !.flushing = me.flushing, !.run = me.run, !.val = me.sinkId,
                          !.deletes = me.deletes, !.ran = TRUE]
       ELSE IF me.sink = None THEN Idle
       ELSE [me EXCEPT !.pc = "put"]]
  /\ UNCHANGED <<comp, win, handles, next, n, sane>>

\* The put of a blocking window.  With REMOTE_FLUSH it is made again, for an
\* element from memory nothing was stored in, then come flush_win() and
\* flush_expr(); with LOCAL_FLUSH it is also left to a flush.
Put(t) ==
  LET me == st[t] IN
  /\ me.pc \in {"put", "again"} /\ ~PutWild(win[me.sink], me.kind)
  /\ win' = [win EXCEPT ![me.sink] = IF me.pc = "put" THEN PutMade(@, me.kind) ELSE New(@.shape)]
  /\ st' = [st EXCEPT ![t] =
       IF me.pc = "put" /\ comp[me.sink] = "REMOTE_FLUSH"
         THEN [me EXCEPT !.pc = "again"] ELSE Idle]
  /\ handles' = IF comp[me.sink] = "REMOTE_FLUSH" THEN handles
                ELSE [handles EXCEPT ![me.kind] =
                        @ \o (IF me.kind = "elem" THEN <<Uninit(me)>> ELSE <<>>) \o <<PutInto(me)>>]
  /\ next' = IF comp[me.sink] = "REMOTE_FLUSH" THEN next ELSE [next EXCEPT ![me.kind] = Taken(@, OBJECT)]
  /\ UNCHANGED <<comp, n, sane>>
-----------------------------------------------------------------------------
\* win.flush(), and win.flush_local() of a window that defers: LWFLUSH().
Flush(t, w) ==
  /\ st[t].pc = "idle" /\ comp[w] # "REMOTE_FLUSH"
  /\ st' = [st EXCEPT ![t].pc = "flush", ![t].flushing = w,
              ![t].run = {k \in Kinds : IF k = "elem" THEN win[w].isElem ELSE win[w].isBulk}]
  /\ UNCHANGED <<comp, win, handles, next, n, sane>>

\* EExpr::flush() runs before BExpr::flush(), each over all windows' handles.
Running(t) == IF "elem" \in st[t].run THEN "elem" ELSE "bulk"

\* The next handle holds an expression, or the memory an element put left behind.
RunExpr(t) ==
  LET k == Running(t)
      h == Head(handles[k]) IN
  /\ st[t].pc = "flush" /\ st[t].run # {} /\ handles[k] # <<>> /\ h.what # "put"
  /\ handles' = [handles EXCEPT ![k] = Tail(@)]
  /\ st' = [st EXCEPT ![t] =
       IF h.what = "uninit" THEN [@ EXCEPT !.val = -1, !.put = <<>>, !.deletes = FALSE, !.ran = TRUE]
       ELSE [@ EXCEPT !.pc = "eval", !.kind = k, !.wins = h.wins, !.ids = h.ids,
               !.opened = h.opened, !.count = h.count, !.sink = h.sink, !.sinkId = h.id,
               !.todo = DOMAIN h.wins, !.got = [i \in DOMAIN h.wins |-> {}], !.put = <<>>,
               !.deletes = h.deletes, !.ran = TRUE]]
  /\ UNCHANGED <<comp, win, next, n, sane>>

\* The next handle holds a window: it puts the result of the handle before, which
\* is freed.
RunPut(t) ==
  LET k == Running(t)
      h == Head(handles[k]) IN
  /\ st[t].pc = "flush" /\ st[t].run # {} /\ handles[k] # <<>> /\ h.what = "put"
  /\ st[t].val # 0 /\ ~PutWild(win[h.sink], k) /\ ~st[t].deletes
  /\ handles' = [handles EXCEPT ![k] = Tail(@)]
  /\ win' = [win EXCEPT ![h.sink] = PutMade(@, k)]
  /\ st' = [st EXCEPT ![t].val = 0, ![t].ran = TRUE,
              ![t].put = <<[to |-> NextPut(win[h.sink], k), val |-> st[t].val, id |-> h.id]>>]
  /\ UNCHANGED <<comp, next, n, sane>>

\* eexpr_clear() and bexpr_clear(), if there were handles.
EndRun_slip(t) ==
  /\ st[t].pc = "flush" /\ st[t].run # {} /\ handles[Running(t)] = <<>>
  /\ UNCHANGED vars
EndRun(t) ==
  /\ st[t].pc = "flush" /\ st[t].run # {} /\ handles[Running(t)] = <<>>
  /\ st' = [st EXCEPT ![t].run = @ \ {Running(t)}, ![t].put = <<>>, ![t].ran = FALSE]
  /\ next' = IF st[t].ran THEN [next EXCEPT ![Running(t)] = 0] ELSE next
  /\ UNCHANGED <<comp, win, handles, n, sane>>

EndFlush(t) ==
  /\ st[t].pc = "flush" /\ st[t].run = {}
  /\ win' = [win EXCEPT ![st[t].flushing] = Cleared(@)]
  /\ st' = [st EXCEPT ![t] = Idle]
  /\ UNCHANGED <<comp, handles, next, n, sane>>

\* The next call leaves a list or the buffer, or deletes what was not new: anything
\* may follow.
Wild(t) ==
  LET me == st[t] IN
  CASE me.pc = "ignore" -> win[me.sink].info[LastList(win[me.sink])] = <<>>
    [] me.pc = "post"   -> PostWild(win[me.wins[Min(me.todo)]], me.kind)
    [] me.pc = "eval"   -> \E i \in me.todo : EvalWild(win[me.wins[i]], me.kind)
    [] me.pc \in {"put", "again"} -> PutWild(win[me.sink], me.kind)
    [] me.pc = "flush" ->
         /\ me.run # {} /\ handles[Running(t)] # <<>>
         /\ Head(handles[Running(t)]).what = "put"
         /\ me.val = 0 \/ me.deletes \/ PutWild(win[Head(handles[Running(t)]).sink], Running(t))
    [] OTHER -> FALSE
Undefined(t) ==
  /\ Wild(t)
  /\ st' = [st EXCEPT ![t].pc = "undefined"]
  /\ UNCHANGED <<comp, win, handles, next, n, sane>>
-----------------------------------------------------------------------------
Evaluation(t) == Post(t) \/ Defer(t) \/ Eval(t) \/ Store(t) \/ Put(t)
Flushing(t)   == RunExpr(t) \/ RunPut(t) \/ EndRun(t) \/ EndFlush(t)
Step(t)       == Open(t) \/ OpenSink(t) \/ Ignore(t) \/ Evaluation(t) \/ Flushing(t) \/ Undefined(t)

Next == \E t \in Threads : Begin(t) \/ Step(t) \/ \E w \in Windows : Flush(t, w)

\* A statement and a flush, once begun, are ordinary code that waits for nothing.
Spec == Init /\ [][Next]_vars /\ \A t \in Threads : WF_vars(Step(t))
-----------------------------------------------------------------------------

\* Types, and after supported statements only the counters point into their lists.
TypeOK ==
  /\ comp \in [Windows -> Completions]
  /\ \A w \in Windows : LET v == win[w] IN
       /\ v.shape \in Shapes
       /\ \A q \in Lists : /\ v.info[q] \in Seq(Record) /\ v.puts[q] \in Seq(Accesses)
                           /\ v.gets[q] \in Nat /\ v.xfers[q] \in Nat
       /\ v.bufc \in Nat /\ v.size \in Nat /\ v.putc \in Nat
       /\ v.buf \in [0 .. PREALLOC-1 -> Accesses \cup {0}]
       /\ sane => /\ \A q \in Lists : {v.gets[q], v.xfers[q]} \subseteq 0 .. Len(v.info[q])
                  /\ \E q \in Lists : v.putc <= Len(v.puts[q])
       /\ v.isElem \in BOOLEAN /\ v.isBulk \in BOOLEAN
       /\ v.unfinished \subseteq Accesses
  /\ n \in 0 .. MaxAccesses /\ sane \in BOOLEAN
  /\ \A k \in Kinds : next[k] < STORE
  /\ \A t \in Threads :
       /\ st[t].pc \in {"idle", "open", "sink", "ignore", "post", "defer", "eval", "store",
                        "put", "again", "flush", "undefined"}
       /\ st[t].todo \subseteq DOMAIN st[t].wins

\* The operands of t's expression evaluated so far read what they and no other
\* operand asked for.
ReadOwn(t) ==
  LET me == st[t]
      evaluated == {i \in DOMAIN me.got : me.got[i] # {}} IN
  /\ \A i \in evaluated : \E j \in DOMAIN me.ids : me.got[i] = {me.ids[j]}
  /\ \A i, j \in evaluated : i # j => me.got[i] # me.got[j]
  /\ (\A i \in DOMAIN me.order : me.order[i] = me.opened[i]) => \A i \in evaluated : me.got[i] = {me.ids[i]}

\* An expression is evaluated with the data of its own accesses, whatever was
\* posted, left to a flush and evaluated before it, and each operand with its own
\* if operands are evaluated in the order of their accesses.
OwnData == sane => \A t \in Threads : ReadOwn(t)

\* What is still to be read of w, by the handles and the statements under way.
Of(h, w) == {h.ids[i] : i \in {j \in DOMAIN h.wins : h.wins[j] = w}}
ReadBy(t) == UNION {st[t].got[i] : i \in DOMAIN st[t].got}
Awaited(w) ==
  (UNION {Of(h, w) : h \in UNION {Range(handles[k]) : k \in Kinds}})
    \cup (UNION {Of(st[t], w) \ ReadBy(t) : t \in Threads})
    \cup {st[t].sinkId : t \in {u \in Threads : st[u].pc = "ignore" /\ st[u].sink = w}}
Recorded(w) ==
  UNION {{win[w].info[q][i].id : i \in win[w].xfers[q] + 1 .. Len(win[w].info[q])} : q \in Lists}

\* Every access of an expression not evaluated yet is still recorded in its window,
\* and nothing else is: no flush, of this window or another, and no put withdraws
\* the record of an expression that waits.
RecordsKept == sane => \A w \in Windows : Recorded(w) = Awaited(w) \ {0}

\* A put left to a flush is made where its own statement said, with the value of its
\* own expression, although value and place were queued apart.
PutsOwn == sane => \A t \in Threads : \A p \in Range(st[t].put) : p.to = p.id /\ p.val = p.id

\* No list of the windows, nor the buffer, is left, and the results a flush frees
\* were allocated the way it frees them.
NeverUndefined == sane => \A t \in Threads : st[t].pc # "undefined"

\* Every flush returns, with all handles it had to run.
FlushReturns == \A t \in Threads : st[t].pc = "flush" ~> st[t].pc \in {"idle", "undefined"}

\* tests/expr-bulk/expr-bulk-rhswin.cpp:14 says that the user "still needs to invoke
\* flush, because remote completion to window is not guaranteed": after the flush it is.
\* (It says so of LOCAL_FLUSH; the test itself takes NO_FLUSH, line 12, and reads what
\* was put after the flush "to complete expression", line 45.)
FlushCompletes ==
  [][\A t \in Threads : st[t].flushing # None /\ st'[t].pc = "idle" =>
       win'[st[t].flushing].unfinished = {}]_vars
=============================================================================
