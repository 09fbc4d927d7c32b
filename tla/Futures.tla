------------------------------- MODULE Futures -------------------------------
(***************************************************************************)
(* The futures build of the expressions.  What >> leaves to a flush is a   *)
(* closure in the FuturesManager, blocked once by every operand's window;  *)
(* each window keeps the identifiers of the expressions it blocks, and its *)
(* flush unblocks them one by one: the last to do so runs the closure.     *)
(* One thread; a statement reaches MPI but waits for nothing, and is one   *)
(* step.                                                                   *)
(***************************************************************************)
EXTENDS ExprWindow, FiniteSetsExt, SequencesExt

CONSTANTS
  Windows,      \* the windows
  None,         \* no window
  Completions,  \* the values of wcmpl_ considered
  Counts,       \* element counts of bulk accesses
  EXPR_COUNT    \* DEFAULT_EXPR_COUNT, the length of the manager's arrays

\* A global window's flush does not forget the expressions it unblocked.
ASSUME ViewAssumption == \A s \in Shapes : s.view = "LOCAL_VIEW"
ASSUME NoneAssumption == None \notin Windows
ASSUME BoundsAssumption == EXPR_COUNT \in Nat /\ Counts \subseteq Nat \ {0}
ASSUME CompletionAssumption == Completions \subseteq {"NO_FLUSH", "LOCAL_FLUSH", "REMOTE_FLUSH"}

VARIABLES
  comp,         \* every window's wcmpl_, for ever
  life,         \* every window's: "open", "freed" by wfree, "gone"
  win,          \* every window's members
  expressions,  \* and its expressions_: the identifiers of those it blocks
  exprs,        \* the manager's arrays, an entry for every identifier given
  flushing,     \* the window whose flush is under way
  at,           \* and where it is in expressions_
  n,            \* the number of accesses made
  sane,         \* history: no unsupported call was made
  wild,         \* history: the list or array that was left, or "no"
  last          \* history: the evaluation made last

vars == <<comp, life, win, expressions, exprs, flushing, at, n, sane, wild, last>>

Nothing == [expr |-> [kind |-> "elem", wins |-> <<>>, ids |-> <<>>, opened |-> <<>>, count |-> 1,
                      sink |-> None, sinkId |-> 0],
            order |-> <<>>, got |-> <<>>, put |-> 0]

Init ==
  /\ comp \in [Windows -> Completions]
  /\ life = [w \in Windows |-> "open"]
  /\ win \in [Windows -> {New(s) : s \in Shapes}]
  /\ expressions = [w \in Windows |-> <<>>]
  /\ exprs = <<>> /\ flushing = None /\ at = 0
  /\ n = 0 /\ sane = TRUE /\ wild = "no" /\ last = Nothing

Blocking(w) == comp[w] # "NO_FLUSH"      \* is_win_b()
Quiet == flushing = None /\ wild = "no"
-----------------------------------------------------------------------------
(***************************************************************************)
(* The parts of a statement, as functions of the windows and of what has   *)
(* been read and put so far.                                               *)
(***************************************************************************)
\* A step of x, unless memory was left before it or is by it.
Guarded(x, leaves, why, y) ==
  IF x.wild # "no" THEN x ELSE IF leaves THEN [x EXCEPT !.wild = why] ELSE y

\* Op for every operand of a statement, of which it has one or two, in order o.
Each(Op(_, _), x, o) ==
  LET y == Op(x, o[1]) IN IF Len(o) = 1 THEN y ELSE Op(y, o[2])

Open(x, c, i) ==
  [x EXCEPT !.win[c.wins[i]] = Opened(@, c.kind, [id |-> c.ids[i], count |-> c.count])]

\* The win(...) to the right of >> and its expr_ignore_last_get().
OpenSink(x, c) ==
  IF c.sink = None THEN x
  ELSE LET v == Opened(x.win[c.sink], c.kind, [id |-> c.sinkId, count |-> c.count]) IN
    Guarded(x, v.info[LastList(v)] = <<>>, "ignore", [x EXCEPT !.win[c.sink] = Ignored(v)])

Post(x, c, i) ==
  Guarded(x, PostWild(x.win[c.wins[i]], c.kind), "post", [x EXCEPT !.win[c.wins[i]] = Posted(@, c.kind)])

Eval(x, c, i) ==
  LET v == x.win[c.wins[i]] IN
  Guarded(x, EvalWild(v, c.kind), "operand",
          [x EXCEPT !.win[c.wins[i]] = Evaluated(@, c.kind), !.got[i] = Data(v, c.kind)])

PutSink(x, c) ==
  LET v == x.win[c.sink] IN
  Guarded(x, PutWild(v, c.kind), "put",
          [x EXCEPT !.win[c.sink] = PutMade(@, c.kind), !.put = NextPut(v, c.kind)])

\* The expression is evaluated, in order o, and put.  Only elements' order is free.
Evaluation(W, c, o) ==
  LET x == [win |-> W, wild |-> "no", got |-> [i \in DOMAIN c.wins |-> {}], put |-> 0]
      y == Each(LAMBDA z, i : Eval(z, c, i), x, o) IN
  IF c.sink = None THEN y ELSE PutSink(y, c)

Orders(m) == {o \in [1 .. m -> 1 .. m] : IsInjective(o)}
EvalOrders(c) == IF c.kind = "elem" THEN Orders(Len(c.wins)) ELSE {[i \in DOMAIN c.wins |-> i]}
-----------------------------------------------------------------------------
\* The places of w's expressions_ that its flush, if there is one, has still to reach;
\* where e is in such places, and so the windows whose flushes e waits for.
Left(w) == IF w = flushing THEN at .. Len(expressions[w]) ELSE 1 .. Len(expressions[w])
Ahead(e) == UNION {{w} \X {i \in Left(w) : expressions[w][i] = e} : w \in Windows}
Waits(e) == {place[1] : place \in Ahead(e)}
Waiting == {e \in DOMAIN exprs : exprs[e].alive /\ Waits(e) # {}}

\* Whether >> evaluates: the operands' windows say, or else the one it puts into.
AtOnce(c) == IF c.sink = None THEN \A w \in ToSet(c.wins) : Blocking(w) ELSE Blocking(c.sink)

\* No other window's flush is to put into s, and none of its own to run before.
Undisturbed(s, w) == \A e \in Waiting : exprs[e].run.sink = s => exprs[e].run.wins[1] = w

\* The statements the code gets right: they read one window; it blocks, and what
\* they put into is LOCAL_FLUSH, or neither does; a window that defers or is put
\* into is used by element or in bulk but not both between two flushes; bulk gets
\* fit; the window put into is awaited by no other's flush; and there are
\* identifiers left, of which none is used again.
Supported(c) ==
  LET w == c.wins[1] IN
  /\ ToSet(c.wins) = {w}
  /\ c.sink # None => /\ comp[c.sink] # "REMOTE_FLUSH" /\ (Blocking(c.sink) <=> Blocking(w))
                      /\ Undisturbed(c.sink, w)
  /\ \A u \in {c.sink} \cup (IF Blocking(w) THEN {} ELSE {w}) :
       u # None => IF c.kind = "elem" THEN ~win[u].isBulk ELSE ~win[u].isElem
  /\ c.kind = "bulk" => Room(win[w], Len(c.wins), c.count)
  /\ ~AtOnce(c) => Len(exprs) < EXPR_COUNT

\* new_expr() and block_on_expr(), for every operand
NewExpr_slip(c) == [alive |-> TRUE, count |-> Cardinality(ToSet(c.wins)), run |-> c, ran |-> FALSE]
NewExpr(c) == [alive |-> TRUE, count |-> Len(c.wins), run |-> c, ran |-> FALSE]
Blocked(c) ==
  [w \in Windows |-> expressions[w] \o [j \in 1 .. Cardinality({i \in DOMAIN c.wins : c.wins[i] = w})
                                          |-> Len(exprs) + 1]]

\* A REMOTE_FLUSH window that is put into gets the put a second time, which leaves
\* its list: what would follow, flush_win() and flush_expr(), is not modelled.
Again(x, c) ==
  IF c.sink # None /\ comp[c.sink] = "REMOTE_FLUSH" THEN PutSink(x, c) ELSE x

\* A statement of one or two operands, and a variable (None) or a window they go
\* to: the operands are opened, in any order, then the window to the right of >>,
\* and the gets are posted from left to right.
Statement(c) ==
  LET x == Each(LAMBDA z, i : Open(z, c, i),
                [win |-> win, wild |-> "no", got |-> <<>>, put |-> 0], c.opened)
      y == Each(LAMBDA z, i : Post(z, c, i), OpenSink(x, c), [i \in DOMAIN c.wins |-> i]) IN
  /\ Quiet
  /\ n' = n + Len(c.wins) + (IF c.sink = None THEN 0 ELSE 1)
  /\ sane' = (sane /\ Supported(c))
  /\ \/ /\ AtOnce(c) /\ y.wild = "no"
        /\ \E o \in EvalOrders(c) :
             LET z == Evaluation(y.win, c, o)
                 r == Again(z, c) IN
             /\ win' = r.win /\ wild' = r.wild
             /\ last' = [expr |-> c, order |-> o, got |-> z.got, put |-> z.put]
        /\ UNCHANGED <<exprs, expressions>>
     \/ /\ ~AtOnce(c) /\ y.wild = "no" /\ Len(exprs) < EXPR_COUNT
        /\ win' = y.win
        /\ exprs' = Append(exprs, NewExpr(c)) /\ expressions' = Blocked(c)
        /\ UNCHANGED <<wild, last>>
     \/ /\ y.wild # "no" \/ (~AtOnce(c) /\ Len(exprs) = EXPR_COUNT)
        /\ wild' = IF y.wild # "no" THEN y.wild ELSE "ids"
        /\ UNCHANGED <<win, exprs, expressions, last>>
  /\ UNCHANGED <<comp, life, flushing, at>>

Statements ==
  LET open == {w \in Windows : life[w] = "open"} IN
  \E k \in Kinds, m \in 1 .. 2, s \in open \cup {None} :
    \E ws \in [1 .. m -> open], c \in (IF k = "elem" THEN {1} ELSE Counts), o \in Orders(m) :
      /\ n + m + (IF s = None THEN 0 ELSE 1) <= MaxAccesses
      /\ Statement([kind |-> k, wins |-> ws, ids |-> [i \in 1 .. m |-> n + CHOOSE j \in 1 .. m : o[j] = i],
                    opened |-> o, count |-> c, sink |-> s,
                    sinkId |-> IF s = None THEN 0 ELSE n + m + 1])
-----------------------------------------------------------------------------
\* win.flush(), and win.flush_local() of a window that defers: LWFLUSH().  It may
\* not come while another window's expression has yet to put into w.
Flush(w) ==
  /\ Quiet /\ life[w] = "open" /\ comp[w] # "REMOTE_FLUSH"
  /\ flushing' = w /\ at' = 1
  /\ sane' = (sane /\ Undisturbed(w, w))
  /\ UNCHANGED <<comp, life, win, expressions, exprs, n, wild, last>>

Reached == expressions[flushing][at]
LastOfIts_slip(e) == exprs[e].count <= 2
LastOfIts(e) == exprs[e].count <= 1
Unblocking ==
  /\ flushing # None /\ wild = "no" /\ at <= Len(expressions[flushing])
  /\ at' = at + 1
  /\ UNCHANGED <<comp, life, expressions, flushing, n, sane>>

\* unblock_expr() of an expression that is forgotten, or has others to wait for.
Unblock ==
  /\ Unblocking /\ (exprs[Reached].alive => ~LastOfIts(Reached))
  /\ exprs' = IF exprs[Reached].alive THEN [exprs EXCEPT ![Reached].count = @ - 1] ELSE exprs
  /\ UNCHANGED <<win, wild, last>>

\* unblock_expr() of one that has not: future.get() and remove_expr().
RunExpr ==
  LET c == exprs[Reached].run IN
  /\ Unblocking /\ exprs[Reached].alive /\ LastOfIts(Reached)
  /\ \E o \in EvalOrders(c) :
       LET x == Evaluation(win, c, o) IN
       /\ win' = x.win /\ wild' = x.wild
       /\ last' = [expr |-> c, order |-> o, got |-> x.got, put |-> x.put]
  /\ exprs' = [exprs EXCEPT ![Reached].count = 0, ![Reached].alive = FALSE, ![Reached].ran = TRUE]

\* LW_CLEAR_EXPR()
Emptied(w) == [expressions EXCEPT ![w] = <<>>]

EndFlush ==
  /\ flushing # None /\ wild = "no" /\ at > Len(expressions[flushing])
  /\ win' = [win EXCEPT ![flushing] = Cleared(@)]
  /\ expressions' = Emptied(flushing)
  /\ flushing' = None /\ at' = 0
  /\ UNCHANGED <<comp, life, exprs, n, sane, wild, last>>

\* No expression left to a flush puts into w, if w's own flush is to run it, or
\* waits for w, if it puts elsewhere: the place of its put would stay in the list.
Unneeded(w) ==
  \A e \in Waiting : LET c == exprs[e].run IN
    IF w \in Waits(e) THEN c.sink \in {None, w} ELSE c.sink # w

\* win.wfree()
WFree(w) ==
  /\ Quiet /\ life[w] = "open"
  /\ life' = [life EXCEPT ![w] = "freed"]
  /\ expressions' = Emptied(w)
  /\ win' = [win EXCEPT ![w] = New(@.shape)]
  /\ sane' = (sane /\ Unneeded(w))
  /\ UNCHANGED <<comp, exprs, flushing, at, n, wild, last>>

\* ~Window(): forget_all(expressions_)
Destroy(w) ==
  /\ Quiet /\ life[w] # "gone"
  /\ life' = [life EXCEPT ![w] = "gone"]
  /\ exprs' = [e \in DOMAIN exprs |->
                 IF e \in ToSet(expressions[w]) THEN [exprs[e] EXCEPT !.alive = FALSE] ELSE exprs[e]]
  /\ expressions' = Emptied(w)
  /\ win' = [win EXCEPT ![w] = New(@.shape)]
  /\ sane' = (sane /\ Unneeded(w))
  /\ UNCHANGED <<comp, flushing, at, n, wild, last>>
-----------------------------------------------------------------------------
Next ==
  \/ Statements \/ Unblock \/ RunExpr \/ EndFlush
  \/ \E w \in Windows : Flush(w) \/ WFree(w) \/ Destroy(w)

Spec == Init /\ [][Next]_vars
-----------------------------------------------------------------------------
Occurrences(e) == Cardinality(Ahead(e))

\* A live expression's blocking count is the number of its operands whose windows'
\* flushes have still to reach it; a window freed first never will, and the count
\* stays above that number, so that no other window's flush runs it.
Counted ==
  \A e \in DOMAIN exprs : exprs[e].alive =>
    /\ exprs[e].count >= 1 /\ exprs[e].count >= Occurrences(e)
    /\ (\A w \in ToSet(exprs[e].run.wins) : life[w] = "open") => exprs[e].count = Occurrences(e)

\* Types, every identifier a window keeps was given, and blocking counts are right.
TypeOK ==
  /\ comp \in [Windows -> Completions]
  /\ life \in [Windows -> {"open", "freed", "gone"}]
  /\ \A w \in Windows : /\ ToSet(expressions[w]) \subseteq DOMAIN exprs
                        /\ life[w] # "open" => expressions[w] = <<>>
  /\ Len(exprs) <= EXPR_COUNT
  /\ \A e \in DOMAIN exprs : exprs[e].alive \in BOOLEAN /\ exprs[e].count \in 0 .. 2
  /\ flushing \in Windows \cup {None} /\ n \in 0 .. MaxAccesses
  /\ wild \in {"no", "ignore", "post", "operand", "put", "ids"} /\ sane \in BOOLEAN
  /\ Counted

Status(e) ==
  CASE e \notin DOMAIN exprs -> "none"
    [] e \in DOMAIN exprs /\ exprs[e].ran -> "done"
    [] e \in DOMAIN exprs /\ ~exprs[e].ran ->
         IF exprs[e].alive /\ exprs[e].count = Occurrences(e) THEN "waiting" ELSE "forgotten"

D == INSTANCE Deferred WITH
  Exprs <- 1 .. EXPR_COUNT,
  status <- [e \in 1 .. EXPR_COUNT |-> Status(e)],
  waits <- [e \in 1 .. EXPR_COUNT |-> IF Status(e) = "waiting" THEN Waits(e) ELSE {}]

\* An expression left to flushes runs once, in the flush that is the last of its
\* windows' to reach it, and never when one of them was freed or destroyed first;
\* supported or not: new_expr, block_expr, unblock_expr and forget_all.
ImplementsDeferred == D!Spec

\* What was evaluated last used the data it and no other operand asked for, each
\* operand its own if they are evaluated in the order of their accesses, and was
\* put where its own statement said; whatever was left to flushes, run, forgotten
\* or freed in between.
OwnData ==
  LET c == last.expr
      read == {i \in DOMAIN last.got : last.got[i] # {}} IN
  sane => /\ \A i \in read : \E j \in DOMAIN c.ids : last.got[i] = {c.ids[j]}
          /\ \A i, j \in read : i # j => last.got[i] # last.got[j]
          /\ last.order = c.opened => \A i \in read : last.got[i] = {c.ids[i]}
          /\ wild = "no" => last.put = c.sinkId

\* No record, buffer or identifier out of its array is used.
NeverUndefined == sane => wild = "no"

\* tests/futures/bulk/flushed_window_from_func.cpp:9 leaves a bulk expression over
\* two windows to their flushes (lines 15 and 16) and asserts its result: run by the
\* second flush, such an expression finds its records in both windows.
FindsRecords ==
  wild = "operand" /\ last.expr.kind = "bulk" => Cardinality(ToSet(last.expr.wins)) = 1
=============================================================================
