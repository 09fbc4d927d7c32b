------------------------- MODULE LocalWindow_proofs -------------------------
(***************************************************************************)
(* LocalWindow for every set of threads, targets, boxes and operations,    *)
(* every number of dimensions and every completion and atomicity mode.     *)
(***************************************************************************)
EXTENDS LocalWindow, TLAPS

\* At most one thread is between the two halves of an access, and it holds the
\* mutex if there is one; an abort stops them all.
Exclusion ==
  /\ \A t, u \in Threads : Busy(t) /\ Busy(u) => t = u
  /\ Concurrent => \A t \in Threads : Busy(t) => holder = t
  /\ \A t, u \in Threads : pc[t] = "failed" => pc[u] = "failed"

\* What the busy thread stored is in the window's members.
Stored(t) ==
  LET r == req[t] IN
  /\ target = r.target
  /\ r.form = "elem" => disp = r.box.at
  /\ r.form # "elem" => box = r.box
  /\ isFop <=> r.kind \in {"fop", "gacc"}
  /\ isCas <=> r.kind = "cas"
  /\ r.op # None => winop = r.op
  /\ r.op = None => winop = None \/ fopped

\* Between two accesses no flag is set, but for winop after a fetch-and-op.
Quiet == ~isFop /\ ~isCas /\ (winop = None \/ fopped)

\* A call that was made is the one the members still describe.
Call(t) ==
  LET r == req[t] IN
  /\ made[t].kind = Chosen(r)
  /\ made[t].target = target
  /\ made[t].box = BoxAt(r)
  /\ made[t].op = IF Chosen(r) \in {"acc", "gacc", "fop"} THEN winop ELSE None
  /\ made[t].origin = Origin(t, r)
  /\ made[t].moved = Moved(r)

\* The only operations a blocking window has outstanding are those of the call
\* under way, at its target.
Settled(o) == wcmpl # "REMOTE_FLUSH" /\ (wcmpl = "LOCAL_FLUSH" => o.local)
Outstanding ==
  \A o \in out : \/ Settled(o)
                 \/ pc[o.thread] = "issued" /\ o.target = target
                 \/ pc[o.thread] = "failed"

\* req and made are functions on Threads, so that EXCEPT changes them there.
OnThreads == req = [t \in Threads |-> req[t]] /\ made = [t \in Threads |-> made[t]]

WindowInv ==
  /\ TypeOK /\ OnThreads /\ Exclusion
  /\ \A t \in Threads : Busy(t) => Stored(t)
  /\ \A t \in Threads : Made(t) => Call(t)
  /\ (\A t \in Threads : pc[t] = "idle") => Quiet
  /\ Outstanding

-----------------------------------------------------------------------------
\* Only a thread between two accesses can begin one, and then all are.
LEMMA AllIdle ==
  ASSUME WindowInv, NEW t \in Threads, pc[t] = "idle", Lock(t)
  PROVE  \A u \in Threads : pc[u] = "idle"
<1>1. ASSUME NEW u \in Threads PROVE ~Busy(u)
  <2>1. CASE Concurrent
    BY <2>1, NoneAssumption DEF WindowInv, Exclusion, Lock
  <2>2. CASE ~Concurrent
    BY <2>2, ThreadAssumption DEF Busy
  <2> QED BY <2>1, <2>2
<1>2. ASSUME NEW u \in Threads PROVE pc[u] # "failed"
  BY DEF WindowInv, Exclusion
<1> QED BY <1>1, <1>2 DEF WindowInv, TypeOK, Busy

\* The macro chosen is the one asked for, but for a put after a fetch-and-op.
LEMMA ChosenAsAsked ==
  ASSUME NEW t \in Threads, req[t] \in Requests, Stored(t)
  PROVE  /\ req[t].kind # "put" => Chosen(req[t]) = req[t].kind
         /\ req[t].kind = "put" => Chosen(req[t]) = IF winop = None THEN "put" ELSE "acc"
<1> DEFINE r == req[t]
<1>1. /\ r.kind \in {"put", "acc", "get", "gacc", "fop", "cas"}
      /\ r.kind \in {"fop", "cas"} => r.form = "elem"
      /\ r.kind = "gacc" => r.form # "elem"
      /\ (r.op = None) <=> (r.kind \in {"put", "get", "cas"})
  BY DEF Requests
<1>2. /\ isFop <=> r.kind \in {"fop", "gacc"}
      /\ isCas <=> r.kind = "cas"
      /\ r.op # None => winop = r.op
  BY DEF Stored
<1> QED BY <1>1, <1>2 DEF Chosen

LEMMA BoxAsAsked ==
  ASSUME NEW t \in Threads, req[t] \in Requests, Stored(t)
  PROVE  BoxAt(req[t]) = req[t].box
<1>1. /\ req[t].box \in Boxes
      /\ req[t].form = "elem" => req[t].box.shape = Cell
  BY DEF Requests
<1>2. req[t].box = [at |-> req[t].box.at, shape |-> req[t].box.shape]
  BY <1>1, BoxAssumption
<1>3. CASE req[t].form = "elem"
  BY <1>1, <1>2, <1>3 DEF BoxAt, Stored
<1>4. CASE req[t].form # "elem"
  BY <1>4 DEF BoxAt, Stored
<1> QED BY <1>3, <1>4

-----------------------------------------------------------------------------
LEMMA InitWindow == Init => WindowInv
<1> SUFFICES ASSUME Init PROVE WindowInv
  OBVIOUS
<1>1. TypeOK
  BY TypesAssumption DEF Init, TypeOK, Busy
<1>2. \A t \in Threads : pc[t] = "idle"
  BY DEF Init
<1>3. Exclusion
  BY <1>2 DEF Exclusion, Busy
<1>4. Quiet /\ out = {}
  BY DEF Init, Quiet
<1>5. OnThreads
  BY DEF Init, OnThreads
<1> QED BY <1>1, <1>2, <1>3, <1>4, <1>5 DEF WindowInv, Busy, Made, Outstanding

\* The first half: all threads are idle, so that what the caller stores is all
\* there is to remember.
LEMMA OpenStep ==
  ASSUME WindowInv, NEW t \in Threads, NEW r \in Requests, Open(t, r)
  PROVE  WindowInv'
<1>1. \A u \in Threads : pc[u] = "idle"
  BY AllIdle DEF Open
<1>2. Quiet /\ TypeOK
  BY <1>1 DEF WindowInv
<1>3. \A u \in Threads : pc'[u] = IF u = t THEN "open" ELSE "idle"
  BY <1>1, <1>2 DEF Open, TypeOK
<1>4. OnThreads'
  BY DEF WindowInv, OnThreads, Open
<1>5. req'[t] = r
  BY DEF WindowInv, OnThreads, Open
<1>6. /\ r.target \in Targets /\ r.box \in Boxes /\ r.op \in Ops \cup {None}
      /\ (r.op = None) <=> (r.kind \in {"put", "get", "cas"})
  BY DEF Requests
<1>7. TypeOK'
  <2>1. holder' \in Threads \cup {None}
    BY <1>2 DEF Open, Lock, TypeOK
  <2>2. target' \in Targets \cup {None} /\ disp' \in {b.at : b \in Boxes} \cup {None}
        /\ box' \in Boxes \cup {None}
    BY <1>2, <1>6 DEF Open, Place, TypeOK
  <2>3. winop' \in Ops \cup {None} /\ isFop' \in BOOLEAN /\ isCas' \in BOOLEAN
    BY <1>2, <1>6 DEF Open, TypeOK
  <2>4. pc' \in [Threads -> {"idle", "open", "issued", "flushed", "failed"}]
    BY <1>2 DEF Open, TypeOK
  <2>5. \A u \in Threads : Busy(u)' => req'[u] \in Requests
    BY <1>3, <1>5 DEF Busy
  <2> QED BY <1>2, <2>1, <2>2, <2>3, <2>4, <2>5 DEF TypeOK, Open, mode
<1>8. Exclusion'
  BY <1>3 DEF Exclusion, Busy, Open, Lock
<1>9. ASSUME NEW u \in Threads, Busy(u)' PROVE Stored(u)'
  <2>1. u = t
    BY <1>3, <1>9 DEF Busy
  <2>2. target' = r.target /\ (r.form = "elem" => disp' = r.box.at)
        /\ (r.form # "elem" => box' = r.box)
    BY DEF Open, Place
  <2>3. (isFop' <=> r.kind \in {"fop", "gacc"}) /\ (isCas' <=> r.kind = "cas")
    BY <1>2 DEF Open, Quiet
  <2>4. (r.op # None => winop' = r.op) /\ (r.op = None => winop' = None \/ fopped')
    BY <1>2 DEF Open, Quiet
  <2> QED BY <2>1, <2>2, <2>3, <2>4, <1>5 DEF Stored
<1>10. \A u \in Threads : ~Made(u)'
  BY <1>3 DEF Made
<1>11. Outstanding'
  BY <1>1, <1>2 DEF WindowInv, Outstanding, Settled, Open, mode, TypeOK, Outs
<1> QED BY <1>3, <1>4, <1>7, <1>8, <1>9, <1>10, <1>11 DEF WindowInv

\* << or >>: the members still describe the caller's access.
LEMMA IssueStep ==
  ASSUME WindowInv, NEW t \in Threads, Issue(t)
  PROVE  WindowInv'
<1> DEFINE r == req[t]
<1>1. TypeOK /\ Busy(t) /\ Stored(t) /\ r \in Requests
  BY DEF WindowInv, TypeOK, Issue, Busy
<1>2. \A u \in Threads : pc'[u] = IF u = t THEN "issued" ELSE pc[u]
  BY <1>1 DEF Issue, TypeOK
<1>3. \A u \in Threads : Busy(u)' <=> Busy(u)
  BY <1>2, <1>1 DEF Busy
<1>4. target \in Targets
  BY <1>1 DEF Stored, Requests
<1>5. r.form = "nc" => box \in Boxes /\ DtypeOf(t) \in Shapes
  <2>1. r.form = "nc" => box \in Boxes
    BY <1>1 DEF Stored, Requests
  <2> QED BY <2>1, <1>1 DEF DtypeOf, TypeOK, Shapes
<1>6. TypeOK'
  <2>1. dtype' \in [Threads -> Shapes \cup {None}]
    BY <1>1, <1>5 DEF Issue, TypeOK
  <2>2. out' \subseteq Outs
    <3>1. [thread |-> t, target |-> target, local |-> FALSE] \in Outs
      BY <1>4 DEF Outs
    <3> QED BY <1>1, <3>1 DEF Issue, TypeOK
  <2>3. pc' \in [Threads -> {"idle", "open", "issued", "flushed", "failed"}]
    BY <1>1 DEF Issue, TypeOK
  <2>4. \A u \in Threads : Busy(u)' => req'[u] \in Requests
    BY <1>1, <1>3 DEF Issue, TypeOK
  <2> QED BY <1>1, <2>1, <2>2, <2>3, <2>4 DEF TypeOK, Issue, mode, cursor, flags
<1>7. Exclusion'
  BY <1>1, <1>2, <1>3 DEF WindowInv, Exclusion, Issue, Busy
<1>8. \A u \in Threads : Busy(u)' => Stored(u)'
  BY <1>3 DEF WindowInv, Stored, Issue, cursor, flags
<1>9. Call(t)'
  <2>1. /\ req' = req
        /\ Chosen(r)' = Chosen(r) /\ BoxAt(r)' = BoxAt(r) /\ Moved(r)' = Moved(r)
    BY DEF Issue, Chosen, BoxAt, Moved, cursor, flags
  <2>2. Origin(t, r)' = Origin(t, r)
    <3>1. CASE r.form = "nc" /\ ndims > 1
      <4>1. dtype'[t] = DtypeOf(t) /\ box' = box
        BY <1>1, <3>1 DEF Issue, TypeOK, cursor
      <4>2. DtypeOf(t)' = DtypeOf(t)
        BY <4>1, <1>5, <3>1 DEF DtypeOf
      <4> QED BY <4>1, <4>2, <2>1 DEF Origin
    <3>2. CASE ~(r.form = "nc" /\ ndims > 1)
      <4>1. dtype' = dtype /\ box' = box
        BY <3>2 DEF Issue, cursor
      <4> QED BY <4>1, <2>1 DEF Origin, DtypeOf
    <3> QED BY <3>1, <3>2
  <2>3. PICK x \in Operands(r) :
          made' = [made EXCEPT ![t] =
                     [kind |-> Chosen(r), target |-> target, box |-> BoxAt(r),
                      op |-> IF Chosen(r) \in {"acc", "gacc", "fop"} THEN winop ELSE None,
                      operand |-> x, origin |-> Origin(t, r), moved |-> Moved(r)]]
    BY DEF Issue
  <2>4. made'[t] = [kind |-> Chosen(r), target |-> target, box |-> BoxAt(r),
                     op |-> IF Chosen(r) \in {"acc", "gacc", "fop"} THEN winop ELSE None,
                     operand |-> x, origin |-> Origin(t, r), moved |-> Moved(r)]
    BY <2>3 DEF WindowInv, OnThreads
  <2>5. target' = target /\ winop' = winop
    BY DEF Issue, cursor, flags
  <2> QED BY <2>1, <2>2, <2>4, <2>5 DEF Call
<1>10. \A u \in Threads : Made(u)' => u = t
  BY <1>1, <1>2 DEF WindowInv, Exclusion, Made, Busy
<1>11. Outstanding'
  BY <1>2, <1>1 DEF WindowInv, TypeOK, Outs, Outstanding, Settled, Issue, mode, cursor
<1>12. OnThreads'
  BY DEF WindowInv, OnThreads, Issue
<1>13. ~\A u \in Threads : pc'[u] = "idle"
  BY <1>2
<1> QED BY <1>6, <1>7, <1>8, <1>9, <1>10, <1>11, <1>12, <1>13 DEF WindowInv

\* An operation of T is one of S, or one of S made locally complete.
Later(T, S) == \A o \in T : o \in S \/ \E q \in S : o = [q EXCEPT !.local = TRUE]

LEMMA LaterFlushed ==
  ASSUME NEW S, NEW T
  PROVE  Later(Flushed(S, T), S) /\ Later(FlushedLocal(S, T), S)
BY DEF Later, Flushed, FlushedLocal

LEMMA LaterOuts ==
  ASSUME NEW S, S \subseteq Outs, NEW T, Later(T, S)
  PROVE  /\ T \subseteq Outs
         /\ \A o \in T : \E q \in S : /\ o.thread = q.thread /\ o.target = q.target
                                      /\ q.local => o.local
<1> SUFFICES ASSUME NEW o \in T
             PROVE  /\ o \in Outs
                    /\ \E q \in S : /\ o.thread = q.thread /\ o.target = q.target
                                    /\ q.local => o.local
  OBVIOUS
<1>1. CASE o \in S
  BY <1>1
<1>2. ASSUME NEW q \in S, o = [q EXCEPT !.local = TRUE]
      PROVE  o \in Outs /\ o.thread = q.thread /\ o.target = q.target /\ o.local
  BY <1>2 DEF Outs
<1> QED BY <1>1, <1>2 DEF Later

\* Flushes of idle threads and MPI's own progress only settle operations.
LEMMA SettleStep ==
  ASSUME WindowInv, Later(out', out),
         UNCHANGED <<mode, holder, cursor, flags, dtype, pc, req, made, fopped>>
  PROVE  WindowInv'
<1>1. /\ out' \subseteq Outs
      /\ \A o \in out' : \E q \in out : /\ o.thread = q.thread /\ o.target = q.target
                                        /\ q.local => o.local
  BY LaterOuts DEF WindowInv, TypeOK
<1>2. TypeOK'
  BY <1>1 DEF WindowInv, TypeOK, Busy, mode, cursor, flags
<1>3. OnThreads' /\ Exclusion'
  BY DEF WindowInv, OnThreads, Exclusion, Busy
<1>4. \A t \in Threads : (Busy(t)' => Stored(t)') /\ (Made(t)' => Call(t)')
  BY DEF WindowInv, Busy, Made, Stored, Call, Chosen, BoxAt, Origin, Moved, DtypeOf, cursor, flags
<1>5. (\A t \in Threads : pc'[t] = "idle") => Quiet'
  BY DEF WindowInv, Quiet, flags
<1>6. Outstanding'
  <2> SUFFICES ASSUME NEW o \in out'
               PROVE  \/ Settled(o)'
                      \/ pc'[o.thread] = "issued" /\ o.target = target'
                      \/ pc'[o.thread] = "failed"
    BY DEF Outstanding
  <2>1. PICK q \in out : o.thread = q.thread /\ o.target = q.target /\ (q.local => o.local)
    BY <1>1
  <2> QED BY <2>1 DEF WindowInv, Outstanding, Settled, mode, cursor
<1> QED BY <1>2, <1>3, <1>4, <1>5, <1>6 DEF WindowInv

LEMMA AbortStep ==
  ASSUME WindowInv, NEW t \in Threads, Abort(t)
  PROVE  WindowInv'
<1>1. \A u \in Threads : pc'[u] = "failed"
  BY DEF Abort
<1>2. TypeOK'
  BY <1>1 DEF WindowInv, TypeOK, Abort, Busy, mode, cursor, flags
<1>3. OnThreads' /\ Exclusion'
  BY <1>1 DEF WindowInv, OnThreads, Exclusion, Busy, Abort
<1>4. \A o \in out' : pc'[o.thread] = "failed"
  BY <1>1 DEF WindowInv, TypeOK, Outs, Abort
<1> QED BY <1>1, <1>2, <1>3, <1>4 DEF WindowInv, Busy, Made, Outstanding

\* The macro's flush settles what its call left outstanding at its target.
LEMMA CompleteStep ==
  ASSUME WindowInv, NEW t \in Threads, Complete(t)
  PROVE  WindowInv'
<1>1. TypeOK /\ Busy(t) /\ Made(t)
  BY DEF WindowInv, Complete, Busy, Made
<1>2. \A u \in Threads : pc'[u] = IF u = t THEN "flushed" ELSE pc[u]
  BY <1>1 DEF Complete, TypeOK
<1>3. \A u \in Threads : (Busy(u)' <=> Busy(u)) /\ (Made(u)' <=> Made(u))
  BY <1>1, <1>2 DEF Busy, Made
<1>4. Later(out', out)
  BY <1>1, ModeAssumption, LaterFlushed DEF Complete, TypeOK, Later
<1>5. /\ out' \subseteq Outs
      /\ \A o \in out' : \E q \in out : /\ o.thread = q.thread /\ o.target = q.target
                                        /\ q.local => o.local
  BY <1>1, <1>4, LaterOuts DEF TypeOK
<1>6. TypeOK'
  <2>1. pc' \in [Threads -> {"idle", "open", "issued", "flushed", "failed"}]
    BY <1>1 DEF Complete, TypeOK
  <2> QED BY <1>1, <1>3, <1>5, <2>1 DEF TypeOK, Complete, mode, cursor, flags
<1>7. OnThreads' /\ Exclusion'
  BY <1>1, <1>2, <1>3 DEF WindowInv, OnThreads, Exclusion, Complete, Busy
<1>8. \A u \in Threads : (Busy(u)' => Stored(u)') /\ (Made(u)' => Call(u)')
  BY <1>3 DEF WindowInv, Stored, Call, Chosen, BoxAt, Origin, Moved, DtypeOf,
              Complete, cursor, flags
<1>9. Outstanding'
  <2> SUFFICES ASSUME NEW o \in out'
               PROVE  Settled(o)' \/ pc'[o.thread] = "failed"
    BY DEF Outstanding
  <2>1. PICK q \in out : o.thread = q.thread /\ o.target = q.target /\ (q.local => o.local)
    BY <1>5
  <2>2. q.thread \in Threads /\ wcmpl' = wcmpl
    BY <1>1 DEF TypeOK, Outs, Complete, mode
  <2>3. CASE Settled(q)
    BY <2>1, <2>2, <2>3 DEF Settled
  <2>4. CASE pc[q.thread] = "failed"
    BY <1>1, <1>2, <2>1, <2>2, <2>4 DEF Complete
  <2>5. CASE o.target = target
    <3>1. CASE wcmpl = "NO_FLUSH"
      BY <2>2, <3>1 DEF Settled
    <3>2. CASE wcmpl = "LOCAL_FLUSH"
      <4>1. out' = FlushedLocal(out, {target})
        BY <3>2 DEF Complete
      <4>2. PICK x \in out : o = [x EXCEPT !.local = TRUE]
        BY <4>1, <2>5 DEF FlushedLocal, Flushed
      <4>3. o.local
        BY <4>2, <1>1 DEF TypeOK, Outs
      <4> QED BY <2>2, <3>2, <4>3 DEF Settled
    <3>3. CASE wcmpl = "REMOTE_FLUSH"
      BY <2>5, <3>3 DEF Complete, Flushed
    <3> QED BY <1>1, ModeAssumption, <3>1, <3>2, <3>3 DEF TypeOK
  <2> QED BY <2>1, <2>3, <2>4, <2>5 DEF WindowInv, Outstanding
<1>10. ~\A u \in Threads : pc'[u] = "idle"
  BY <1>2
<1> QED BY <1>6, <1>7, <1>8, <1>9, <1>10 DEF WindowInv

\* The macro's end leaves no flag behind, but for winop after a fetch-and-op.
LEMMA ReturnStep ==
  ASSUME WindowInv, NEW t \in Threads, Return(t)
  PROVE  WindowInv'
<1> DEFINE r == req[t]
<1> DEFINE k == made[t].kind
<1>1. TypeOK /\ Busy(t) /\ Made(t) /\ Stored(t) /\ Call(t) /\ r \in Requests
  BY DEF WindowInv, TypeOK, Return, Busy, Made
<1>2. \A u \in Threads : pc'[u] = "idle"
  <2>1. ASSUME NEW u \in Threads, u # t PROVE pc[u] = "idle"
    BY <1>1, <2>1 DEF WindowInv, TypeOK, Exclusion, Busy, Return
  <2> QED BY <1>1, <2>1 DEF Return, TypeOK
<1>3. TypeOK'
  <2>1. pc' \in [Threads -> {"idle", "open", "issued", "flushed", "failed"}]
    BY <1>1 DEF Return, TypeOK
  <2> QED BY <1>1, <1>2, <2>1 DEF TypeOK, Return, Unlock, Busy, mode, cursor
<1>4. OnThreads' /\ Exclusion'
  BY <1>2 DEF WindowInv, OnThreads, Exclusion, Busy, Return
<1>5. Quiet'
  <2>1. /\ r.kind \in {"put", "acc", "get", "gacc", "fop", "cas"}
        /\ (r.op = None) <=> (r.kind \in {"put", "get", "cas"})
    BY <1>1 DEF Requests
  <2>2. /\ r.kind # "put" => k = r.kind
        /\ r.kind = "put" => k = IF winop = None THEN "put" ELSE "acc"
    BY <1>1, ChosenAsAsked DEF Call
  <2>3. (isFop <=> r.kind \in {"fop", "gacc"}) /\ (isCas <=> r.kind = "cas")
        /\ (r.op = None => winop = None \/ fopped)
    BY <1>1 DEF Stored
  <2>4. /\ winop' = IF ResetsOp(k) THEN None ELSE winop
        /\ isFop' = (isFop /\ k \notin {"fop", "gacc"})
        /\ isCas' = (isCas /\ k # "cas")
        /\ fopped' = (k = "fop" \/ (fopped /\ ~ResetsOp(k)))
    BY DEF Return
  <2> QED BY <2>1, <2>2, <2>3, <2>4 DEF Quiet, ResetsOp
<1>6. Outstanding'
  <2>1. \A u \in Threads : pc[u] \notin {"issued", "failed"}
    BY <1>1 DEF WindowInv, Exclusion, Busy, Return
  <2>2. \A o \in out : Settled(o)
    BY <1>1, <2>1 DEF WindowInv, Outstanding, TypeOK, Outs
  <2> QED BY <2>2 DEF Outstanding, Settled, Return, mode
<1> QED BY <1>2, <1>3, <1>4, <1>5, <1>6 DEF WindowInv, Busy, Made
-----------------------------------------------------------------------------
LEMMA NextWindow == WindowInv /\ [Next]_vars => WindowInv'
<1> SUFFICES ASSUME WindowInv, [Next]_vars PROVE WindowInv'
  OBVIOUS
<1>1. ASSUME NEW t \in Threads, Access(t) PROVE WindowInv'
  BY <1>1, OpenStep DEF Access
<1>2. ASSUME NEW t \in Threads, Step(t) PROVE WindowInv'
  BY <1>2, IssueStep, AbortStep, CompleteStep, ReturnStep DEF Step
<1>3. ASSUME NEW t \in Threads, UserFlush(t) PROVE WindowInv'
  <2>1. Later(out', out)
    BY <1>3, LaterFlushed DEF UserFlush
  <2> QED BY <1>3, <2>1, SettleStep DEF UserFlush
<1>4. CASE Progress
  <2>1. Later(out', out)
    BY <1>4 DEF Progress, Later
  <2> QED BY <1>4, <2>1, SettleStep DEF Progress
<1>5. CASE UNCHANGED vars
  <2>1. Later(out', out)
    BY <1>5 DEF vars, Later
  <2> QED BY <1>5, <2>1, SettleStep DEF vars
<1> QED BY <1>1, <1>2, <1>3, <1>4, <1>5 DEF Next

LEMMA WindowCorrect == Spec => []WindowInv
BY InitWindow, NextWindow, PTL DEF Spec

\* Every variable keeps its type: in particular target_, disp_, winop_ and the
\* cached datatype only ever hold what some access stored (LocalWindow, TypeOK).
THEOREM TypeCorrect == Spec => []TypeOK
<1>1. WindowInv => TypeOK
  BY DEF WindowInv
<1> QED BY <1>1, WindowCorrect, PTL

\* Whatever the threads do, the macro << or >> runs makes the MPI call its own
\* operator() was called for, but for puts after an element-wise fetch-and-op.
THEOREM CallCorrect == Spec => []AsAsked
<1>1. WindowInv => AsAsked
  <2> SUFFICES ASSUME WindowInv, NEW t \in Threads, Made(t), ~(fopped /\ req[t].kind = "put")
               PROVE  /\ made[t].kind = req[t].kind /\ made[t].target = req[t].target
                      /\ made[t].box = req[t].box /\ made[t].op = req[t].op
    BY DEF AsAsked
  <2>1. req[t] \in Requests /\ Stored(t) /\ Call(t)
    BY DEF WindowInv, TypeOK, Busy, Made
  <2>2. /\ req[t].kind \in {"put", "acc", "get", "gacc", "fop", "cas"}
        /\ (req[t].op = None) <=> (req[t].kind \in {"put", "get", "cas"})
    BY <2>1 DEF Requests
  <2>3. Chosen(req[t]) = req[t].kind
    BY <2>1, <2>2, ChosenAsAsked DEF Stored
  <2>4. made[t].op = req[t].op
    BY <2>1, <2>2, <2>3 DEF Call, Stored
  <2> QED BY <2>1, <2>3, <2>4, BoxAsAsked DEF Call, Stored
<1> QED BY <1>1, WindowCorrect, PTL

\* The type of an RMACXX_Subarray_t is made once, for the box its own thread named.
THEOREM TypeKept == Spec => KeepsFirstType
<1> DEFINE Given(t) == dtype'[t] # dtype[t] =>
              /\ dtype[t] = None
              /\ req[t].form = "nc" /\ dtype'[t] = req[t].box.shape
<1>1. WindowInv /\ [Next]_vars => [\A t \in Threads : Given(t)]_vars
  <2> SUFFICES ASSUME WindowInv, Next, NEW t \in Threads PROVE Given(t)
    BY DEF vars
  <2>1. ASSUME NEW u \in Threads, Issue(u) PROVE Given(t)
    <3>1. Stored(u) /\ dtype \in [Threads -> Shapes \cup {None}]
      BY <2>1 DEF WindowInv, TypeOK, Busy, Issue
    <3>2. CASE u = t /\ req[t].form = "nc" /\ ndims > 1
      <4>1. dtype'[t] = DtypeOf(t)
        BY <2>1, <3>1, <3>2 DEF Issue
      <4>2. box = req[t].box
        BY <3>1, <3>2 DEF Stored
      <4> QED BY <3>2, <4>1, <4>2 DEF DtypeOf
    <3>3. CASE ~(u = t /\ req[t].form = "nc" /\ ndims > 1)
      BY <2>1, <3>1, <3>3 DEF Issue
    <3> QED BY <3>2, <3>3
  <2>2. ASSUME NEW u \in Threads, Access(u) \/ UserFlush(u) \/ Abort(u) \/ Complete(u) \/ Return(u)
        PROVE  Given(t)
    BY <2>2 DEF Access, Open, UserFlush, Abort, Complete, Return
  <2>3. CASE Progress
    BY <2>3 DEF Progress
  <2> QED BY <2>1, <2>2, <2>3 DEF Next, Step
<1> QED BY <1>1, WindowCorrect, PTL DEF Spec, KeepsFirstType

\* A blocking access has nothing outstanding when it returns.
THEOREM CompletionCorrect == Spec => []CompletesAtReturn
<1>1. WindowInv => CompletesAtReturn
  BY DEF WindowInv, Outstanding, Settled, CompletesAtReturn
<1> QED BY <1>1, WindowCorrect, PTL
=============================================================================
