----------------------------- MODULE LocalWindow -----------------------------
(***************************************************************************)
(* The standard interface of a local-view window, as the threads of one    *)
(* process use it: win(target, lo, hi) or one of its variants stores the   *)
(* access in the window object, << or >> then reads it back and makes the  *)
(* MPI call.  The object's members are shared by all accesses, so that the *)
(* second half of one must find there what its first half stored.          *)
(***************************************************************************)
EXTENDS Integers, Functions

CONSTANTS
  Threads,      \* the threads that use the window
  Targets,      \* the ranks they access
  Boxes,        \* the boxes of elements they access, [at |-> .., shape |-> ..]
  Ops,          \* the reduction operations they name
  Types,        \* the shapes of the types RMACXX_Subarray_t's are constructed with
  None,         \* nothing; as an operation, MPI_OP_NULL; as a type, MPI_DATATYPE_NULL
  ndims,        \* ndims_
  Concurrent,   \* wtsft_ = CONCURRENT
  Completions,  \* the values of wcmpl_ considered
  Atomicities   \* the values of watmc_ considered

Times(x, y) == x * y
Size(s) == FoldFunction(Times, 1, s)
Cell    == [i \in 1 .. ndims |-> 1]      \* the shape of one element
Shapes  == {b.shape : b \in Boxes}

ASSUME NoneAssumption ==
  None \notin Threads /\ None \notin Ops /\ None \notin Boxes /\ None \notin Shapes
\* A window that is not CONCURRENT is one thread's.
ASSUME ThreadAssumption ==
  Concurrent \in BOOLEAN /\ (~Concurrent => \A t, u \in Threads : t = u)
ASSUME ModeAssumption ==
  /\ Completions \subseteq {"NO_FLUSH", "LOCAL_FLUSH", "REMOTE_FLUSH"}
  /\ Atomicities \subseteq {"ATOMIC_NONE", "ATOMIC_PUT_GET"}
\* The ctor that takes subsizes makes a type if there are several dimensions, the
\* other one leaves MPI_DATATYPE_NULL.
ASSUME TypesAssumption ==
  Types \subseteq Shapes \cup {None} /\ (ndims = 1 => Types = {None})
ASSUME BoxAssumption ==
  ndims \in Nat \ {0} /\ \A b \in Boxes : b = [at |-> b.at, shape |-> b.shape]

\* The accesses of the interface.  form is the right operand of << and >>: an
\* element, a contiguous buffer, or an RMACXX_Subarray_t ("nc").
Requests ==
  {r \in [kind : {"put", "acc", "get", "gacc", "fop", "cas"}, form : {"elem", "bulk", "nc"},
          target : Targets, box : Boxes, op : Ops \cup {None}] :
     /\ r.kind \in {"fop", "cas"} => r.form = "elem"
     /\ r.kind = "gacc" => r.form # "elem"
     /\ r.form = "elem" => r.box.shape = Cell
     /\ (r.op = None) <=> (r.kind \in {"put", "get", "cas"})}

VARIABLES
  wcmpl, watmc,   \* wcmpl_ and watmc_, template parameters, for ever
  holder,         \* the thread that holds the window's mutex
  target,         \* target_
  disp, box,      \* disp_ of an element; count_dimn_, starts_, subsizes_ of a box
  winop,          \* winop_.op
  isFop, isCas,   \* is_fop_, is_cas_
  dtype,          \* dtype_ of every thread's RMACXX_Subarray_t
  pc,             \* every thread: "idle", "open", "issued", "flushed" or "failed"
  req,            \* the access it is making
  made,           \* the MPI call it made for it
  out,            \* MPI: the operations not complete at their target
  fopped          \* history: winop is what an element-wise fetch-and-op left

mode   == <<wcmpl, watmc>>
cursor == <<target, disp, box>>
flags  == <<winop, isFop, isCas>>
vars   == <<mode, holder, cursor, flags, dtype, pc, req, made, out, fopped>>

Init ==
  /\ wcmpl \in Completions /\ watmc \in Atomicities
  /\ holder = None
  /\ target = None /\ disp = None /\ box = None
  /\ winop = None /\ isFop = FALSE /\ isCas = FALSE
  /\ dtype \in [Threads -> Types]
  /\ pc = [t \in Threads |-> "idle"]
  /\ req = [t \in Threads |-> None] /\ made = [t \in Threads |-> None]
  /\ out = {} /\ fopped = FALSE

-----------------------------------------------------------------------------
\* The definitions named "..._slip" are never used by Spec: each is the
\* definition below it with one slip a programmer could make.

Lock_slip(t) == UNCHANGED holder
\* lock()
Lock(t) == IF Concurrent THEN holder = None /\ holder' = t ELSE UNCHANGED holder

Place_slip(r) ==
  /\ target' = r.target
  /\ IF r.form = "elem" THEN disp' = r.box.at - 1 /\ UNCHANGED box
                        ELSE box' = r.box /\ UNCHANGED disp
\* A box's position stands for its row-major displacement, and so does disp for
\* that of an element; disp_ is 0 for a box of several dimensions and not used.
Place(r) ==
  /\ target' = r.target
  /\ IF r.form = "elem" THEN disp' = r.box.at /\ UNCHANGED box
                        ELSE box' = r.box /\ UNCHANGED disp

\* win(...): operator() takes the mutex and stores the access.
Open(t, r) ==
  /\ pc[t] = "idle"
  /\ Lock(t)
  /\ Place(r)
  /\ winop' = IF r.op = None THEN winop ELSE r.op
  /\ isFop' = (isFop \/ r.kind \in {"fop", "gacc"})
  /\ isCas' = (isCas \/ r.kind = "cas")
  /\ req' = [req EXCEPT ![t] = r]
  /\ pc' = [pc EXCEPT ![t] = "open"]
  /\ UNCHANGED <<mode, dtype, made, out, fopped>>

\* The macro << or >> runs, by its operand's type and the window's members.
Chosen(r) ==
  IF r.kind \in {"put", "acc"} THEN IF winop = None THEN "put" ELSE "acc"
  ELSE IF isFop THEN IF r.form = "elem" THEN "fop" ELSE "gacc"
  ELSE IF isCas /\ r.form = "elem" THEN "cas" ELSE "get"

\* The box the MPI call names at the target.
BoxAt(r) == IF r.form = "elem" THEN [at |-> disp, shape |-> Cell] ELSE box

\* The type of t's RMACXX_Subarray_t: made for its first box, then kept.
DtypeOf(t) == IF dtype[t] = None THEN box.shape ELSE dtype[t]

\* What is moved, as <<number, shape>>, at the origin and at the target.
Origin(t, r) ==
  IF r.form # "nc" THEN <<1, BoxAt(r).shape>>
  ELSE IF ndims = 1 THEN <<1, IF Chosen(r) = "put" THEN box.shape ELSE Cell>>
  ELSE <<IF Chosen(r) = "put" THEN Size(box.shape) ELSE 1, DtypeOf(t)>>
Moved(r) ==
  <<IF r.form = "nc" /\ ndims > 1 /\ Chosen(r) = "put" THEN Size(box.shape) ELSE 1,
    BoxAt(r).shape>>

\* The operand of a fetch-and-op or compare-and-swap is read through the address
\* of operator()'s parameter, after operator() has returned.
Operands(r) == IF Chosen(r) \in {"fop", "cas"} THEN {"asked", "other"} ELSE {"asked"}

\* A get of an ATOMIC_PUT_GET window is an MPI_Get_accumulate that replaces, with
\* MPI_DATATYPE_NULL for the origin's type: MPI aborts the job.
Rejected(r) == watmc = "ATOMIC_PUT_GET" /\ Chosen(r) = "get"

\* << or >>, up to the MPI call.
Issue(t) ==
  LET r == req[t] IN
  /\ pc[t] = "open" /\ ~Rejected(r)
  /\ \E x \in Operands(r) :
       made' = [made EXCEPT ![t] =
                  [kind |-> Chosen(r), target |-> target, box |-> BoxAt(r),
                   op |-> IF Chosen(r) \in {"acc", "gacc", "fop"} THEN winop ELSE None,
                   operand |-> x, origin |-> Origin(t, r), moved |-> Moved(r)]]
  /\ dtype' = IF r.form = "nc" /\ ndims > 1 THEN [dtype EXCEPT ![t] = DtypeOf(t)] ELSE dtype
  /\ out' = out \cup {[thread |-> t, target |-> target, local |-> FALSE]}
  /\ pc' = [pc EXCEPT ![t] = "issued"]
  /\ UNCHANGED <<mode, holder, cursor, flags, req, fopped>>

Abort(t) ==
  /\ pc[t] = "open" /\ Rejected(req[t])
  /\ pc' = [u \in Threads |-> "failed"]
  /\ UNCHANGED <<mode, holder, cursor, flags, dtype, req, made, out, fopped>>

\* What is left of S after a flush, or a local flush, of the ranks in T.
Flushed(S, T)      == {o \in S : o.target \notin T}
FlushedLocal(S, T) ==
  Flushed(S, T) \cup {[o EXCEPT !.local = TRUE] : o \in {o \in S : o.target \in T}}

\* The macro's flush of target_.
Complete(t) ==
  /\ pc[t] = "issued"
  /\ out' = CASE wcmpl = "NO_FLUSH"     -> out
              [] wcmpl = "LOCAL_FLUSH"  -> FlushedLocal(out, {target})
              [] wcmpl = "REMOTE_FLUSH" -> Flushed(out, {target})
  /\ pc' = [pc EXCEPT ![t] = "flushed"]
  /\ UNCHANGED <<mode, holder, cursor, flags, dtype, req, made, fopped>>

ResetsOp_gacc_slip(k) == k = "acc"
ResetsOp(k) == k \in {"acc", "gacc"}

Unlock_cas_slip(k) == IF k = "cas" THEN UNCHANGED holder ELSE holder' = None
\* unlock()
Unlock(k) == holder' = None

\* The macro's end: it resets the flags it used, and releases the mutex.
Return(t) ==
  LET k == made[t].kind IN
  /\ pc[t] = "flushed"
  /\ winop' = IF ResetsOp(k) THEN None ELSE winop
  /\ isFop' = (isFop /\ k \notin {"fop", "gacc"})
  /\ isCas' = (isCas /\ k # "cas")
  /\ fopped' = (k = "fop" \/ (fopped /\ ~ResetsOp(k)))
  /\ Unlock(k)
  /\ pc' = [pc EXCEPT ![t] = "idle"]
  /\ req' = [req EXCEPT ![t] = None] /\ made' = [made EXCEPT ![t] = None]
  /\ UNCHANGED <<mode, cursor, dtype, out>>

\* win.flush(), win.flush(target) and their local kin, which take no mutex.
UserFlush(t) ==
  /\ pc[t] = "idle"
  /\ \E T \in {Targets} \cup {{p} : p \in Targets} :
       out' = Flushed(out, T) \/ out' = FlushedLocal(out, T)
  /\ UNCHANGED <<mode, holder, cursor, flags, dtype, pc, req, made, fopped>>

\* MPI completes operations of its own accord too.
Progress ==
  /\ \E o \in out : out' = out \ {o} \/ out' = (out \ {o}) \cup {[o EXCEPT !.local = TRUE]}
  /\ UNCHANGED <<mode, holder, cursor, flags, dtype, pc, req, made, fopped>>

-----------------------------------------------------------------------------
Step(t) == Issue(t) \/ Abort(t) \/ Complete(t) \/ Return(t)

Access(t) == \E r \in Requests : Open(t, r)

Next == Progress \/ \E t \in Threads : Access(t) \/ Step(t) \/ UserFlush(t)

\* The access is one statement: the thread that made its first half runs on, and
\* nothing in the second half waits for another thread.
Spec == Init /\ [][Next]_vars /\ \A t \in Threads : WF_vars(Step(t))
-----------------------------------------------------------------------------
Busy(t) == pc[t] \in {"open", "issued", "flushed"}
Made(t) == pc[t] \in {"issued", "flushed"}

Outs == [thread : Threads, target : Targets, local : BOOLEAN]

TypeOK ==
  /\ wcmpl \in Completions /\ watmc \in Atomicities
  /\ holder \in Threads \cup {None}
  /\ target \in Targets \cup {None}
  /\ disp \in {b.at : b \in Boxes} \cup {None} /\ box \in Boxes \cup {None}
  /\ winop \in Ops \cup {None} /\ isFop \in BOOLEAN /\ isCas \in BOOLEAN
  /\ dtype \in [Threads -> Shapes \cup {None}]
  /\ pc \in [Threads -> {"idle", "open", "issued", "flushed", "failed"}]
  /\ \A t \in Threads : Busy(t) => req[t] \in Requests
  /\ out \subseteq Outs
  /\ fopped \in BOOLEAN

\* The MPI call a thread makes is the one its operator() was called for: kind,
\* target, box and operation are still what it stored, whatever other threads
\* and earlier accesses did to the window's members.  The exception is a put
\* after an element-wise fetch-and-op, which leaves winop_ set (RMACXX_FOP).
AsAsked ==
  \A t \in Threads :
    Made(t) /\ ~(fopped /\ req[t].kind = "put") =>
      /\ made[t].kind = req[t].kind
      /\ made[t].target = req[t].target
      /\ made[t].box = req[t].box
      /\ made[t].op = req[t].op

\* Once an RMACXX_Subarray_t has a type it keeps it, and the type it is given is
\* that of the box its own thread named in the same access, never one that another
\* thread stored in the window between the two halves.  (The type is read from the
\* window's subsizes_.)  It follows that boxes of another shape that its thread names
\* later are moved as the first one was.
KeepsFirstType ==
  [][\A t \in Threads : dtype'[t] # dtype[t] =>
       /\ dtype[t] = None
       /\ req[t].form = "nc" /\ dtype'[t] = req[t].box.shape]_vars

\* When an access of a blocking window has returned, its operation is complete at
\* the target (REMOTE_FLUSH), or its buffer is free (LOCAL_FLUSH): the macro
\* flushed the target it had called, not another thread's.
CompletesAtReturn ==
  \A o \in out : pc[o.thread] = "idle" =>
    /\ wcmpl # "REMOTE_FLUSH"
    /\ wcmpl = "LOCAL_FLUSH" => o.local

\* The mutex operator() took is released, by the macro << or >> ends in.
LockReleased ==
  \A t \in Threads : holder = t ~> (holder # t \/ pc[t] = "failed")
=============================================================================
