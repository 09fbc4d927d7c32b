------------------------------ MODULE Deferred ------------------------------
(***************************************************************************)
(* What is promised of the statements that windows leave to their flushes: *)
(* one waits for the windows it reads, runs once, in the flush that is the *)
(* last of theirs to reach it, and is forgotten when one of the windows it *)
(* still waits for is given up.                                            *)
(***************************************************************************)
EXTENDS Naturals

CONSTANTS
  Windows,   \* the windows
  Exprs      \* the statements left to flushes

VARIABLES
  status,    \* of every statement
  waits      \* the windows it waits for

vars == <<status, waits>>

Init ==
  /\ status = [e \in Exprs |-> "none"]
  /\ waits = [e \in Exprs |-> {}]

Leave(e) ==
  /\ status[e] = "none"
  /\ \E ws \in (SUBSET Windows) \ {{}} :
       /\ waits' = [waits EXCEPT ![e] = ws]
       /\ status' = [status EXCEPT ![e] = "waiting"]

\* The flush of w reaches e.
Reach(e, w) ==
  /\ status[e] = "waiting" /\ w \in waits[e]
  /\ waits' = [waits EXCEPT ![e] = @ \ {w}]
  /\ status' = [status EXCEPT ![e] = IF waits[e] = {w} THEN "done" ELSE @]

\* w is freed or destroyed.
GiveUp(w) ==
  LET lost == {e \in Exprs : status[e] = "waiting" /\ w \in waits[e]} IN
  /\ status' = [e \in Exprs |-> IF e \in lost THEN "forgotten" ELSE status[e]]
  /\ waits' = [e \in Exprs |-> IF e \in lost THEN {} ELSE waits[e]]

Next ==
  \/ \E e \in Exprs : Leave(e) \/ \E w \in Windows : Reach(e, w)
  \/ \E w \in Windows : GiveUp(w)

Spec == Init /\ [][Next]_vars
=============================================================================
