----------------------------- MODULE GlobalArray -----------------------------
(***************************************************************************)
(* What a global-view window promises its caller, with no processes in     *)
(* sight: an access to the patch lo..hi of a one-dimensional array pairs   *)
(* every element k of the local buffer with the array element lo + k, once *)
(* and for all, moves nothing else, and then returns.  The elements move   *)
(* in any order and in groups of any size.  A request outside the contract *)
(* (st = "chaos") is promised nothing until the next request.              *)
(***************************************************************************)
EXTENDS Integers

CONSTANT Coord        \* the coordinates a request may name

VARIABLES
  st,                 \* "idle", "busy" or "chaos"
  patch,              \* the requested patch, [lo |-> .., hi |-> ..]
  done                \* the pairs <<k, c>> moved for this request so far

vars == <<st, patch, done>>

Patches == [lo : Coord, hi : Coord]

\* Every element of the local buffer with the array element it belongs to.
Pairs(p) == {<<c - p.lo, c>> : c \in p.lo .. p.hi}

Init == /\ st = "idle"
        /\ patch \in Patches
        /\ done = {}

Request == /\ st \in {"idle", "chaos"}
           /\ st' \in {"busy", "chaos"}
           /\ patch' \in Patches
           /\ done' = {}

Move == /\ st = "busy"
        /\ done # done' /\ done \subseteq done' /\ done' \subseteq Pairs(patch)
        /\ UNCHANGED <<st, patch>>

Return == /\ st = "busy"
          /\ done = Pairs(patch)
          /\ st' = "idle"
          /\ UNCHANGED <<patch, done>>

\* Outside the contract nothing is promised, not even that the call returns.
Chaos == st = "chaos" /\ st' \in {"chaos", "idle"}

Next == Request \/ Move \/ Return \/ Chaos

Spec == Init /\ [][Next]_vars
=============================================================================
