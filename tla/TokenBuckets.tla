----------------------------- MODULE TokenBuckets -----------------------------
(***************************************************************************)
(* What the rate limiter promises: every principal has a bucket of its     *)
(* own, that never held more than Capacity, fills with time and pays Cost  *)
(* for every request it is served.                                         *)
(***************************************************************************)
EXTENDS Naturals, FiniteSetsExt

CONSTANTS Principals, Capacity, Rate, Cost

VARIABLES level,    \* principal -> units in its bucket
          served    \* the principal served last

vars == <<level, served>>

Init == level = [p \in Principals |-> Capacity] /\ served = "nobody"

Serve(p) ==
    /\ level[p] >= Cost
    /\ level' = [level EXCEPT ![p] = @ - Cost]
    /\ served' = p

Refill ==
    /\ level' = [p \in Principals |-> Min({Capacity, level[p] + Rate})]
    /\ UNCHANGED served

Next == Refill \/ \E p \in Principals : Serve(p)

Spec == Init /\ [][Next]_vars
=============================================================================
