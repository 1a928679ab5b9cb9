------------------------------ MODULE Barrier ------------------------------
(***************************************************************************)
(* A reusable barrier, as its users see it: arrived[w] and left[w] count   *)
(* how often w has arrived and left, and nobody leaves a round before      *)
(* everybody has arrived in it.                                            *)
(***************************************************************************)
EXTENDS Naturals

CONSTANT Workers

VARIABLES arrived, left

vars == <<arrived, left>>

Init ==
  /\ arrived = [w \in Workers |-> 0]
  /\ left = [w \in Workers |-> 0]

Arrive(w) ==
  /\ arrived[w] = left[w]
  /\ arrived' = [arrived EXCEPT ![w] = @ + 1]
  /\ UNCHANGED left

Leave(w) ==
  /\ arrived[w] = left[w] + 1
  /\ \A v \in Workers : arrived[v] >= arrived[w]
  /\ left' = [left EXCEPT ![w] = @ + 1]
  /\ UNCHANGED arrived

Next == \E w \in Workers : Arrive(w) \/ Leave(w)

Spec == Init /\ [][Next]_vars
=============================================================================
