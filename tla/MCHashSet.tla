----------------------------- MODULE MCHashSet -----------------------------
(***************************************************************************)
(* Instances of HashSet for TLC.  With MaxChain = 2 a chain has two cells, *)
(* and one when a value is moved; states are their own hashes.             *)
(***************************************************************************)
EXTENDS HashSet, TLC

\* v and v + 100 are two snapshots of one state.
Modulo100 == [v \in Values |-> v % 100]
Identity == [c \in Classes |-> c]
In(x) == [op |-> "insert", x |-> x]
Find(x) == [op |-> "find", x |-> x]

SmallSizes == <<4, 8, 16>>

CONSTANTS t1, t2, t3

\* t1 fills the chain of hash 2 twice, which makes the table grow to 8 and to 16
\* cells; t2 inserts a value of its own and one of t1's, and looks for another one.
\* When 2 and 10 meet in the first table the rehashing fails.
TwoGrowths == t1 :> <<In(2), In(6), In(10), In(18)>> @@ t2 :> <<In(0), Find(2), In(110)>>

\* t1 makes the table grow to 8 and then to 16 cells, t3 helps; t2 inserts another
\* snapshot of a state that t1 has inserted into the last cell of a segment.
ThreeMovers ==
  t1 :> <<In(1), In(5), In(9), In(3), In(17)>> @@ t2 :> <<In(103)>> @@ t3 :> <<Find(5)>>
=============================================================================
