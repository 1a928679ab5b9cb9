------------------------- MODULE StateSpaceSearch -------------------------
(***************************************************************************)
(* What a search promises its caller, whatever its order and its number of *)
(* threads: states are stored once, a state leaves the open set only when  *)
(* all its successors have been seen, and the search ends either because   *)
(* nothing is open or because it was cut short.                            *)
(***************************************************************************)
CONSTANTS States, Succ, Initials, ErrorEdges, Ignored

VARIABLES visited,   \* stored states
          open,      \* stored and accepted, not yet expanded
          aborted,   \* an error edge was seen, or the search was interrupted
          finished   \* the caller has the search back

vars == <<visited, open, aborted, finished>>

Init ==
  /\ visited = Initials
  /\ open = Initials \ Ignored
  /\ aborted = FALSE
  /\ finished = FALSE

\* A new state is stored, and opened unless the listener ignores it.
Discover(v, s) ==
  /\ v \in open /\ s \in Succ[v] \ visited /\ <<v, s>> \notin ErrorEdges
  /\ visited' = visited \cup {s}
  /\ open' = open \cup ({s} \ Ignored)
  /\ UNCHANGED <<aborted, finished>>

\* An error edge ends the search; its target is stored, too.
Error(v, s) ==
  /\ v \in open /\ s \in Succ[v] /\ <<v, s>> \in ErrorEdges
  /\ visited' = visited \cup {s}
  /\ aborted' = TRUE
  /\ UNCHANGED <<open, finished>>

\* A state is closed when its edges have been seen and none was an error.
Expand(v) ==
  /\ v \in open /\ Succ[v] \subseteq visited
  /\ \A s \in Succ[v] : <<v, s>> \notin ErrorEdges
  /\ open' = open \ {v}
  /\ UNCHANGED <<visited, aborted, finished>>

Abort == aborted' = TRUE /\ UNCHANGED <<visited, open, finished>>

\* The caller gets control back, and nothing moves any more.
Finish ==
  /\ ~finished /\ (open = {} \/ aborted)
  /\ finished' = TRUE
  /\ UNCHANGED <<visited, open, aborted>>

Next ==
  /\ ~finished
  /\ \/ \E v \in open, s \in States : Discover(v, s) \/ Error(v, s)
     \/ \E v \in open : Expand(v)
     \/ Abort
     \/ Finish

Spec == Init /\ [][Next]_vars
=============================================================================
