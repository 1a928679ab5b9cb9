------------------------------ MODULE Safety -------------------------------
(***************************************************************************)
(* The safety algorithm (divine/mc/safety.hpp): the listener that all      *)
(* workers of the search share.  It remembers the parent of each state in  *)
(* a slave pool and the error edge in plain members of Safety; ce_trace    *)
(* follows the parents from the error edge back to the initial state.      *)
(*                                                                         *)
(* The search itself is module ParallelSearch; here the open states are a  *)
(* set, and a worker leaves when everything is done or _terminate is set.  *)
(* A step of the listener is one assignment to shared memory.              *)
(***************************************************************************)
EXTENDS Naturals, Sequences, FiniteSets

CONSTANTS Workers, States, Initial, NoState,
          Graph      \* for each state, its edges in the order of Builder::edges

Edges == [to : States, label : Nat, error : BOOLEAN]

ASSUME SafetyAssumption ==
  /\ Workers # {}
  /\ Initial \in States /\ NoState \notin States
  /\ Graph \in [States -> Seq(Edges)]

VARIABLES
  pc, cur, next,   \* where each worker is, the state it expands, its next edge
  isnew,           \* what store() said of the target of that edge
  stored, open,
  parent,          \* the slave pool _ext
  terminate,
  error_found, error, error_to, error_label

searchVars == <<cur, next, stored, open, terminate>>
errorVars == <<error_found, error, error_to, error_label>>
vars == <<pc, isnew, searchVars, parent, errorVars>>

Labels ==
  {"idle", "edge", "parent", "found", "from", "to", "label", "terminate", "push", "gone"}
Goto(w, l) == pc' = [pc EXCEPT ![w] = l]
At(w, l) == pc[w] = l
Edge(w) == Graph[cur[w]][next[w]]

Init ==
  /\ pc = [w \in Workers |-> "idle"]
  /\ cur = [w \in Workers |-> NoState]
  /\ next = [w \in Workers |-> 1]
  /\ isnew = [w \in Workers |-> FALSE]
  /\ stored = {Initial} /\ open = {Initial}
  /\ parent = [s \in States |-> NoState]
  /\ terminate = FALSE
  /\ error_found = FALSE
  /\ error = NoState /\ error_to = NoState /\ error_label = 0

\* A worker takes an open state.
Take(w) ==
  /\ At(w, "idle") /\ ~terminate
  /\ \E s \in open : open' = open \ {s} /\ cur' = [cur EXCEPT ![w] = s]
  /\ next' = [next EXCEPT ![w] = 1]
  /\ Goto(w, "edge")
  /\ UNCHANGED <<isnew, stored, terminate, parent, errorVars>>

\* Mutant: a state is open as soon as it is stored, before the listener is called.
EagerStore(w) ==
  /\ At(w, "edge") /\ next[w] <= Len(Graph[cur[w]])
  /\ stored' = stored \cup {Edge(w).to}
  /\ open' = open \cup ({Edge(w).to} \ stored)
  /\ isnew' = [isnew EXCEPT ![w] = FALSE]
  /\ \/ Edge(w).to \notin stored /\ Goto(w, "parent")
     \/ Edge(w).to \in stored /\ Goto(w, IF Edge(w).error THEN "found" ELSE "push")
  /\ UNCHANGED <<cur, next, terminate, parent, errorVars>>

\* Mutant: errors count only on edges to new states.
NewOnlyStore(w) ==
  /\ At(w, "edge") /\ next[w] <= Len(Graph[cur[w]])
  /\ stored' = stored \cup {Edge(w).to}
  /\ isnew' = [isnew EXCEPT ![w] = Edge(w).to \notin stored]
  /\ Goto(w, IF Edge(w).to \in stored THEN "push" ELSE "parent")
  /\ UNCHANGED <<cur, next, open, terminate, parent, errorVars>>

\* Builder::store of the target of the next edge; then the listener is called.
Store(w) ==
  /\ At(w, "edge") /\ next[w] <= Len(Graph[cur[w]])
  /\ stored' = stored \cup {Edge(w).to}
  /\ isnew' = [isnew EXCEPT ![w] = Edge(w).to \notin stored]
  /\ \/ Edge(w).to \notin stored /\ Goto(w, "parent")
     \/ Edge(w).to \in stored /\ Goto(w, IF Edge(w).error THEN "found" ELSE "push")
  /\ UNCHANGED <<cur, next, open, terminate, parent, errorVars>>

\* parent = from.snap
SetParent(w) ==
  /\ At(w, "parent")
  /\ parent' = [parent EXCEPT ![Edge(w).to] = cur[w]]
  /\ Goto(w, IF Edge(w).error THEN "found" ELSE "push")
  /\ UNCHANGED <<isnew, searchVars, errorVars>>

\* The members of Safety, one by one.
SetErrorFound(w) ==
  /\ At(w, "found")
  /\ error_found' = TRUE
  /\ Goto(w, "from")
  /\ UNCHANGED <<isnew, searchVars, parent, error, error_to, error_label>>

\* Mutant: the parent of the target instead of the source of the error edge.
BadSetError(w) ==
  /\ At(w, "from")
  /\ error' = parent[Edge(w).to]
  /\ Goto(w, "to")
  /\ UNCHANGED <<isnew, searchVars, parent, error_found, error_to, error_label>>

SetError(w) ==
  /\ At(w, "from")
  /\ error' = cur[w]
  /\ Goto(w, "to")
  /\ UNCHANGED <<isnew, searchVars, parent, error_found, error_to, error_label>>

SetErrorTo(w) ==
  /\ At(w, "to")
  /\ error_to' = Edge(w).to
  /\ Goto(w, "label")
  /\ UNCHANGED <<isnew, searchVars, parent, error_found, error, error_label>>

SetErrorLabel(w) ==
  /\ At(w, "label")
  /\ error_label' = Edge(w).label
  /\ Goto(w, "terminate")
  /\ UNCHANGED <<isnew, searchVars, parent, error_found, error, error_to>>

\* Listen::Terminate: _terminate->store( true ), throw Terminate()
Terminate(w) ==
  /\ At(w, "terminate")
  /\ terminate' = TRUE
  /\ cur' = [cur EXCEPT ![w] = NoState]
  /\ Goto(w, "gone")
  /\ UNCHANGED <<isnew, next, stored, open, parent, errorVars>>

\* Listen::AsNeeded: a new state is pushed.
Push(w) ==
  /\ At(w, "push")
  /\ open' = IF isnew[w] THEN open \cup {Edge(w).to} ELSE open
  /\ next' = [next EXCEPT ![w] = @ + 1]
  /\ Goto(w, "edge")
  /\ UNCHANGED <<isnew, cur, stored, terminate, parent, errorVars>>

Close(w) ==
  /\ At(w, "edge") /\ next[w] > Len(Graph[cur[w]])
  /\ cur' = [cur EXCEPT ![w] = NoState]
  /\ Goto(w, "idle")
  /\ UNCHANGED <<isnew, next, stored, open, terminate, parent, errorVars>>

Leave(w) ==
  /\ At(w, "idle")
  /\ terminate \/ (open = {} /\ \A v \in Workers : At(v, "idle") \/ At(v, "gone"))
  /\ Goto(w, "gone")
  /\ UNCHANGED <<isnew, searchVars, parent, errorVars>>

Joined == \A w \in Workers : At(w, "gone")
Finished == Joined /\ UNCHANGED vars

Worker(w) ==
  \/ Take(w) \/ Store(w) \/ SetParent(w) \/ SetErrorFound(w) \/ SetError(w) \/ SetErrorTo(w)
  \/ SetErrorLabel(w) \/ Terminate(w) \/ Push(w) \/ Close(w) \/ Leave(w)

Next == Finished \/ \E w \in Workers : Worker(w)
Spec == Init /\ [][Next]_vars

(***************************************************************************)
(*                              Properties                                 *)
(***************************************************************************)
EdgesOf(s) == {Graph[s][i] : i \in DOMAIN Graph[s]}
Busy(w) == cur[w] # NoState

\* The type invariant; a busy worker is at an edge of its state or past the last.
TypeOK ==
  /\ pc \in [Workers -> Labels]
  /\ cur \in [Workers -> States \cup {NoState}]
  /\ \A w \in Workers : Busy(w) => next[w] \in 1..(Len(Graph[cur[w]]) + 1)
  /\ isnew \in [Workers -> BOOLEAN]
  /\ open \subseteq stored /\ stored \subseteq States
  /\ parent \in [States -> States \cup {NoState}]
  /\ terminate \in BOOLEAN /\ error_found \in BOOLEAN
  /\ error \in States \cup {NoState} /\ error_to \in States \cup {NoState}
  /\ error_label \in Nat

\* The states from which ce_trace gets to the initial state.
Rooted ==
  {s \in States :
     \A C \in SUBSET States :
       Initial \in C /\ (\A t \in States : parent[t] \in C => t \in C) => s \in C}

\* Whoever finds an error edge can tell how to get there: each state that is open
\* or being expanded has its whole chain of parents in place, whichever worker
\* stored it, so that ce_trace reads no parent that was not written.
ParentsInPlace == open \cup ({cur[w] : w \in Workers} \ {NoState}) \subseteq Rooted

\* result() is right: an error is reported exactly when there is a reachable error
\* edge, to a new state or to a known one.
Reachable ==
  {s \in States :
     \A C \in SUBSET States :
       Initial \in C /\ (\A t \in C : \A e \in EdgesOf(t) : e.to \in C) => s \in C}
Verdict ==
  Joined => error_found = (\E s \in Reachable : \E e \in EdgesOf(s) : e.error)

\* What ce_trace is going to replay is an error edge of the program.
ErrorIsEdge ==
  Joined /\ error_found =>
    error \in States /\ [to |-> error_to, label |-> error_label, error |-> TRUE] \in EdgesOf(error)
=============================================================================
