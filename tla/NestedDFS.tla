----------------------------- MODULE NestedDFS -----------------------------
(***************************************************************************)
(* The liveness algorithm (divine/mc/liveness.hpp): a nested depth-first   *)
(* search for a reachable cycle with an accepting edge, on the fly.        *)
(*                                                                         *)
(* The two stacks hold every successor that was yielded, not only the      *)
(* current path: an item of type "DfsStack" has been expanded and is on    *)
(* the path, an item of type "Successors" waits for its turn.  The flags   *)
(* of a state live in a slave pool and mean something only after           *)
(* init_state, which is called for states that the builder says are new.   *)
(*                                                                         *)
(* The graph is chosen in Init and never changes; the builder yields the   *)
(* edges of a state in a fixed order.  One step is one turn of the loop in *)
(* outer or inner; there is one thread, and stop() does nothing.           *)
(***************************************************************************)
EXTENDS Naturals, Sequences, FiniteSets

CONSTANTS States, Initial, NoState,
          Graphs      \* the state spaces to be searched

Edges == [to : States, accepting : BOOLEAN, error : BOOLEAN]

ASSUME NestedDFSAssumption ==
  /\ Initial \in States /\ NoState \notin States
  /\ Graphs \subseteq [States -> Seq(Edges)]

VARIABLES
  graph,
  pc,              \* "start", "outer", "inner" or "done"
  stored,          \* the states in the builder's hash table
  ready,           \* the states that init_state was called for
  outer_visited, inner_visited, in_outer_stack,   \* StateFlags
  outer_stack, inner_stack,
  seed,
  counterexample   \* CeDescription

flags == <<outer_visited, inner_visited, in_outer_stack>>
vars == <<graph, pc, stored, ready, flags, outer_stack, inner_stack, seed, counterexample>>

Items == [state : States, accepting : BOOLEAN, error : BOOLEAN,
          type : {"DfsStack", "Successors"}]

StackItem(s, accepting, error) ==
  [state |-> s, accepting |-> accepting, error |-> error, type |-> "Successors"]

Top(stack) == stack[Len(stack)]
Pop(stack) == SubSeq(stack, 1, Len(stack) - 1)
\* Mutant: the type of an expanded item is not changed.
BadMarked(stack) == stack

Marked(stack) == [stack EXCEPT ![Len(stack)].type = "DfsStack"]

NoTrace == [tail |-> <<>>, lasso_inner |-> <<>>, lasso_outer |-> <<>>, goal |-> NoState]

Init ==
  /\ graph \in Graphs
  /\ pc = "start"
  /\ stored = {Initial}
  /\ ready = {}
  /\ outer_visited = {} /\ inner_visited = {} /\ in_outer_stack = {}
  /\ outer_stack = <<>> /\ inner_stack = <<>>
  /\ seed = NoState
  /\ counterexample = NoTrace

\* init_state for a set of states.
init_state(new) ==
  /\ ready' = ready \cup new
  /\ outer_visited' = outer_visited \ new
  /\ inner_visited' = inner_visited \ new
  /\ in_outer_stack' = in_outer_stack \ new

\* run: the builder yields its only initial state.
Start ==
  /\ pc = "start"
  /\ outer_stack' = <<StackItem(Initial, FALSE, FALSE)>>
  /\ init_state({Initial})
  /\ pc' = "outer"
  /\ UNCHANGED <<graph, stored, inner_stack, seed, counterexample>>

Succs(s) == {graph[s][i].to : i \in DOMAIN graph[s]}

\* What _builder.edges pushes on a stack when s is expanded.
Successors(s) ==
  [i \in DOMAIN graph[s] |-> StackItem(graph[s][i].to, graph[s][i].accepting, graph[s][i].error)]

\* _builder.edges( s, ... ) stores the successors; the new ones get fresh flags.
Yield(s) ==
  /\ stored' = stored \cup Succs(s)
  /\ ready' = ready \cup (Succs(s) \ stored)

Found(ce) ==
  /\ counterexample' = ce
  /\ pc' = "done"

(***************************************************************************)
(* outer                                                                   *)
(***************************************************************************)
OuterTop == Top(outer_stack)
InOuter == pc = "outer" /\ outer_stack # <<>>

\* inner( s )
CallInner(s) ==
  /\ seed' = s
  /\ inner_stack' = <<StackItem(s, FALSE, FALSE)>>
  /\ pc' = "inner"

\* Mutant: in_outer_stack is not reset.
BadOuterBacktrack ==
  /\ InOuter /\ OuterTop.type = "DfsStack"
  /\ outer_stack' = Pop(outer_stack)
  /\ \/ OuterTop.accepting /\ CallInner(OuterTop.state)
     \/ ~OuterTop.accepting /\ UNCHANGED <<seed, inner_stack, pc>>
  /\ UNCHANGED <<graph, stored, ready, flags, counterexample>>

\* Backtracking; the state of an accepting edge is the seed of a nested search.
OuterBacktrack ==
  /\ InOuter /\ OuterTop.type = "DfsStack"
  /\ in_outer_stack' = in_outer_stack \ {OuterTop.state}
  /\ outer_stack' = Pop(outer_stack)
  /\ \/ OuterTop.accepting /\ CallInner(OuterTop.state)
     \/ ~OuterTop.accepting /\ UNCHANGED <<seed, inner_stack, pc>>
  /\ UNCHANGED <<graph, stored, ready, outer_visited, inner_visited, counterexample>>

OuterAt(s) == InOuter /\ OuterTop.type = "Successors" /\ OuterTop.state = s

\* The first visit of a state.
OuterExpand ==
  \E s \in States :
    /\ OuterAt(s) /\ s \notin outer_visited /\ ~OuterTop.error
    /\ Yield(s)
    /\ outer_visited' = (outer_visited \ (Succs(s) \ stored)) \cup {s}
    /\ inner_visited' = inner_visited \ (Succs(s) \ stored)
    /\ in_outer_stack' = (in_outer_stack \ (Succs(s) \ stored)) \cup {s}
    /\ outer_stack' = Marked(outer_stack) \o Successors(s)
    /\ UNCHANGED <<graph, pc, inner_stack, seed, counterexample>>

\* Mutant: an error edge is followed like any other edge.
BadOuterError ==
  \E s \in States :
    /\ OuterAt(s) /\ s \notin outer_visited /\ OuterTop.error
    /\ Yield(s)
    /\ outer_visited' = outer_visited \cup {s}
    /\ in_outer_stack' = in_outer_stack \cup {s}
    /\ outer_stack' = Marked(outer_stack) \o Successors(s)
    /\ UNCHANGED <<graph, pc, inner_visited, inner_stack, seed, counterexample>>

\* The first visit of a state, along an error edge.
OuterError ==
  \E s \in States :
    /\ OuterAt(s) /\ s \notin outer_visited /\ OuterTop.error
    /\ outer_visited' = outer_visited \cup {s}
    /\ in_outer_stack' = in_outer_stack \cup {s}
    /\ outer_stack' = Marked(outer_stack)
    /\ Found([NoTrace EXCEPT !.goal = s, !.tail = Pop(outer_stack)])
    /\ UNCHANGED <<graph, stored, ready, inner_visited, inner_stack, seed>>

\* Mutant: an accepting edge to a visited state counts only on the fast path.
BadOuterRevisit ==
  \E s \in States :
    /\ OuterAt(s) /\ s \in outer_visited
    /\ outer_stack' = Pop(outer_stack)
    /\ \/ /\ OuterTop.accepting /\ s \in in_outer_stack
          /\ Found([NoTrace EXCEPT !.goal = s, !.tail = Pop(outer_stack)])
       \/ /\ ~(OuterTop.accepting /\ s \in in_outer_stack)
          /\ UNCHANGED <<pc, counterexample>>
    /\ UNCHANGED <<graph, stored, ready, flags, seed, inner_stack>>

\* An edge to a visited state: an accepting one closes a lasso at once when the
\* state is on the stack, and starts a nested search otherwise.
OuterRevisit ==
  \E s \in States :
    /\ OuterAt(s) /\ s \in outer_visited
    /\ outer_stack' = Pop(outer_stack)
    /\ \/ /\ OuterTop.accepting /\ s \in in_outer_stack
          /\ Found([NoTrace EXCEPT !.goal = s, !.tail = Pop(outer_stack)])
          /\ UNCHANGED <<seed, inner_stack>>
       \/ /\ OuterTop.accepting /\ s \notin in_outer_stack
          /\ CallInner(s)
          /\ UNCHANGED counterexample
       \/ /\ ~OuterTop.accepting
          /\ UNCHANGED <<seed, inner_stack, pc, counterexample>>
    /\ UNCHANGED <<graph, stored, ready, flags>>

OuterEnd ==
  /\ pc = "outer" /\ outer_stack = <<>>
  /\ pc' = "done"
  /\ UNCHANGED <<graph, stored, ready, flags, outer_stack, inner_stack, seed, counterexample>>

(***************************************************************************)
(* inner                                                                   *)
(***************************************************************************)
InnerTop == Top(inner_stack)
InInner == pc = "inner" /\ inner_stack # <<>>
InnerAt(s) == InInner /\ InnerTop.type = "Successors" /\ InnerTop.state = s

\* An accepting edge back to the seed, or any way back to the outer stack.
Closes(s) == (InnerTop.accepting /\ s = seed) \/ s \in in_outer_stack

\* Mutant: the nested search does not pop its stack.
BadInnerBacktrack ==
  /\ InInner /\ InnerTop.type = "DfsStack"
  /\ UNCHANGED vars

InnerBacktrack ==
  /\ InInner /\ InnerTop.type = "DfsStack"
  /\ inner_stack' = Pop(inner_stack)
  /\ UNCHANGED <<graph, pc, stored, ready, flags, outer_stack, seed, counterexample>>

\* Where the outer stack expanded s, or one past its end.
Position(s) ==
  LET Is(i) == outer_stack[i].state = s /\ outer_stack[i].type = "DfsStack"
      hits  == {i \in DOMAIN outer_stack : Is(i)}
  IN  IF hits = {} THEN Len(outer_stack) + 1
      ELSE CHOOSE i \in hits : \A j \in hits : i <= j

\* Mutant: the part of the lasso on the outer stack begins one item too early.
BadInnerFound ==
  \E s \in States :
    /\ InnerAt(s) /\ Closes(s)
    /\ inner_stack' = Marked(inner_stack)
    /\ Found([tail |-> outer_stack,
              lasso_inner |-> IF s = seed THEN Pop(inner_stack) ELSE Marked(inner_stack),
              lasso_outer |-> IF s = seed THEN <<>>
                              ELSE SubSeq(outer_stack, Position(s), Len(outer_stack)),
              goal |-> seed])
    /\ UNCHANGED <<graph, stored, ready, flags, outer_stack, seed>>

InnerFound ==
  \E s \in States :
    /\ InnerAt(s) /\ Closes(s)
    /\ inner_stack' = Marked(inner_stack)
    /\ Found([tail |-> outer_stack,
              lasso_inner |-> IF s = seed THEN Pop(inner_stack) ELSE Marked(inner_stack),
              lasso_outer |-> IF s = seed THEN <<>>
                              ELSE SubSeq(outer_stack, Position(s) + 1, Len(outer_stack)),
              goal |-> seed])
    /\ UNCHANGED <<graph, stored, ready, flags, outer_stack, seed>>

InnerExpand ==
  \E s \in States :
    /\ InnerAt(s) /\ ~Closes(s) /\ s \notin inner_visited
    /\ Yield(s)
    /\ outer_visited' = outer_visited \ (Succs(s) \ stored)
    /\ inner_visited' = (inner_visited \ (Succs(s) \ stored)) \cup {s}
    /\ in_outer_stack' = in_outer_stack \ (Succs(s) \ stored)
    /\ inner_stack' = Marked(inner_stack) \o Successors(s)
    /\ UNCHANGED <<graph, pc, outer_stack, seed, counterexample>>

InnerSkip ==
  \E s \in States :
    /\ InnerAt(s) /\ ~Closes(s) /\ s \in inner_visited
    /\ inner_stack' = Pop(inner_stack)
    /\ UNCHANGED <<graph, pc, stored, ready, flags, outer_stack, seed, counterexample>>

InnerEnd ==
  /\ pc = "inner" /\ inner_stack = <<>>
  /\ pc' = "outer"
  /\ UNCHANGED <<graph, stored, ready, flags, outer_stack, inner_stack, seed, counterexample>>

Finished == pc = "done" /\ UNCHANGED vars

Step ==
  \/ Start \/ OuterBacktrack \/ OuterExpand \/ OuterError \/ OuterRevisit \/ OuterEnd
  \/ InnerBacktrack \/ InnerFound \/ InnerExpand \/ InnerSkip \/ InnerEnd

Next == Step \/ Finished
Spec == Init /\ [][Next]_vars
FairSpec == Spec /\ WF_vars(Step)

(***************************************************************************)
(* _get_trace: the expanded items of the fragments.                        *)
(***************************************************************************)
Path(fragment) ==
  LET path[n \in 0..Len(fragment)] ==
        IF n = 0 THEN <<>>
        ELSE IF fragment[n].type = "DfsStack" THEN Append(path[n - 1], fragment[n].state)
        ELSE path[n - 1]
  IN  path[Len(fragment)]

Trace ==
  Path(counterexample.tail) \o Path(counterexample.lasso_inner)
    \o Path(counterexample.lasso_outer) \o <<counterexample.goal>>

_error_found == counterexample.goal # NoState

(***************************************************************************)
(*                              Properties                                 *)
(***************************************************************************)

\* What the algorithm is to find, without any search: a state is reachable when it
\* is in every set that is closed under the edges.
Closed(C) == \A s \in C : Succs(s) \subseteq C
Reachable(s) == {t \in States : \A C \in SUBSET States : s \in C /\ Closed(C) => t \in C}

EdgesOf(s) == {graph[s][i] : i \in DOMAIN graph[s]}
AcceptingCycle ==
  \E s \in Reachable(Initial) : \E e \in EdgesOf(s) : e.accepting /\ s \in Reachable(e.to)
ErrorEdge == \E s \in Reachable(Initial) : \E e \in EdgesOf(s) : e.error

TypeOK ==
  /\ graph \in [States -> Seq(Edges)]
  /\ pc \in {"start", "outer", "inner", "done"}
  /\ ready \subseteq stored /\ stored \subseteq States
  /\ outer_visited \subseteq ready /\ inner_visited \subseteq ready /\ in_outer_stack \subseteq ready
  /\ outer_stack \in Seq(Items) /\ inner_stack \in Seq(Items)
  /\ seed \in States \cup {NoState}
  /\ counterexample \in [tail : Seq(Items), lasso_inner : Seq(Items),
                         lasso_outer : Seq(Items), goal : States \cup {NoState}]

StatesOf(stack) == {stack[i].state : i \in DOMAIN stack}
Expanded(stack) == {i \in DOMAIN stack : stack[i].type = "DfsStack"}

\* The flag in_outer_stack says exactly which states the path of the outer search
\* consists of, each of them once.  No flag is read before init_state made it: whatever
\* is on a stack was yielded as new once, or is the initial state.
FlagMatchesStack ==
  /\ StatesOf(outer_stack) \cup StatesOf(inner_stack) \subseteq ready
  /\ in_outer_stack = {outer_stack[i].state : i \in Expanded(outer_stack)}
  /\ \A i, j \in Expanded(outer_stack) :
       outer_stack[i].state = outer_stack[j].state => i = j

\* An item that waits on a stack is a successor of the last expanded item below it:
\* the expanded items of a stack are a path, although they do not touch each other.
Threaded(stack) ==
  \A i \in DOMAIN stack \ {1} :
    \E j \in Expanded(stack) :
      /\ j < i /\ \A k \in Expanded(stack) : k < i => k <= j
      /\ \E e \in EdgesOf(stack[j].state) : e.to = stack[i].state /\ e.accepting = stack[i].accepting
StacksThreaded == Threaded(outer_stack) /\ Threaded(inner_stack)

\* A counterexample is a run of the program that violates the property: a path
\* from the initial state that ends with an error edge, or in a state it went
\* through before, with an accepting edge in between.
Moves(k) == {e \in EdgesOf(Trace[k]) : e.to = Trace[k + 1]}
GenuineTrace ==
  pc = "done" /\ _error_found =>
    LET n == Len(Trace)
    IN  /\ Trace[1] = Initial
        /\ \A k \in 1..(n - 1) : Moves(k) # {}
        /\ \/ n > 1 /\ \E e \in Moves(n - 1) : e.error
           \/ \E i \in 1..(n - 1) :
                Trace[i] = Trace[n] /\ \E k \in i..(n - 1) : \E e \in Moves(k) : e.accepting

\* The search misses no accepting cycle, in spite of inner_visited, which cuts each
\* nested search short at the states that the earlier ones have seen.
NoCycleMissed == pc = "done" /\ ~_error_found => ~AcceptingCycle

\* The search misses no error.
NoErrorMissed == pc = "done" /\ ~_error_found => ~ErrorEdge

\* The search ends.
Terminates == <>(pc = "done")
=============================================================================
