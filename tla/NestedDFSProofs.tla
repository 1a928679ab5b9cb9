-------------------------- MODULE NestedDFSProofs ---------------------------
(***************************************************************************)
(* The verdict of the nested search, on any graph.  The nested searches    *)
(* share inner_visited: what they have seen is closed under the edges when *)
(* each of them ends, and was left by the outer search before, so that it  *)
(* never meets the outer stack again.                                      *)
(* What is reported is there: the fragments of the stacks are a run.       *)
(***************************************************************************)
EXTENDS NestedDFS, SequenceTheorems, FiniteSetTheorems, TLAPS

\* Before the start there is nothing; afterwards every stored state has its flags.
\* The path was visited.
Begun ==
  /\ pc = "start" => /\ stored = {Initial} /\ ready = {} /\ outer_stack = <<>> /\ inner_stack = <<>>
                     /\ counterexample.goal = NoState
  /\ pc # "start" => ready = stored
  /\ in_outer_stack \subseteq outer_visited

\* An item of a stack is the beginning of the search, or an edge of the last expanded item.
Below(stack, i, j) == j \in Expanded(stack) /\ j < i /\ \A k \in Expanded(stack) : k < i => k <= j
EdgeTo(s, item) ==
  \E e \in EdgesOf(s) : e.to = item.state /\ e.accepting = item.accepting /\ e.error = item.error
Rooted(stack, s) ==
  \A i \in DOMAIN stack :
    \/ stack[i].state = s /\ ~stack[i].accepting /\ ~stack[i].error /\ i = 1
    \/ i # 1 /\ \E j \in DOMAIN stack : Below(stack, i, j) /\ EdgeTo(stack[j].state, stack[i])
StacksRooted == Rooted(outer_stack, Initial) /\ (inner_stack # <<>> => Rooted(inner_stack, seed))

Searching == counterexample.goal = NoState

\* The state waits on the stack.
WaitsIn(stack, s) == \E k \in DOMAIN stack : stack[k].state = s /\ stack[k].type = "Successors"

\* The edge was followed, and is not on a cycle if it is accepting.
Handled(visited, r, e) == e.to \in visited /\ (e.accepting => r \notin Reachable(e.to))
\* The edge waits above the item that it comes from.
Pending(stack, i, e) ==
  \E k \in DOMAIN stack : k > i /\ stack[k].state = e.to /\ stack[k].accepting = e.accepting

\* The nested searches: what they saw was left by the outer search before, and its
\* successors were seen or wait.
Nested(p, visited, path, seen, stack, start) ==
  /\ p # "inner" => stack = <<>>
  /\ StatesOf(stack) \subseteq visited
  /\ seen \subseteq visited \ path
  /\ \A r \in seen : \A t \in Succs(r) : t \in seen \/ WaitsIn(stack, t)
  /\ p = "inner" => start \in visited /\ (start \in seen \/ WaitsIn(stack, start))
InnerInv == Searching => Nested(pc, outer_visited, in_outer_stack, inner_visited, inner_stack, seed)

\* The outer search: the edges of the states that it left are done with, those of the states
\* on its path too, unless they wait or are examined by a nested search.
Outer(p, visited, path, stack, start) ==
  /\ \A r \in visited \ path : \A e \in EdgesOf(r) : Handled(visited, r, e)
  /\ \A i \in Expanded(stack) : \A e \in EdgesOf(stack[i].state) :
       Handled(visited, stack[i].state, e) \/ Pending(stack, i, e) \/ (p = "inner" /\ e.to = start)
  /\ p # "start" => Initial \in visited \cup StatesOf(stack)
  /\ p = "done" => stack = <<>>
OuterInv == Searching => Outer(pc, outer_visited, in_outer_stack, outer_stack, seed)

\* The path of the outer search leads to all of its stack.
Leads(stack) ==
  /\ \A i \in Expanded(stack), k \in DOMAIN stack : i <= k => stack[k].state \in Reachable(stack[i].state)
  /\ \A k \in DOMAIN stack : stack[k].state \in Reachable(Initial)
\* The end of the path has an accepting edge to s.
Accepts(stack, s) ==
  \E j \in Expanded(stack) :
    /\ \A k \in Expanded(stack) : k <= j
    /\ \E e \in EdgesOf(stack[j].state) : e.accepting /\ e.to = s
\* Whatever is found is there.
Paths ==
  /\ Leads(outer_stack)
  /\ StatesOf(inner_stack) \subseteq Reachable(seed)
  /\ pc = "inner" => Accepts(outer_stack, seed)
  /\ ~Searching => pc = "done" /\ (AcceptingCycle \/ ErrorEdge)

Inv == TypeOK /\ Begun /\ FlagMatchesStack /\ StacksRooted /\ InnerInv /\ OuterInv /\ Paths
-----------------------------------------------------------------------------
(* Stacks *)

\* What Pop, Marked, and the expansion of s make of a stack.
Popped(st, q) ==
  /\ q \in Seq(Items) /\ Len(q) = Len(st) - 1 /\ DOMAIN q = 1..(Len(st) - 1)
  /\ \A i \in 1..(Len(st) - 1) : q[i] = st[i]

IsMarked(st, q) ==
  /\ q \in Seq(Items) /\ Len(q) = Len(st) /\ DOMAIN q = 1..Len(st)
  /\ \A i \in 1..(Len(st) - 1) : q[i] = st[i]
  /\ LET top == q[Len(st)] IN /\ top.state = st[Len(st)].state /\ top.accepting = st[Len(st)].accepting
                              /\ top.error = st[Len(st)].error /\ top.type = "DfsStack"

Grown(st, q, s) ==
  /\ q \in Seq(Items) /\ DOMAIN q = 1..(Len(st) + Len(graph[s]))
  /\ \A i \in 1..(Len(st) - 1) : q[i] = st[i]
  /\ LET top == q[Len(st)] IN /\ top.state = st[Len(st)].state /\ top.accepting = st[Len(st)].accepting
                              /\ top.error = st[Len(st)].error /\ top.type = "DfsStack"
  /\ \A n \in 1..Len(graph[s]) : q[Len(st) + n] = StackItem(graph[s][n].to, graph[s][n].accepting, graph[s][n].error)

LEMMA StackFacts ==
  ASSUME NEW st \in Seq(Items)
  PROVE  /\ Len(st) \in Nat /\ DOMAIN st = 1..Len(st)
         /\ \A i \in DOMAIN st : st[i] \in Items
         /\ st # <<>> => Len(st) >= 1 /\ Len(st) \in DOMAIN st
OBVIOUS

LEMMA PopFacts ==
  ASSUME NEW st \in Seq(Items), st # <<>>
  PROVE  Popped(st, Pop(st))
<1>1. Len(st) \in Nat /\ Len(st) >= 1
  BY StackFacts
<1> DEFINE q == SubSeq(st, 1, Len(st) - 1)
<1>2. /\ q \in Seq(Items) /\ Len(q) = Len(st) - 1
      /\ \A i \in 1..(Len(st) - 1) : q[i] = st[i]
  <2>1. 1 \in 1..(Len(st) + 1) /\ Len(st) - 1 \in (1 - 1)..Len(st) /\ (Len(st) - 1) - 1 + 1 = Len(st) - 1
    BY <1>1
  <2>2. /\ q \in Seq(Items) /\ Len(q) = (Len(st) - 1) - 1 + 1
        /\ \A i \in 1..((Len(st) - 1) - 1 + 1) : q[i] = st[1 + i - 1]
    BY <2>1, SubSeqProperties
  <2>3. \A i \in 1..(Len(st) - 1) : 1 + i - 1 = i
    BY <1>1
  <2> QED BY <2>1, <2>2, <2>3
<1>3. DOMAIN q = 1..(Len(st) - 1)
  BY <1>2
<1> HIDE DEF q
<1>4. Popped(st, q)
  BY <1>2, <1>3 DEF Popped
<1> QED BY <1>4 DEF q, Pop

LEMMA MarkedFacts ==
  ASSUME NEW st \in Seq(Items), st # <<>>
  PROVE  IsMarked(st, Marked(st))
<1> DEFINE L == Len(st)
           m == [st[L] EXCEPT !.type = "DfsStack"]
           q == [st EXCEPT ![L] = m]
<1>1. L \in Nat /\ L >= 1 /\ DOMAIN st = 1..L /\ st[L] \in Items
  BY StackFacts
<1>2. m \in Items /\ m.state = st[L].state /\ m.accepting = st[L].accepting /\ m.error = st[L].error /\ m.type = "DfsStack"
  BY <1>1 DEF Items
<1> HIDE DEF m
<1>3. q \in Seq(Items) /\ Len(q) = L /\ DOMAIN q = 1..L
  BY <1>1, <1>2
<1>4. q[L] = m /\ \A i \in 1..(L - 1) : q[i] = st[i]
  <2>1. L \in DOMAIN st
    BY <1>1
  <2>2. \A i \in 1..(L - 1) : i \in 1..L /\ i # L
    <3> HIDE DEF L
    <3> QED BY <1>1
  <2> QED BY <1>1, <2>1, <2>2
<1>5. Marked(st) = q
  BY DEF Marked, m
<1> QED BY <1>2, <1>3, <1>4, <1>5 DEF IsMarked

LEMMA EdgeFacts ==
  ASSUME TypeOK, NEW s \in States
  PROVE  /\ graph[s] \in Seq(Edges) /\ Len(graph[s]) \in Nat /\ DOMAIN graph[s] = 1..Len(graph[s])
         /\ \A n \in 1..Len(graph[s]) : graph[s][n] \in EdgesOf(s) /\ graph[s][n].to \in Succs(s)
         /\ \A e \in EdgesOf(s) : e \in Edges /\ e.to \in Succs(s) /\ \E n \in 1..Len(graph[s]) : e = graph[s][n]
         /\ \A t \in Succs(s) : t \in States /\ \E e \in EdgesOf(s) : e.to = t
<1>1. graph[s] \in Seq(Edges)
  BY DEF TypeOK
<1>2. Len(graph[s]) \in Nat /\ DOMAIN graph[s] = 1..Len(graph[s]) /\ \A n \in 1..Len(graph[s]) : graph[s][n] \in Edges
  BY <1>1
<1>3. \A e \in Edges : e.to \in States
  BY DEF Edges
<1> QED BY <1>1, <1>2, <1>3 DEF EdgesOf, Succs

LEMMA GrownFacts ==
  ASSUME TypeOK, NEW st \in Seq(Items), st # <<>>, NEW s \in States
  PROVE  Grown(st, Marked(st) \o Successors(s), s)
<1> DEFINE m == Marked(st)
           c == Successors(s)
           N == Len(graph[s])
<1>1. N \in Nat /\ DOMAIN graph[s] = 1..N /\ \A n \in 1..N : graph[s][n] \in Edges
  BY EdgeFacts
<1>2. c = [n \in 1..N |-> StackItem(graph[s][n].to, graph[s][n].accepting, graph[s][n].error)]
  BY <1>1 DEF Successors
<1>3. \A n \in 1..N : StackItem(graph[s][n].to, graph[s][n].accepting, graph[s][n].error) \in Items
  BY <1>1 DEF StackItem, Items, Edges
<1>4. c \in Seq(Items) /\ Len(c) = N
      /\ \A n \in 1..N : c[n] = StackItem(graph[s][n].to, graph[s][n].accepting, graph[s][n].error)
  <2> HIDE DEF c, N
  <2> QED BY <1>1, <1>2, <1>3
<1>5. IsMarked(st, m)
  BY MarkedFacts
<1>6. m \in Seq(Items) /\ Len(m) = Len(st) /\ Len(st) \in Nat /\ Len(st) >= 1
  BY <1>5, StackFacts DEF IsMarked
<1> HIDE DEF m, c, N
<1>7. /\ m \o c \in Seq(Items) /\ Len(m \o c) = Len(st) + N
      /\ \A i \in 1..(Len(st) + N) : (m \o c)[i] = IF i <= Len(st) THEN m[i] ELSE c[i - Len(st)]
  <2>1. c \in Seq(Items) /\ Len(c) = N
    BY <1>4
  <2>2. m \o c \in Seq(Items)
    BY <1>6, <2>1, ConcatProperties
  <2>3. Len(m \o c) = Len(m) + Len(c)
    BY <1>6, <2>1, ConcatProperties
  <2>4. \A i \in 1..(Len(m) + Len(c)) : (m \o c)[i] = IF i <= Len(m) THEN m[i] ELSE c[i - Len(m)]
    BY <1>6, <2>1, ConcatProperties
  <2> QED BY <1>6, <2>1, <2>2, <2>3, <2>4
<1>8. DOMAIN (m \o c) = 1..(Len(st) + N)
  BY <1>7
<1>9. \A i \in 1..Len(st) : (m \o c)[i] = m[i]
  BY <1>1, <1>6, <1>7
<1>10. ASSUME NEW n \in 1..N
       PROVE  (m \o c)[Len(st) + n] = c[n]
  <2>1. Len(st) + n \in 1..(Len(st) + N) /\ ~(Len(st) + n <= Len(st)) /\ (Len(st) + n) - Len(st) = n
    BY <1>1, <1>6
  <2> QED BY <1>7, <2>1
<1>11. \A i \in 1..(Len(st) - 1) : (m \o c)[i] = st[i]
  BY <1>5, <1>6, <1>9 DEF IsMarked
<1>12. (m \o c)[Len(st)] = m[Len(st)]
  BY <1>6, <1>9
<1>13. Grown(st, m \o c, s)
  BY <1>4, <1>5, <1>7, <1>8, <1>10, <1>11, <1>12 DEF Grown, IsMarked, N
<1> QED BY <1>13 DEF m, c

\* The expanded items of the three.
LEMMA PoppedExpanded ==
  ASSUME NEW st \in Seq(Items), st # <<>>, NEW q, Popped(st, q)
  PROVE  Expanded(q) = Expanded(st) \ {Len(st)}
<1>1. Len(st) \in Nat /\ DOMAIN st = 1..Len(st) /\ DOMAIN q = 1..(Len(st) - 1) /\ \A i \in DOMAIN q : q[i] = st[i]
  BY StackFacts DEF Popped
<1>2. \A i : i \in DOMAIN q <=> i \in DOMAIN st /\ i # Len(st)
  BY <1>1
<1> QED BY <1>1, <1>2 DEF Expanded

LEMMA MarkedExpanded ==
  ASSUME NEW st \in Seq(Items), st # <<>>, NEW q, IsMarked(st, q)
  PROVE  Expanded(q) = Expanded(st) \cup {Len(st)}
<1>1. Len(st) \in DOMAIN st /\ DOMAIN q = DOMAIN st
      /\ (\A i \in DOMAIN st : i # Len(st) => q[i] = st[i]) /\ q[Len(st)].type = "DfsStack"
  BY StackFacts DEF IsMarked
<1> QED BY <1>1 DEF Expanded

LEMMA GrownExpanded ==
  ASSUME TypeOK, NEW st \in Seq(Items), st # <<>>, NEW s \in States, NEW q, Grown(st, q, s)
  PROVE  /\ Expanded(q) = Expanded(st) \cup {Len(st)}
         /\ \A i \in DOMAIN q : \/ /\ i \in DOMAIN st /\ q[i].state = st[i].state
                                   /\ q[i].accepting = st[i].accepting /\ q[i].error = st[i].error
                                   /\ i # Len(st) => q[i] = st[i]
                                \/ \E n \in 1..Len(graph[s]) :
                                     i = Len(st) + n /\ q[i] = StackItem(graph[s][n].to, graph[s][n].accepting, graph[s][n].error)
<1>1. Len(st) \in Nat /\ Len(st) >= 1 /\ DOMAIN st = 1..Len(st) /\ Len(graph[s]) \in Nat
  BY StackFacts, EdgeFacts
<1>2. ASSUME NEW i \in DOMAIN q
      PROVE  i \in DOMAIN st \/ \E n \in 1..Len(graph[s]) : i = Len(st) + n
  <2>1. i \in 1..(Len(st) + Len(graph[s]))
    BY DEF Grown
  <2>2. CASE i <= Len(st)
    BY <1>1, <2>1, <2>2
  <2>3. CASE ~(i <= Len(st))
    <3>1. i - Len(st) \in 1..Len(graph[s]) /\ i = Len(st) + (i - Len(st))
      BY <1>1, <2>1, <2>3
    <3> QED BY <3>1
  <2> QED BY <2>2, <2>3
<1>3. ASSUME NEW i \in DOMAIN q
      PROVE  \/ /\ i \in DOMAIN st /\ q[i].state = st[i].state
                /\ q[i].accepting = st[i].accepting /\ q[i].error = st[i].error
                /\ i # Len(st) => q[i] = st[i]
             \/ \E n \in 1..Len(graph[s]) :
                  i = Len(st) + n /\ q[i] = StackItem(graph[s][n].to, graph[s][n].accepting, graph[s][n].error)
  <2>1. CASE i \in DOMAIN st /\ i = Len(st)
    BY <2>1 DEF Grown
  <2>2. CASE i \in DOMAIN st /\ i # Len(st)
    <3>1. i \in 1..(Len(st) - 1)
      BY <1>1, <2>2
    <3>2. q[i] = st[i]
      BY <3>1 DEF Grown
    <3> QED BY <2>2, <3>2
  <2>3. CASE \E n \in 1..Len(graph[s]) : i = Len(st) + n
    BY <2>3 DEF Grown
  <2> QED BY <1>2, <2>1, <2>2, <2>3
<1>4. \A i \in DOMAIN st : i \in DOMAIN q
  BY <1>1 DEF Grown
<1>5. \A n \in 1..Len(graph[s]) : Len(st) + n \notin DOMAIN st
  BY <1>1
<1>6. q[Len(st)].type = "DfsStack" /\ Len(st) \in DOMAIN st
  BY <1>1 DEF Grown
<1>7. ASSUME NEW i \in DOMAIN q
      PROVE  q[i].type = "DfsStack" <=> i \in Expanded(st) \cup {Len(st)}
  <2>1. CASE i = Len(st)
    BY <1>6, <2>1
  <2>2. CASE i \in DOMAIN st /\ i # Len(st)
    <3>1. i \in 1..(Len(st) - 1)
      BY <1>1, <2>2
    <3>2. q[i] = st[i]
      BY <3>1 DEF Grown
    <3> QED BY <2>2, <3>2 DEF Expanded
  <2>3. CASE i \notin DOMAIN st
    <3>1. PICK n \in 1..Len(graph[s]) : i = Len(st) + n
      BY <1>2, <2>3
    <3>2. q[i] = StackItem(graph[s][n].to, graph[s][n].accepting, graph[s][n].error)
      BY <3>1 DEF Grown
    <3>3. q[i].type = "Successors"
      BY <3>2 DEF StackItem
    <3> QED BY <1>6, <2>3, <3>3 DEF Expanded
  <2> QED BY <2>1, <2>2, <2>3
<1>8. Expanded(q) = Expanded(st) \cup {Len(st)}
  BY <1>4, <1>6, <1>7 DEF Expanded
<1> QED BY <1>3, <1>8
LEMMA FreshFacts ==
  ASSUME NEW s \in States
  PROVE  LET q == <<StackItem(s, FALSE, FALSE)>>
         IN  /\ q \in Seq(Items) /\ q # <<>> /\ DOMAIN q = {1} /\ Len(q) = 1
             /\ q[1].state = s /\ ~q[1].accepting /\ ~q[1].error /\ q[1].type = "Successors"
             /\ Expanded(q) = {} /\ StatesOf(q) = {s}
<1> DEFINE x == StackItem(s, FALSE, FALSE)
           q == <<x>>
<1>1. x \in Items /\ x.state = s /\ ~x.accepting /\ ~x.error /\ x.type = "Successors"
  BY DEF StackItem, Items
<1> HIDE DEF x
<1>2. q \in Seq(Items) /\ q # <<>> /\ DOMAIN q = {1} /\ Len(q) = 1 /\ q[1] = x
  BY <1>1
<1> HIDE DEF q
<1>3. Expanded(q) = {} /\ StatesOf(q) = {s}
  BY <1>1, <1>2 DEF Expanded, StatesOf
<1>4. /\ q \in Seq(Items) /\ q # <<>> /\ DOMAIN q = {1} /\ Len(q) = 1
      /\ q[1].state = s /\ ~q[1].accepting /\ ~q[1].error /\ q[1].type = "Successors"
      /\ Expanded(q) = {} /\ StatesOf(q) = {s}
  BY <1>1, <1>2, <1>3
<1> QED BY <1>4 DEF q, x

\* The state of the top item.
LEMMA TopFacts ==
  ASSUME NEW st \in Seq(Items), st # <<>>
  PROVE  /\ Top(st) = st[Len(st)] /\ Top(st) \in Items /\ Top(st).state \in States
         /\ Top(st).accepting \in BOOLEAN /\ Top(st).error \in BOOLEAN
         /\ Top(st).type \in {"DfsStack", "Successors"}
<1>1. Top(st) = st[Len(st)] /\ Top(st) \in Items
  BY StackFacts DEF Top
<1> QED BY <1>1 DEF Items

\* The positions of a state that is on the path of the outer search.
LEMMA PositionFacts ==
  ASSUME TypeOK, FlagMatchesStack, NEW s \in in_outer_stack
  PROVE  /\ Position(s) \in Expanded(outer_stack) /\ Position(s) \in 1..Len(outer_stack)
         /\ outer_stack[Position(s)].state = s
<1> DEFINE hits == {i \in DOMAIN outer_stack : outer_stack[i].state = s /\ outer_stack[i].type = "DfsStack"}
<1>1. PICK j \in Expanded(outer_stack) : outer_stack[j].state = s
  BY DEF FlagMatchesStack
<1>2. j \in hits /\ \A i \in hits : i = j
  BY <1>1 DEF FlagMatchesStack, Expanded
<1>3. hits = {j}
  BY <1>2
<1>4. j \in 1..Len(outer_stack) /\ j \in Nat /\ j <= j
  BY <1>1, StackFacts DEF Expanded, TypeOK
<1>5. Position(s) = IF hits = {} THEN Len(outer_stack) + 1 ELSE CHOOSE i \in hits : \A k \in hits : i <= k
  BY DEF Position
<1> HIDE DEF hits
<1>6. (CHOOSE i \in hits : \A k \in hits : i <= k) = j
  BY <1>3, <1>4
<1>7. Position(s) = j
  BY <1>2, <1>5, <1>6
<1> QED BY <1>1, <1>4, <1>7
-----------------------------------------------------------------------------
(* Types and flags *)

LEMMA InitInv == Init => Inv
<1> SUFFICES ASSUME Init PROVE Inv
  OBVIOUS
<1> USE DEF Init
<1>1. TypeOK
  <2>1. <<>> \in Seq(Items) /\ counterexample = NoTrace
    OBVIOUS
  <2>2. counterexample \in [tail : Seq(Items), lasso_inner : Seq(Items),
                            lasso_outer : Seq(Items), goal : States \cup {NoState}]
    BY <2>1 DEF NoTrace
  <2>3. graph \in [States -> Seq(Edges)]
    BY NestedDFSAssumption
  <2> QED BY <2>1, <2>2, <2>3, NestedDFSAssumption DEF TypeOK
<1>2. Begun
  BY DEF Begun, NoTrace
<1>3. Expanded(outer_stack) = {} /\ StatesOf(outer_stack) = {} /\ StatesOf(inner_stack) = {}
      /\ DOMAIN outer_stack = {} /\ DOMAIN inner_stack = {}
  BY DEF Expanded, StatesOf
<1>4. FlagMatchesStack
  BY <1>3 DEF FlagMatchesStack
<1>5. StacksRooted
  BY <1>3 DEF StacksRooted, Rooted
<1>6. InnerInv
  BY <1>3 DEF InnerInv, Nested
<1>7. OuterInv
  BY <1>3 DEF OuterInv, Outer
<1>8. Paths
  BY <1>3 DEF Paths, Leads, Searching, NoTrace
<1> QED BY <1>1, <1>2, <1>4, <1>5, <1>6, <1>7, <1>8 DEF Inv

\* A state that is yielded for the first time has no flag yet, so init_state resets nothing
\* but what it makes.
LEMMA FreshFlags ==
  ASSUME TypeOK, Begun, pc # "start", NEW s \in States
  PROVE  /\ outer_visited \ (Succs(s) \ stored) = outer_visited
         /\ inner_visited \ (Succs(s) \ stored) = inner_visited
         /\ in_outer_stack \ (Succs(s) \ stored) = in_outer_stack
         /\ ready \cup (Succs(s) \ stored) = stored \cup Succs(s)
         /\ Succs(s) \subseteq States
<1>1. Succs(s) \subseteq States
  BY EdgeFacts
<1> QED BY <1>1 DEF TypeOK, Begun

\* What the actions that expand a state do.
LEMMA OuterExpandFacts ==
  ASSUME TypeOK, Begun, OuterExpand
  PROVE  \E s \in States :
           /\ outer_stack # <<>> /\ pc = "outer" /\ pc' = "outer"
           /\ LET top == outer_stack[Len(outer_stack)]
              IN  top.type = "Successors" /\ top.state = s /\ ~top.error
           /\ s \notin outer_visited
           /\ outer_visited' = outer_visited \cup {s} /\ in_outer_stack' = in_outer_stack \cup {s}
           /\ inner_visited' = inner_visited
           /\ stored' = stored \cup Succs(s) /\ ready' = stored' /\ Succs(s) \subseteq States
           /\ Grown(outer_stack, outer_stack', s)
           /\ UNCHANGED <<graph, inner_stack, seed, counterexample>>
<1>1. PICK s \in States :
        /\ OuterAt(s) /\ s \notin outer_visited /\ ~OuterTop.error
        /\ Yield(s)
        /\ outer_visited' = (outer_visited \ (Succs(s) \ stored)) \cup {s}
        /\ inner_visited' = inner_visited \ (Succs(s) \ stored)
        /\ in_outer_stack' = (in_outer_stack \ (Succs(s) \ stored)) \cup {s}
        /\ outer_stack' = Marked(outer_stack) \o Successors(s)
        /\ UNCHANGED <<graph, pc, inner_stack, seed, counterexample>>
  BY DEF OuterExpand
<1>2. pc = "outer" /\ outer_stack # <<>> /\ outer_stack \in Seq(Items)
  BY <1>1 DEF OuterAt, InOuter, TypeOK
<1>3. Grown(outer_stack, outer_stack', s)
  BY <1>1, <1>2, GrownFacts
<1>4. OuterTop = outer_stack[Len(outer_stack)]
  BY DEF OuterTop, Top
<1>5. /\ outer_visited' = outer_visited \cup {s} /\ in_outer_stack' = in_outer_stack \cup {s}
      /\ inner_visited' = inner_visited
      /\ stored' = stored \cup Succs(s) /\ ready' = stored' /\ Succs(s) \subseteq States
  BY <1>1, <1>2, FreshFlags DEF Yield
<1> QED BY <1>1, <1>2, <1>3, <1>4, <1>5 DEF OuterAt

LEMMA InnerExpandFacts ==
  ASSUME TypeOK, Begun, InnerExpand
  PROVE  \E s \in States :
           /\ inner_stack # <<>> /\ pc = "inner" /\ pc' = "inner"
           /\ LET top == inner_stack[Len(inner_stack)]
              IN  top.type = "Successors" /\ top.state = s
           /\ s \notin inner_visited /\ s \notin in_outer_stack
           /\ outer_visited' = outer_visited /\ in_outer_stack' = in_outer_stack
           /\ inner_visited' = inner_visited \cup {s}
           /\ stored' = stored \cup Succs(s) /\ ready' = stored' /\ Succs(s) \subseteq States
           /\ Grown(inner_stack, inner_stack', s)
           /\ UNCHANGED <<graph, outer_stack, seed, counterexample>>
<1>1. PICK s \in States :
        /\ InnerAt(s) /\ ~Closes(s) /\ s \notin inner_visited
        /\ Yield(s)
        /\ outer_visited' = outer_visited \ (Succs(s) \ stored)
        /\ inner_visited' = (inner_visited \ (Succs(s) \ stored)) \cup {s}
        /\ in_outer_stack' = in_outer_stack \ (Succs(s) \ stored)
        /\ inner_stack' = Marked(inner_stack) \o Successors(s)
        /\ UNCHANGED <<graph, pc, outer_stack, seed, counterexample>>
  BY DEF InnerExpand
<1>2. pc = "inner" /\ inner_stack # <<>> /\ inner_stack \in Seq(Items)
  BY <1>1 DEF InnerAt, InInner, TypeOK
<1>3. Grown(inner_stack, inner_stack', s)
  BY <1>1, <1>2, GrownFacts
<1>4. InnerTop = inner_stack[Len(inner_stack)]
  BY DEF InnerTop, Top
<1>5. /\ outer_visited' = outer_visited /\ in_outer_stack' = in_outer_stack
      /\ inner_visited' = inner_visited \cup {s}
      /\ stored' = stored \cup Succs(s) /\ ready' = stored' /\ Succs(s) \subseteq States
  BY <1>1, <1>2, FreshFlags DEF Yield
<1> QED BY <1>1, <1>2, <1>3, <1>4, <1>5 DEF InnerAt, Closes
\* What the actions that shorten a stack do.
LEMMA OuterBacktrackFacts ==
  ASSUME TypeOK, OuterBacktrack
  PROVE  LET top == outer_stack[Len(outer_stack)]
         IN  /\ outer_stack # <<>> /\ pc = "outer"
             /\ top.type = "DfsStack" /\ top \in Items /\ top.state \in States
             /\ in_outer_stack' = in_outer_stack \ {top.state}
             /\ Popped(outer_stack, outer_stack')
             /\ \/ /\ top.accepting /\ seed' = top.state /\ pc' = "inner"
                   /\ inner_stack' = <<StackItem(top.state, FALSE, FALSE)>>
                \/ ~top.accepting /\ UNCHANGED <<seed, inner_stack, pc>>
             /\ UNCHANGED <<graph, stored, ready, outer_visited, inner_visited, counterexample>>
<1>1. outer_stack # <<>> /\ outer_stack \in Seq(Items)
  BY DEF OuterBacktrack, InOuter, TypeOK
<1>2. OuterTop = outer_stack[Len(outer_stack)] /\ OuterTop \in Items /\ OuterTop.state \in States
  BY <1>1, TopFacts DEF OuterTop
<1>3. Popped(outer_stack, outer_stack')
  BY <1>1, PopFacts DEF OuterBacktrack
<1> QED BY <1>1, <1>2, <1>3 DEF OuterBacktrack, CallInner, InOuter

LEMMA OuterRevisitFacts ==
  ASSUME TypeOK, OuterRevisit
  PROVE  LET top == outer_stack[Len(outer_stack)]
             s == top.state
         IN  /\ outer_stack # <<>> /\ pc = "outer"
             /\ top.type = "Successors" /\ top \in Items /\ s \in States /\ s \in outer_visited
             /\ Popped(outer_stack, outer_stack')
             /\ \/ /\ top.accepting /\ s \in in_outer_stack /\ pc' = "done"
                   /\ counterexample' = [NoTrace EXCEPT !.goal = s, !.tail = Pop(outer_stack)]
                   /\ UNCHANGED <<seed, inner_stack>>
                \/ /\ top.accepting /\ s \notin in_outer_stack /\ seed' = s /\ pc' = "inner"
                   /\ inner_stack' = <<StackItem(s, FALSE, FALSE)>>
                   /\ UNCHANGED counterexample
                \/ ~top.accepting /\ UNCHANGED <<seed, inner_stack, pc, counterexample>>
             /\ UNCHANGED <<graph, stored, ready, outer_visited, inner_visited, in_outer_stack>>
<1>1. outer_stack # <<>> /\ outer_stack \in Seq(Items) /\ pc = "outer"
  BY DEF OuterRevisit, OuterAt, InOuter, TypeOK
<1>2. OuterTop = outer_stack[Len(outer_stack)] /\ OuterTop \in Items /\ OuterTop.state \in States
  BY <1>1, TopFacts DEF OuterTop
<1>3. Popped(outer_stack, outer_stack')
  BY <1>1, PopFacts DEF OuterRevisit
<1>4. PICK s \in States :
        /\ OuterAt(s) /\ s \in outer_visited
        /\ \/ /\ OuterTop.accepting /\ s \in in_outer_stack
              /\ Found([NoTrace EXCEPT !.goal = s, !.tail = Pop(outer_stack)])
              /\ UNCHANGED <<seed, inner_stack>>
           \/ /\ OuterTop.accepting /\ s \notin in_outer_stack
              /\ CallInner(s)
              /\ UNCHANGED counterexample
           \/ /\ ~OuterTop.accepting
              /\ UNCHANGED <<seed, inner_stack, pc, counterexample>>
        /\ UNCHANGED <<graph, stored, ready, flags>>
  BY DEF OuterRevisit
<1>5. OuterTop.state = s /\ OuterTop.type = "Successors"
  BY <1>4 DEF OuterAt
<1> HIDE DEF OuterTop
<1>6. /\ \/ /\ OuterTop.accepting /\ s \in in_outer_stack /\ pc' = "done"
            /\ counterexample' = [NoTrace EXCEPT !.goal = s, !.tail = Pop(outer_stack)]
            /\ UNCHANGED <<seed, inner_stack>>
         \/ /\ OuterTop.accepting /\ s \notin in_outer_stack /\ seed' = s /\ pc' = "inner"
            /\ inner_stack' = <<StackItem(s, FALSE, FALSE)>>
            /\ UNCHANGED counterexample
         \/ ~OuterTop.accepting /\ UNCHANGED <<seed, inner_stack, pc, counterexample>>
      /\ UNCHANGED <<graph, stored, ready, outer_visited, inner_visited, in_outer_stack>>
  BY <1>4 DEF Found, CallInner, flags
<1> QED BY <1>1, <1>2, <1>3, <1>4, <1>5, <1>6

LEMMA InnerPopFacts ==
  ASSUME TypeOK, InnerBacktrack \/ InnerSkip
  PROVE  LET top == inner_stack[Len(inner_stack)]
         IN  /\ inner_stack # <<>> /\ pc = "inner" /\ top \in Items /\ top.state \in States
             /\ top.type = "DfsStack" \/ top.state \in inner_visited
             /\ Popped(inner_stack, inner_stack')
             /\ UNCHANGED <<graph, pc, stored, ready, flags, outer_stack, seed, counterexample>>
<1>1. inner_stack # <<>> /\ inner_stack \in Seq(Items) /\ pc = "inner"
  BY DEF InnerBacktrack, InnerSkip, InnerAt, InInner, TypeOK
<1>2. InnerTop = inner_stack[Len(inner_stack)] /\ InnerTop \in Items /\ InnerTop.state \in States
  BY <1>1, TopFacts DEF InnerTop
<1>3. Popped(inner_stack, inner_stack')
  BY <1>1, PopFacts DEF InnerBacktrack, InnerSkip
<1>4. InnerTop.type = "DfsStack" \/ InnerTop.state \in inner_visited
  BY DEF InnerBacktrack, InnerSkip, InnerAt
<1>5. UNCHANGED <<graph, pc, stored, ready, flags, outer_stack, seed, counterexample>>
  BY DEF InnerBacktrack, InnerSkip
<1> QED BY <1>1, <1>2, <1>3, <1>4, <1>5

\* What the actions that find a violation do.
LEMMA OuterErrorFacts ==
  ASSUME TypeOK, OuterError
  PROVE  LET top == outer_stack[Len(outer_stack)]
             s == top.state
         IN  /\ outer_stack # <<>> /\ pc = "outer" /\ pc' = "done"
             /\ top.type = "Successors" /\ top \in Items /\ s \in States /\ top.error
             /\ s \notin outer_visited
             /\ outer_visited' = outer_visited \cup {s} /\ in_outer_stack' = in_outer_stack \cup {s}
             /\ IsMarked(outer_stack, outer_stack')
             /\ counterexample' = [NoTrace EXCEPT !.goal = s, !.tail = Pop(outer_stack)]
             /\ UNCHANGED <<graph, stored, ready, inner_visited, inner_stack, seed>>
<1>1. outer_stack # <<>> /\ outer_stack \in Seq(Items) /\ pc = "outer"
  BY DEF OuterError, OuterAt, InOuter, TypeOK
<1>2. OuterTop = outer_stack[Len(outer_stack)] /\ OuterTop \in Items /\ OuterTop.state \in States
  BY <1>1, TopFacts DEF OuterTop
<1>3. IsMarked(outer_stack, outer_stack')
  BY <1>1, MarkedFacts DEF OuterError
<1>4. PICK s \in States :
        /\ OuterAt(s) /\ s \notin outer_visited /\ OuterTop.error
        /\ outer_visited' = outer_visited \cup {s}
        /\ in_outer_stack' = in_outer_stack \cup {s}
        /\ Found([NoTrace EXCEPT !.goal = s, !.tail = Pop(outer_stack)])
        /\ UNCHANGED <<graph, stored, ready, inner_visited, inner_stack, seed>>
  BY DEF OuterError
<1>5. OuterTop.state = s /\ OuterTop.type = "Successors"
  BY <1>4 DEF OuterAt
<1> HIDE DEF OuterTop
<1> QED BY <1>1, <1>2, <1>3, <1>4, <1>5 DEF Found

LEMMA InnerFoundFacts ==
  ASSUME TypeOK, InnerFound
  PROVE  LET top == inner_stack[Len(inner_stack)]
             s == top.state
         IN  /\ inner_stack # <<>> /\ pc = "inner" /\ pc' = "done"
             /\ top.type = "Successors" /\ top \in Items /\ s \in States
             /\ (top.accepting /\ s = seed) \/ s \in in_outer_stack
             /\ IsMarked(inner_stack, inner_stack')
             /\ counterexample' =
                  [tail |-> outer_stack,
                   lasso_inner |-> IF s = seed THEN Pop(inner_stack) ELSE Marked(inner_stack),
                   lasso_outer |-> IF s = seed THEN <<>>
                                   ELSE SubSeq(outer_stack, Position(s) + 1, Len(outer_stack)),
                   goal |-> seed]
             /\ UNCHANGED <<graph, stored, ready, outer_visited, inner_visited, in_outer_stack, outer_stack, seed>>
<1>1. inner_stack # <<>> /\ inner_stack \in Seq(Items) /\ pc = "inner"
  BY DEF InnerFound, InnerAt, InInner, TypeOK
<1>2. InnerTop = inner_stack[Len(inner_stack)] /\ InnerTop \in Items /\ InnerTop.state \in States
  BY <1>1, TopFacts DEF InnerTop
<1>3. IsMarked(inner_stack, inner_stack')
  BY <1>1, MarkedFacts DEF InnerFound
<1>4. PICK s \in States :
        /\ InnerAt(s) /\ Closes(s)
        /\ Found([tail |-> outer_stack,
                  lasso_inner |-> IF s = seed THEN Pop(inner_stack) ELSE Marked(inner_stack),
                  lasso_outer |-> IF s = seed THEN <<>>
                                  ELSE SubSeq(outer_stack, Position(s) + 1, Len(outer_stack)),
                  goal |-> seed])
        /\ UNCHANGED <<graph, stored, ready, flags, outer_stack, seed>>
  BY DEF InnerFound
<1>5. InnerTop.state = s /\ InnerTop.type = "Successors"
  BY <1>4 DEF InnerAt
<1> HIDE DEF InnerTop
<1>6. (InnerTop.accepting /\ s = seed) \/ s \in in_outer_stack
  BY <1>4 DEF Closes
<1> QED BY <1>1, <1>2, <1>3, <1>4, <1>5, <1>6 DEF Found, flags
LEMMA OnStack ==
  ASSUME TypeOK, FlagMatchesStack
  PROVE  /\ outer_stack # <<>> => outer_stack[Len(outer_stack)].state \in ready
         /\ inner_stack # <<>> => inner_stack[Len(inner_stack)].state \in ready
<1>1. outer_stack \in Seq(Items) /\ inner_stack \in Seq(Items)
  BY DEF TypeOK
<1>2. /\ outer_stack # <<>> => Len(outer_stack) \in DOMAIN outer_stack
      /\ inner_stack # <<>> => Len(inner_stack) \in DOMAIN inner_stack
  BY <1>1, StackFacts
<1> QED BY <1>2 DEF FlagMatchesStack, StatesOf

\* Every step keeps the types; no flag is used before init_state made it.
LEMMA TypeStep ==
  ASSUME TypeOK, Begun, FlagMatchesStack, Step
  PROVE  TypeOK' /\ Begun' /\ graph' = graph
<1> DEFINE Described == [tail : Seq(Items), lasso_inner : Seq(Items),
                         lasso_outer : Seq(Items), goal : States \cup {NoState}]
<1>0. /\ graph \in [States -> Seq(Edges)]
      /\ ready \subseteq stored /\ stored \subseteq States
      /\ outer_visited \subseteq ready /\ inner_visited \subseteq ready /\ in_outer_stack \subseteq ready
      /\ outer_stack \in Seq(Items) /\ inner_stack \in Seq(Items)
      /\ seed \in States \cup {NoState}
      /\ counterexample \in Described
  BY DEF TypeOK
<1>a. <<>> \in Seq(Items)
  OBVIOUS
<1>b. ASSUME NEW s \in States
      PROVE  [NoTrace EXCEPT !.goal = s, !.tail = Pop(outer_stack)] \in Described
  <2> DEFINE p == [NoTrace EXCEPT !.goal = s]
             q == [p EXCEPT !.tail = Pop(outer_stack)]
  <2>1. Pop(outer_stack) \in Seq(Items)
    BY <1>0 DEF Pop
  <2>2. p \in Described
    BY <1>a DEF NoTrace
  <2> HIDE DEF p
  <2>3. q \in Described
    BY <2>1, <2>2
  <2>4. q = [NoTrace EXCEPT !.goal = s, !.tail = Pop(outer_stack)]
    BY DEF p
  <2> QED BY <2>3, <2>4
<1> HIDE DEF Described
<1>1. CASE Start
  <2>1. outer_stack' \in Seq(Items)
    BY <1>1, FreshFacts, NestedDFSAssumption DEF Start
  <2>2. graph' = graph /\ ready' = {Initial} /\ stored' = {Initial} /\ pc' = "outer"
        /\ outer_visited' = {} /\ inner_visited' = {} /\ in_outer_stack' = {}
        /\ UNCHANGED <<inner_stack, seed, counterexample>>
    BY <1>0, <1>1 DEF Begun, Start, init_state
  <2>3. TypeOK'
    BY <1>0, <2>1, <2>2, NestedDFSAssumption DEF TypeOK, Described
  <2>4. Begun'
    BY <2>2 DEF Begun
  <2> QED BY <2>2, <2>3, <2>4
<1>2. CASE OuterBacktrack
  <2> DEFINE top == outer_stack[Len(outer_stack)]
  <2>1. /\ pc = "outer" /\ top.state \in States
        /\ in_outer_stack' = in_outer_stack \ {top.state}
        /\ outer_stack' \in Seq(Items)
        /\ \/ /\ seed' = top.state /\ pc' = "inner"
              /\ inner_stack' = <<StackItem(top.state, FALSE, FALSE)>>
           \/ UNCHANGED <<seed, inner_stack, pc>>
        /\ UNCHANGED <<graph, stored, ready, outer_visited, inner_visited, counterexample>>
    BY <1>2, OuterBacktrackFacts DEF Popped
  <2> HIDE DEF top
  <2>2. inner_stack' \in Seq(Items) /\ seed' \in States \cup {NoState} /\ pc' \in {"outer", "inner"}
    BY <1>0, <2>1, FreshFacts
  <2>3. TypeOK'
    BY <1>0, <2>1, <2>2 DEF TypeOK, Described
  <2>4. Begun'
    BY <2>1, <2>2 DEF Begun
  <2> QED BY <2>1, <2>3, <2>4
<1>3. CASE OuterExpand
  <2>1. PICK s \in States :
           /\ outer_stack # <<>> /\ pc = "outer" /\ pc' = "outer"
           /\ outer_stack[Len(outer_stack)].state = s
           /\ outer_visited' = outer_visited \cup {s} /\ in_outer_stack' = in_outer_stack \cup {s}
           /\ inner_visited' = inner_visited
           /\ stored' = stored \cup Succs(s) /\ ready' = stored' /\ Succs(s) \subseteq States
           /\ outer_stack' \in Seq(Items)
           /\ UNCHANGED <<graph, inner_stack, seed, counterexample>>
    BY <1>3, OuterExpandFacts DEF Grown
  <2>2. s \in ready /\ ready = stored
    BY <2>1, OnStack DEF Begun
  <2>3. TypeOK'
    BY <1>0, <2>1, <2>2 DEF TypeOK, Described
  <2>4. Begun'
    BY <2>1 DEF Begun
  <2> QED BY <2>1, <2>3, <2>4
<1>4. CASE OuterError
  <2> DEFINE s == outer_stack[Len(outer_stack)].state
  <2>1. /\ outer_stack # <<>> /\ pc = "outer" /\ pc' = "done" /\ s \in States
        /\ outer_visited' = outer_visited \cup {s} /\ in_outer_stack' = in_outer_stack \cup {s}
        /\ outer_stack' \in Seq(Items)
        /\ counterexample' = [NoTrace EXCEPT !.goal = s, !.tail = Pop(outer_stack)]
        /\ UNCHANGED <<graph, stored, ready, inner_visited, inner_stack, seed>>
    BY <1>4, OuterErrorFacts DEF IsMarked
  <2>2. s \in ready
    BY <2>1, OnStack
  <2> HIDE DEF s
  <2>3. counterexample' \in Described
    BY <1>b, <2>1
  <2>4. TypeOK'
    BY <1>0, <2>1, <2>2, <2>3 DEF TypeOK, Described
  <2>5. Begun'
    BY <2>1 DEF Begun
  <2> QED BY <2>1, <2>4, <2>5
<1>5. CASE OuterRevisit
  <2> DEFINE s == outer_stack[Len(outer_stack)].state
  <2>1. /\ pc = "outer" /\ s \in States
        /\ outer_stack' \in Seq(Items)
        /\ \/ /\ pc' = "done"
              /\ counterexample' = [NoTrace EXCEPT !.goal = s, !.tail = Pop(outer_stack)]
              /\ UNCHANGED <<seed, inner_stack>>
           \/ /\ seed' = s /\ pc' = "inner"
              /\ inner_stack' = <<StackItem(s, FALSE, FALSE)>>
              /\ UNCHANGED counterexample
           \/ UNCHANGED <<seed, inner_stack, pc, counterexample>>
        /\ UNCHANGED <<graph, stored, ready, outer_visited, inner_visited, in_outer_stack>>
    BY <1>5, OuterRevisitFacts DEF Popped
  <2> HIDE DEF s
  <2>2. inner_stack' \in Seq(Items) /\ seed' \in States \cup {NoState} /\ pc' \in {"outer", "inner", "done"}
        /\ counterexample' \in Described
    BY <1>0, <1>b, <2>1, FreshFacts
  <2>3. TypeOK'
    BY <1>0, <2>1, <2>2 DEF TypeOK, Described
  <2>4. Begun'
    BY <2>1, <2>2 DEF Begun
  <2> QED BY <2>1, <2>3, <2>4
<1>6. CASE OuterEnd \/ InnerEnd
  <2>1. /\ pc \in {"outer", "inner"} /\ pc' \in {"outer", "done"}
        /\ UNCHANGED <<graph, stored, ready, outer_visited, inner_visited, in_outer_stack,
                       outer_stack, inner_stack, seed, counterexample>>
    BY <1>6 DEF OuterEnd, InnerEnd, flags
  <2> QED BY <1>0, <2>1 DEF TypeOK, Begun, Described
<1>7. CASE InnerBacktrack \/ InnerSkip
  <2>1. /\ pc = "inner" /\ inner_stack' \in Seq(Items)
        /\ UNCHANGED <<graph, pc, stored, ready, outer_visited, inner_visited, in_outer_stack,
                       outer_stack, seed, counterexample>>
    BY <1>7, InnerPopFacts DEF Popped, flags
  <2> QED BY <1>0, <2>1 DEF TypeOK, Begun, Described
<1>8. CASE InnerFound
  <2> DEFINE s == inner_stack[Len(inner_stack)].state
             inner == IF s = seed THEN Pop(inner_stack) ELSE Marked(inner_stack)
             outer == IF s = seed THEN <<>> ELSE SubSeq(outer_stack, Position(s) + 1, Len(outer_stack))
  <2>1. /\ inner_stack # <<>> /\ pc = "inner" /\ pc' = "done" /\ s \in States
        /\ s = seed \/ s \in in_outer_stack
        /\ inner_stack' \in Seq(Items)
        /\ counterexample' = [tail |-> outer_stack, lasso_inner |-> inner, lasso_outer |-> outer, goal |-> seed]
        /\ UNCHANGED <<graph, stored, ready, outer_visited, inner_visited, in_outer_stack, outer_stack, seed>>
    BY <1>8, InnerFoundFacts DEF IsMarked
  <2>2. inner \in Seq(Items)
    <3>1. Pop(inner_stack) \in Seq(Items) /\ Marked(inner_stack) \in Seq(Items)
      BY <1>0, <2>1, PopFacts, MarkedFacts DEF Popped, IsMarked
    <3> QED BY <3>1
  <2>3. outer \in Seq(Items)
    <3>1. CASE s = seed
      BY <1>a, <3>1
    <3>2. CASE s # seed
      <4>1. s \in in_outer_stack
        BY <2>1, <3>2
      <4>2. Position(s) \in 1..Len(outer_stack) /\ Len(outer_stack) \in Nat
        BY <1>0, <4>1, PositionFacts, StackFacts
      <4> DEFINE m == Position(s) + 1
      <4>3. m \in 1..(Len(outer_stack) + 1) /\ Len(outer_stack) \in (m - 1)..Len(outer_stack)
        BY <4>2
      <4> HIDE DEF m
      <4>4. SubSeq(outer_stack, m, Len(outer_stack)) \in Seq(Items)
        BY <1>0, <4>3, SubSeqProperties
      <4> QED BY <3>2, <4>4 DEF m
    <3> QED BY <3>1, <3>2
  <2> HIDE DEF inner, outer, s
  <2>4. counterexample' \in Described
    BY <1>0, <2>1, <2>2, <2>3 DEF Described
  <2>5. TypeOK'
    BY <1>0, <2>1, <2>4 DEF TypeOK, Described
  <2>6. Begun'
    BY <2>1 DEF Begun
  <2> QED BY <2>1, <2>5, <2>6
<1>9. CASE InnerExpand
  <2>1. PICK s \in States :
           /\ inner_stack # <<>> /\ pc = "inner" /\ pc' = "inner"
           /\ inner_stack[Len(inner_stack)].state = s
           /\ outer_visited' = outer_visited /\ in_outer_stack' = in_outer_stack
           /\ inner_visited' = inner_visited \cup {s}
           /\ stored' = stored \cup Succs(s) /\ ready' = stored' /\ Succs(s) \subseteq States
           /\ inner_stack' \in Seq(Items)
           /\ UNCHANGED <<graph, outer_stack, seed, counterexample>>
    BY <1>9, InnerExpandFacts DEF Grown
  <2>2. s \in ready /\ ready = stored
    BY <2>1, OnStack DEF Begun
  <2>3. TypeOK'
    BY <1>0, <2>1, <2>2 DEF TypeOK, Described
  <2>4. Begun'
    BY <2>1 DEF Begun
  <2> QED BY <2>1, <2>3, <2>4
<1> QED BY <1>1, <1>2, <1>3, <1>4, <1>5, <1>6, <1>7, <1>8, <1>9 DEF Step
\* What Marked and the expansion of a state have in common: the top is on the path now,
\* and there may be new items above it.
Deeper(st, q) ==
  /\ st # <<>> /\ st \in Seq(Items) /\ q \in Seq(Items) /\ Len(st) \in DOMAIN st
  /\ Expanded(q) = Expanded(st) \cup {Len(st)}
  /\ \A i \in DOMAIN st : /\ i \in DOMAIN q /\ q[i].state = st[i].state /\ i <= Len(st)
                          /\ q[i].accepting = st[i].accepting /\ q[i].error = st[i].error
                          /\ i # Len(st) => q[i] = st[i]

LEMMA MarkedDeeper ==
  ASSUME NEW st \in Seq(Items), st # <<>>, NEW q, IsMarked(st, q)
  PROVE  Deeper(st, q) /\ DOMAIN q = DOMAIN st
<1>1. Len(st) \in Nat /\ DOMAIN st = 1..Len(st) /\ Len(st) \in DOMAIN st /\ DOMAIN q = DOMAIN st /\ q \in Seq(Items)
  BY StackFacts DEF IsMarked
<1>2. Expanded(q) = Expanded(st) \cup {Len(st)}
  BY MarkedExpanded
<1>3. ASSUME NEW i \in DOMAIN st
      PROVE  /\ q[i].state = st[i].state /\ i <= Len(st)
             /\ q[i].accepting = st[i].accepting /\ q[i].error = st[i].error
             /\ i # Len(st) => q[i] = st[i]
  <2>1. i <= Len(st)
    BY <1>1
  <2>2. CASE i = Len(st)
    BY <2>1, <2>2 DEF IsMarked
  <2>3. CASE i # Len(st)
    <3>1. i \in 1..(Len(st) - 1)
      BY <1>1, <2>3
    <3> QED BY <2>1, <3>1 DEF IsMarked
  <2> QED BY <2>2, <2>3
<1> QED BY <1>1, <1>2, <1>3 DEF Deeper

LEMMA GrownDeeper ==
  ASSUME TypeOK, NEW st \in Seq(Items), st # <<>>, NEW s \in States, NEW q, Grown(st, q, s)
  PROVE  Deeper(st, q)
<1>1. Len(st) \in Nat /\ DOMAIN st = 1..Len(st) /\ Len(st) \in DOMAIN st /\ q \in Seq(Items)
      /\ Len(graph[s]) \in Nat
  BY StackFacts, EdgeFacts DEF Grown
<1>2. Expanded(q) = Expanded(st) \cup {Len(st)}
  BY GrownExpanded
<1>3. ASSUME NEW i \in DOMAIN st
      PROVE  /\ q[i].state = st[i].state /\ i <= Len(st)
             /\ q[i].accepting = st[i].accepting /\ q[i].error = st[i].error
             /\ i # Len(st) => q[i] = st[i]
  <2>1. i <= Len(st)
    BY <1>1
  <2>2. CASE i = Len(st)
    BY <2>1, <2>2 DEF Grown
  <2>3. CASE i # Len(st)
    <3>1. i \in 1..(Len(st) - 1)
      BY <1>1, <2>3
    <3> QED BY <2>1, <3>1 DEF Grown
  <2> QED BY <2>2, <2>3
<1>4. \A i \in DOMAIN st : i \in DOMAIN q
  BY <1>1 DEF Grown
<1> QED BY <1>1, <1>2, <1>3, <1>4 DEF Deeper

LEMMA PoppedItems ==
  ASSUME NEW st \in Seq(Items), st # <<>>, NEW q, Popped(st, q)
  PROVE  /\ DOMAIN q = DOMAIN st \ {Len(st)} /\ \A i \in DOMAIN q : q[i] = st[i]
         /\ \A i \in DOMAIN q : i < Len(st)
         /\ Len(st) \in DOMAIN st /\ DOMAIN st \subseteq Nat /\ DOMAIN q \subseteq Nat
<1>1. Len(st) \in Nat /\ Len(st) >= 1 /\ DOMAIN st = 1..Len(st) /\ DOMAIN q = 1..(Len(st) - 1)
      /\ \A i \in 1..(Len(st) - 1) : q[i] = st[i]
  BY StackFacts DEF Popped
<1>2. \A i : i \in 1..(Len(st) - 1) <=> i \in 1..Len(st) /\ i # Len(st)
  BY <1>1
<1>3. DOMAIN q = DOMAIN st \ {Len(st)}
  BY <1>1, <1>2
<1>4. \A i \in DOMAIN q : i < Len(st)
  BY <1>1
<1> QED BY <1>1, <1>3, <1>4

LEMMA PoppedStates ==
  ASSUME NEW st \in Seq(Items), st # <<>>, NEW q, Popped(st, q)
  PROVE  StatesOf(q) \subseteq StatesOf(st)
<1>1. \A i \in DOMAIN q : i \in DOMAIN st /\ q[i] = st[i]
  BY PoppedItems
<1> QED BY <1>1 DEF StatesOf

\* The path of a stack, as the flag sees it.
PathIs(st, path) ==
  /\ path = {st[i].state : i \in Expanded(st)}
  /\ \A i, j \in Expanded(st) : st[i].state = st[j].state => i = j

LEMMA PathPopped ==
  ASSUME NEW st \in Seq(Items), st # <<>>, NEW q, Popped(st, q), NEW path, PathIs(st, path)
  PROVE  /\ StatesOf(q) \subseteq StatesOf(st)
         /\ st[Len(st)].type = "DfsStack" => PathIs(q, path \ {st[Len(st)].state})
         /\ st[Len(st)].type # "DfsStack" => PathIs(q, path)
<1>1. Expanded(q) = Expanded(st) \ {Len(st)}
  BY PoppedExpanded
<1>2. DOMAIN q = DOMAIN st \ {Len(st)} /\ \A i \in DOMAIN q : q[i] = st[i]
  BY PoppedItems
<1>3. StatesOf(q) \subseteq StatesOf(st)
  BY <1>2 DEF StatesOf
<1>4. \A i \in Expanded(q) : i \in Expanded(st) /\ i # Len(st) /\ q[i] = st[i]
  BY <1>1, <1>2 DEF Expanded
<1>5. \A i, j \in Expanded(q) : q[i].state = q[j].state => i = j
  BY <1>4 DEF PathIs
<1>6. CASE st[Len(st)].type = "DfsStack"
  <2>1. Len(st) \in Expanded(st)
    BY <1>6, PoppedItems DEF Expanded
  <2>2. {q[i].state : i \in Expanded(q)} = path \ {st[Len(st)].state}
    BY <1>1, <1>4, <2>1 DEF PathIs
  <2> QED BY <1>3, <1>5, <1>6, <2>2 DEF PathIs
<1>7. CASE st[Len(st)].type # "DfsStack"
  <2>1. Expanded(q) = Expanded(st)
    BY <1>1, <1>7 DEF Expanded
  <2> QED BY <1>3, <1>4, <1>5, <1>7, <2>1 DEF PathIs
<1> QED BY <1>6, <1>7

LEMMA PathDeeper ==
  ASSUME NEW st, NEW q, Deeper(st, q), NEW path, PathIs(st, path), st[Len(st)].state \notin path
  PROVE  PathIs(q, path \cup {st[Len(st)].state})
<1>1. \A i \in Expanded(st) \cup {Len(st)} : q[i].state = st[i].state
  BY DEF Deeper, Expanded
<1>2. Expanded(q) = Expanded(st) \cup {Len(st)}
  BY DEF Deeper
<1>3. {q[i].state : i \in Expanded(q)} = path \cup {st[Len(st)].state}
  BY <1>1, <1>2 DEF PathIs
<1>4. \A i \in Expanded(st) : st[i].state # st[Len(st)].state
  BY DEF PathIs
<1>5. ASSUME NEW i \in Expanded(q), NEW j \in Expanded(q), q[i].state = q[j].state
      PROVE  i = j
  BY <1>1, <1>2, <1>4, <1>5 DEF PathIs
<1> QED BY <1>3, <1>5 DEF PathIs

LEMMA StatesMarked ==
  ASSUME NEW st, NEW q, Deeper(st, q), DOMAIN q = DOMAIN st
  PROVE  StatesOf(q) = StatesOf(st)
BY DEF Deeper, StatesOf

LEMMA StatesGrown ==
  ASSUME TypeOK, NEW st \in Seq(Items), st # <<>>, NEW s \in States, NEW q, Grown(st, q, s)
  PROVE  StatesOf(q) = StatesOf(st) \cup Succs(s)
<1>1. ASSUME NEW i \in DOMAIN q
      PROVE  q[i].state \in StatesOf(st) \cup Succs(s)
  <2>0. \/ i \in DOMAIN st /\ q[i].state = st[i].state
        \/ \E n \in 1..Len(graph[s]) :
             i = Len(st) + n /\ q[i] = StackItem(graph[s][n].to, graph[s][n].accepting, graph[s][n].error)
    BY GrownExpanded
  <2>1. CASE i \in DOMAIN st /\ q[i].state = st[i].state
    BY <2>1 DEF StatesOf
  <2>2. CASE \E n \in 1..Len(graph[s]) :
               i = Len(st) + n /\ q[i] = StackItem(graph[s][n].to, graph[s][n].accepting, graph[s][n].error)
    <3>1. PICK n \in 1..Len(graph[s]) : q[i] = StackItem(graph[s][n].to, graph[s][n].accepting, graph[s][n].error)
      BY <2>2
    <3>2. q[i].state = graph[s][n].to
      BY <3>1 DEF StackItem
    <3>3. graph[s][n].to \in Succs(s)
      BY EdgeFacts
    <3> QED BY <3>2, <3>3
  <2> QED BY <2>0, <2>1, <2>2
<1>2. ASSUME NEW t \in Succs(s)
      PROVE  \E i \in DOMAIN q : q[i].state = t
  <2>1. PICK n \in 1..Len(graph[s]) : graph[s][n].to = t
    BY EdgeFacts DEF Succs
  <2>2. q[Len(st) + n] = StackItem(graph[s][n].to, graph[s][n].accepting, graph[s][n].error)
    BY DEF Grown
  <2>4. q[Len(st) + n].state = t
    BY <2>1, <2>2 DEF StackItem
  <2>3. Len(st) + n \in DOMAIN q
    BY StackFacts, EdgeFacts DEF Grown
  <2> QED BY <2>3, <2>4
<1>3. \A i \in DOMAIN st : i \in DOMAIN q /\ q[i].state = st[i].state
  BY GrownDeeper DEF Deeper
<1> QED BY <1>1, <1>2, <1>3 DEF StatesOf
LEMMA FlagIsPath ==
  FlagMatchesStack <=> /\ StatesOf(outer_stack) \cup StatesOf(inner_stack) \subseteq ready
                       /\ PathIs(outer_stack, in_outer_stack)
BY DEF FlagMatchesStack, PathIs

\* Every step keeps the flag in_outer_stack what the stack says.
LEMMA FlagStep ==
  ASSUME TypeOK, Begun, FlagMatchesStack, Step, TypeOK', Begun'
  PROVE  FlagMatchesStack'
<1>0. /\ outer_stack \in Seq(Items) /\ inner_stack \in Seq(Items) /\ ready \subseteq stored
      /\ StatesOf(outer_stack) \subseteq ready /\ StatesOf(inner_stack) \subseteq ready
      /\ PathIs(outer_stack, in_outer_stack)
  BY FlagIsPath DEF TypeOK
<1>a. SUFFICES /\ StatesOf(outer_stack') \subseteq ready' /\ StatesOf(inner_stack') \subseteq ready'
               /\ PathIs(outer_stack', in_outer_stack')
  BY DEF FlagMatchesStack, PathIs, StatesOf, Expanded
<1>1. CASE Start
  <2>1. outer_stack' = <<StackItem(Initial, FALSE, FALSE)>> /\ ready' = {Initial} /\ in_outer_stack' = {}
        /\ inner_stack' = <<>>
    BY <1>1 DEF Start, init_state, Begun, TypeOK
  <2>2. Expanded(outer_stack') = {} /\ StatesOf(outer_stack') = {Initial}
    BY <2>1, FreshFacts, NestedDFSAssumption
  <2>3. StatesOf(inner_stack') = {}
    BY <2>1 DEF StatesOf
  <2> QED BY <2>1, <2>2, <2>3 DEF PathIs
<1>2. CASE OuterBacktrack
  <2> DEFINE top == outer_stack[Len(outer_stack)]
  <2>1. /\ outer_stack # <<>> /\ top.type = "DfsStack" /\ top.state \in States
        /\ in_outer_stack' = in_outer_stack \ {top.state}
        /\ Popped(outer_stack, outer_stack')
        /\ inner_stack' = <<StackItem(top.state, FALSE, FALSE)>> \/ inner_stack' = inner_stack
        /\ ready' = ready
    BY <1>2, OuterBacktrackFacts
  <2>2. top.state \in ready
    BY <2>1, OnStack
  <2>3. StatesOf(outer_stack') \subseteq StatesOf(outer_stack) /\ PathIs(outer_stack', in_outer_stack')
    BY <1>0, <2>1, PathPopped
  <2> HIDE DEF top
  <2>4. StatesOf(inner_stack') \subseteq ready
    BY <1>0, <2>1, <2>2, FreshFacts
  <2> QED BY <1>0, <2>1, <2>3, <2>4
<1>3. CASE OuterExpand
  <2>1. PICK s \in States :
           /\ outer_stack # <<>> /\ pc = "outer"
           /\ outer_stack[Len(outer_stack)].state = s
           /\ s \notin outer_visited
           /\ in_outer_stack' = in_outer_stack \cup {s}
           /\ stored' = stored \cup Succs(s) /\ ready' = stored'
           /\ Grown(outer_stack, outer_stack', s)
           /\ inner_stack' = inner_stack
    BY <1>3, OuterExpandFacts
  <2>2. s \notin in_outer_stack /\ ready = stored
    BY <2>1 DEF Begun
  <2>3. PathIs(outer_stack', in_outer_stack')
    BY <1>0, <2>1, <2>2, GrownDeeper, PathDeeper
  <2>4. StatesOf(outer_stack') = StatesOf(outer_stack) \cup Succs(s)
    BY <1>0, <2>1, StatesGrown
  <2> QED BY <1>0, <2>1, <2>2, <2>3, <2>4
<1>4. CASE OuterError
  <2> DEFINE s == outer_stack[Len(outer_stack)].state
  <2>1. /\ outer_stack # <<>> /\ s \notin outer_visited
        /\ in_outer_stack' = in_outer_stack \cup {s}
        /\ IsMarked(outer_stack, outer_stack')
        /\ inner_stack' = inner_stack /\ ready' = ready
    BY <1>4, OuterErrorFacts
  <2>2. s \notin in_outer_stack
    BY <2>1 DEF Begun
  <2>3. Deeper(outer_stack, outer_stack') /\ DOMAIN outer_stack' = DOMAIN outer_stack
    BY <1>0, <2>1, MarkedDeeper
  <2>4. PathIs(outer_stack', in_outer_stack')
    BY <1>0, <2>1, <2>2, <2>3, PathDeeper
  <2>5. StatesOf(outer_stack') = StatesOf(outer_stack)
    BY <2>3, StatesMarked
  <2> QED BY <1>0, <2>1, <2>4, <2>5
<1>5. CASE OuterRevisit
  <2> DEFINE top == outer_stack[Len(outer_stack)]
  <2>1. /\ outer_stack # <<>> /\ top.type = "Successors" /\ top.state \in States
        /\ in_outer_stack' = in_outer_stack
        /\ Popped(outer_stack, outer_stack')
        /\ inner_stack' = <<StackItem(top.state, FALSE, FALSE)>> \/ inner_stack' = inner_stack
        /\ ready' = ready
    BY <1>5, OuterRevisitFacts
  <2>2. top.state \in ready
    BY <2>1, OnStack
  <2>3. StatesOf(outer_stack') \subseteq StatesOf(outer_stack) /\ PathIs(outer_stack', in_outer_stack')
    BY <1>0, <2>1, PathPopped
  <2> HIDE DEF top
  <2>4. StatesOf(inner_stack') \subseteq ready
    BY <1>0, <2>1, <2>2, FreshFacts
  <2> QED BY <1>0, <2>1, <2>3, <2>4
<1>6. CASE OuterEnd \/ InnerEnd
  <2>1. UNCHANGED <<ready, in_outer_stack, outer_stack, inner_stack>>
    BY <1>6 DEF OuterEnd, InnerEnd, flags
  <2> QED BY <1>0, <2>1
<1>7. CASE InnerBacktrack \/ InnerSkip
  <2>1. /\ inner_stack # <<>> /\ Popped(inner_stack, inner_stack')
        /\ UNCHANGED <<ready, in_outer_stack, outer_stack>>
    BY <1>7, InnerPopFacts DEF flags
  <2>2. StatesOf(inner_stack') \subseteq StatesOf(inner_stack)
    BY <1>0, <2>1, PoppedStates
  <2> QED BY <1>0, <2>1, <2>2
<1>8. CASE InnerFound
  <2>1. /\ inner_stack # <<>> /\ IsMarked(inner_stack, inner_stack')
        /\ UNCHANGED <<ready, in_outer_stack, outer_stack>>
    BY <1>8, InnerFoundFacts
  <2>2. StatesOf(inner_stack') = StatesOf(inner_stack)
    BY <1>0, <2>1, MarkedDeeper, StatesMarked
  <2> QED BY <1>0, <2>1, <2>2
<1>9. CASE InnerExpand
  <2>1. PICK s \in States :
           /\ inner_stack # <<>> /\ pc = "inner"
           /\ stored' = stored \cup Succs(s) /\ ready' = stored'
           /\ Grown(inner_stack, inner_stack', s)
           /\ UNCHANGED <<outer_stack, in_outer_stack>>
    BY <1>9, InnerExpandFacts
  <2>2. ready = stored
    BY <2>1 DEF Begun
  <2>3. StatesOf(inner_stack') = StatesOf(inner_stack) \cup Succs(s)
    BY <1>0, <2>1, StatesGrown
  <2> QED BY <1>0, <2>1, <2>2, <2>3
<1> QED BY <1>1, <1>2, <1>3, <1>4, <1>5, <1>6, <1>7, <1>8, <1>9 DEF Step
-----------------------------------------------------------------------------
(* The stacks are paths *)

LEMMA RootedPopped ==
  ASSUME NEW st \in Seq(Items), st # <<>>, NEW q, Popped(st, q), NEW r, Rooted(st, r)
  PROVE  Rooted(q, r)
<1>1. \A i \in DOMAIN q : i \in DOMAIN st /\ i # Len(st) /\ q[i] = st[i] /\ i < Len(st) /\ i \in Nat
  BY PoppedItems
<1>2. Expanded(q) = Expanded(st) \ {Len(st)} /\ Len(st) \in Nat
  BY PoppedExpanded, StackFacts
<1>3. SUFFICES ASSUME NEW i \in DOMAIN q
               PROVE  \/ q[i].state = r /\ ~q[i].accepting /\ ~q[i].error /\ i = 1
                      \/ i # 1 /\ \E j \in DOMAIN q : Below(q, i, j) /\ EdgeTo(q[j].state, q[i])
  BY DEF Rooted
<1>4. CASE st[i].state = r /\ ~st[i].accepting /\ ~st[i].error /\ i = 1
  BY <1>1, <1>4
<1>5. CASE i # 1 /\ \E j \in DOMAIN st : Below(st, i, j) /\ EdgeTo(st[j].state, st[i])
  <2>1. PICK j \in DOMAIN st : Below(st, i, j) /\ EdgeTo(st[j].state, st[i])
    BY <1>5
  <2>2. j < i /\ j \in Nat /\ i < Len(st) /\ i \in Nat
    BY <1>1, <2>1, StackFacts DEF Below
  <2>3. j # Len(st)
    BY <1>2, <2>2
  <2>4. j \in DOMAIN q /\ q[j] = st[j] /\ q[i] = st[i] /\ j \in Expanded(q)
    BY <1>1, <1>2, <2>1, <2>3, PoppedItems DEF Below
  <2>5. Below(q, i, j)
    BY <1>2, <2>1, <2>4 DEF Below
  <2> QED BY <1>5, <2>1, <2>4, <2>5
<1> QED BY <1>1, <1>3, <1>4, <1>5 DEF Rooted

\* The items that were there before.
LEMMA RootedKept ==
  ASSUME NEW st, NEW q, Deeper(st, q), NEW r, Rooted(st, r), NEW i \in DOMAIN st
  PROVE  \/ q[i].state = r /\ ~q[i].accepting /\ ~q[i].error /\ i = 1
         \/ i # 1 /\ \E j \in DOMAIN q : Below(q, i, j) /\ EdgeTo(q[j].state, q[i])
<1>1. /\ \A k \in DOMAIN st : /\ k \in DOMAIN q /\ q[k].state = st[k].state /\ k <= Len(st)
                              /\ q[k].accepting = st[k].accepting /\ q[k].error = st[k].error
      /\ Expanded(q) = Expanded(st) \cup {Len(st)} /\ DOMAIN st \subseteq Nat /\ Len(st) \in Nat
  BY StackFacts DEF Deeper
<1>2. CASE st[i].state = r /\ ~st[i].accepting /\ ~st[i].error /\ i = 1
  BY <1>1, <1>2
<1>3. CASE i # 1 /\ \E j \in DOMAIN st : Below(st, i, j) /\ EdgeTo(st[j].state, st[i])
  <2>1. PICK j \in DOMAIN st : Below(st, i, j) /\ EdgeTo(st[j].state, st[i])
    BY <1>3
  <2>2. i <= Len(st) /\ i \in Nat /\ q[j].state = st[j].state /\ j \in DOMAIN q
    BY <1>1
  <2>3. \A k \in Expanded(q) : k < i => k \in Expanded(st)
    BY <1>1, <2>2
  <2>4. Below(q, i, j)
    BY <1>1, <2>1, <2>3 DEF Below
  <2>5. EdgeTo(q[j].state, q[i])
    BY <1>1, <2>1, <2>2 DEF EdgeTo
  <2> QED BY <1>3, <2>2, <2>4, <2>5
<1> QED BY <1>2, <1>3 DEF Rooted

LEMMA RootedMarked ==
  ASSUME NEW st \in Seq(Items), st # <<>>, NEW q, IsMarked(st, q), NEW r, Rooted(st, r)
  PROVE  Rooted(q, r)
<1>1. Deeper(st, q) /\ DOMAIN q = DOMAIN st
  BY MarkedDeeper
<1> QED BY <1>1, RootedKept DEF Rooted

LEMMA RootedGrown ==
  ASSUME TypeOK, NEW st \in Seq(Items), st # <<>>, NEW s \in States, st[Len(st)].state = s,
         NEW q, Grown(st, q, s), NEW r, Rooted(st, r)
  PROVE  Rooted(q, r)
<1>1. Deeper(st, q)
  BY GrownDeeper
<1>2. /\ Len(st) \in Nat /\ Len(st) >= 1 /\ Len(st) \in DOMAIN st /\ Len(st) \in DOMAIN q /\ q[Len(st)].state = s
      /\ Expanded(q) = Expanded(st) \cup {Len(st)} /\ \A k \in Expanded(st) : k <= Len(st)
  BY <1>1, StackFacts DEF Deeper, Expanded
<1>3. SUFFICES ASSUME NEW i \in DOMAIN q
               PROVE  \/ q[i].state = r /\ ~q[i].accepting /\ ~q[i].error /\ i = 1
                      \/ i # 1 /\ \E j \in DOMAIN q : Below(q, i, j) /\ EdgeTo(q[j].state, q[i])
  BY DEF Rooted
<1>4. CASE i \in DOMAIN st
  BY <1>1, <1>4, RootedKept
<1>5. CASE i \notin DOMAIN st
  <2>1. PICK n \in 1..Len(graph[s]) :
          i = Len(st) + n /\ q[i] = StackItem(graph[s][n].to, graph[s][n].accepting, graph[s][n].error)
    BY <1>5, GrownExpanded
  <2>2. q[i].state = graph[s][n].to /\ q[i].accepting = graph[s][n].accepting /\ q[i].error = graph[s][n].error
    BY <2>1 DEF StackItem
  <2>3. graph[s][n] \in EdgesOf(s)
    BY EdgeFacts
  <2>4. EdgeTo(q[Len(st)].state, q[i])
    BY <1>2, <2>2, <2>3 DEF EdgeTo
  <2>5. Len(st) < i /\ i # 1
    BY <1>2, <2>1
  <2>6. Below(q, i, Len(st))
    BY <1>2, <2>5 DEF Below
  <2> QED BY <1>2, <2>4, <2>5, <2>6
<1> QED BY <1>4, <1>5

LEMMA RootedFresh ==
  ASSUME NEW s \in States
  PROVE  Rooted(<<StackItem(s, FALSE, FALSE)>>, s)
<1> DEFINE q == <<StackItem(s, FALSE, FALSE)>>
<1>1. DOMAIN q = {1} /\ q[1].state = s /\ ~q[1].accepting /\ ~q[1].error
  BY FreshFacts
<1> HIDE DEF q
<1>2. Rooted(q, s)
  BY <1>1 DEF Rooted
<1> QED BY <1>2 DEF q

\* Every step keeps the stacks paths.
LEMMA RootedStep ==
  ASSUME TypeOK, Begun, StacksRooted, Step, graph' = graph
  PROVE  StacksRooted'
<1>0. /\ outer_stack \in Seq(Items) /\ inner_stack \in Seq(Items)
      /\ Rooted(outer_stack, Initial) /\ (inner_stack # <<>> => Rooted(inner_stack, seed))
  BY DEF TypeOK, StacksRooted
<1>a. SUFFICES Rooted(outer_stack', Initial) /\ (inner_stack' # <<>> => Rooted(inner_stack', seed'))
  BY DEF StacksRooted, Rooted, Below, EdgeTo, EdgesOf, Expanded
<1>1. CASE Start
  BY <1>0, <1>1, RootedFresh, NestedDFSAssumption DEF Start
<1>2. CASE OuterBacktrack \/ OuterRevisit
  <2> DEFINE top == outer_stack[Len(outer_stack)]
  <2>1. /\ outer_stack # <<>> /\ top.state \in States
        /\ Popped(outer_stack, outer_stack')
        /\ \/ inner_stack' = <<StackItem(top.state, FALSE, FALSE)>> /\ seed' = top.state
           \/ inner_stack' = inner_stack /\ seed' = seed
    BY <1>2, OuterBacktrackFacts, OuterRevisitFacts
  <2>2. Rooted(outer_stack', Initial)
    BY <1>0, <2>1, RootedPopped
  <2> HIDE DEF top
  <2> QED BY <1>0, <2>1, <2>2, RootedFresh
<1>3. CASE OuterExpand
  <2>1. PICK s \in States :
           /\ outer_stack # <<>>
           /\ outer_stack[Len(outer_stack)].state = s
           /\ Grown(outer_stack, outer_stack', s)
           /\ UNCHANGED <<inner_stack, seed>>
    BY <1>3, OuterExpandFacts
  <2>2. Rooted(outer_stack', Initial)
    BY <1>0, <2>1, RootedGrown
  <2> QED BY <1>0, <2>1, <2>2
<1>4. CASE OuterError
  <2>1. /\ outer_stack # <<>> /\ IsMarked(outer_stack, outer_stack') /\ UNCHANGED <<inner_stack, seed>>
    BY <1>4, OuterErrorFacts
  <2> QED BY <1>0, <2>1, RootedMarked
<1>6. CASE OuterEnd \/ InnerEnd
  BY <1>0, <1>6 DEF OuterEnd, InnerEnd
<1>7. CASE InnerBacktrack \/ InnerSkip
  <2>1. /\ inner_stack # <<>> /\ Popped(inner_stack, inner_stack') /\ UNCHANGED <<outer_stack, seed>>
    BY <1>7, InnerPopFacts
  <2> QED BY <1>0, <2>1, RootedPopped
<1>8. CASE InnerFound
  <2>1. /\ inner_stack # <<>> /\ IsMarked(inner_stack, inner_stack') /\ UNCHANGED <<outer_stack, seed>>
    BY <1>8, InnerFoundFacts
  <2> QED BY <1>0, <2>1, RootedMarked
<1>9. CASE InnerExpand
  <2>1. PICK s \in States :
           /\ inner_stack # <<>> /\ inner_stack[Len(inner_stack)].state = s
           /\ Grown(inner_stack, inner_stack', s)
           /\ UNCHANGED <<outer_stack, seed>>
    BY <1>9, InnerExpandFacts
  <2> QED BY <1>0, <2>1, RootedGrown
<1> QED BY <1>1, <1>2, <1>3, <1>4, <1>6, <1>7, <1>8, <1>9 DEF Step
-----------------------------------------------------------------------------
(* Reachability *)

LEMMA ReachSelf ==
  ASSUME NEW s \in States
  PROVE  s \in Reachable(s)
BY DEF Reachable

LEMMA ReachEdge ==
  ASSUME TypeOK, NEW s, NEW t \in Reachable(s), NEW u \in Succs(t)
  PROVE  u \in Reachable(s)
<1>1. t \in States /\ u \in States
  BY EdgeFacts DEF Reachable
<1>2. ASSUME NEW C \in SUBSET States, s \in C, Closed(C)
      PROVE  u \in C
  <2>1. t \in C
    BY <1>2 DEF Reachable
  <2> QED BY <1>2, <2>1 DEF Closed
<1> QED BY <1>1, <1>2 DEF Reachable

LEMMA ReachTrans ==
  ASSUME NEW s, NEW t \in Reachable(s), NEW u \in Reachable(t)
  PROVE  u \in Reachable(s)
BY DEF Reachable

LEMMA ReachClosed ==
  ASSUME NEW C \in SUBSET States, Closed(C), NEW s \in C
  PROVE  Reachable(s) \subseteq C
BY DEF Reachable

\* The graph never changes, and with it nothing that is said of it.
LEMMA SameGraph ==
  ASSUME graph' = graph
  PROVE  /\ InnerInv' <=> (Searching' => Nested(pc', outer_visited', in_outer_stack', inner_visited', inner_stack', seed'))
         /\ OuterInv' <=> (Searching' => Outer(pc', outer_visited', in_outer_stack', outer_stack', seed'))
         /\ Paths' <=> /\ Leads(outer_stack')
                       /\ StatesOf(inner_stack') \subseteq Reachable(seed')
                       /\ pc' = "inner" => Accepts(outer_stack', seed')
                       /\ ~Searching' => pc' = "done" /\ (AcceptingCycle \/ ErrorEdge)
<1>1. InnerInv' <=> (Searching' => Nested(pc', outer_visited', in_outer_stack', inner_visited', inner_stack', seed'))
  BY DEF InnerInv, Nested, WaitsIn, StatesOf, Succs
<1>2. OuterInv' <=> (Searching' => Outer(pc', outer_visited', in_outer_stack', outer_stack', seed'))
  BY DEF OuterInv, Outer, Handled, Pending, EdgesOf, Reachable, Closed, Succs, Expanded, StatesOf
<1>3. Leads(outer_stack)' <=> Leads(outer_stack')
  BY DEF Leads, Reachable, Closed, Succs, Expanded
<1>4. (StatesOf(inner_stack) \subseteq Reachable(seed))' <=> StatesOf(inner_stack') \subseteq Reachable(seed')
  BY DEF StatesOf, Reachable, Closed, Succs
<1>5. Accepts(outer_stack, seed)' <=> Accepts(outer_stack', seed')
  BY DEF Accepts, EdgesOf, Expanded
<1>6. (AcceptingCycle \/ ErrorEdge)' <=> (AcceptingCycle \/ ErrorEdge)
  BY DEF AcceptingCycle, ErrorEdge, EdgesOf, Reachable, Closed, Succs
<1> QED BY <1>1, <1>2, <1>3, <1>4, <1>5, <1>6 DEF Paths
-----------------------------------------------------------------------------
(* The nested searches *)

LEMMA GoalFacts ==
  ASSUME NEW s, NEW tail
  PROVE  [NoTrace EXCEPT !.goal = s, !.tail = tail].goal = s
<1> DEFINE p == [NoTrace EXCEPT !.goal = s]
           q == [p EXCEPT !.tail = tail]
<1>1. p.goal = s
  BY DEF NoTrace
<1>2. DOMAIN p = {"tail", "lasso_inner", "lasso_outer", "goal"}
  BY DEF NoTrace
<1> HIDE DEF p
<1>3. q.goal = p.goal
  BY <1>2
<1>4. q = [NoTrace EXCEPT !.goal = s, !.tail = tail]
  BY DEF p
<1> QED BY <1>1, <1>3, <1>4

\* A step after which nothing is found yet.
LEMMA StillSearching ==
  ASSUME TypeOK, InnerInv, Paths, Step, Searching'
  PROVE  Searching /\ ~OuterError /\ ~InnerFound /\ pc # "done"
         /\ (OuterRevisit => ~(OuterTop.accepting /\ OuterTop.state \in in_outer_stack))
<1>1. ~OuterError
  <2>1. SUFFICES ASSUME OuterError PROVE FALSE
    OBVIOUS
  <2> DEFINE s == outer_stack[Len(outer_stack)].state
  <2>2. s \in States /\ counterexample' = [NoTrace EXCEPT !.goal = s, !.tail = Pop(outer_stack)]
    BY <2>1, OuterErrorFacts
  <2> HIDE DEF s
  <2>3. counterexample'.goal = s
    BY <2>2, GoalFacts
  <2> QED BY <2>2, <2>3, NestedDFSAssumption DEF Searching
<1>2. ~InnerFound
  <2>1. SUFFICES ASSUME InnerFound PROVE FALSE
    OBVIOUS
  <2>2. pc = "inner" /\ counterexample'.goal = seed
    BY <2>1, InnerFoundFacts
  <2>3. seed \in States
    BY <2>2 DEF Paths, InnerInv, Nested, TypeOK
  <2> QED BY <2>2, <2>3, NestedDFSAssumption DEF Searching
<1>3. OuterRevisit => ~(OuterTop.accepting /\ OuterTop.state \in in_outer_stack)
  <2>1. SUFFICES ASSUME OuterRevisit, OuterTop.accepting, OuterTop.state \in in_outer_stack PROVE FALSE
    OBVIOUS
  <2> DEFINE s == outer_stack[Len(outer_stack)].state
  <2>2. s = OuterTop.state /\ outer_stack[Len(outer_stack)] = OuterTop
    BY DEF OuterTop, Top
  <2>3. s \in States /\ counterexample' = [NoTrace EXCEPT !.goal = s, !.tail = Pop(outer_stack)]
    BY <2>1, <2>2, OuterRevisitFacts
  <2> HIDE DEF s
  <2>4. counterexample'.goal = s
    BY <2>3, GoalFacts
  <2> QED BY <2>3, <2>4, NestedDFSAssumption DEF Searching
<1>4. counterexample' = counterexample
  <2>1. CASE Start
    BY <2>1 DEF Start
  <2>2. CASE OuterBacktrack
    BY <2>2 DEF OuterBacktrack
  <2>3. CASE OuterExpand
    BY <2>3 DEF OuterExpand
  <2>4. CASE OuterRevisit
    <3>1. outer_stack[Len(outer_stack)] = OuterTop
      BY DEF OuterTop, Top
    <3> QED BY <1>3, <2>4, <3>1, OuterRevisitFacts
  <2>5. CASE OuterEnd \/ InnerEnd \/ InnerBacktrack \/ InnerSkip
    BY <2>5 DEF OuterEnd, InnerEnd, InnerBacktrack, InnerSkip
  <2>6. CASE InnerExpand
    BY <2>6 DEF InnerExpand
  <2> QED BY <1>1, <1>2, <2>1, <2>2, <2>3, <2>4, <2>5, <2>6 DEF Step
<1>5. Searching
  BY <1>4 DEF Searching
<1>6. pc # "done"
  <2>1. OuterBacktrack \/ OuterExpand \/ OuterRevisit => pc = "outer"
    BY OuterBacktrackFacts, OuterExpandFacts, OuterRevisitFacts DEF OuterExpand, OuterAt, InOuter
  <2>2. InnerBacktrack \/ InnerSkip \/ InnerExpand => pc = "inner"
    BY InnerPopFacts DEF InnerExpand, InnerAt, InInner
  <2>3. Start \/ OuterEnd \/ InnerEnd => pc \in {"start", "outer", "inner"}
    BY DEF Start, OuterEnd, InnerEnd
  <2> QED BY <1>1, <1>2, <2>1, <2>2, <2>3 DEF Step
<1> QED BY <1>1, <1>2, <1>3, <1>5, <1>6

LEMMA WaitsPopped ==
  ASSUME NEW st \in Seq(Items), st # <<>>, NEW q, Popped(st, q), NEW t, WaitsIn(st, t),
         st[Len(st)].type = "DfsStack" \/ st[Len(st)].state # t
  PROVE  WaitsIn(q, t)
<1>1. PICK k \in DOMAIN st : st[k].state = t /\ st[k].type = "Successors"
  BY DEF WaitsIn
<1>2. k # Len(st)
  BY <1>1
<1>3. k \in DOMAIN q
  BY <1>1, <1>2, PoppedItems
<1>4. q[k] = st[k]
  <2>1. \A i \in DOMAIN q : q[i] = st[i]
    BY PoppedItems, Zenon
  <2> QED BY <1>3, <2>1
<1> QED BY <1>1, <1>3, <1>4 DEF WaitsIn

LEMMA WaitsGrown ==
  ASSUME TypeOK, NEW st \in Seq(Items), st # <<>>, NEW s \in States, st[Len(st)].state = s,
         NEW q, Grown(st, q, s), NEW t, (WaitsIn(st, t) /\ t # s) \/ t \in Succs(s)
  PROVE  WaitsIn(q, t)
<1>1. CASE WaitsIn(st, t) /\ t # s
  <2>1. PICK k \in DOMAIN st : st[k].state = t /\ st[k].type = "Successors"
    BY <1>1 DEF WaitsIn
  <2>2. k # Len(st)
    BY <1>1, <2>1
  <2>3. k \in DOMAIN q /\ q[k] = st[k]
    BY <2>1, <2>2, GrownDeeper DEF Deeper
  <2> QED BY <2>1, <2>3 DEF WaitsIn
<1>2. CASE t \in Succs(s)
  <2>1. PICK n \in 1..Len(graph[s]) : graph[s][n].to = t
    BY <1>2, EdgeFacts DEF Succs
  <2>2. q[Len(st) + n] = StackItem(graph[s][n].to, graph[s][n].accepting, graph[s][n].error)
    BY DEF Grown
  <2>3. q[Len(st) + n].state = t /\ q[Len(st) + n].type = "Successors"
    BY <2>1, <2>2 DEF StackItem
  <2>4. Len(st) + n \in DOMAIN q
    BY StackFacts, EdgeFacts DEF Grown
  <2> QED BY <2>3, <2>4 DEF WaitsIn
<1> QED BY <1>1, <1>2
\* What the nested searches saw stays closed, up to what waits, and behind the outer search.
LEMMA NestedStep ==
  ASSUME Inv, Step, TypeOK', Begun', graph' = graph
  PROVE  InnerInv'
<1>a. SUFFICES ASSUME Searching'
               PROVE  Nested(pc', outer_visited', in_outer_stack', inner_visited', inner_stack', seed')
  BY SameGraph
<1>b. TypeOK /\ Begun /\ FlagMatchesStack /\ InnerInv /\ OuterInv /\ Paths
  BY DEF Inv
<1>c. /\ Searching /\ ~OuterError /\ ~InnerFound
      /\ (OuterRevisit => ~(OuterTop.accepting /\ OuterTop.state \in in_outer_stack))
  BY <1>a, <1>b, StillSearching
<1>0. /\ pc # "inner" => inner_stack = <<>>
      /\ StatesOf(inner_stack) \subseteq outer_visited
      /\ inner_visited \subseteq outer_visited \ in_outer_stack
      /\ \A r \in inner_visited : \A t \in Succs(r) : t \in inner_visited \/ WaitsIn(inner_stack, t)
      /\ pc = "inner" => seed \in outer_visited /\ (seed \in inner_visited \/ WaitsIn(inner_stack, seed))
      /\ inner_stack \in Seq(Items) /\ outer_stack \in Seq(Items)
  BY <1>b, <1>c DEF InnerInv, Nested, TypeOK
<1>d. \A t : ~WaitsIn(<<>>, t)
  BY DEF WaitsIn
<1>e. StatesOf(<<>>) = {}
  BY DEF StatesOf
<1>f. ASSUME NEW s \in States
      PROVE  WaitsIn(<<StackItem(s, FALSE, FALSE)>>, s) /\ StatesOf(<<StackItem(s, FALSE, FALSE)>>) = {s}
  <2> DEFINE q == <<StackItem(s, FALSE, FALSE)>>
  <2>1. DOMAIN q = {1} /\ q[1].state = s /\ q[1].type = "Successors" /\ StatesOf(q) = {s}
    BY FreshFacts
  <2> HIDE DEF q
  <2>2. WaitsIn(q, s) /\ StatesOf(q) = {s}
    BY <2>1 DEF WaitsIn
  <2> QED BY <2>2 DEF q
<1>1. CASE Start
  <2>1. pc' = "outer" /\ inner_stack' = <<>> /\ inner_visited' = {}
    BY <1>1, <1>b DEF Start, init_state, Begun, TypeOK
  <2> QED BY <2>1, <1>e DEF Nested
<1>2. CASE OuterBacktrack \/ OuterRevisit
  <2> DEFINE top == outer_stack[Len(outer_stack)]
  <2>1. /\ pc = "outer" /\ top.state \in States /\ top.state \in outer_visited
        /\ in_outer_stack' \subseteq in_outer_stack
        /\ \/ inner_stack' = <<StackItem(top.state, FALSE, FALSE)>> /\ seed' = top.state /\ pc' = "inner"
           \/ inner_stack' = inner_stack /\ pc' = "outer"
        /\ UNCHANGED <<outer_visited, inner_visited>>
    <3>1. CASE OuterBacktrack
      <4>1. outer_stack # <<>> /\ top.type = "DfsStack"
        BY <1>b, <3>1, OuterBacktrackFacts
      <4>2. Len(outer_stack) \in Expanded(outer_stack)
        BY <1>0, <4>1, StackFacts DEF Expanded
      <4>3. top.state \in outer_visited
        BY <1>b, <4>2 DEF FlagMatchesStack, Begun
      <4> QED BY <1>b, <3>1, <4>3, OuterBacktrackFacts
    <3>2. CASE OuterRevisit
      <4>1. top = OuterTop
        BY DEF OuterTop, Top
      <4>2. ~(top.accepting /\ top.state \in in_outer_stack)
        BY <1>c, <3>2, <4>1
      <4> QED BY <1>b, <3>2, <4>2, OuterRevisitFacts
    <3> QED BY <1>2, <3>1, <3>2
  <2> HIDE DEF top
  <2>2. inner_stack = <<>> /\ inner_visited' \subseteq outer_visited' \ in_outer_stack'
        /\ \A r \in inner_visited' : \A t \in Succs(r) : t \in inner_visited'
    BY <1>0, <1>d, <2>1
  <2>3. CASE inner_stack' = <<StackItem(top.state, FALSE, FALSE)>> /\ seed' = top.state /\ pc' = "inner"
    <3>1. WaitsIn(inner_stack', seed') /\ StatesOf(inner_stack') = {seed'} /\ seed' \in outer_visited'
      BY <1>f, <2>1, <2>3
    <3> QED BY <2>2, <2>3, <3>1 DEF Nested
  <2>4. CASE inner_stack' = inner_stack /\ pc' = "outer"
    BY <1>e, <2>2, <2>4 DEF Nested
  <2> QED BY <2>1, <2>3, <2>4
<1>3. CASE OuterExpand
  <2>1. PICK s \in States :
           /\ pc = "outer" /\ pc' = "outer"
           /\ s \notin outer_visited
           /\ outer_visited' = outer_visited \cup {s} /\ in_outer_stack' = in_outer_stack \cup {s}
           /\ inner_visited' = inner_visited /\ inner_stack' = inner_stack
    BY <1>b, <1>3, OuterExpandFacts
  <2>2. inner_stack' = <<>> /\ inner_visited' \subseteq outer_visited' \ in_outer_stack'
        /\ \A r \in inner_visited' : \A t \in Succs(r) : t \in inner_visited'
    BY <1>0, <1>d, <2>1
  <2> QED BY <1>e, <2>1, <2>2 DEF Nested
<1>6. CASE OuterEnd \/ InnerEnd
  <2>1. /\ inner_stack = <<>> /\ pc' \in {"outer", "done"}
        /\ UNCHANGED <<outer_visited, inner_visited, in_outer_stack, inner_stack>>
    BY <1>0, <1>6 DEF OuterEnd, InnerEnd, flags
  <2> QED BY <1>0, <2>1 DEF Nested
<1>7. CASE InnerBacktrack \/ InnerSkip
  <2> DEFINE top == inner_stack[Len(inner_stack)]
  <2>1. /\ inner_stack # <<>> /\ pc = "inner" /\ pc' = "inner" /\ seed' = seed
        /\ top.type = "DfsStack" \/ top.state \in inner_visited
        /\ Popped(inner_stack, inner_stack')
        /\ UNCHANGED <<outer_visited, inner_visited, in_outer_stack>>
    BY <1>b, <1>7, InnerPopFacts DEF flags
  <2>2. StatesOf(inner_stack') \subseteq StatesOf(inner_stack)
    BY <1>0, <2>1, PoppedStates
  <2>3. ASSUME NEW t, t \in inner_visited \/ WaitsIn(inner_stack, t)
        PROVE  t \in inner_visited \/ WaitsIn(inner_stack', t)
    BY <1>0, <2>1, <2>3, WaitsPopped
  <2> HIDE DEF top
  <2> QED BY <1>0, <2>1, <2>2, <2>3 DEF Nested
<1>9. CASE InnerExpand
  <2>1. PICK s \in States :
           /\ inner_stack # <<>> /\ pc = "inner" /\ pc' = "inner" /\ seed' = seed
           /\ inner_stack[Len(inner_stack)].state = s
           /\ s \notin in_outer_stack
           /\ outer_visited' = outer_visited /\ in_outer_stack' = in_outer_stack
           /\ inner_visited' = inner_visited \cup {s}
           /\ Grown(inner_stack, inner_stack', s)
    BY <1>b, <1>9, InnerExpandFacts
  <2>2. s \in outer_visited
    BY <1>0, <2>1, StackFacts DEF StatesOf
  <2>3. Succs(s) \subseteq outer_visited
    <3>1. ASSUME NEW t \in Succs(s)
          PROVE  t \in outer_visited
      <4>1. PICK e \in EdgesOf(s) : e.to = t
        BY <1>b, EdgeFacts
      <4>2. Handled(outer_visited, s, e)
        BY <1>b, <1>c, <2>1, <2>2 DEF OuterInv, Outer
      <4> QED BY <4>1, <4>2 DEF Handled
    <3> QED BY <3>1
  <2>4. StatesOf(inner_stack') = StatesOf(inner_stack) \cup Succs(s)
    BY <1>0, <1>b, <2>1, StatesGrown
  <2>5. ASSUME NEW t, t \in inner_visited \/ WaitsIn(inner_stack, t) \/ t \in Succs(s)
        PROVE  t \in inner_visited' \/ WaitsIn(inner_stack', t)
    <3>1. CASE t = s \/ t \in inner_visited
      BY <2>1, <3>1
    <3>2. CASE t # s /\ t \notin inner_visited
      <4>1. (WaitsIn(inner_stack, t) /\ t # s) \/ t \in Succs(s)
        BY <2>5, <3>2
      <4>2. WaitsIn(inner_stack', t)
        BY <1>0, <1>b, <2>1, <4>1, WaitsGrown
      <4> QED BY <4>2
    <3> QED BY <3>1, <3>2
  <2>6. \A r \in inner_visited' : \A t \in Succs(r) : t \in inner_visited' \/ WaitsIn(inner_stack', t)
    BY <1>0, <2>1, <2>5
  <2>7. /\ StatesOf(inner_stack') \subseteq outer_visited'
        /\ inner_visited' \subseteq outer_visited' \ in_outer_stack'
    BY <1>0, <2>1, <2>2, <2>3, <2>4
  <2>8. seed' \in outer_visited' /\ (seed' \in inner_visited' \/ WaitsIn(inner_stack', seed'))
    BY <1>0, <2>1, <2>5
  <2> QED BY <2>1, <2>6, <2>7, <2>8 DEF Nested
<1> QED BY <1>c, <1>1, <1>2, <1>3, <1>6, <1>7, <1>9 DEF Step
-----------------------------------------------------------------------------
(* The outer search *)

LEMMA PendingKept ==
  ASSUME NEW st, NEW q, Deeper(st, q), NEW i, NEW e, Pending(st, i, e)
  PROVE  Pending(q, i, e)
<1>1. PICK k \in DOMAIN st : k > i /\ st[k].state = e.to /\ st[k].accepting = e.accepting
  BY DEF Pending
<1>2. k \in DOMAIN q /\ q[k].state = st[k].state /\ q[k].accepting = st[k].accepting
  BY <1>1 DEF Deeper
<1> QED BY <1>1, <1>2 DEF Pending

LEMMA PendingGrown ==
  ASSUME TypeOK, NEW st \in Seq(Items), st # <<>>, NEW s \in States, NEW q, Grown(st, q, s), NEW e \in EdgesOf(s)
  PROVE  Pending(q, Len(st), e)
<1>1. PICK n \in 1..Len(graph[s]) : e = graph[s][n]
  BY EdgeFacts
<1>2. q[Len(st) + n] = StackItem(graph[s][n].to, graph[s][n].accepting, graph[s][n].error)
  BY DEF Grown
<1>3. q[Len(st) + n].state = e.to /\ q[Len(st) + n].accepting = e.accepting
  BY <1>1, <1>2 DEF StackItem
<1>4. Len(st) + n \in DOMAIN q /\ Len(st) + n > Len(st)
  BY StackFacts, EdgeFacts DEF Grown
<1> QED BY <1>3, <1>4 DEF Pending

LEMMA PendingPopped ==
  ASSUME NEW st \in Seq(Items), st # <<>>, NEW q, Popped(st, q), NEW i, NEW e, Pending(st, i, e)
  PROVE  \/ Pending(q, i, e)
         \/ st[Len(st)].state = e.to /\ st[Len(st)].accepting = e.accepting /\ i # Len(st)
<1>1. PICK k \in DOMAIN st : k > i /\ st[k].state = e.to /\ st[k].accepting = e.accepting
  BY DEF Pending
<1>2. CASE k = Len(st)
  <2>1. k # i
    BY <1>1, StackFacts
  <2> QED BY <1>1, <1>2, <2>1
<1>3. CASE k # Len(st)
  <2>1. k \in DOMAIN q
    BY <1>1, <1>3, PoppedItems
  <2>2. q[k] = st[k]
    BY <2>1, PoppedItems
  <2> QED BY <1>1, <2>1, <2>2 DEF Pending
<1> QED BY <1>2, <1>3

\* Nothing waits above the top.
LEMMA NothingAbove ==
  ASSUME NEW st \in Seq(Items), st # <<>>, NEW e
  PROVE  ~Pending(st, Len(st), e)
<1>1. \A k \in DOMAIN st : ~(k > Len(st))
  BY StackFacts
<1> QED BY <1>1 DEF Pending

\* A nested search that ends without a result: what it saw is closed, and the states on
\* the outer path are not in it.
LEMMA NestedEnd ==
  ASSUME Inv, Searching, InnerEnd, NEW r \in in_outer_stack
  PROVE  seed \in outer_visited /\ r \notin Reachable(seed)
<1>1. pc = "inner" /\ inner_stack = <<>>
  BY DEF InnerEnd
<1>2. /\ inner_visited \subseteq outer_visited \ in_outer_stack
      /\ \A x \in inner_visited : \A t \in Succs(x) : t \in inner_visited \/ WaitsIn(inner_stack, t)
      /\ seed \in outer_visited /\ (seed \in inner_visited \/ WaitsIn(inner_stack, seed))
      /\ inner_visited \subseteq States
  BY <1>1 DEF Inv, InnerInv, Nested, TypeOK
<1>3. \A t : ~WaitsIn(inner_stack, t)
  BY <1>1 DEF WaitsIn
<1>4. Closed(inner_visited) /\ seed \in inner_visited
  BY <1>2, <1>3 DEF Closed
<1>5. Reachable(seed) \subseteq inner_visited
  BY <1>2, <1>4, ReachClosed
<1> QED BY <1>2, <1>5
\* No step loses an edge: it was dealt with, or waits, or a nested search is about it.
LEMMA OuterStep ==
  ASSUME Inv, Step, TypeOK', Begun', graph' = graph
  PROVE  OuterInv'
<1>a. SUFFICES ASSUME Searching'
               PROVE  Outer(pc', outer_visited', in_outer_stack', outer_stack', seed')
  BY SameGraph
<1>b. TypeOK /\ Begun /\ FlagMatchesStack /\ InnerInv /\ OuterInv /\ Paths
  BY DEF Inv
<1>c. /\ Searching /\ ~OuterError /\ ~InnerFound /\ pc # "done"
      /\ (OuterRevisit => ~(OuterTop.accepting /\ OuterTop.state \in in_outer_stack))
  BY <1>a, <1>b, StillSearching
<1>0. /\ \A r \in outer_visited \ in_outer_stack : \A e \in EdgesOf(r) : Handled(outer_visited, r, e)
      /\ \A i \in Expanded(outer_stack) : \A e \in EdgesOf(outer_stack[i].state) :
           \/ Handled(outer_visited, outer_stack[i].state, e) \/ Pending(outer_stack, i, e)
           \/ pc = "inner" /\ e.to = seed
      /\ pc # "start" => Initial \in outer_visited \cup StatesOf(outer_stack)
      /\ outer_stack \in Seq(Items)
  BY <1>b, <1>c DEF OuterInv, Outer, TypeOK
<1>1. CASE Start
  <2>1. /\ pc' = "outer" /\ outer_stack' = <<StackItem(Initial, FALSE, FALSE)>> /\ outer_visited' = {}
    BY <1>1, <1>b DEF Start, init_state, Begun, TypeOK
  <2>2. Expanded(outer_stack') = {} /\ StatesOf(outer_stack') = {Initial}
    BY <2>1, FreshFacts, NestedDFSAssumption
  <2> QED BY <2>1, <2>2 DEF Outer
<1>2. CASE OuterBacktrack \/ OuterRevisit
  <2> DEFINE top == outer_stack[Len(outer_stack)]
             s == top.state
  <2>1. /\ pc = "outer" /\ outer_stack # <<>> /\ top \in Items /\ s \in outer_visited
        /\ Popped(outer_stack, outer_stack')
        /\ \/ top.type = "DfsStack" /\ in_outer_stack' = in_outer_stack \ {s}
           \/ top.type = "Successors" /\ in_outer_stack' = in_outer_stack
        /\ \/ top.accepting /\ seed' = s /\ pc' = "inner"
           \/ ~top.accepting /\ pc' = "outer"
        /\ outer_visited' = outer_visited
    <3>1. CASE OuterBacktrack
      <4>1. outer_stack # <<>> /\ top.type = "DfsStack"
        BY <1>b, <3>1, OuterBacktrackFacts
      <4>2. Len(outer_stack) \in Expanded(outer_stack)
        BY <1>0, <4>1, StackFacts DEF Expanded
      <4>3. s \in outer_visited
        BY <1>b, <4>2 DEF FlagMatchesStack, Begun
      <4> QED BY <1>b, <3>1, <4>3, OuterBacktrackFacts
    <3>2. CASE OuterRevisit
      <4>1. top = OuterTop
        BY DEF OuterTop, Top
      <4>2. ~(top.accepting /\ s \in in_outer_stack)
        BY <1>c, <3>2, <4>1
      <4> QED BY <1>b, <3>2, <4>2, OuterRevisitFacts
    <3> QED BY <1>2, <3>1, <3>2
  <2>a. \A i \in DOMAIN outer_stack' : outer_stack'[i] = outer_stack[i]
    <3>1. outer_stack \in Seq(Items) /\ outer_stack # <<>> /\ Popped(outer_stack, outer_stack')
      BY <1>0, <2>1
    <3> QED BY <3>1, PoppedItems, Zenon
  <2>2. \A e \in EdgesOf(s) : top.type = "DfsStack" => Handled(outer_visited, s, e)
    <3>1. SUFFICES ASSUME NEW e \in EdgesOf(s), top.type = "DfsStack" PROVE Handled(outer_visited, s, e)
      OBVIOUS
    <3>2. Len(outer_stack) \in Expanded(outer_stack)
      BY <1>0, <2>1, <3>1, StackFacts DEF Expanded
    <3>3. ~Pending(outer_stack, Len(outer_stack), e)
      BY <1>0, <2>1, NothingAbove
    <3> QED BY <1>0, <2>1, <3>1, <3>2, <3>3
  <2>3. \A r \in outer_visited' \ in_outer_stack' : \A e \in EdgesOf(r) : Handled(outer_visited', r, e)
    <3> HIDE DEF top, s
    <3> QED BY <1>0, <2>1, <2>2
  <2>4. ASSUME NEW i \in Expanded(outer_stack'), NEW e \in EdgesOf(outer_stack'[i].state)
        PROVE  \/ Handled(outer_visited', outer_stack'[i].state, e) \/ Pending(outer_stack', i, e)
               \/ pc' = "inner" /\ e.to = seed'
    <3>1. i \in DOMAIN outer_stack' /\ i \in Expanded(outer_stack)
      BY <1>0, <2>1, PoppedExpanded DEF Expanded
    <3>2. outer_stack'[i] = outer_stack[i]
      BY <2>a, <3>1
    <3>3. Handled(outer_visited, outer_stack[i].state, e) \/ Pending(outer_stack, i, e)
      BY <1>0, <2>1, <3>1, <3>2
    <3>4. CASE Handled(outer_visited, outer_stack[i].state, e)
      BY <2>1, <3>2, <3>4
    <3>5. CASE Pending(outer_stack, i, e)
      <4>1. Pending(outer_stack', i, e) \/ (s = e.to /\ top.accepting = e.accepting)
        BY <1>0, <2>1, <3>5, PendingPopped
      <4>2. CASE s = e.to /\ top.accepting = e.accepting
        BY <2>1, <4>2 DEF Handled
      <4> QED BY <4>1, <4>2
    <3> QED BY <3>3, <3>4, <3>5
  <2>5. Initial \in outer_visited' \cup StatesOf(outer_stack')
    <3>1. CASE Initial \in outer_visited
      BY <2>1, <3>1
    <3>2. CASE Initial \notin outer_visited
      <4>1. PICK k \in DOMAIN outer_stack : outer_stack[k].state = Initial
        BY <1>0, <2>1, <3>2 DEF StatesOf
      <4>2. k # Len(outer_stack)
        BY <2>1, <3>2, <4>1
      <4>3. k \in DOMAIN outer_stack'
        BY <1>0, <2>1, <4>1, <4>2, PoppedItems
      <4>4. outer_stack'[k] = outer_stack[k]
        BY <2>a, <4>3
      <4> QED BY <4>1, <4>3, <4>4 DEF StatesOf
    <3> QED BY <3>1, <3>2
  <2>6. pc' # "done"
    BY <2>1
  <2> HIDE DEF top, s
  <2> QED BY <2>3, <2>4, <2>5, <2>6 DEF Outer
<1>3. CASE OuterExpand
  <2>1. PICK s \in States :
           /\ outer_stack # <<>> /\ pc = "outer" /\ pc' = "outer"
           /\ outer_stack[Len(outer_stack)].state = s
           /\ s \notin outer_visited
           /\ outer_visited' = outer_visited \cup {s} /\ in_outer_stack' = in_outer_stack \cup {s}
           /\ Grown(outer_stack, outer_stack', s)
    BY <1>b, <1>3, OuterExpandFacts
  <2>2. Deeper(outer_stack, outer_stack')
    BY <1>0, <1>b, <2>1, GrownDeeper
  <2>3. ASSUME NEW r, NEW e, Handled(outer_visited, r, e)
        PROVE  Handled(outer_visited', r, e)
    BY <2>1, <2>3 DEF Handled
  <2>4. \A r \in outer_visited' \ in_outer_stack' : \A e \in EdgesOf(r) : Handled(outer_visited', r, e)
    BY <1>0, <2>1, <2>3
  <2>5. ASSUME NEW i \in Expanded(outer_stack'), NEW e \in EdgesOf(outer_stack'[i].state)
        PROVE  Handled(outer_visited', outer_stack'[i].state, e) \/ Pending(outer_stack', i, e)
    <3>1. CASE i \in Expanded(outer_stack)
      <4>1. outer_stack'[i].state = outer_stack[i].state
        BY <2>2, <3>1 DEF Deeper, Expanded
      <4>2. Handled(outer_visited, outer_stack[i].state, e) \/ Pending(outer_stack, i, e)
        BY <1>0, <2>1, <3>1, <4>1
      <4> QED BY <2>2, <2>3, <4>1, <4>2, PendingKept
    <3>2. CASE i = Len(outer_stack)
      <4>1. outer_stack'[i].state = s
        BY <2>1, <2>2, <3>2 DEF Deeper
      <4>2. e \in EdgesOf(s)
        BY <4>1
      <4>3. Pending(outer_stack', Len(outer_stack), e)
        BY <1>0, <1>b, <2>1, <4>2, PendingGrown
      <4> QED BY <3>2, <4>3
    <3> QED BY <2>2, <3>1, <3>2 DEF Deeper
  <2>6. Initial \in outer_visited' \cup StatesOf(outer_stack')
    <3>1. StatesOf(outer_stack') = StatesOf(outer_stack) \cup Succs(s)
      BY <1>0, <1>b, <2>1, StatesGrown
    <3> QED BY <1>0, <2>1, <3>1
  <2> QED BY <2>1, <2>4, <2>5, <2>6 DEF Outer
<1>4. CASE OuterEnd
  <2>1. /\ pc = "outer" /\ outer_stack = <<>>
        /\ UNCHANGED <<outer_visited, in_outer_stack, outer_stack, seed>>
    BY <1>4 DEF OuterEnd, flags
  <2> QED BY <1>0, <2>1 DEF Outer
<1>6. CASE InnerEnd
  <2>1. /\ pc = "inner" /\ pc' = "outer"
        /\ UNCHANGED <<outer_visited, in_outer_stack, outer_stack, seed>>
    BY <1>6 DEF InnerEnd, flags
  <2>2. ASSUME NEW i \in Expanded(outer_stack), NEW e \in EdgesOf(outer_stack[i].state), e.to = seed
        PROVE  Handled(outer_visited, outer_stack[i].state, e)
    <3>1. outer_stack[i].state \in in_outer_stack
      BY <1>b DEF FlagMatchesStack
    <3> QED BY <1>6, <1>c, <2>2, <3>1, NestedEnd DEF Handled
  <2>3. \A i \in Expanded(outer_stack) : \A e \in EdgesOf(outer_stack[i].state) :
          Handled(outer_visited, outer_stack[i].state, e) \/ Pending(outer_stack, i, e)
    BY <1>0, <2>2
  <2> QED BY <1>0, <2>1, <2>3 DEF Outer
<1>7. CASE InnerBacktrack \/ InnerSkip \/ InnerExpand
  <2>1. /\ pc = "inner" /\ pc' = "inner"
        /\ UNCHANGED <<outer_visited, in_outer_stack, outer_stack, seed>>
    BY <1>b, <1>7, InnerPopFacts, InnerExpandFacts DEF flags
  <2> QED BY <1>0, <2>1 DEF Outer
<1> QED BY <1>c, <1>1, <1>2, <1>3, <1>4, <1>6, <1>7 DEF Step
-----------------------------------------------------------------------------
(* What is found is there *)

LEMMA LeadsPopped ==
  ASSUME NEW st \in Seq(Items), st # <<>>, NEW q, Popped(st, q), Leads(st)
  PROVE  Leads(q)
<1>1. \A i \in DOMAIN q : i \in DOMAIN st /\ q[i] = st[i]
  BY PoppedItems, Zenon
<1>2. \A i \in Expanded(q) : i \in Expanded(st) /\ i \in DOMAIN q
  BY PoppedExpanded DEF Expanded
<1> QED BY <1>1, <1>2 DEF Leads

LEMMA LeadsMarked ==
  ASSUME NEW st \in Seq(Items), st # <<>>, NEW q, IsMarked(st, q), Leads(st)
  PROVE  Leads(q)
<1>1. Deeper(st, q) /\ DOMAIN q = DOMAIN st
  BY MarkedDeeper
<1>2. \A k \in DOMAIN q : k \in DOMAIN st /\ q[k].state = st[k].state /\ k <= Len(st)
  BY <1>1 DEF Deeper
<1>3. ASSUME NEW i \in Expanded(q), NEW k \in DOMAIN q, i <= k
      PROVE  q[k].state \in Reachable(q[i].state)
  <2>1. CASE i \in Expanded(st)
    BY <1>2, <1>3, <2>1 DEF Leads, Expanded
  <2>2. CASE i = Len(st)
    <3>1. k = i
      BY <1>2, <1>3, <1>1, <2>2, StackFacts
    <3>2. q[k].state = st[k].state /\ st[k] \in Items
      BY <1>1, <1>2, StackFacts
    <3>3. q[k].state \in States
      BY <3>2 DEF Items
    <3> QED BY <3>1, <3>3, ReachSelf
  <2> QED BY <1>1, <2>1, <2>2 DEF Deeper
<1> QED BY <1>2, <1>3 DEF Leads

LEMMA LeadsGrown ==
  ASSUME TypeOK, NEW st \in Seq(Items), st # <<>>, NEW s \in States, st[Len(st)].state = s,
         NEW q, Grown(st, q, s), Leads(st)
  PROVE  Leads(q)
<1>1. Deeper(st, q) /\ Len(st) \in Nat /\ Len(st) \in DOMAIN st /\ DOMAIN st = 1..Len(st)
  BY GrownDeeper, StackFacts
<1>2. ASSUME NEW k \in DOMAIN q
      PROVE  \/ k \in DOMAIN st /\ q[k].state = st[k].state
             \/ k > Len(st) /\ q[k].state \in Succs(s)
  <2>1. CASE k \in DOMAIN st
    BY <1>1, <2>1 DEF Deeper
  <2>2. CASE k \notin DOMAIN st
    <3>1. PICK n \in 1..Len(graph[s]) :
            k = Len(st) + n /\ q[k] = StackItem(graph[s][n].to, graph[s][n].accepting, graph[s][n].error)
      BY <2>2, GrownExpanded
    <3>2. q[k].state = graph[s][n].to
      BY <3>1 DEF StackItem
    <3>3. graph[s][n].to \in Succs(s)
      BY EdgeFacts
    <3>4. k > Len(st)
      BY <1>1, <3>1
    <3> QED BY <3>2, <3>3, <3>4
  <2> QED BY <2>1, <2>2
<1>3. s \in Reachable(Initial)
  BY <1>1 DEF Leads
<1>4. ASSUME NEW k \in DOMAIN q
      PROVE  q[k].state \in Reachable(Initial)
  <2>1. CASE k \in DOMAIN st /\ q[k].state = st[k].state
    BY <2>1 DEF Leads
  <2>2. CASE q[k].state \in Succs(s)
    BY <1>3, <2>2, ReachEdge
  <2> QED BY <1>2, <2>1, <2>2
<1>5. ASSUME NEW i \in Expanded(q), NEW k \in DOMAIN q, i <= k
      PROVE  q[k].state \in Reachable(q[i].state)
  <2>1. i \in DOMAIN st /\ q[i].state = st[i].state /\ i <= Len(st)
    BY <1>1 DEF Deeper, Expanded
  <2>2. s \in Reachable(st[i].state)
    <3>1. CASE i \in Expanded(st)
      BY <1>1, <2>1, <3>1 DEF Leads
    <3>2. CASE i = Len(st)
      BY <3>2, ReachSelf
    <3> QED BY <1>1, <3>1, <3>2 DEF Deeper
  <2>3. CASE k \in DOMAIN st /\ q[k].state = st[k].state
    <3>1. CASE i \in Expanded(st)
      BY <1>5, <2>1, <2>3, <3>1 DEF Leads
    <3>2. CASE i = Len(st)
      <4>1. k = Len(st)
        BY <1>1, <1>5, <2>3, <3>2
      <4> QED BY <2>1, <2>2, <2>3, <3>2, <4>1
    <3> QED BY <1>1, <3>1, <3>2 DEF Deeper
  <2>4. CASE q[k].state \in Succs(s)
    BY <2>1, <2>2, <2>4, ReachEdge
  <2> QED BY <1>2, <2>3, <2>4
<1> QED BY <1>4, <1>5 DEF Leads

LEMMA ReachGrown ==
  ASSUME TypeOK, NEW st \in Seq(Items), st # <<>>, NEW s \in States, st[Len(st)].state = s,
         NEW q, Grown(st, q, s), NEW r, StatesOf(st) \subseteq Reachable(r)
  PROVE  StatesOf(q) \subseteq Reachable(r)
<1>1. StatesOf(q) = StatesOf(st) \cup Succs(s)
  BY StatesGrown
<1>2. s \in Reachable(r)
  BY StackFacts DEF StatesOf
<1> QED BY <1>1, <1>2, ReachEdge

\* The edge that the top of a stack stands for.
LEMMA TopEdge ==
  ASSUME NEW st \in Seq(Items), st # <<>>, NEW r, Rooted(st, r),
         st[Len(st)].accepting \/ st[Len(st)].error
  PROVE  \E j \in Expanded(st) :
           /\ Below(st, Len(st), j) /\ j # Len(st)
           /\ EdgeTo(st[j].state, st[Len(st)])
<1>1. Len(st) \in DOMAIN st
  BY StackFacts
<1>2. PICK j \in DOMAIN st : Below(st, Len(st), j) /\ EdgeTo(st[j].state, st[Len(st)])
  BY <1>1 DEF Rooted
<1>3. j \in Expanded(st) /\ j # Len(st)
  BY <1>2, StackFacts DEF Below
<1> QED BY <1>2, <1>3

\* The accepting edge that a nested search is about.
LEMMA AcceptsTop ==
  ASSUME NEW st \in Seq(Items), st # <<>>, NEW r, Rooted(st, r), st[Len(st)].accepting,
         NEW q, Popped(st, q)
  PROVE  Accepts(q, st[Len(st)].state)
<1>1. PICK j \in Expanded(st) :
        Below(st, Len(st), j) /\ j # Len(st) /\ EdgeTo(st[j].state, st[Len(st)])
  BY TopEdge
<1>2. Expanded(q) = Expanded(st) \ {Len(st)}
  BY PoppedExpanded
<1>3. j \in Expanded(q) /\ j \in DOMAIN q
  BY <1>1, <1>2 DEF Expanded
<1>4. q[j] = st[j]
  <2>1. \A i \in DOMAIN q : q[i] = st[i]
    BY PoppedItems, Zenon
  <2> QED BY <1>3, <2>1
<1>5. \A k \in Expanded(q) : k \in Expanded(st) /\ k < Len(st)
  BY <1>2, PoppedItems DEF Expanded
<1>6. \A k \in Expanded(q) : k <= j
  BY <1>1, <1>5 DEF Below
<1>7. PICK e \in EdgesOf(st[j].state) : e.accepting = st[Len(st)].accepting /\ e.to = st[Len(st)].state
  BY <1>1 DEF EdgeTo
<1> QED BY <1>3, <1>4, <1>6, <1>7 DEF Accepts
\* An accepting edge that leads back to the path of the outer search, or to a state from
\* which that path is reachable, closes a cycle.
LEMMA ClosesCycle ==
  ASSUME TypeOK, NEW st \in Seq(Items), Leads(st), NEW j \in Expanded(st), NEW e \in EdgesOf(st[j].state),
         e.accepting, NEW i \in Expanded(st), i <= j, st[i].state \in Reachable(e.to)
  PROVE  AcceptingCycle
<1>1. j \in DOMAIN st /\ st[j].state \in Reachable(Initial) /\ st[j].state \in Reachable(st[i].state)
  BY DEF Leads, Expanded
<1>2. st[j].state \in Reachable(e.to)
  BY <1>1, ReachTrans
<1> QED BY <1>1, <1>2 DEF AcceptingCycle

LEMMA PathsStep ==
  ASSUME Inv, Step, TypeOK', Begun', graph' = graph
  PROVE  Paths'
<1>b. TypeOK /\ Begun /\ FlagMatchesStack /\ StacksRooted /\ InnerInv /\ OuterInv /\ Paths
  BY DEF Inv
<1>0. /\ outer_stack \in Seq(Items) /\ inner_stack \in Seq(Items) /\ Leads(outer_stack)
      /\ StatesOf(inner_stack) \subseteq Reachable(seed)
      /\ pc = "inner" => Accepts(outer_stack, seed)
      /\ ~Searching => pc = "done"
      /\ Rooted(outer_stack, Initial) /\ (inner_stack # <<>> => Rooted(inner_stack, seed))
  BY <1>b DEF Paths, TypeOK, StacksRooted
<1>a. SUFFICES /\ Leads(outer_stack')
               /\ StatesOf(inner_stack') \subseteq Reachable(seed')
               /\ pc' = "inner" => Accepts(outer_stack', seed')
               /\ ~Searching' => pc' = "done" /\ (AcceptingCycle \/ ErrorEdge)
  BY SameGraph
<1>c. ASSUME NEW s \in States
      PROVE  StatesOf(<<StackItem(s, FALSE, FALSE)>>) \subseteq Reachable(s)
  BY FreshFacts, ReachSelf
<1>1. CASE Start
  <2>1. /\ pc' = "outer" /\ outer_stack' = <<StackItem(Initial, FALSE, FALSE)>>
        /\ inner_stack' = inner_stack /\ seed' = seed /\ counterexample' = counterexample /\ pc = "start"
    BY <1>1 DEF Start
  <2> DEFINE q == <<StackItem(Initial, FALSE, FALSE)>>
  <2>2. Initial \in States
    BY NestedDFSAssumption
  <2>3. DOMAIN q = {1} /\ q[1].state = Initial /\ Expanded(q) = {}
    BY <2>2, FreshFacts
  <2> HIDE DEF q
  <2>4. Leads(q)
    BY <2>2, <2>3, ReachSelf DEF Leads
  <2>5. Leads(outer_stack')
    BY <2>1, <2>4 DEF q
  <2> QED BY <1>0, <2>1, <2>5 DEF Searching
<1>2. CASE OuterBacktrack \/ OuterRevisit
  <2> DEFINE top == outer_stack[Len(outer_stack)]
             s == top.state
  <2>1. /\ pc = "outer" /\ outer_stack # <<>> /\ s \in States
        /\ Popped(outer_stack, outer_stack')
        /\ \/ /\ top.accepting /\ seed' = s /\ pc' = "inner" /\ counterexample' = counterexample
              /\ inner_stack' = <<StackItem(s, FALSE, FALSE)>>
           \/ UNCHANGED <<seed, inner_stack, pc, counterexample>>
           \/ /\ top.accepting /\ top.type = "Successors" /\ s \in in_outer_stack
              /\ pc' = "done" /\ UNCHANGED <<seed, inner_stack>>
    BY <1>b, <1>2, OuterBacktrackFacts, OuterRevisitFacts
  <2>2. Leads(outer_stack')
    BY <1>0, <2>1, LeadsPopped
  <2>3. CASE top.accepting /\ seed' = s /\ pc' = "inner" /\ counterexample' = counterexample
             /\ inner_stack' = <<StackItem(s, FALSE, FALSE)>>
    <3>1. Accepts(outer_stack', s)
      BY <1>0, <2>1, <2>3, AcceptsTop
    <3>2. StatesOf(inner_stack') \subseteq Reachable(s)
      BY <1>c, <2>1, <2>3
    <3> HIDE DEF s, top
    <3> QED BY <1>0, <2>1, <2>2, <2>3, <3>1, <3>2 DEF Searching
  <2>4. CASE UNCHANGED <<seed, inner_stack, pc, counterexample>>
    BY <1>0, <2>1, <2>2, <2>4 DEF Searching
  <2>5. CASE /\ top.accepting /\ top.type = "Successors" /\ s \in in_outer_stack
             /\ pc' = "done" /\ UNCHANGED <<seed, inner_stack>>
    <3>1. PICK j \in Expanded(outer_stack) :
            /\ Below(outer_stack, Len(outer_stack), j) /\ j # Len(outer_stack)
            /\ EdgeTo(outer_stack[j].state, top)
      BY <1>0, <2>1, <2>5, TopEdge
    <3>2. PICK e \in EdgesOf(outer_stack[j].state) : e.to = s /\ e.accepting
      BY <2>5, <3>1 DEF EdgeTo
    <3>3. PICK i \in Expanded(outer_stack) : outer_stack[i].state = s
      BY <1>b, <2>5 DEF FlagMatchesStack
    <3>4. i # Len(outer_stack) /\ i \in DOMAIN outer_stack
      BY <2>5, <3>3 DEF Expanded
    <3>5. i < Len(outer_stack)
      BY <1>0, <3>4, StackFacts
    <3>6. i <= j
      BY <3>1, <3>3, <3>5 DEF Below
    <3>7. outer_stack[i].state \in Reachable(e.to)
      BY <2>1, <3>2, <3>3, ReachSelf
    <3>8. AcceptingCycle
      BY <1>0, <1>b, <3>2, <3>6, <3>7, ClosesCycle
    <3> QED BY <1>0, <2>2, <2>5, <3>8
  <2> QED BY <2>1, <2>3, <2>4, <2>5
<1>3. CASE OuterExpand
  <2>1. PICK s \in States :
           /\ outer_stack # <<>> /\ pc = "outer" /\ pc' = "outer"
           /\ outer_stack[Len(outer_stack)].state = s
           /\ Grown(outer_stack, outer_stack', s)
           /\ UNCHANGED <<inner_stack, seed, counterexample>>
    BY <1>b, <1>3, OuterExpandFacts
  <2>2. Leads(outer_stack')
    BY <1>0, <1>b, <2>1, LeadsGrown
  <2> QED BY <1>0, <2>1, <2>2 DEF Searching
<1>4. CASE OuterError
  <2> DEFINE top == outer_stack[Len(outer_stack)]
  <2>1. /\ outer_stack # <<>> /\ pc' = "done" /\ top.error
        /\ IsMarked(outer_stack, outer_stack')
        /\ UNCHANGED <<inner_stack, seed>>
    BY <1>b, <1>4, OuterErrorFacts
  <2>2. Leads(outer_stack')
    BY <1>0, <2>1, LeadsMarked
  <2>3. PICK j \in Expanded(outer_stack) : EdgeTo(outer_stack[j].state, top)
    BY <1>0, <2>1, TopEdge
  <2>4. PICK e \in EdgesOf(outer_stack[j].state) : e.error
    BY <2>1, <2>3 DEF EdgeTo
  <2>5. outer_stack[j].state \in Reachable(Initial)
    BY <1>0 DEF Leads, Expanded
  <2>6. ErrorEdge
    BY <2>4, <2>5 DEF ErrorEdge
  <2> QED BY <1>0, <2>1, <2>2, <2>6
<1>6. CASE OuterEnd \/ InnerEnd
  <2>1. /\ pc' \in {"outer", "done"} /\ pc # "done"
        /\ UNCHANGED <<outer_stack, inner_stack, seed, counterexample>>
    BY <1>6 DEF OuterEnd, InnerEnd
  <2> QED BY <1>0, <2>1 DEF Searching
<1>7. CASE InnerBacktrack \/ InnerSkip
  <2>1. /\ inner_stack # <<>> /\ pc = "inner" /\ pc' = "inner" /\ Popped(inner_stack, inner_stack')
        /\ UNCHANGED <<outer_stack, seed, counterexample>>
    BY <1>b, <1>7, InnerPopFacts
  <2>2. StatesOf(inner_stack') \subseteq StatesOf(inner_stack)
    BY <1>0, <2>1, PoppedStates
  <2> QED BY <1>0, <2>1, <2>2 DEF Searching
<1>8. CASE InnerFound
  <2> DEFINE top == inner_stack[Len(inner_stack)]
             s == top.state
  <2>1. /\ inner_stack # <<>> /\ pc = "inner" /\ pc' = "done" /\ s \in States
        /\ (top.accepting /\ s = seed) \/ s \in in_outer_stack
        /\ IsMarked(inner_stack, inner_stack')
        /\ UNCHANGED <<outer_stack, seed>>
    BY <1>b, <1>8, InnerFoundFacts
  <2>2. StatesOf(inner_stack') = StatesOf(inner_stack)
    BY <1>0, <2>1, MarkedDeeper, StatesMarked
  <2>3. PICK j \in Expanded(outer_stack) :
          /\ \A k \in Expanded(outer_stack) : k <= j
          /\ \E e \in EdgesOf(outer_stack[j].state) : e.accepting /\ e.to = seed
    BY <1>0, <2>1 DEF Accepts
  <2>4. PICK e \in EdgesOf(outer_stack[j].state) : e.accepting /\ e.to = seed
    BY <2>3
  <2>5. s \in Reachable(seed)
    BY <1>0, <2>1, StackFacts DEF StatesOf
  <2>6. AcceptingCycle
    <3>1. CASE s \in in_outer_stack
      <4>1. PICK i \in Expanded(outer_stack) : outer_stack[i].state = s
        BY <1>b, <3>1 DEF FlagMatchesStack
      <4>2. i <= j /\ outer_stack[i].state \in Reachable(e.to)
        BY <2>3, <2>4, <2>5, <4>1
      <4> QED BY <1>0, <1>b, <2>4, <4>2, ClosesCycle
    <3>2. CASE top.accepting /\ s = seed
      <4>1. PICK l \in Expanded(inner_stack) : EdgeTo(inner_stack[l].state, top)
        BY <1>0, <2>1, <3>2, TopEdge
      <4>2. PICK f \in EdgesOf(inner_stack[l].state) : f.accepting /\ f.to = seed
        BY <3>2, <4>1 DEF EdgeTo
      <4> DEFINE x == inner_stack[l].state
      <4>3. x \in Reachable(seed)
        BY <1>0 DEF StatesOf, Expanded
      <4>4. outer_stack[j].state \in Reachable(Initial)
        BY <1>0 DEF Leads, Expanded
      <4>5. seed \in Succs(outer_stack[j].state)
        BY <2>4 DEF EdgesOf, Succs
      <4>6. seed \in Reachable(Initial)
        BY <1>b, <4>4, <4>5, ReachEdge
      <4>7. x \in Reachable(Initial)
        BY <4>3, <4>6, ReachTrans
      <4> HIDE DEF x
      <4>8. f \in EdgesOf(x)
        BY DEF x
      <4> QED BY <4>2, <4>3, <4>7, <4>8 DEF AcceptingCycle
    <3> QED BY <2>1, <3>1, <3>2
  <2> QED BY <1>0, <2>1, <2>2, <2>6
<1>9. CASE InnerExpand
  <2>1. PICK s \in States :
           /\ inner_stack # <<>> /\ pc = "inner" /\ pc' = "inner"
           /\ inner_stack[Len(inner_stack)].state = s
           /\ Grown(inner_stack, inner_stack', s)
           /\ UNCHANGED <<outer_stack, seed, counterexample>>
    BY <1>b, <1>9, InnerExpandFacts
  <2>2. StatesOf(inner_stack') \subseteq Reachable(seed)
    BY <1>0, <1>b, <2>1, ReachGrown
  <2> QED BY <1>0, <2>1, <2>2 DEF Searching
<1> QED BY <1>1, <1>2, <1>3, <1>4, <1>6, <1>7, <1>8, <1>9 DEF Step
-----------------------------------------------------------------------------
(* The theorems *)

LEMMA InvStep ==
  ASSUME Inv, [Next]_vars
  PROVE  Inv'
<1>1. CASE Step
  <2>1. TypeOK' /\ Begun' /\ graph' = graph
    BY <1>1, TypeStep DEF Inv
  <2>2. FlagMatchesStack'
    BY <1>1, <2>1, FlagStep DEF Inv
  <2>3. StacksRooted'
    BY <1>1, <2>1, RootedStep DEF Inv
  <2>4. InnerInv'
    BY <1>1, <2>1, NestedStep
  <2>5. OuterInv'
    BY <1>1, <2>1, OuterStep
  <2>6. Paths'
    BY <1>1, <2>1, PathsStep
  <2> QED BY <2>1, <2>2, <2>3, <2>4, <2>5, <2>6 DEF Inv
<1>2. CASE UNCHANGED vars
  <2>1. UNCHANGED <<graph, pc, stored, ready, outer_visited, inner_visited, in_outer_stack,
                    outer_stack, inner_stack, seed, counterexample>>
    BY <1>2 DEF vars, flags
  <2>2. TypeOK' /\ Begun' /\ FlagMatchesStack'
    BY <2>1 DEF Inv, TypeOK, Begun, FlagMatchesStack, StatesOf, Expanded
  <2>3. StacksRooted'
    BY <2>1 DEF Inv, StacksRooted, Rooted, Below, EdgeTo, EdgesOf, Expanded
  <2>4. Searching' <=> Searching
    BY <2>1 DEF Searching
  <2>5. InnerInv' /\ OuterInv' /\ Paths'
    BY <2>1, <2>4, SameGraph DEF Inv, InnerInv, OuterInv, Paths
  <2> QED BY <2>2, <2>3, <2>5 DEF Inv
<1> QED BY <1>1, <1>2 DEF Next, Finished

THEOREM NestedDFSInv == Spec => []Inv
<1>1. Init => Inv
  BY InitInv
<1>2. Inv /\ [Next]_vars => Inv'
  BY InvStep
<1> QED BY <1>1, <1>2, PTL DEF Spec

\* The flag in_outer_stack is the path of the outer search, each state of it once, and
\* no state is on a stack before its flags were made.
THEOREM FlagsMatchStack == Spec => []FlagMatchesStack
<1>1. Inv => FlagMatchesStack
  BY DEF Inv
<1> QED BY <1>1, NestedDFSInv, PTL

\* An item that waits on a stack is a successor of the last expanded item below it.
THEOREM StacksArePaths == Spec => []StacksThreaded
<1>1. ASSUME NEW st \in Seq(Items), NEW r, Rooted(st, r)
      PROVE  Threaded(st)
  <2>1. SUFFICES ASSUME NEW i \in DOMAIN st \ {1}
                 PROVE  \E j \in Expanded(st) :
                          /\ j < i /\ \A k \in Expanded(st) : k < i => k <= j
                          /\ \E e \in EdgesOf(st[j].state) : e.to = st[i].state /\ e.accepting = st[i].accepting
    BY DEF Threaded
  <2>2. PICK j \in DOMAIN st : Below(st, i, j) /\ EdgeTo(st[j].state, st[i])
    BY <1>1, <2>1 DEF Rooted
  <2> QED BY <2>2 DEF Below, EdgeTo
<1>2. Threaded(<<>>)
  BY DEF Threaded
<1>3. Inv => StacksThreaded
  <2>1. SUFFICES ASSUME Inv PROVE StacksThreaded
    OBVIOUS
  <2>2. Threaded(outer_stack)
    BY <1>1, <2>1 DEF Inv, TypeOK, StacksRooted
  <2>3. Threaded(inner_stack)
    <3>1. CASE inner_stack = <<>>
      BY <1>2, <3>1
    <3>2. CASE inner_stack # <<>>
      BY <1>1, <2>1, <3>2 DEF Inv, TypeOK, StacksRooted
    <3> QED BY <3>1, <3>2
  <2> QED BY <2>2, <2>3 DEF StacksThreaded
<1> QED BY <1>3, NestedDFSInv, PTL

\* A search that ends without a result went through everything that is reachable.
LEMMA Explored ==
  ASSUME Inv, Searching, pc = "done"
  PROVE  /\ Reachable(Initial) \subseteq outer_visited
         /\ \A r \in outer_visited : \A e \in EdgesOf(r) : Handled(outer_visited, r, e)
<1>1. outer_stack = <<>> /\ outer_visited \subseteq States
  BY DEF Inv, OuterInv, Outer, TypeOK
<1>2. Expanded(outer_stack) = {} /\ StatesOf(outer_stack) = {}
  BY <1>1 DEF Expanded, StatesOf
<1>3. in_outer_stack = {}
  BY <1>2 DEF Inv, FlagMatchesStack
<1>4. \A r \in outer_visited : \A e \in EdgesOf(r) : Handled(outer_visited, r, e)
  BY <1>3 DEF Inv, OuterInv, Outer
<1>5. Closed(outer_visited)
  <2>1. SUFFICES ASSUME NEW r \in outer_visited, NEW t \in Succs(r) PROVE t \in outer_visited
    BY DEF Closed
  <2>2. PICK e \in EdgesOf(r) : e.to = t
    BY <1>1, EdgeFacts DEF Inv
  <2> QED BY <1>4, <2>2 DEF Handled
<1>6. Initial \in outer_visited
  BY <1>2 DEF Inv, OuterInv, Outer
<1> QED BY <1>1, <1>4, <1>5, <1>6, ReachClosed

\* The search misses no accepting cycle.
THEOREM NoAcceptingCycleMissed == Spec => []NoCycleMissed
<1>1. Inv => NoCycleMissed
  <2>1. SUFFICES ASSUME Inv, pc = "done", ~_error_found, AcceptingCycle PROVE FALSE
    BY DEF NoCycleMissed
  <2>2. Searching
    BY <2>1 DEF _error_found, Searching
  <2>3. PICK s \in Reachable(Initial) : \E e \in EdgesOf(s) : e.accepting /\ s \in Reachable(e.to)
    BY <2>1 DEF AcceptingCycle
  <2>4. PICK e \in EdgesOf(s) : e.accepting /\ s \in Reachable(e.to)
    BY <2>3
  <2>5. Handled(outer_visited, s, e)
    BY <2>1, <2>2, Explored
  <2> QED BY <2>4, <2>5 DEF Handled
<1> QED BY <1>1, NestedDFSInv, PTL

\* What the search reports is there: an accepting cycle or an error edge is reachable.
THEOREM FoundIsThere == Spec => [](_error_found => AcceptingCycle \/ ErrorEdge)
<1>1. Inv => (_error_found => AcceptingCycle \/ ErrorEdge)
  BY DEF Inv, Paths, Searching, _error_found
<1> QED BY <1>1, NestedDFSInv, PTL
-----------------------------------------------------------------------------
(* Numbers and recursive functions *)

\* A set of natural numbers that is not empty has a least element.
LEMMA Smallest ==
  ASSUME NEW T \in SUBSET Nat, T # {}
  PROVE  \E x \in T : \A y \in T : x <= y
<1> DEFINE Segments == {0..(x - 1) : x \in T}
<1>1. Segments \subseteq FiniteSubsetsOf(Nat)
  <2> SUFFICES ASSUME NEW x \in T PROVE 0..(x - 1) \in FiniteSubsetsOf(Nat)
    OBVIOUS
  <2>1. IsFiniteSet(0..(x - 1)) /\ 0..(x - 1) \subseteq Nat
    BY FS_Interval
  <2> QED BY <2>1 DEF FiniteSubsetsOf
<1>2. Segments # {}
  OBVIOUS
<1> HIDE DEF Segments
<1>3. PICK X \in Segments : \A Y \in Segments : ~ (<<Y, X>> \in StrictSubsetOrdering(Nat))
  BY <1>1, <1>2, FS_StrictSubsetOrderingWellFounded, WFMin
<1>4. PICK x \in T : X = 0..(x - 1)
  BY <1>3 DEF Segments
<1>5. ASSUME NEW y \in T, y < x PROVE FALSE
  <2>1. 0..(y - 1) \in Segments
    BY DEF Segments
  <2>2. 0..(y - 1) \subseteq 0..(x - 1) /\ 0..(y - 1) # 0..(x - 1)
    <3>1. y \in 0..(x - 1) /\ y \notin 0..(y - 1)
      BY <1>5
    <3> QED BY <3>1, <1>5
  <2>3. <<0..(y - 1), X>> \in StrictSubsetOrdering(Nat)
    BY <2>2, <1>4 DEF StrictSubsetOrdering
  <2> QED BY <2>1, <2>3, <1>3
<1> QED BY <1>5

\* What holds at 0 and is handed on from each number to the next holds up to N.
LEMMA Climb ==
  ASSUME NEW N \in Nat, NEW D, NEW v, v[0] \in D, \A n \in 1..N : v[n - 1] \in D => v[n] \in D
  PROVE  \A n \in 0..N : v[n] \in D
<1> DEFINE T == {n \in 0..N : v[n] \notin D}
<1>1. ASSUME T # {} PROVE FALSE
  <2>1. PICK x \in T : \A y \in T : x <= y
    BY <1>1, Smallest, T \in SUBSET Nat
  <2>2. x \in 0..N /\ v[x] \notin D /\ x # 0
    OBVIOUS
  <2>3. x - 1 \in 0..N /\ x - 1 \notin T /\ x \in 1..N
    BY <2>1, <2>2
  <2> QED BY <2>2, <2>3
<1> QED BY <1>1

\* A function on 0..N can be defined by recursion.
Recurs(N, D, a, step) == \E g \in [0..N -> D] : g[0] = a /\ \A n \in 1..N : g[n] = step[n][g[n - 1]]

LEMMA Recursion ==
  ASSUME NEW N \in Nat, NEW D, NEW a \in D, NEW step \in [1..N -> [D -> D]]
  PROVE  Recurs(N, D, a, step)
<1> DEFINE Chain(m) == {g \in [0..m -> D] : g[0] = a /\ \A n \in 1..m : g[n] = step[n][g[n - 1]]}
           T == {m \in 0..N : Chain(m) = {}}
<1>1. ASSUME T # {} PROVE FALSE
  <2>1. PICK x \in T : \A y \in T : x <= y
    BY <1>1, Smallest, T \in SUBSET Nat
  <2>2. x \in 0..N /\ Chain(x) = {}
    OBVIOUS
  <2>3. CASE x = 0
    <3> DEFINE g == [k \in 0..0 |-> a]
    <3>1. g \in [0..0 -> D] /\ g[0] = a /\ \A n \in 1..0 : g[n] = step[n][g[n - 1]]
      OBVIOUS
    <3> HIDE DEF g
    <3> QED BY <2>2, <2>3, <3>1
  <2>4. CASE x # 0
    <3>1. x - 1 \in 0..N /\ x \in 1..N /\ ~(x <= x - 1)
      BY <2>2, <2>4
    <3>2. Chain(x - 1) # {}
      <4>1. x - 1 \notin T
        BY <2>1, <3>1
      <4> QED BY <3>1, <4>1
    <3>3. PICK g \in [0..(x - 1) -> D] : g[0] = a /\ \A n \in 1..(x - 1) : g[n] = step[n][g[n - 1]]
      BY <3>2
    <3> DEFINE h == [k \in 0..x |-> IF k = x THEN step[x][g[x - 1]] ELSE g[k]]
    <3>4. g[x - 1] \in D /\ step[x] \in [D -> D]
      BY <3>1, <3>3
    <3>5. h \in [0..x -> D]
      <4>1. \A k \in 0..x : k # x => k \in 0..(x - 1)
        BY <2>2
      <4> QED BY <3>3, <3>4, <4>1
    <3>6. h[0] = a
      BY <2>2, <2>4, <3>3
    <3>7. ASSUME NEW n \in 1..x
          PROVE  h[n] = step[n][h[n - 1]]
      <4>1. n \in 0..x /\ n - 1 \in 0..x /\ n - 1 # x
        BY <2>2
      <4>2. h[n - 1] = g[n - 1]
        BY <4>1
      <4>3. CASE n = x
        BY <4>1, <4>2, <4>3
      <4>4. CASE n # x
        <5>1. n \in 1..(x - 1)
          BY <2>2, <4>4
        <5> QED BY <3>3, <4>1, <4>2, <4>4, <5>1
      <4> QED BY <4>3, <4>4
    <3> HIDE DEF h
    <3> QED BY <2>2, <3>5, <3>6, <3>7
  <2> QED BY <2>3, <2>4
<1>2. N \notin T
  BY <1>1
<1> QED BY <1>2 DEF Recurs

-----------------------------------------------------------------------------
(* The counterexample: the fragments of the stacks, put together, are a run. *)

\* One state after the other along edges.
Walk(p) == p \in Seq(States) /\ \A k \in 1..(Len(p) - 1) : p[k + 1] \in Succs(p[k])

\* The expanded items of a fragment are joined by edges, and the first of them is in F.
Chained(f, F) ==
  \A i \in Expanded(f) :
    \/ f[i].state \in F /\ \A k \in Expanded(f) : ~(k < i)
    \/ \E j \in Expanded(f) : Below(f, i, j) /\ f[i].state \in Succs(f[j].state)

\* What is collected from the first n items of f.
Collected(f, F, n, p) ==
  /\ Walk(p)
  /\ p = <<>> => \A i \in Expanded(f) : ~(i <= n)
  /\ p # <<>> =>
       /\ p[1] \in F
       /\ \E j \in Expanded(f) :
            j <= n /\ p[Len(p)] = f[j].state /\ \A k \in Expanded(f) : k <= n => k <= j
  /\ \A i \in Expanded(f) : i <= n => \E k \in 1..Len(p) : p[k] = f[i].state

LEMMA PathRecursion ==
  ASSUME NEW f \in Seq(Items)
  PROVE  \E v : /\ v[0] = <<>> /\ Path(f) = v[Len(f)]
                /\ \A n \in 1..Len(f) :
                     v[n] = IF f[n].type = "DfsStack" THEN Append(v[n - 1], f[n].state) ELSE v[n - 1]
<1> DEFINE N == Len(f)
           D == Seq(States)
           Turn(k, d) == IF f[k].type = "DfsStack" THEN Append(d, f[k].state) ELSE d
           step == [k \in 1..N |-> [d \in D |-> Turn(k, d)]]
           P(g) == g = [n \in 0..N |-> IF n = 0 THEN <<>>
                                       ELSE IF f[n].type = "DfsStack" THEN Append(g[n - 1], f[n].state)
                                       ELSE g[n - 1]]
           v == CHOOSE g : P(g)
<1>1. N \in Nat /\ <<>> \in D
  BY StackFacts
<1>2. ASSUME NEW k \in 1..N, NEW d \in D
      PROVE  Turn(k, d) \in D
  <2>1. f[k].state \in States
    BY StackFacts DEF Items
  <2> QED BY <2>1
<1>3. step \in [1..N -> [D -> D]]
  BY <1>2
<1>4. \A k \in 1..N : \A d \in D : step[k][d] = Turn(k, d)
  OBVIOUS
<1>5. Path(f) = v[N]
  BY DEF Path
<1> HIDE DEF D, step, v, P
<1>6. PICK g \in [0..N -> D] : g[0] = <<>> /\ \A k \in 1..N : g[k] = step[k][g[k - 1]]
  <2> DEFINE none == <<>>
  <2> HIDE DEF N
  <2>1. none \in D
    BY <1>1
  <2> HIDE DEF none
  <2>2. Recurs(N, D, none, step)
    BY <1>1, <1>3, <2>1, Recursion
  <2> QED BY <2>2 DEF none, Recurs
<1>7. P(g)
  <2>1. ASSUME NEW k \in 0..N
        PROVE  g[k] = IF k = 0 THEN <<>>
                      ELSE IF f[k].type = "DfsStack" THEN Append(g[k - 1], f[k].state)
                      ELSE g[k - 1]
    <3>1. CASE k # 0
      <4>1. k \in 1..N /\ k - 1 \in 0..N
        BY <1>1, <3>1
      <4> QED BY <1>4, <1>6, <3>1, <4>1
    <3> QED BY <1>6, <3>1
  <2> QED BY <1>6, <2>1 DEF P
<1>8. P(v)
  BY <1>7 DEF v
<1>9. v[0] = <<>> /\ \A n \in 1..N :
        v[n] = IF f[n].type = "DfsStack" THEN Append(v[n - 1], f[n].state) ELSE v[n - 1]
  <2>1. v = [n \in 0..N |-> IF n = 0 THEN <<>>
                            ELSE IF f[n].type = "DfsStack" THEN Append(v[n - 1], f[n].state)
                            ELSE v[n - 1]]
    BY <1>8 DEF P
  <2> HIDE DEF N
  <2>2. 0 \in 0..N /\ \A n \in 1..N : n \in 0..N /\ n # 0
    BY <1>1
  <2> QED BY <2>1, <2>2
<1> QED BY <1>5, <1>9

\* A walk that goes on.
LEMMA WalkAppend ==
  ASSUME NEW p, Walk(p), NEW s \in States, p # <<>> => s \in Succs(p[Len(p)])
  PROVE  /\ Walk(Append(p, s)) /\ Append(p, s) # <<>>
         /\ Len(Append(p, s)) = Len(p) + 1 /\ Append(p, s)[Len(p) + 1] = s
         /\ \A k \in 1..Len(p) : Append(p, s)[k] = p[k]
<1>1. p \in Seq(States) /\ Len(p) \in Nat /\ (p # <<>> <=> Len(p) # 0)
  BY DEF Walk
<1> DEFINE q == Append(p, s)
<1>2. q \in Seq(States) /\ Len(q) = Len(p) + 1 /\ q[Len(p) + 1] = s /\ \A k \in 1..Len(p) : q[k] = p[k]
  BY <1>1
<1> HIDE DEF q
<1>3. q # <<>>
  <2>1. Len(q) # 0
    BY <1>1, <1>2
  <2> QED BY <2>1
<1>4. ASSUME NEW k \in 1..(Len(q) - 1)
      PROVE  q[k + 1] \in Succs(q[k])
  <2>1. k \in 1..Len(p) /\ q[k] = p[k]
    BY <1>1, <1>2
  <2>2. CASE k = Len(p)
    BY <1>1, <1>2, <2>1, <2>2
  <2>3. CASE k # Len(p)
    <3>1. k \in 1..(Len(p) - 1) /\ k + 1 \in 1..Len(p)
      BY <1>1, <2>1, <2>3
    <3> QED BY <1>2, <2>1, <3>1 DEF Walk
  <2> QED BY <2>2, <2>3
<1>5. Walk(q)
  BY <1>2, <1>4 DEF Walk
<1> QED BY <1>2, <1>3, <1>5 DEF q

\* One more item.
LEMMA CollectedStep ==
  ASSUME NEW f \in Seq(Items), NEW F, Chained(f, F), NEW n \in 1..Len(f), NEW p, Collected(f, F, n - 1, p)
  PROVE  Collected(f, F, n, IF f[n].type = "DfsStack" THEN Append(p, f[n].state) ELSE p)
<1>1. Len(f) \in Nat /\ DOMAIN f = 1..Len(f) /\ f[n] \in Items /\ f[n].state \in States
  BY StackFacts DEF Items
<1>2. \A i \in Expanded(f) : i \in Nat /\ i >= 1 /\ i \in 1..Len(f)
  BY <1>1 DEF Expanded
<1>3. n \in Nat /\ n >= 1
  BY <1>1
<1>4. \A i \in Expanded(f) : i <= n <=> i <= n - 1 \/ i = n
  BY <1>2, <1>3
<1>5. p \in Seq(States) /\ Len(p) \in Nat
  BY DEF Collected, Walk
<1>6. CASE f[n].type = "DfsStack"
  <2> DEFINE q == Append(p, f[n].state)
  <2>1. n \in Expanded(f)
    BY <1>1, <1>6 DEF Expanded
  <2>2. p # <<>> => f[n].state \in Succs(p[Len(p)])
    <3>1. SUFFICES ASSUME p # <<>> PROVE f[n].state \in Succs(p[Len(p)])
      OBVIOUS
    <3>2. PICK j \in Expanded(f) :
            j <= n - 1 /\ p[Len(p)] = f[j].state /\ \A k \in Expanded(f) : k <= n - 1 => k <= j
      BY <3>1 DEF Collected
    <3>3. j < n
      BY <1>2, <1>3, <3>2
    <3>4. PICK i \in Expanded(f) : Below(f, n, i) /\ f[n].state \in Succs(f[i].state)
      BY <2>1, <3>3 DEF Chained
    <3>5. i < n /\ j <= i
      BY <3>3, <3>4 DEF Below
    <3>6. i <= n - 1 /\ i <= j
      BY <1>2, <1>3, <3>2, <3>5
    <3>7. i = j
      BY <1>2, <3>5, <3>6
    <3> QED BY <3>2, <3>4, <3>7
  <2>3. /\ Walk(q) /\ q # <<>> /\ Len(q) = Len(p) + 1 /\ q[Len(p) + 1] = f[n].state
        /\ \A k \in 1..Len(p) : q[k] = p[k]
    BY <1>1, <2>2, WalkAppend DEF Collected
  <2> HIDE DEF q
  <2>4. q[1] \in F
    <3>1. CASE p = <<>>
      <4>1. \A k \in Expanded(f) : ~(k <= n - 1)
        BY <3>1 DEF Collected
      <4>2. \A k \in Expanded(f) : ~(k < n)
        BY <1>2, <1>3, <4>1
      <4>3. f[n].state \in F
        BY <2>1, <4>2 DEF Chained, Below
      <4> QED BY <2>3, <3>1, <4>3
    <3>2. CASE p # <<>>
      <4>1. 1 \in 1..Len(p)
        BY <1>5, <3>2
      <4> QED BY <2>3, <3>2, <4>1 DEF Collected
    <3> QED BY <3>1, <3>2
  <2>5. \E j \in Expanded(f) :
          j <= n /\ q[Len(q)] = f[j].state /\ \A k \in Expanded(f) : k <= n => k <= j
    BY <1>3, <2>1, <2>3
  <2>6. ASSUME NEW i \in Expanded(f), i <= n
        PROVE  \E k \in 1..Len(q) : q[k] = f[i].state
    <3>1. CASE i = n
      <4>1. Len(p) + 1 \in 1..Len(q)
        BY <1>5, <2>3
      <4> QED BY <2>3, <3>1, <4>1
    <3>2. CASE i <= n - 1
      <4>1. PICK k \in 1..Len(p) : p[k] = f[i].state
        BY <3>2 DEF Collected
      <4>2. k \in 1..Len(q)
        BY <1>5, <2>3
      <4> QED BY <2>3, <4>1, <4>2
    <3> QED BY <1>4, <2>6, <3>1, <3>2
  <2>7. Collected(f, F, n, q)
    BY <2>3, <2>4, <2>5, <2>6 DEF Collected
  <2> QED BY <1>6, <2>7 DEF q
<1>7. CASE f[n].type # "DfsStack"
  <2>1. n \notin Expanded(f)
    BY <1>7 DEF Expanded
  <2>2. \A i \in Expanded(f) : i <= n <=> i <= n - 1
    BY <1>4, <2>1
  <2>3. Collected(f, F, n, p)
    BY <2>2 DEF Collected
  <2> QED BY <1>7, <2>3
<1> QED BY <1>6, <1>7

\* The expanded items of a fragment that is chained are a walk: it starts in F, ends
\* with the last of them, and comes through all of them.
LEMMA PathFacts ==
  ASSUME NEW f \in Seq(Items), NEW F, Chained(f, F)
  PROVE  Collected(f, F, Len(f), Path(f))
<1> DEFINE N == Len(f)
<1>1. PICK v : /\ v[0] = <<>> /\ Path(f) = v[N]
               /\ \A n \in 1..N :
                    v[n] = IF f[n].type = "DfsStack" THEN Append(v[n - 1], f[n].state) ELSE v[n - 1]
  BY PathRecursion
<1> DEFINE w == [n \in 0..N |-> Collected(f, F, n, v[n])]
<1>2. N \in Nat /\ \A i \in Expanded(f) : ~(i <= 0)
  BY StackFacts DEF Expanded
<1>3. Collected(f, F, 0, <<>>)
  <2>1. Walk(<<>>)
    BY DEF Walk
  <2> QED BY <1>2, <2>1 DEF Collected
<1>4. ASSUME NEW n \in 1..N, Collected(f, F, n - 1, v[n - 1])
      PROVE  Collected(f, F, n, v[n])
  BY <1>1, <1>4, CollectedStep
<1> HIDE DEF N
<1>5. w[0] \in {TRUE} /\ \A n \in 1..N : w[n - 1] \in {TRUE} => w[n] \in {TRUE}
  <2>1. 0 \in 0..N /\ \A n \in 1..N : n \in 0..N /\ n - 1 \in 0..N
    BY <1>2
  <2>2. \A n \in 0..N : w[n] = Collected(f, F, n, v[n])
    OBVIOUS
  <2> HIDE DEF w
  <2>3. ASSUME NEW n \in 0..N, NEW p PROVE Collected(f, F, n, p) \in BOOLEAN
    BY DEF Collected
  <2>4. w[0] = TRUE
    BY <1>1, <1>3, <2>1, <2>2
  <2>5. ASSUME NEW n \in 1..N, w[n - 1] = TRUE PROVE w[n] = TRUE
    BY <1>4, <2>1, <2>2, <2>3, <2>5
  <2> QED BY <2>4, <2>5
<1> HIDE DEF w
<1>6. \A n \in 0..N : w[n] \in {TRUE}
  <2> DEFINE D == {TRUE}
  <2> HIDE DEF D
  <2>1. w[0] \in D /\ \A n \in 1..N : w[n - 1] \in D => w[n] \in D
    BY <1>5 DEF D
  <2>2. \A n \in 0..N : w[n] \in D
    BY <1>2, <2>1, Climb
  <2> QED BY <2>2 DEF D
<1>7. Collected(f, F, N, v[N])
  <2>1. N \in 0..N
    BY <1>2
  <2>2. w[N] = TRUE
    BY <1>6, <2>1
  <2>3. w[N] = Collected(f, F, N, v[N])
    BY <2>1 DEF w
  <2> QED BY <2>2, <2>3
<1> QED BY <1>1, <1>7 DEF N

\* Two walks, joined by an edge.
Joined(p, q, w) ==
  /\ Walk(w) /\ Len(w) = Len(p) + Len(q)
  /\ \A i \in 1..Len(p) : w[i] = p[i]
  /\ \A i \in 1..Len(q) : w[Len(p) + i] = q[i]

LEMMA WalkJoin ==
  ASSUME NEW p, NEW q, Walk(p), Walk(q), p # <<>> /\ q # <<>> => q[1] \in Succs(p[Len(p)])
  PROVE  Joined(p, q, p \o q)
<1> DEFINE w == p \o q
<1>1. p \in Seq(States) /\ q \in Seq(States) /\ Len(p) \in Nat /\ Len(q) \in Nat
      /\ (p # <<>> <=> Len(p) # 0) /\ (q # <<>> <=> Len(q) # 0)
  BY DEF Walk
<1>2. /\ w \in Seq(States) /\ Len(w) = Len(p) + Len(q)
      /\ \A i \in 1..(Len(p) + Len(q)) : w[i] = IF i <= Len(p) THEN p[i] ELSE q[i - Len(p)]
  BY <1>1, ConcatProperties
<1> HIDE DEF w
<1>3. \A i \in 1..Len(p) : w[i] = p[i]
  BY <1>1, <1>2
<1>4. ASSUME NEW i \in 1..Len(q)
      PROVE  w[Len(p) + i] = q[i]
  <2>1. Len(p) + i \in 1..(Len(p) + Len(q)) /\ ~(Len(p) + i <= Len(p)) /\ (Len(p) + i) - Len(p) = i
    BY <1>1
  <2> QED BY <1>2, <2>1
<1>5. ASSUME NEW k \in 1..(Len(w) - 1)
      PROVE  w[k + 1] \in Succs(w[k])
  <2>1. CASE k < Len(p)
    <3>1. k \in 1..(Len(p) - 1) /\ k \in 1..Len(p) /\ k + 1 \in 1..Len(p)
      BY <1>1, <2>1
    <3> QED BY <1>3, <3>1 DEF Walk
  <2>2. CASE k = Len(p)
    <3>1. Len(p) # 0 /\ Len(q) # 0 /\ k \in 1..Len(p) /\ 1 \in 1..Len(q)
      BY <1>1, <1>2, <2>2
    <3>2. w[k] = p[Len(p)] /\ w[k + 1] = q[1]
      BY <1>3, <1>4, <2>2, <3>1
    <3> QED BY <1>1, <3>1, <3>2
  <2>3. CASE k > Len(p)
    <3> DEFINE i == k - Len(p)
    <3>1. i \in 1..(Len(q) - 1) /\ i \in 1..Len(q) /\ i + 1 \in 1..Len(q)
          /\ k = Len(p) + i /\ k + 1 = Len(p) + (i + 1)
      BY <1>1, <1>2, <2>3
    <3> HIDE DEF i
    <3>2. w[k] = q[i] /\ w[k + 1] = q[i + 1]
      BY <1>4, <3>1
    <3> QED BY <3>1, <3>2 DEF Walk
  <2> QED BY <1>1, <2>1, <2>2, <2>3
<1>6. Joined(p, q, w)
  BY <1>2, <1>3, <1>4, <1>5 DEF Joined, Walk
<1> QED BY <1>6 DEF w

\* A run that violates the property, as GenuineTrace says it of the counterexample.
Move(t, k) == {e \in EdgesOf(t[k]) : e.to = t[k + 1]}
Run(t) ==
  LET n == Len(t)
  IN  /\ t[1] = Initial
      /\ \A k \in 1..(n - 1) : Move(t, k) # {}
      /\ \/ n > 1 /\ \E e \in Move(t, n - 1) : e.error
         \/ \E i \in 1..(n - 1) :
              t[i] = t[n] /\ \E k \in i..(n - 1) : \E e \in Move(t, k) : e.accepting

\* A walk from the initial state and an edge that is an error, or leads back.
LEMMA RunFound ==
  ASSUME TypeOK, NEW w, Walk(w), w # <<>>, w[1] = Initial,
         NEW e \in EdgesOf(w[Len(w)]), NEW s \in States, e.to = s,
         \/ e.error
         \/ \E i \in 1..Len(w) :
              /\ w[i] = s
              /\ e.accepting \/ \E k \in i..(Len(w) - 1) : \E d \in Move(w, k) : d.accepting
  PROVE  Run(w \o <<s>>)
<1> DEFINE q == <<s>>
           t == w \o q
           L == Len(w)
<1>1. w \in Seq(States) /\ L \in Nat /\ L # 0 /\ w[L] \in States
  BY DEF Walk
<1>2. Walk(q) /\ Len(q) = 1 /\ q[1] = s /\ q # <<>>
  BY DEF Walk
<1>3. s \in Succs(w[L])
  BY <1>1, EdgeFacts
<1>4. Joined(w, q, t)
  <2> HIDE DEF q
  <2> QED BY <1>2, <1>3, WalkJoin
<1> HIDE DEF q, t
<1>5. Len(t) = L + 1 /\ (\A i \in 1..L : t[i] = w[i]) /\ t[L + 1] = s
  <2>1. 1 \in 1..Len(q)
    BY <1>2
  <2> QED BY <1>2, <1>4, <2>1 DEF Joined
<1>6. Len(t) - 1 = L /\ Len(t) > 1 /\ 1 \in 1..L /\ L \in 1..L
  BY <1>1, <1>5
<1>7. \A k \in 1..L : t[k + 1] \in Succs(t[k])
  BY <1>4, <1>6 DEF Joined, Walk
<1>8. \A k \in 1..L : Move(t, k) # {}
  <2>1. ASSUME NEW k \in 1..L PROVE Move(t, k) # {}
    <3>1. t[k] \in States
      BY <1>1, <1>5
    <3>2. \E d \in EdgesOf(t[k]) : d.to = t[k + 1]
      BY <1>7, <3>1, EdgeFacts
    <3> QED BY <3>2 DEF Move
  <2> QED BY <2>1
<1>9. e \in Move(t, L)
  BY <1>5, <1>6 DEF Move
<1>10. t[1] = Initial
  BY <1>5, <1>6
<1>11. CASE e.error
  <2>1. Len(t) > 1 /\ \E d \in Move(t, Len(t) - 1) : d.error
    BY <1>6, <1>9, <1>11
  <2> QED BY <1>6, <1>8, <1>10, <2>1 DEF Run, t, q
<1>12. CASE \E i \in 1..L : /\ w[i] = s
                            /\ e.accepting \/ \E k \in i..(L - 1) : \E d \in Move(w, k) : d.accepting
  <2>1. PICK i \in 1..L : /\ w[i] = s
                          /\ e.accepting \/ \E k \in i..(L - 1) : \E d \in Move(w, k) : d.accepting
    BY <1>12
  <2>2. t[i] = t[L + 1]
    BY <1>5, <2>1
  <2>3. \E k \in i..L : \E d \in Move(t, k) : d.accepting
    <3>1. CASE e.accepting
      <4>1. L \in i..L
        BY <1>1
      <4> QED BY <1>9, <3>1, <4>1
    <3>2. CASE \E k \in i..(L - 1) : \E d \in Move(w, k) : d.accepting
      <4>1. PICK k \in i..(L - 1) : \E d \in Move(w, k) : d.accepting
        BY <3>2
      <4>2. k \in i..L /\ k \in 1..L /\ k + 1 \in 1..L
        BY <1>1
      <4>3. Move(t, k) = Move(w, k)
        BY <1>5, <4>2 DEF Move
      <4> QED BY <4>1, <4>2, <4>3
    <3> QED BY <2>1, <3>1, <3>2
  <2>4. \E j \in 1..(Len(t) - 1) :
          t[j] = t[Len(t)] /\ \E k \in j..(Len(t) - 1) : \E d \in Move(t, k) : d.accepting
    BY <1>5, <1>6, <2>2, <2>3
  <2> QED BY <1>6, <1>8, <1>10, <2>4 DEF Run, t, q
<1> QED BY <1>11, <1>12

\* The expanded items of a stack, and of a part of it, are joined by edges.
LEMMA EdgeToSucc ==
  ASSUME NEW s, NEW item, EdgeTo(s, item)
  PROVE  item.state \in Succs(s)
BY DEF EdgeTo, EdgesOf, Succs

LEMMA ChainedStack ==
  ASSUME NEW st \in Seq(Items), NEW r, Rooted(st, r)
  PROVE  Chained(st, {r})
<1> SUFFICES ASSUME NEW i \in Expanded(st)
             PROVE  \/ st[i].state \in {r} /\ \A k \in Expanded(st) : ~(k < i)
                    \/ \E j \in Expanded(st) : Below(st, i, j) /\ st[i].state \in Succs(st[j].state)
  BY DEF Chained
<1>1. i \in DOMAIN st /\ DOMAIN st = 1..Len(st) /\ Len(st) \in Nat
  BY StackFacts DEF Expanded
<1>2. CASE st[i].state = r /\ i = 1
  <2>1. \A k \in Expanded(st) : ~(k < i)
    BY <1>1, <1>2 DEF Expanded
  <2> QED BY <1>2, <2>1
<1>3. CASE \E j \in DOMAIN st : Below(st, i, j) /\ EdgeTo(st[j].state, st[i])
  BY <1>3, EdgeToSucc DEF Below
<1> QED BY <1>1, <1>2, <1>3 DEF Rooted

\* What is above item P of a stack.
Above(st, P, f) ==
  /\ f \in Seq(Items) /\ Len(f) = Len(st) - P
  /\ \A i \in 1..Len(f) : f[i] = st[P + i]
  /\ Expanded(f) = {i \in 1..Len(f) : P + i \in Expanded(st)}
  /\ Chained(f, Succs(st[P].state))

LEMMA ChainedAbove ==
  ASSUME NEW st \in Seq(Items), NEW r, Rooted(st, r), NEW P \in Expanded(st), NEW f,
         f = SubSeq(st, P + 1, Len(st))
  PROVE  Above(st, P, f)
<1> DEFINE L == Len(st)
<1>1. L \in Nat /\ DOMAIN st = 1..L /\ P \in Nat /\ P >= 1 /\ P <= L /\ \A i \in 1..L : st[i] \in Items
  <2>1. P \in 1..Len(st) /\ Len(st) \in Nat
    BY StackFacts DEF Expanded
  <2> QED BY <2>1, StackFacts
<1> HIDE DEF L
<1>2. f \in Seq(Items) /\ Len(f) = L - P /\ \A i \in 1..Len(f) : f[i] = st[P + i]
  <2>1. P + 1 \in Int /\ L \in Int /\ \A i \in (P + 1)..L : st[i] \in Items
    BY <1>1
  <2>2. /\ f \in Seq(Items)
        /\ Len(f) = IF P + 1 <= L THEN L - (P + 1) + 1 ELSE 0
        /\ \A i \in 1..(L - (P + 1) + 1) : f[i] = st[(P + 1) + i - 1]
    BY <2>1, SubSeqProperties DEF L
  <2> DEFINE M == Len(f)
  <2>3. M = IF P + 1 <= L THEN L - (P + 1) + 1 ELSE 0
    BY <2>2
  <2> HIDE DEF M
  <2>4. M = L - P /\ L - (P + 1) + 1 = M
    BY <1>1, <2>3
  <2>5. \A i \in 1..M : (P + 1) + i - 1 = P + i
    BY <1>1, <2>4
  <2>6. \A i \in 1..M : f[i] = st[P + i]
    BY <2>2, <2>4, <2>5
  <2> QED BY <2>2, <2>4, <2>6 DEF M
<1>3. \A i \in 1..Len(f) : P + i \in DOMAIN st
  BY <1>1, <1>2
<1>4. Expanded(f) = {i \in 1..Len(f) : P + i \in Expanded(st)}
  <2>1. DOMAIN f = 1..Len(f)
    BY <1>2
  <2> QED BY <1>2, <1>3, <2>1 DEF Expanded
<1>5. ASSUME NEW i \in Expanded(f)
      PROVE  \/ f[i].state \in Succs(st[P].state) /\ \A k \in Expanded(f) : ~(k < i)
             \/ \E j \in Expanded(f) : Below(f, i, j) /\ f[i].state \in Succs(f[j].state)
  <2>1. i \in 1..Len(f) /\ P + i \in Expanded(st) /\ P + i \in DOMAIN st /\ P + i # 1 /\ P < P + i
    BY <1>1, <1>2, <1>4
  <2>2. PICK j \in DOMAIN st : Below(st, P + i, j) /\ EdgeTo(st[j].state, st[P + i])
    BY <2>1 DEF Rooted
  <2>3. P <= j /\ j < P + i /\ j \in Expanded(st) /\ j \in Nat
    BY <1>1, <2>1, <2>2 DEF Below
  <2>4. f[i].state \in Succs(st[j].state)
    BY <1>2, <2>1, <2>2, EdgeToSucc
  <2>5. \A k \in Expanded(f) : k \in Nat /\ P + k \in Expanded(st) /\ (k < i => P + k <= j)
    <3>1. SUFFICES ASSUME NEW k \in Expanded(f)
                   PROVE  k \in Nat /\ P + k \in Expanded(st) /\ (k < i => P + k <= j)
      OBVIOUS
    <3>2. k \in Nat /\ P + k \in Expanded(st)
      BY <1>4
    <3>3. k < i => P + k < P + i
      BY <1>1, <2>1, <3>2
    <3> QED BY <2>2, <3>2, <3>3 DEF Below
  <2>6. CASE j = P
    <3>1. \A k \in Expanded(f) : ~(k < i)
      BY <1>1, <1>4, <2>5, <2>6
    <3> QED BY <2>4, <2>6, <3>1
  <2>7. CASE j # P
    <3> DEFINE m == j - P
    <3>1. m \in 1..Len(f) /\ P + m = j /\ m < i
      BY <1>1, <1>2, <2>1, <2>3, <2>7
    <3> HIDE DEF m
    <3>2. m \in Expanded(f) /\ f[m] = st[j]
      BY <1>2, <1>4, <2>3, <3>1
    <3>3. \A k \in Expanded(f) : k < i => k <= m
      BY <1>1, <1>4, <2>5, <3>1
    <3> QED BY <2>4, <3>1, <3>2, <3>3 DEF Below
  <2> QED BY <2>6, <2>7
<1> QED BY <1>2, <1>4, <1>5 DEF Chained, L, Above

LEMMA EmptyPath == Path(<<>>) = <<>>
<1> DEFINE f == <<>>
<1>1. f \in Seq(Items) /\ Expanded(f) = {}
  BY DEF Expanded
<1>2. Chained(f, {})
  BY <1>1 DEF Chained
<1> HIDE DEF f
<1>3. Collected(f, {}, Len(f), Path(f))
  BY <1>1, <1>2, PathFacts
<1>4. Path(f) = <<>>
  BY <1>3 DEF Collected
<1> QED BY <1>4 DEF f

-----------------------------------------------------------------------------
(* The steps that find something *)

TraceOf(c) == Path(c.tail) \o Path(c.lasso_inner) \o Path(c.lasso_outer) \o <<c.goal>>

\* What a walk through the expanded items of a stack is like.
Through(st, r, p) ==
  /\ Walk(p)
  /\ p = <<>> => Expanded(st) = {}
  /\ p # <<>> =>
       /\ p[1] = r
       /\ \E j \in Expanded(st) : p[Len(p)] = st[j].state /\ \A k \in Expanded(st) : k <= j
  /\ \A i \in Expanded(st) : \E k \in 1..Len(p) : p[k] = st[i].state

LEMMA StackPath ==
  ASSUME NEW st \in Seq(Items), NEW r, Chained(st, {r})
  PROVE  Through(st, r, Path(st))
<1>1. Collected(st, {r}, Len(st), Path(st))
  BY PathFacts
<1>2. \A i \in Expanded(st) : i <= Len(st)
  BY StackFacts DEF Expanded
<1> DEFINE p == Path(st)
<1> HIDE DEF p
<1>3. Collected(st, {r}, Len(st), p)
  BY <1>1 DEF p
<1>4. Through(st, r, p)
  BY <1>2, <1>3 DEF Through, Collected
<1> QED BY <1>4 DEF p

\* What is found on the outer stack alone.
LEMMA FoundOnTop ==
  ASSUME NEW s, NEW q
  PROVE  LET c == [NoTrace EXCEPT !.goal = s, !.tail = q]
         IN  c.goal = s /\ c.tail = q /\ c.lasso_inner = <<>> /\ c.lasso_outer = <<>>
<1> DEFINE p == [NoTrace EXCEPT !.goal = s]
           c == [p EXCEPT !.tail = q]
<1>1. p.goal = s /\ p.lasso_inner = <<>> /\ p.lasso_outer = <<>>
      /\ DOMAIN p = {"tail", "lasso_inner", "lasso_outer", "goal"}
  BY DEF NoTrace
<1> HIDE DEF p
<1>2. c.goal = p.goal /\ c.tail = q /\ c.lasso_inner = p.lasso_inner /\ c.lasso_outer = p.lasso_outer
  BY <1>1
<1>3. c = [NoTrace EXCEPT !.goal = s, !.tail = q]
  BY DEF p
<1> HIDE DEF c
<1>4. c.goal = s /\ c.tail = q /\ c.lasso_inner = <<>> /\ c.lasso_outer = <<>>
  BY <1>1, <1>2
<1> QED BY <1>3, <1>4

\* An edge of the last state of the path, which is an error or leads back to the path.
LEMMA TopRun ==
  ASSUME TypeOK, Rooted(outer_stack, Initial), outer_stack # <<>>, NEW top \in Items,
         top = outer_stack[Len(outer_stack)],
         \/ top.error
         \/ /\ top.accepting /\ top.type = "Successors"
            /\ \E i \in Expanded(outer_stack) : outer_stack[i].state = top.state
  PROVE  Run(TraceOf([NoTrace EXCEPT !.goal = top.state, !.tail = Pop(outer_stack)]))
<1> DEFINE q == Pop(outer_stack)
           w == Path(q)
           s == top.state
           c == [NoTrace EXCEPT !.goal = s, !.tail = q]
<1>1. outer_stack \in Seq(Items) /\ s \in States
  BY DEF TypeOK, Items
<1>2. Popped(outer_stack, q)
  BY <1>1, PopFacts
<1>3. q \in Seq(Items) /\ Expanded(q) = Expanded(outer_stack) \ {Len(outer_stack)}
      /\ \A i \in DOMAIN q : q[i] = outer_stack[i] /\ i < Len(outer_stack)
  <2>1. q \in Seq(Items)
    BY <1>2 DEF Popped
  <2> HIDE DEF q
  <2>2. Expanded(q) = Expanded(outer_stack) \ {Len(outer_stack)}
    BY <1>1, <1>2, PoppedExpanded
  <2>3. \A i \in DOMAIN q : q[i] = outer_stack[i] /\ i < Len(outer_stack)
    <3>1. \A i \in DOMAIN q : q[i] = outer_stack[i]
      BY <1>1, <1>2, PoppedItems, Zenon
    <3>2. \A i \in DOMAIN q : i < Len(outer_stack)
      BY <1>1, <1>2, PoppedItems, Zenon
    <3> QED BY <3>1, <3>2
  <2> QED BY <2>1, <2>2, <2>3
<1>4. Rooted(q, Initial)
  BY <1>1, <1>2, RootedPopped
<1>5. Chained(q, {Initial})
  BY <1>3, <1>4, ChainedStack
<1>6. Through(q, Initial, w)
  BY <1>3, <1>5, StackPath
<1>7. TraceOf(c) = w \o <<s>>
  <2>1. c.goal = s /\ c.tail = q /\ c.lasso_inner = <<>> /\ c.lasso_outer = <<>>
    BY FoundOnTop
  <2> HIDE DEF c, q
  <2>2. TraceOf(c) = Path(q) \o <<>> \o <<>> \o <<s>>
    BY <2>1, EmptyPath DEF TraceOf
  <2>3. w \in Seq(States)
    BY <1>6 DEF Through, Walk
  <2>4. w \o <<>> = w
    <3> HIDE DEF w
    <3> QED BY <2>3
  <2> QED BY <2>2, <2>4
<1>8. PICK j \in Expanded(outer_stack) :
        Below(outer_stack, Len(outer_stack), j) /\ j # Len(outer_stack) /\ EdgeTo(outer_stack[j].state, top)
  BY <1>1, TopEdge
<1>9. PICK e \in EdgesOf(outer_stack[j].state) : e.to = s /\ e.accepting = top.accepting /\ e.error = top.error
  BY <1>8 DEF EdgeTo
<1> HIDE DEF q, w, s, c
<1>10. j \in Expanded(q) /\ q[j] = outer_stack[j]
  BY <1>3, <1>8 DEF Expanded
<1>11. w # <<>> /\ w[1] = Initial /\ w[Len(w)] = outer_stack[j].state
  <2>1. w # <<>>
    BY <1>6, <1>10 DEF Through
  <2>2. PICK m \in Expanded(q) : w[Len(w)] = q[m].state /\ \A k \in Expanded(q) : k <= m
    BY <1>6, <2>1 DEF Through
  <2>3. m \in Expanded(outer_stack) /\ m < Len(outer_stack) /\ q[m] = outer_stack[m]
    BY <1>3 DEF Expanded
  <2>4. m <= j /\ j <= m
    BY <1>8, <1>10, <2>2, <2>3 DEF Below
  <2>5. m \in Nat /\ j \in Nat
    BY <1>1, <2>3, StackFacts DEF Expanded
  <2>6. m = j
    BY <2>4, <2>5
  <2> QED BY <1>6, <2>1, <2>2, <2>3, <2>6 DEF Through
<1>12. Walk(w) /\ e \in EdgesOf(w[Len(w)])
  BY <1>6, <1>9, <1>11 DEF Through
<1>13. \/ e.error
       \/ \E i \in 1..Len(w) :
            /\ w[i] = s
            /\ e.accepting \/ \E k \in i..(Len(w) - 1) : \E d \in Move(w, k) : d.accepting
  <2>1. CASE top.error
    BY <1>9, <2>1
  <2>2. CASE /\ top.accepting /\ top.type = "Successors"
             /\ \E i \in Expanded(outer_stack) : outer_stack[i].state = top.state
    <3>1. PICK i \in Expanded(outer_stack) : outer_stack[i].state = s
      BY <2>2 DEF s
    <3>2. i # Len(outer_stack)
      BY <2>2 DEF Expanded
    <3>3. i \in Expanded(q) /\ q[i].state = s
      BY <1>3, <3>1, <3>2 DEF Expanded
    <3>4. \E k \in 1..Len(w) : w[k] = s
      BY <1>6, <3>3 DEF Through
    <3> QED BY <1>9, <2>2, <3>4
  <2> QED BY <2>1, <2>2
<1>14. Run(w \o <<s>>)
  BY <1>1, <1>9, <1>11, <1>12, <1>13, RunFound DEF s
<1> QED BY <1>7, <1>14 DEF c, q, s

\* The walk through the nested search, from the seed to the state that closes the lasso.
LEMMA InnerPath ==
  ASSUME NEW st \in Seq(Items), st # <<>>, Rooted(st, seed), st[Len(st)].type = "Successors"
  PROVE  /\ LET p == Path(Pop(st))
                s == st[Len(st)].state
            IN  /\ Walk(p)
                /\ p # <<>> => p[1] = seed /\ \E e \in EdgesOf(p[Len(p)]) :
                                                e.to = s /\ e.accepting = st[Len(st)].accepting
                /\ p = <<>> => ~st[Len(st)].accepting /\ s = seed
         /\ LET p == Path(Marked(st))
            IN  Walk(p) /\ p # <<>> /\ p[1] = seed /\ p[Len(p)] = st[Len(st)].state
<1> DEFINE q == Pop(st)
           m == Marked(st)
           s == st[Len(st)].state
<1>1. Len(st) \in Nat /\ Len(st) \in DOMAIN st /\ DOMAIN st = 1..Len(st)
  BY StackFacts
<1>2. Popped(st, q) /\ IsMarked(st, m) /\ q \in Seq(Items) /\ m \in Seq(Items)
  BY PopFacts, MarkedFacts DEF Popped, IsMarked
<1> HIDE DEF q, m
<1>3. Expanded(q) = Expanded(st) \ {Len(st)} /\ \A i \in DOMAIN q : q[i] = st[i] /\ i < Len(st)
  <2>1. Expanded(q) = Expanded(st) \ {Len(st)}
    BY <1>2, PoppedExpanded
  <2>2. \A i \in DOMAIN q : q[i] = st[i] /\ i < Len(st)
    <3>1. \A i \in DOMAIN q : q[i] = st[i]
      BY <1>2, PoppedItems, Zenon
    <3>2. \A i \in DOMAIN q : i < Len(st)
      BY <1>2, PoppedItems, Zenon
    <3> QED BY <3>1, <3>2
  <2> QED BY <2>1, <2>2
<1>4. Expanded(m) = Expanded(st) \cup {Len(st)} /\ Len(m) = Len(st) /\ m[Len(st)].state = s
  <2>1. Expanded(m) = Expanded(st) \cup {Len(st)}
    BY <1>2, MarkedExpanded
  <2> QED BY <1>2, <2>1 DEF IsMarked
<1>5. Through(q, seed, Path(q))
  <2>1. Rooted(q, seed)
    BY <1>2, RootedPopped
  <2>2. Chained(q, {seed})
    BY <1>2, <2>1, ChainedStack
  <2> QED BY <1>2, <2>2, StackPath
<1>6. Through(m, seed, Path(m))
  <2>1. Rooted(m, seed)
    BY <1>2, RootedMarked
  <2>2. Chained(m, {seed})
    BY <1>2, <2>1, ChainedStack
  <2> QED BY <1>2, <2>2, StackPath
<1> DEFINE p == Path(q)
           r == Path(m)
<1> HIDE DEF p, r, s
<1>7. \/ s = seed /\ ~st[Len(st)].accepting /\ Len(st) = 1
      \/ \E j \in DOMAIN st : Below(st, Len(st), j) /\ EdgeTo(st[j].state, st[Len(st)])
  BY <1>1 DEF Rooted, s
<1>8. ASSUME p = <<>>
      PROVE  ~st[Len(st)].accepting /\ s = seed
  <2>1. Expanded(q) = {}
    BY <1>5, <1>8 DEF Through, p
  <2>2. \A j \in DOMAIN st : ~Below(st, Len(st), j)
    BY <1>1, <1>3, <2>1 DEF Below
  <2> QED BY <1>7, <2>2
<1>9. ASSUME p # <<>>
      PROVE  p[1] = seed /\ \E e \in EdgesOf(p[Len(p)]) : e.to = s /\ e.accepting = st[Len(st)].accepting
  <2>1. PICK j \in Expanded(q) : p[Len(p)] = q[j].state /\ \A k \in Expanded(q) : k <= j
    BY <1>5, <1>9 DEF Through, p
  <2>2. j \in Expanded(st) /\ j < Len(st) /\ q[j] = st[j] /\ j \in Nat /\ Len(st) # 1
    <3>1. j \in Expanded(st) /\ j < Len(st) /\ q[j] = st[j]
      BY <1>3 DEF Expanded
    <3> QED BY <1>1, <3>1 DEF Expanded
  <2>3. PICK i \in DOMAIN st : Below(st, Len(st), i) /\ EdgeTo(st[i].state, st[Len(st)])
    BY <1>7, <2>2
  <2>4. i \in Nat /\ i \in Expanded(q) /\ j <= i
    <3>1. i \in Nat /\ i \in Expanded(st) /\ i < Len(st) /\ j <= i
      BY <1>1, <2>2, <2>3 DEF Below
    <3> QED BY <1>1, <1>3, <3>1
  <2>5. i = j
    BY <2>1, <2>2, <2>4
  <2>6. EdgeTo(p[Len(p)], st[Len(st)])
    BY <2>1, <2>2, <2>3, <2>5
  <2>7. p[1] = seed
    BY <1>5, <1>9 DEF Through, p
  <2> QED BY <2>6, <2>7 DEF EdgeTo, s
<1>10. Walk(r) /\ r # <<>> /\ r[1] = seed /\ r[Len(r)] = s
  <2>1. Len(st) \in Expanded(m) /\ \A k \in Expanded(m) : k \in Nat /\ k <= Len(st)
    BY <1>1, <1>4 DEF Expanded
  <2>2. r # <<>>
    BY <1>6, <2>1 DEF Through, r
  <2>3. PICK j \in Expanded(m) : r[Len(r)] = m[j].state /\ \A k \in Expanded(m) : k <= j
    BY <1>6, <2>2 DEF Through, r
  <2>4. j = Len(st)
    BY <1>1, <2>1, <2>3
  <2> QED BY <1>4, <1>6, <2>2, <2>3, <2>4 DEF Through, r
<1>11. Walk(p)
  BY <1>5 DEF Through, p
<1> QED BY <1>7, <1>8, <1>9, <1>10, <1>11 DEF p, r, q, m, s

\* Where two walks that are joined begin and end.
LEMMA JoinedEnds ==
  ASSUME NEW p, NEW q, NEW w, Walk(p), Walk(q), p # <<>>, Joined(p, q, w)
  PROVE  /\ w # <<>> /\ w[1] = p[1] /\ Len(p) \in Nat /\ Len(w) \in Nat /\ Len(p) >= 1
         /\ \A i \in 1..Len(p) : i \in 1..Len(w) /\ w[i] = p[i]
         /\ q = <<>> => w[Len(w)] = p[Len(p)]
         /\ q # <<>> => /\ w[Len(w)] = q[Len(q)]
                        /\ Len(p) + 1 \in 1..Len(w) /\ w[Len(p) + 1] = q[1]
                        /\ Len(p) <= Len(w) - 1
<1>1. Len(p) \in Nat /\ Len(p) # 0 /\ Len(q) \in Nat /\ (q # <<>> <=> Len(q) # 0)
  BY DEF Walk
<1>2. Len(w) = Len(p) + Len(q) /\ w \in Seq(States)
      /\ (\A i \in 1..Len(p) : w[i] = p[i]) /\ (\A i \in 1..Len(q) : w[Len(p) + i] = q[i])
  BY DEF Joined, Walk
<1>3. w # <<>> /\ Len(w) \in Nat
  <2>1. Len(w) # 0
    BY <1>1, <1>2
  <2> QED BY <1>1, <1>2, <2>1
<1>4. 1 \in 1..Len(p) /\ Len(p) \in 1..Len(p) /\ \A i \in 1..Len(p) : i \in 1..Len(w)
  BY <1>1, <1>2
<1>5. CASE q = <<>>
  <2>1. Len(w) = Len(p)
    BY <1>1, <1>2, <1>5
  <2> QED BY <1>1, <1>2, <1>3, <1>4, <1>5, <2>1
<1>6. CASE q # <<>>
  <2>1. 1 \in 1..Len(q) /\ Len(q) \in 1..Len(q) /\ Len(p) + 1 \in 1..Len(w) /\ Len(p) <= Len(w) - 1
    BY <1>1, <1>2, <1>6
  <2> QED BY <1>1, <1>2, <1>3, <1>4, <1>6, <2>1
<1> QED BY <1>5, <1>6

\* The lasso of a nested search: the path of the outer search, the way through the
\* nested one, and the rest of that path from the state where the nested one met it.
LEMMA InnerRun ==
  ASSUME TypeOK, FlagMatchesStack, StacksRooted, Paths, InnerFound
  PROVE  Run(TraceOf(counterexample'))
<1> DEFINE top == inner_stack[Len(inner_stack)]
           s == top.state
           path == Path(outer_stack)
           P == Position(s)
           above == SubSeq(outer_stack, P + 1, Len(outer_stack))
<1>1. /\ inner_stack # <<>> /\ pc = "inner"
      /\ top.type = "Successors" /\ s \in States
      /\ (top.accepting /\ s = seed) \/ s \in in_outer_stack
      /\ counterexample' =
           [tail |-> outer_stack,
            lasso_inner |-> IF s = seed THEN Pop(inner_stack) ELSE Marked(inner_stack),
            lasso_outer |-> IF s = seed THEN <<>> ELSE above,
            goal |-> seed]
  BY InnerFoundFacts
<1>2. outer_stack \in Seq(Items) /\ inner_stack \in Seq(Items)
  BY DEF TypeOK
<1>3. Rooted(outer_stack, Initial) /\ Rooted(inner_stack, seed)
  BY <1>1 DEF StacksRooted
<1>4. Through(outer_stack, Initial, path)
  <2>1. Chained(outer_stack, {Initial})
    BY <1>2, <1>3, ChainedStack
  <2> QED BY <1>2, <2>1, StackPath
<1>5. PICK j \in Expanded(outer_stack) :
        /\ \A k \in Expanded(outer_stack) : k <= j
        /\ \E e \in EdgesOf(outer_stack[j].state) : e.accepting /\ e.to = seed
  BY <1>1 DEF Paths, Accepts
<1>6. PICK a \in EdgesOf(outer_stack[j].state) : a.accepting /\ a.to = seed
  BY <1>5
<1>7. \A k \in Expanded(outer_stack) : k \in Nat /\ k \in DOMAIN outer_stack /\ k <= Len(outer_stack)
  BY <1>2, StackFacts DEF Expanded
<1>8. outer_stack[j].state \in States
  BY <1>2, <1>7, StackFacts DEF Items
<1>9. seed \in States /\ seed \in Succs(outer_stack[j].state)
  BY <1>6, <1>8, EdgeFacts DEF Edges
<1> DEFINE back == Path(Pop(inner_stack))
           way == Path(Marked(inner_stack))
           rest == Path(above)
<1>10. /\ Walk(back)
       /\ back # <<>> => back[1] = seed /\ \E e \in EdgesOf(back[Len(back)]) :
                                             e.to = s /\ e.accepting = top.accepting
       /\ back = <<>> => ~top.accepting /\ s = seed
       /\ Walk(way) /\ way # <<>> /\ way[1] = seed /\ way[Len(way)] = s
  BY <1>1, <1>2, <1>3, InnerPath
<1>11. TraceOf(counterexample') = IF s = seed THEN path \o back \o <<>> \o <<seed>>
                                  ELSE path \o way \o rest \o <<seed>>
  <2> HIDE DEF above, s, top
  <2>1. CASE s = seed
    <3>1. /\ counterexample'.tail = outer_stack /\ counterexample'.lasso_inner = Pop(inner_stack)
          /\ counterexample'.lasso_outer = <<>> /\ counterexample'.goal = seed
      BY <1>1, <2>1
    <3> QED BY <2>1, <3>1, EmptyPath DEF TraceOf
  <2>2. CASE s # seed
    <3>1. /\ counterexample'.tail = outer_stack /\ counterexample'.lasso_inner = Marked(inner_stack)
          /\ counterexample'.lasso_outer = above /\ counterexample'.goal = seed
      BY <1>1, <2>2
    <3> QED BY <2>2, <3>1 DEF TraceOf
  <2> QED BY <2>1, <2>2
<1> HIDE DEF back, way, rest, path, above
<1>12. Walk(path) /\ path # <<>> /\ path[1] = Initial /\ path[Len(path)] = outer_stack[j].state
  <2>1. path # <<>>
    BY <1>4 DEF Through
  <2>2. PICK i \in Expanded(outer_stack) :
          path[Len(path)] = outer_stack[i].state /\ \A k \in Expanded(outer_stack) : k <= i
    BY <1>4, <2>1 DEF Through
  <2>3. i = j
    BY <1>5, <1>7, <2>2
  <2> QED BY <1>4, <2>1, <2>2, <2>3 DEF Through
<1>13. seed \in in_outer_stack => \E i \in 1..Len(path) : path[i] = seed
  <2>1. SUFFICES ASSUME seed \in in_outer_stack PROVE \E i \in 1..Len(path) : path[i] = seed
    OBVIOUS
  <2>2. PICK i \in Expanded(outer_stack) : outer_stack[i].state = seed
    BY <2>1 DEF FlagMatchesStack
  <2> QED BY <1>4, <2>2 DEF Through
<1>14. CASE s = seed
  <2> DEFINE w == path \o back
  <2>1. Joined(path, back, w)
    BY <1>9, <1>10, <1>12, WalkJoin
  <2> HIDE DEF w
  <2>2. Walk(w) /\ w \in Seq(States)
    BY <2>1 DEF Joined, Walk
  <2>3. TraceOf(counterexample') = w \o <<seed>>
    <3>1. w \o <<>> = w
      BY <2>2
    <3> QED BY <1>11, <1>14, <3>1 DEF w
  <2>4. /\ w # <<>> /\ w[1] = path[1] /\ Len(path) \in Nat /\ Len(w) \in Nat /\ Len(path) >= 1
        /\ \A i \in 1..Len(path) : i \in 1..Len(w) /\ w[i] = path[i]
        /\ back = <<>> => w[Len(w)] = path[Len(path)]
        /\ back # <<>> => /\ w[Len(w)] = back[Len(back)]
                          /\ Len(path) + 1 \in 1..Len(w) /\ w[Len(path) + 1] = back[1]
                          /\ Len(path) <= Len(w) - 1
    BY <1>10, <1>12, <2>1, JoinedEnds
  <2>5. CASE back = <<>>
    <3>1. seed \in in_outer_stack
      BY <1>1, <1>10, <1>14, <2>5
    <3>2. \E i \in 1..Len(w) : w[i] = seed
      BY <1>13, <2>4, <3>1
    <3>3. a \in EdgesOf(w[Len(w)])
      BY <1>6, <1>12, <2>4, <2>5
    <3>4. Run(w \o <<seed>>)
      BY <1>6, <1>9, <1>12, <2>2, <2>4, <3>2, <3>3, RunFound
    <3> QED BY <2>3, <3>4
  <2>6. CASE back # <<>>
    <3>1. PICK e \in EdgesOf(back[Len(back)]) : e.to = seed /\ e.accepting = top.accepting
      BY <1>10, <1>14, <2>6
    <3>2. e \in EdgesOf(w[Len(w)])
      BY <2>4, <2>6, <3>1
    <3>3. \E i \in 1..Len(w) :
            /\ w[i] = seed
            /\ e.accepting \/ \E k \in i..(Len(w) - 1) : \E d \in Move(w, k) : d.accepting
      <4>1. CASE top.accepting
        <5>1. Len(path) + 1 \in 1..Len(w) /\ w[Len(path) + 1] = seed
          BY <1>10, <2>4, <2>6
        <5> QED BY <3>1, <4>1, <5>1
      <4>2. CASE ~top.accepting
        <5>1. PICK i \in 1..Len(path) : path[i] = seed
          BY <1>1, <1>13, <1>14, <4>2
        <5>2. i \in 1..Len(w) /\ w[i] = seed
          BY <2>4, <5>1
        <5>3. Len(path) \in i..(Len(w) - 1)
          BY <2>4, <2>6
        <5>4. a \in Move(w, Len(path))
          <6>1. w[Len(path)] = path[Len(path)]
            BY <2>4
          <6>2. w[Len(path) + 1] = seed
            BY <1>10, <2>4, <2>6
          <6> QED BY <1>6, <1>12, <6>1, <6>2 DEF Move
        <5> QED BY <1>6, <5>2, <5>3, <5>4
      <4> QED BY <4>1, <4>2
    <3>4. Run(w \o <<seed>>)
      BY <1>9, <1>12, <2>2, <2>4, <3>1, <3>2, <3>3, RunFound
    <3> QED BY <2>3, <3>4
  <2> QED BY <2>5, <2>6
<1>15. CASE s # seed
  <2>1. s \in in_outer_stack /\ P \in Expanded(outer_stack) /\ outer_stack[P].state = s
    BY <1>1, <1>15, PositionFacts
  <2> HIDE DEF P
  <2>2. /\ above \in Seq(Items) /\ Len(above) = Len(outer_stack) - P
        /\ \A i \in 1..Len(above) : above[i] = outer_stack[P + i]
        /\ Expanded(above) = {i \in 1..Len(above) : P + i \in Expanded(outer_stack)}
        /\ Chained(above, Succs(s))
    <3>1. above = SubSeq(outer_stack, P + 1, Len(outer_stack))
      BY DEF above, P
    <3>2. Above(outer_stack, P, above)
      BY <1>2, <1>3, <2>1, <3>1, ChainedAbove
    <3> QED BY <2>1, <3>2 DEF Above
  <2>3. Collected(above, Succs(s), Len(above), rest)
    BY <2>2, PathFacts DEF rest
  <2>4. P \in Nat /\ P <= j /\ j \in Nat /\ j <= Len(outer_stack) /\ Len(outer_stack) \in Nat
    BY <1>2, <1>5, <1>7, <2>1, StackFacts
  <2>5. \A i \in Expanded(above) : i \in Nat /\ i >= 1 /\ i <= Len(above) /\ P + i \in Expanded(outer_stack)
    BY <2>2, <2>4
  <2> DEFINE first == path \o way
             w == first \o rest
  <2>6. Joined(path, way, first)
    BY <1>9, <1>10, <1>12, WalkJoin
  <2> HIDE DEF first
  <2>7. /\ first # <<>> /\ first[1] = Initial /\ first[Len(first)] = s /\ Walk(first)
        /\ Len(path) + 1 \in 1..Len(first) /\ first[Len(path) + 1] = seed
    <3>1. /\ first # <<>> /\ first[1] = path[1] /\ first[Len(first)] = way[Len(way)]
          /\ Len(path) + 1 \in 1..Len(first) /\ first[Len(path) + 1] = way[1]
      BY <1>10, <1>12, <2>6, JoinedEnds
    <3>2. Walk(first)
      BY <2>6 DEF Joined
    <3> QED BY <1>10, <1>12, <3>1, <3>2
  <2>8. Walk(rest) /\ (rest # <<>> => rest[1] \in Succs(s))
    BY <2>3 DEF Collected
  <2>9. Joined(first, rest, w)
    BY <2>7, <2>8, WalkJoin
  <2> HIDE DEF w
  <2>10. Walk(w)
    BY <2>9 DEF Joined
  <2>11. /\ w # <<>> /\ w[1] = first[1]
         /\ \A i \in 1..Len(first) : i \in 1..Len(w) /\ w[i] = first[i]
         /\ rest = <<>> => w[Len(w)] = first[Len(first)]
         /\ rest # <<>> => w[Len(w)] = rest[Len(rest)]
    BY <2>7, <2>8, <2>9, JoinedEnds
  <2>12. w[Len(w)] = outer_stack[j].state
    <3>1. CASE rest = <<>>
      <4>1. Expanded(above) = {}
        BY <2>3, <2>5, <3>1 DEF Collected
      <4>2. j = P
        <5>1. SUFFICES ASSUME j # P PROVE FALSE
          OBVIOUS
        <5> DEFINE i == j - P
        <5>2. i \in 1..Len(above) /\ P + i = j
          BY <2>2, <2>4, <5>1
        <5> HIDE DEF i
        <5>3. i \in Expanded(above)
          BY <1>5, <2>2, <5>2
        <5> QED BY <4>1, <5>3
      <4> QED BY <2>1, <2>7, <2>11, <3>1, <4>2
    <3>2. CASE rest # <<>>
      <4>1. PICK m \in Expanded(above) :
              rest[Len(rest)] = above[m].state /\ \A k \in Expanded(above) : k <= Len(above) => k <= m
        BY <2>3, <3>2 DEF Collected
      <4>2. m \in 1..Len(above) /\ m \in Nat /\ m >= 1 /\ P + m \in Expanded(outer_stack) /\ P + m <= j
        BY <1>5, <2>2, <2>5
      <4> DEFINE i == j - P
      <4>3. i \in 1..Len(above) /\ P + i = j
        BY <2>2, <2>4, <4>2
      <4> HIDE DEF i
      <4>4. i \in Expanded(above)
        BY <1>5, <2>2, <4>3
      <4>5. i <= m
        BY <2>5, <4>1, <4>4
      <4>6. P + m = j
        BY <2>4, <4>2, <4>3, <4>5
      <4> QED BY <2>2, <2>11, <3>2, <4>1, <4>2, <4>6
    <3> QED BY <3>1, <3>2
  <2>13. \E i \in 1..Len(w) : w[i] = seed
    BY <2>7, <2>11
  <2>14. Run(w \o <<seed>>)
    BY <1>6, <1>9, <2>7, <2>10, <2>11, <2>12, <2>13, RunFound
  <2>15. TraceOf(counterexample') = w \o <<seed>>
    BY <1>11, <1>15 DEF w, first
  <2> QED BY <2>14, <2>15
<1> QED BY <1>14, <1>15

\* A step that finds something has found a run.
LEMMA FoundRun ==
  ASSUME Inv, Step, counterexample' # counterexample
  PROVE  Run(TraceOf(counterexample'))
<1>1. TypeOK /\ FlagMatchesStack /\ StacksRooted /\ Paths
  BY DEF Inv
<1> DEFINE top == outer_stack[Len(outer_stack)]
<1>2. Rooted(outer_stack, Initial)
  BY <1>1 DEF StacksRooted
<1>3. CASE OuterError
  <2>1. /\ outer_stack # <<>> /\ top \in Items /\ top.error
        /\ counterexample' = [NoTrace EXCEPT !.goal = top.state, !.tail = Pop(outer_stack)]
    BY <1>1, <1>3, OuterErrorFacts
  <2> HIDE DEF top
  <2>2. top = outer_stack[Len(outer_stack)]
    BY DEF top
  <2>3. Run(TraceOf([NoTrace EXCEPT !.goal = top.state, !.tail = Pop(outer_stack)]))
    BY <1>1, <1>2, <2>1, <2>2, TopRun
  <2> QED BY <2>1, <2>3
<1>4. CASE OuterRevisit
  <2>1. /\ outer_stack # <<>> /\ top \in Items /\ top.type = "Successors"
        /\ top.accepting /\ top.state \in in_outer_stack
        /\ counterexample' = [NoTrace EXCEPT !.goal = top.state, !.tail = Pop(outer_stack)]
    BY <1>1, <1>4, OuterRevisitFacts
  <2> HIDE DEF top
  <2>2. top = outer_stack[Len(outer_stack)]
    BY DEF top
  <2>3. \E i \in Expanded(outer_stack) : outer_stack[i].state = top.state
    BY <1>1, <2>1 DEF FlagMatchesStack
  <2>4. Run(TraceOf([NoTrace EXCEPT !.goal = top.state, !.tail = Pop(outer_stack)]))
    BY <1>1, <1>2, <2>1, <2>2, <2>3, TopRun
  <2> QED BY <2>1, <2>4
<1>5. CASE InnerFound
  BY <1>1, <1>5, InnerRun
<1>6. CASE Start \/ OuterBacktrack \/ OuterExpand \/ OuterEnd \/ InnerBacktrack \/ InnerExpand
           \/ InnerSkip \/ InnerEnd
  BY <1>6 DEF Start, OuterBacktrack, OuterExpand, OuterEnd, InnerBacktrack, InnerExpand, InnerSkip, InnerEnd
<1> QED BY <1>3, <1>4, <1>5, <1>6 DEF Step

\* The counterexample is a run that violates the property: a path from the initial state
\* to an error edge, or to a state that it went through, with an accepting edge in between.
THEOREM TraceIsGenuine == Spec => []GenuineTrace
<1> DEFINE Genuine == _error_found => Run(Trace)
<1>1. Init => Genuine
  BY DEF Init, _error_found, NoTrace
<1>2. Inv /\ Genuine /\ [Next]_vars => Genuine'
  <2> SUFFICES ASSUME Inv, Genuine, [Next]_vars PROVE Genuine'
    OBVIOUS
  <2>1. graph' = graph
    <3>1. Step => graph' = graph
      BY TypeStep DEF Inv
    <3> QED BY <3>1 DEF Next, Finished, vars
  <2>2. Genuine' <=> (counterexample'.goal # NoState => Run(TraceOf(counterexample')))
    <3>1. Trace' = TraceOf(counterexample')
      BY DEF Trace, TraceOf, Path
    <3>2. Run(Trace)' <=> Run(Trace')
      BY <2>1 DEF Run, Move, EdgesOf
    <3> QED BY <3>1, <3>2 DEF _error_found
  <2>3. Genuine <=> (counterexample.goal # NoState => Run(TraceOf(counterexample)))
    BY DEF _error_found, Trace, TraceOf
  <2> HIDE DEF Genuine
  <2>4. CASE counterexample' = counterexample
    BY <2>2, <2>3, <2>4
  <2>5. CASE counterexample' # counterexample
    <3>1. Step
      BY <2>5 DEF Next, Finished, vars
    <3> QED BY <2>2, <2>5, <3>1, FoundRun
  <2> QED BY <2>4, <2>5
<1>3. Genuine => GenuineTrace
  BY DEF GenuineTrace, Run, Move, Moves
<1> HIDE DEF Genuine
<1> QED BY <1>1, <1>2, <1>3, NestedDFSInv, PTL DEF Spec
-----------------------------------------------------------------------------
(* Errors.  An error edge to a visited state goes unnoticed, so nothing holds of any graph; *)
(* the search misses no error when it is the states that are faulty, so that the edges to a *)
(* state are all error edges or none is, and the initial state is not.                      *)

FaultyStates ==
  \A g \in Graphs : \A s \in States : \A i \in DOMAIN g[s] :
    /\ g[s][i].error => g[s][i].to # Initial
    /\ \A t \in States : \A j \in DOMAIN g[t] : g[s][i].to = g[t][j].to => g[s][i].error = g[t][j].error

\* No state that was visited is faulty.
Faulty(t) == \E s \in States : \E e \in EdgesOf(s) : e.to = t /\ e.error
NoneFaulty == graph \in Graphs /\ (Searching => \A t \in outer_visited : ~Faulty(t))

LEMMA FaultyFacts ==
  ASSUME FaultyStates, TypeOK, graph \in Graphs, NEW s \in States, NEW e \in EdgesOf(s)
  PROVE  Faulty(e.to) => e.error /\ e.to # Initial
<1>1. SUFFICES ASSUME NEW t \in States, NEW f \in EdgesOf(t), f.to = e.to, f.error
               PROVE  e.error /\ e.to # Initial
  BY DEF Faulty
<1>2. PICK i \in DOMAIN graph[s] : e = graph[s][i]
  BY DEF EdgesOf
<1>3. PICK j \in DOMAIN graph[t] : f = graph[t][j]
  BY DEF EdgesOf
<1>4. graph[s][i].error = graph[t][j].error
  BY <1>1, <1>2, <1>3 DEF FaultyStates
<1>5. graph[t][j].to # Initial
  BY <1>1, <1>3 DEF FaultyStates
<1> QED BY <1>1, <1>2, <1>3, <1>4, <1>5

LEMMA FaultyStep ==
  ASSUME FaultyStates, Inv, NoneFaulty, [Next]_vars
  PROVE  NoneFaulty'
<1>1. CASE Step
  <2>1. graph' = graph /\ graph \in Graphs /\ TypeOK
    BY <1>1, TypeStep DEF Inv, NoneFaulty
  <2>2. SUFFICES ASSUME Searching' PROVE \A t \in outer_visited' : ~Faulty(t)
    BY <2>1 DEF NoneFaulty, Faulty, EdgesOf
  <2>3. Searching /\ ~OuterError /\ ~InnerFound
    BY <1>1, <2>2, StillSearching DEF Inv
  <2>4. \A t \in outer_visited : ~Faulty(t)
    BY <2>3 DEF NoneFaulty
  <2>5. CASE outer_visited' = outer_visited
    BY <2>4, <2>5
  <2>6. CASE OuterExpand
    <3> DEFINE top == outer_stack[Len(outer_stack)]
    <3>1. PICK s \in States :
            /\ outer_stack # <<>> /\ top.state = s /\ ~top.error
            /\ outer_visited' = outer_visited \cup {s}
      BY <2>1, <2>6, OuterExpandFacts DEF Inv
    <3>2. ~Faulty(s)
      <4>1. Len(outer_stack) \in DOMAIN outer_stack /\ Rooted(outer_stack, Initial)
            /\ \A i \in DOMAIN outer_stack : outer_stack[i] \in Items
        BY <3>1, StackFacts DEF Inv, StacksRooted, TypeOK
      <4>2. CASE s = Initial
        <5>1. SUFFICES ASSUME Faulty(s) PROVE FALSE
          OBVIOUS
        <5>2. PICK t \in States : \E e \in EdgesOf(t) : e.to = Initial /\ e.error
          BY <4>2, <5>1 DEF Faulty
        <5>3. PICK i \in DOMAIN graph[t] : graph[t][i].to = Initial /\ graph[t][i].error
          BY <5>2 DEF EdgesOf
        <5> QED BY <2>1, <5>3 DEF FaultyStates
      <4>3. CASE s # Initial
        <5>1. PICK j \in DOMAIN outer_stack : EdgeTo(outer_stack[j].state, top)
          BY <3>1, <4>1, <4>3 DEF Rooted
        <5>2. PICK e \in EdgesOf(outer_stack[j].state) : e.to = s /\ e.error = top.error
          BY <3>1, <5>1 DEF EdgeTo
        <5>3. outer_stack[j].state \in States
          BY <4>1 DEF Items
        <5> QED BY <2>1, <3>1, <5>2, <5>3, FaultyFacts
      <4> QED BY <4>2, <4>3
    <3>3. outer_visited' = outer_visited \cup {s}
      BY <3>1
    <3> HIDE DEF top
    <3> QED BY <2>4, <3>2, <3>3
  <2>7. ~OuterExpand => outer_visited' = outer_visited
    <3>1. CASE Start
      BY <3>1 DEF Start, init_state, Inv, Begun, TypeOK
    <3>2. CASE OuterBacktrack \/ OuterRevisit
      BY <2>1, <3>2, OuterBacktrackFacts, OuterRevisitFacts
    <3>3. CASE OuterEnd \/ InnerEnd
      BY <3>3 DEF OuterEnd, InnerEnd, flags
    <3>4. CASE InnerBacktrack \/ InnerSkip \/ InnerExpand
      BY <2>1, <3>4, InnerPopFacts, InnerExpandFacts DEF flags, Inv
    <3> QED BY <1>1, <2>3, <3>1, <3>2, <3>3, <3>4 DEF Step
  <2> QED BY <2>5, <2>6, <2>7
<1>2. CASE UNCHANGED vars
  BY <1>2 DEF vars, flags, NoneFaulty, Faulty, EdgesOf, Searching
<1> QED BY <1>1, <1>2 DEF Next, Finished

\* The search misses no error, when errors are of states.
THEOREM NoFaultyStateMissed ==
  ASSUME FaultyStates
  PROVE  Spec => []NoErrorMissed
<1>1. Init => NoneFaulty
  BY DEF Init, NoneFaulty
<1>2. Inv /\ NoneFaulty /\ [Next]_vars => NoneFaulty'
  BY FaultyStep
<1>3. Inv /\ NoneFaulty => NoErrorMissed
  <2>1. SUFFICES ASSUME Inv, NoneFaulty, pc = "done", ~_error_found, ErrorEdge PROVE FALSE
    BY DEF NoErrorMissed
  <2>2. Searching
    BY <2>1 DEF _error_found, Searching
  <2>3. PICK s \in Reachable(Initial) : \E e \in EdgesOf(s) : e.error
    BY <2>1 DEF ErrorEdge
  <2>4. PICK e \in EdgesOf(s) : e.error
    BY <2>3
  <2>5. s \in outer_visited /\ s \in States
    BY <2>1, <2>2, Explored DEF Reachable
  <2>6. e.to \in outer_visited
    BY <2>1, <2>2, <2>5, Explored DEF Handled
  <2> QED BY <2>1, <2>2, <2>4, <2>5, <2>6 DEF NoneFaulty, Faulty
<1> QED BY <1>1, <1>2, <1>3, NestedDFSInv, PTL DEF Spec
=============================================================================
