---------------------------- MODULE SafetyProofs ---------------------------
(***************************************************************************)
(* For every graph and any number of workers: a state is open, or being    *)
(* expanded, only when ce_trace can get from it to the initial state.      *)
(***************************************************************************)
EXTENDS Safety, TLAPS

\* Whoever works has a state, and an edge of it while the listener runs.
InListener(w) == pc[w] \in {"parent", "found", "from", "to", "label", "terminate", "push"}
Working ==
  \A w \in Workers :
    /\ pc[w] \notin {"idle", "gone"} => cur[w] \in States
    /\ InListener(w) => next[w] \in DOMAIN Graph[cur[w]] /\ Edge(w).to \in stored

\* The parent of a state is written once, by the worker that stored it, and it is
\* not open before that.
Fresh == \A s \in States : s \notin stored => parent[s] = NoState
Writing ==
  \A w \in Workers :
    At(w, "parent") =>
      /\ isnew[w]
      /\ Edge(w).to \in stored
      /\ parent[Edge(w).to] = NoState
      /\ \A v \in Workers \ {w} : At(v, "parent") => Edge(v).to # Edge(w).to

\* What is going to be pushed has its parent.
Pushing == \A w \in Workers : At(w, "push") /\ isnew[w] => Edge(w).to \in Rooted

\* The part of the type invariant that the argument uses.
Types ==
  /\ pc \in [Workers -> Labels]
  /\ cur \in [Workers -> States \cup {NoState}]
  /\ next \in [Workers -> Nat \ {0}]
  /\ isnew \in [Workers -> BOOLEAN]
  /\ open \subseteq stored /\ stored \subseteq States
  /\ parent \in [States -> States \cup {NoState}]
  /\ Initial \in stored

Inv == Types /\ Working /\ Fresh /\ Writing /\ Pushing /\ ParentsInPlace

\* An edge of a graph leads to a state.
LEMMA EdgeTo ==
  ASSUME NEW s \in States, NEW i \in DOMAIN Graph[s]
  PROVE  Graph[s][i].to \in States
  <1>1. Graph[s] \in Seq(Edges)
    BY SafetyAssumption
  <1>2. Graph[s][i] \in Edges
    BY <1>1
  <1> QED BY <1>2 DEF Edges

\* ce_trace needs no step from the initial state.
LEMMA RootedInitial == Initial \in Rooted
  BY SafetyAssumption DEF Rooted

\* A parent that is written for the first time breaks no chain, and continues the
\* chain of the parent.
LEMMA RootedGrows ==
  ASSUME Types, NEW s \in States, NEW t \in States,
         parent[t] = NoState, s \in Rooted, parent' = [parent EXCEPT ![t] = s]
  PROVE  Rooted \subseteq Rooted' /\ t \in Rooted'
  <1>1. ASSUME NEW C \in SUBSET States, Initial \in C,
               \A u \in States : parent'[u] \in C => u \in C
        PROVE  (\A u \in States : parent[u] \in C => u \in C) /\ parent'[t] = s
    <2>1. parent'[t] = s
      BY DEF Types
    <2>2. ASSUME NEW u \in States, parent[u] \in C PROVE u \in C
      <3>1. u # t
        BY <2>2, <1>1, SafetyAssumption
      <3>2. parent'[u] = parent[u]
        BY <3>1 DEF Types
      <3> QED BY <3>2, <2>2, <1>1
    <2> QED BY <2>1, <2>2
  <1>2. ASSUME NEW r \in Rooted PROVE r \in Rooted'
    <2>1. r \in States
      BY DEF Rooted
    <2>2. ASSUME NEW C \in SUBSET States, Initial \in C,
                 \A u \in States : parent'[u] \in C => u \in C
          PROVE  r \in C
      BY <1>1, <2>2 DEF Rooted
    <2> QED BY <2>1, <2>2 DEF Rooted
  <1>3. ASSUME NEW C \in SUBSET States, Initial \in C,
               \A u \in States : parent'[u] \in C => u \in C
        PROVE  t \in C
    <2>1. s \in C
      BY <1>1, <1>3 DEF Rooted
    <2>2. parent'[t] = s
      BY <1>1, <1>3
    <2> QED BY <2>1, <2>2, <1>3
  <1>4. t \in Rooted'
    BY <1>3 DEF Rooted
  <1> QED BY <1>2, <1>4

\* Nothing else moves a chain.
LEMMA RootedSame == ASSUME UNCHANGED parent PROVE Rooted' = Rooted
  BY DEF Rooted

\* Before start() nothing but the initial state is open.
LEMMA InitInv == Init => Inv
  <1> SUFFICES ASSUME Init PROVE Inv
    OBVIOUS
  <1>1. Types
    BY SafetyAssumption DEF Init, Types, Labels
  <1>2. Working /\ Fresh /\ Writing /\ Pushing
    BY DEF Init, Working, InListener, Fresh, Writing, Pushing, At
  <1>3. ParentsInPlace
    <2>1. {cur[w] : w \in Workers} \ {NoState} = {}
      BY DEF Init
    <2> QED BY <2>1, RootedInitial DEF Init, ParentsInPlace
  <1> QED BY <1>1, <1>2, <1>3 DEF Inv

\* The steps that write no parent and open no state.
LEMMA QuietStep ==
  ASSUME Inv, Types', Working', UNCHANGED parent,
         stored \subseteq stored', open' \subseteq open,
         \A w \in Workers : cur'[w] = cur[w] \/ cur'[w] = NoState \/ cur'[w] \in open,
         \A w \in Workers : pc'[w] \in {"parent", "push"} => pc'[w] = pc[w],
         \A w \in Workers : pc'[w] \in {"parent", "push"} =>
            cur'[w] = cur[w] /\ next'[w] = next[w] /\ isnew'[w] = isnew[w]
  PROVE  Inv'
  <1>1. Rooted' = Rooted
    BY RootedSame
  <1>2. Fresh'
    BY DEF Inv, Fresh
  <1>3. \A w \in Workers : pc'[w] \in {"parent", "push"} => Edge(w)' = Edge(w)
    BY DEF Edge
  <1>4. Writing'
    BY <1>3 DEF Inv, Writing, At
  <1>5. Pushing'
    BY <1>1, <1>3 DEF Inv, Pushing, At
  <1>6. ParentsInPlace'
    <2>1. ASSUME NEW w \in Workers, cur'[w] # NoState PROVE cur'[w] \in Rooted
      BY <2>1 DEF Inv, ParentsInPlace
    <2>2. open' \subseteq Rooted
      BY DEF Inv, ParentsInPlace
    <2> QED BY <1>1, <2>1, <2>2 DEF ParentsInPlace
  <1> QED BY <1>2, <1>4, <1>5, <1>6 DEF Inv

\* A step of w moves no other worker.
LEMMA OneMoves ==
  ASSUME Types, NEW w \in Workers, Worker(w)
  PROVE  /\ pc' \in [Workers -> Labels]
         /\ \A v \in Workers \ {w} :
              pc'[v] = pc[v] /\ cur'[v] = cur[v] /\ next'[v] = next[v] /\ isnew'[v] = isnew[v]
         /\ stored \subseteq stored'
  <1>1. \E l \in Labels : pc' = [pc EXCEPT ![w] = l]
    BY DEF Worker, Take, Store, SetParent, SetErrorFound, SetError, SetErrorTo, SetErrorLabel,
           Terminate, Push, Close, Leave, Goto, Labels
  <1>2. /\ cur' = cur \/ \E c \in States \cup {NoState} : cur' = [cur EXCEPT ![w] = c]
        /\ next' = next \/ next' = [next EXCEPT ![w] = 1] \/ next' = [next EXCEPT ![w] = @ + 1]
        /\ isnew' = isnew \/ \E b \in BOOLEAN : isnew' = [isnew EXCEPT ![w] = b]
        /\ stored \subseteq stored'
    BY DEF Worker, Take, Store, SetParent, SetErrorFound, SetError, SetErrorTo, SetErrorLabel,
           Terminate, Push, Close, Leave, searchVars, Types
  <1>3. pc' \in [Workers -> Labels] /\ \A v \in Workers \ {w} : pc'[v] = pc[v]
    BY <1>1 DEF Types
  <1>4. \A v \in Workers \ {w} : cur'[v] = cur[v] /\ next'[v] = next[v] /\ isnew'[v] = isnew[v]
    BY <1>2 DEF Types
  <1> QED BY <1>2, <1>3, <1>4

\* For the others, Working holds after the step because it did before.
LEMMA WorkingStep ==
  ASSUME Types, Working, NEW w \in Workers, Worker(w),
         pc'[w] \notin {"idle", "gone"} => cur'[w] \in States,
         InListener(w)' => next'[w] \in DOMAIN Graph[cur'[w]] /\ Graph[cur'[w]][next'[w]].to \in stored'
  PROVE  Working'
  <1> SUFFICES ASSUME NEW v \in Workers \ {w}
               PROVE  /\ pc'[v] \notin {"idle", "gone"} => cur'[v] \in States
                      /\ InListener(v)' => /\ next'[v] \in DOMAIN Graph[cur'[v]]
                                          /\ Graph[cur'[v]][next'[v]].to \in stored'
    BY DEF Working, Edge
  <1>1. pc'[v] = pc[v] /\ cur'[v] = cur[v] /\ next'[v] = next[v] /\ stored \subseteq stored'
    BY OneMoves
  <1> QED BY <1>1 DEF Working, InListener, Edge

\* Every step of a worker preserves the invariant.
LEMMA WorkerInv ==
  ASSUME Inv, NEW w \in Workers, Worker(w)
  PROVE  Inv'
  <1>0. Types /\ Working
    BY DEF Inv
  <1>p. /\ pc' \in [Workers -> Labels]
        /\ \A v \in Workers \ {w} :
             pc'[v] = pc[v] /\ cur'[v] = cur[v] /\ next'[v] = next[v] /\ isnew'[v] = isnew[v]
    BY <1>0, OneMoves
  <1>1. CASE Take(w)
    <2>1. PICK s \in open : open' = open \ {s} /\ cur' = [cur EXCEPT ![w] = s]
      BY <1>1 DEF Take
    <2>2. s \in States
      BY <1>0 DEF Types
    <2>3. pc'[w] = "edge" /\ cur'[w] = s
      BY <1>0, <1>1, <2>1 DEF Take, Goto, Types
    <2>4. UNCHANGED <<isnew, stored, parent>> /\ next' = [next EXCEPT ![w] = 1]
      BY <1>1 DEF Take
    <2>5. Types'
      BY <1>0, <1>p, <2>1, <2>2, <2>4 DEF Types
    <2>6. Working'
      BY <1>0, <2>2, <2>3, WorkingStep DEF InListener
    <2>7. \A v \in Workers : cur'[v] = cur[v] \/ cur'[v] = NoState \/ cur'[v] \in open
      BY <1>p, <2>1, <2>3
    <2>8. \A v \in Workers : pc'[v] \in {"parent", "push"} => v # w
      BY <2>3
    <2> QED BY <1>p, <2>1, <2>4, <2>5, <2>6, <2>7, <2>8, QuietStep
  <1>2. CASE Store(w)
    <2> DEFINE t == Edge(w).to
    <2>1. next[w] \in DOMAIN Graph[cur[w]] /\ cur[w] \in States
      <3>1. cur[w] \in States
        BY <1>0, <1>2 DEF Store, At, Working
      <3>2. Graph[cur[w]] \in Seq(Edges)
        BY <3>1, SafetyAssumption
      <3> QED BY <3>1, <3>2, <1>2, <1>0 DEF Store, Types
    <2>2. t \in States
      BY <2>1, EdgeTo DEF Edge
    <2>3. /\ UNCHANGED <<cur, next, open, parent>> /\ stored' = stored \cup {t}
          /\ \E b \in BOOLEAN : isnew' = [isnew EXCEPT ![w] = b]
      BY <1>2 DEF Store
    <2>4. Types'
      BY <1>0, <1>p, <2>2, <2>3 DEF Types
    <2>5. Working'
      BY <1>0, <2>1, <2>3, WorkingStep DEF Edge
    <2>6. Rooted' = Rooted
      BY <2>3, RootedSame
    <2>7. Fresh'
      BY <2>3 DEF Inv, Fresh
    <2>8. \A v \in Workers : Edge(v)' = Edge(v)
      BY <2>3 DEF Edge
    <2>9. \A v \in Workers \ {w} : pc'[v] = pc[v] /\ isnew'[v] = isnew[v]
      BY <1>p
    <2>10. pc'[w] = "parent" => t \notin stored /\ isnew'[w]
      BY <1>0, <1>2 DEF Store, Goto, Types
    <2>11. pc'[w] = "push" => ~isnew'[w]
      BY <1>0, <1>2 DEF Store, Goto, Types
    <2>12. Writing'
      <3> SUFFICES ASSUME NEW v \in Workers, pc'[v] = "parent"
                   PROVE  /\ isnew'[v]
                          /\ Edge(v).to \in stored'
                          /\ parent[Edge(v).to] = NoState
                          /\ \A u \in Workers \ {v} : pc'[u] = "parent" => Edge(u).to # Edge(v).to
        BY <2>3, <2>8 DEF Writing, At
      <3>1. CASE v = w
        BY <3>1, <2>2, <2>3, <2>9, <2>10 DEF Inv, Writing, Fresh, At
      <3>2. CASE v # w
        BY <3>2, <2>3, <2>9, <2>10 DEF Inv, Writing, At
      <3> QED BY <3>1, <3>2
    <2>13. Pushing'
      BY <2>6, <2>8, <2>9, <2>11 DEF Inv, Pushing, At
    <2>14. ParentsInPlace'
      BY <2>3, <2>6 DEF Inv, ParentsInPlace
    <2> QED BY <2>4, <2>5, <2>7, <2>12, <2>13, <2>14 DEF Inv
  <1>3. CASE SetParent(w)
    <2> DEFINE t == Edge(w).to
    <2>1. next[w] \in DOMAIN Graph[cur[w]] /\ cur[w] \in States
      BY <1>0, <1>3 DEF SetParent, At, Working, InListener
    <2>2. t \in States
      BY <2>1, EdgeTo DEF Edge
    <2>3. isnew[w] /\ t \in stored /\ parent[t] = NoState
      BY <1>3 DEF SetParent, Inv, Writing
    <2>4. cur[w] \in Rooted
      BY <2>1, SafetyAssumption DEF Inv, ParentsInPlace
    <2>5. parent' = [parent EXCEPT ![t] = cur[w]] /\ UNCHANGED <<cur, next, isnew, stored, open>>
      BY <1>3 DEF SetParent, searchVars
    <2>6. Rooted \subseteq Rooted' /\ t \in Rooted'
      BY <1>0, <2>1, <2>2, <2>3, <2>4, <2>5, RootedGrows
    <2>7. Types'
      BY <1>0, <1>p, <2>1, <2>2, <2>5 DEF Types
    <2>8. Working'
      BY <1>0, <2>1, <2>3, <2>5, WorkingStep DEF Edge
    <2>9. Fresh'
      BY <1>0, <2>3, <2>5 DEF Inv, Fresh, Types
    <2>10. \A v \in Workers : Edge(v)' = Edge(v)
      BY <2>5 DEF Edge
    <2>11. \A v \in Workers \ {w} : pc'[v] = pc[v]
      BY <1>p
    <2>12. pc'[w] # "parent"
      BY <1>0, <1>3 DEF SetParent, Goto, Types
    <2>13. Writing'
      <3> SUFFICES ASSUME NEW v \in Workers, pc'[v] = "parent"
                   PROVE  /\ isnew[v]
                          /\ Edge(v).to \in stored
                          /\ parent'[Edge(v).to] = NoState
                          /\ \A u \in Workers \ {v} : pc'[u] = "parent" => Edge(u).to # Edge(v).to
        BY <2>5, <2>10 DEF Writing, At
      <3>1. v # w /\ pc[v] = "parent" /\ pc[w] = "parent"
        BY <2>11, <2>12, <1>3 DEF SetParent, At
      <3>2. Edge(v).to # t /\ Edge(v).to \in stored /\ isnew[v] /\ parent[Edge(v).to] = NoState
        BY <3>1 DEF Inv, Writing, At
      <3>3. parent'[Edge(v).to] = NoState
        BY <3>2, <2>5, <1>0 DEF Types
      <3>4. \A u \in Workers \ {v} : pc'[u] = "parent" => Edge(u).to # Edge(v).to
        BY <3>1, <2>11, <2>12 DEF Inv, Writing, At
      <3> QED BY <3>2, <3>3, <3>4
    <2>14. Pushing'
      BY <2>5, <2>6, <2>10, <2>11 DEF Inv, Pushing, At
    <2>15. ParentsInPlace'
      BY <2>5, <2>6 DEF Inv, ParentsInPlace
    <2> QED BY <2>7, <2>8, <2>9, <2>13, <2>14, <2>15 DEF Inv
  <1>4. CASE SetErrorFound(w) \/ SetError(w) \/ SetErrorTo(w) \/ SetErrorLabel(w)
    <2>1. /\ InListener(w) /\ pc'[w] \in {"from", "to", "label", "terminate"}
          /\ UNCHANGED <<cur, next, isnew, stored, open, parent>>
      BY <1>0, <1>4 DEF SetErrorFound, SetError, SetErrorTo, SetErrorLabel, searchVars, At, Goto,
                        InListener, Types
    <2>2. Types'
      BY <1>0, <1>p, <2>1 DEF Types
    <2>3. Working'
      BY <1>0, <2>1, WorkingStep DEF Working, InListener, Edge
    <2>4. \A v \in Workers : pc'[v] \in {"parent", "push"} => v # w
      BY <2>1
    <2> QED BY <1>p, <2>1, <2>2, <2>3, <2>4, QuietStep
  <1>5. CASE Terminate(w) \/ Close(w) \/ Leave(w)
    <2>1. /\ pc'[w] \in {"idle", "gone"}
          /\ cur' = cur \/ cur' = [cur EXCEPT ![w] = NoState]
          /\ UNCHANGED <<next, isnew, stored, open, parent>>
      BY <1>0, <1>5 DEF Terminate, Close, Leave, searchVars, Goto, Types
    <2>2. Types'
      BY <1>0, <1>p, <2>1 DEF Types
    <2>3. Working'
      BY <1>0, <2>1, WorkingStep DEF InListener
    <2>4. \A v \in Workers : cur'[v] = cur[v] \/ cur'[v] = NoState \/ cur'[v] \in open
      BY <1>0, <1>p, <2>1 DEF Types
    <2>5. \A v \in Workers : pc'[v] \in {"parent", "push"} => v # w
      BY <2>1
    <2> QED BY <1>p, <2>1, <2>2, <2>3, <2>4, <2>5, QuietStep
  <1>6. CASE Push(w)
    <2> DEFINE t == Edge(w).to
    <2>1. pc[w] = "push" /\ pc'[w] = "edge" /\ cur[w] \in States /\ t \in stored
      BY <1>0, <1>6 DEF Push, At, Goto, Types, Working, InListener
    <2>2. /\ UNCHANGED <<cur, isnew, stored, parent>>
          /\ open' = IF isnew[w] THEN open \cup {t} ELSE open
          /\ next' = [next EXCEPT ![w] = @ + 1]
      BY <1>6 DEF Push
    <2>3. Rooted' = Rooted
      BY <2>2, RootedSame
    <2>4. isnew[w] => t \in Rooted
      BY <2>1 DEF Inv, Pushing, At
    <2>5. open' \subseteq stored
      BY <1>0, <2>1, <2>2 DEF Types
    <2>6. next' \in [Workers -> Nat \ {0}]
      BY <1>0, <2>2 DEF Types
    <2>7. Types'
      BY <1>0, <1>p, <2>2, <2>5, <2>6 DEF Types
    <2>8. Working'
      BY <1>0, <2>1, <2>2, WorkingStep DEF InListener
    <2>9. Fresh'
      BY <2>2 DEF Inv, Fresh
    <2>10. \A v \in Workers : pc'[v] \in {"parent", "push"} => v # w
      BY <2>1
    <2>11. \A v \in Workers : v # w => Edge(v)' = Edge(v)
      BY <1>p DEF Edge
    <2>12. Writing'
      BY <1>p, <2>2, <2>10, <2>11 DEF Inv, Writing, At
    <2>13. Pushing'
      BY <1>p, <2>2, <2>3, <2>10, <2>11 DEF Inv, Pushing, At
    <2>14. ParentsInPlace'
      <3>1. open' \subseteq Rooted
        BY <2>2, <2>4 DEF Inv, ParentsInPlace
      <3> QED BY <2>2, <2>3, <3>1 DEF Inv, ParentsInPlace
    <2> QED BY <2>7, <2>8, <2>9, <2>12, <2>13, <2>14 DEF Inv
  <1> QED BY <1>1, <1>2, <1>3, <1>4, <1>5, <1>6 DEF Worker

\* For every program graph and any number of workers, a state that is open or being
\* expanded has its chain of parents in place: ce_trace, started at the source of
\* whatever error edge a worker finds, reads written parents only and ends in the
\* initial state.
THEOREM ParentsAreInPlace == Spec => []ParentsInPlace
  <1>1. Inv /\ [Next]_vars => Inv'
    <2>1. ASSUME Inv, UNCHANGED vars PROVE Inv'
      BY <2>1 DEF Inv, vars, searchVars, Types, Working, InListener, Fresh, Writing, Pushing, At, Edge,
                  ParentsInPlace, Rooted
    <2> QED BY <2>1, WorkerInv DEF Next, Finished
  <1>2. Inv => ParentsInPlace
    BY DEF Inv
  <1> QED BY <1>1, <1>2, InitInv, PTL DEF Spec
-----------------------------------------------------------------------------
\* Where a worker has found an error edge, and has not yet left because of it.
InError(w) == pc[w] \in {"found", "from", "to", "label", "terminate"}
AnError == \E s \in Reachable : \E e \in EdgesOf(s) : e.error

\* Nothing is stored that is not reachable, and nothing is called an error that is not
\* an error edge.
Sound ==
  /\ stored \subseteq Reachable
  /\ \A w \in Workers : cur[w] # NoState => cur[w] \in stored
  /\ \A w \in Workers : InError(w) => Edge(w).error
  /\ error_found \in BOOLEAN /\ (error_found => AnError)

\* A state that is stored and will be pushed.
InTransit(s) ==
  \E w \in Workers : pc[w] \in {"parent", "found", "push"} /\ isnew[w] /\ Edge(w).to = s
Taken(s) == \E w \in Workers : cur[w] = s

\* The edges of s before the ith have been followed, and none is an error edge.
Clean(s, i) == \A j \in DOMAIN Graph[s] : j < i => Graph[s][j].to \in stored /\ ~Graph[s][j].error
Expanded(s) == \A j \in DOMAIN Graph[s] : Graph[s][j].to \in stored /\ ~Graph[s][j].error

\* As long as no error is found nobody leaves, nothing is skipped, and nothing is lost
\* between the worker that stores a state and the worker that takes it.
Covered ==
  /\ \A s \in stored : s \in open \/ Taken(s) \/ InTransit(s) \/ Expanded(s)
  /\ \A w \in Workers : cur[w] # NoState => Clean(cur[w], next[w])
  /\ \A w \in Workers : At(w, "push") => ~Edge(w).error
  /\ (\E w \in Workers : At(w, "gone")) =>
       open = {} /\ \A w \in Workers : pc[w] \in {"idle", "gone"}

Complete ==
  /\ \A w \in Workers : pc[w] \in {"idle", "gone"} => cur[w] = NoState
  /\ terminate => error_found
  /\ \A w \in Workers : pc[w] \in {"from", "to", "label", "terminate"} => error_found
  /\ ~error_found => Covered

VerdictInv == Inv /\ Sound /\ Complete

\* The reachable states are the least set that is closed under the edges.
LEMMA ReachableClosed ==
  /\ Initial \in Reachable
  /\ \A s \in Reachable : \A i \in DOMAIN Graph[s] : Graph[s][i].to \in Reachable
  <1>1. Initial \in Reachable
    BY SafetyAssumption DEF Reachable
  <1>2. ASSUME NEW s \in Reachable, NEW i \in DOMAIN Graph[s] PROVE Graph[s][i].to \in Reachable
    <2>1. s \in States /\ Graph[s][i].to \in States
      BY EdgeTo DEF Reachable
    <2>2. ASSUME NEW C \in SUBSET States, Initial \in C,
                 \A t \in C : \A e \in EdgesOf(t) : e.to \in C
          PROVE  Graph[s][i].to \in C
      <3>1. s \in C
        BY <2>2 DEF Reachable
      <3>2. Graph[s][i] \in EdgesOf(s)
        BY DEF EdgesOf
      <3> QED BY <2>2, <3>1, <3>2
    <2> QED BY <2>1, <2>2 DEF Reachable
  <1> QED BY <1>1, <1>2

LEMMA ReachableLeast ==
  ASSUME NEW C \in SUBSET States, Initial \in C,
         \A s \in C : \A i \in DOMAIN Graph[s] : Graph[s][i].to \in C
  PROVE  Reachable \subseteq C
  <1>1. \A s \in C : \A e \in EdgesOf(s) : e.to \in C
    BY DEF EdgesOf
  <1> QED BY <1>1 DEF Reachable

LEMMA InitVerdictInv == Init => VerdictInv
  <1> SUFFICES ASSUME Init PROVE VerdictInv
    OBVIOUS
  <1>1. Sound
    BY ReachableClosed DEF Init, Sound, InError
  <1>2. Complete
    <2>1. \A w \in Workers : ~At(w, "gone") /\ ~At(w, "push") /\ cur[w] = NoState
      BY DEF Init, At
    <2>2. Covered
      BY <2>1 DEF Init, Covered
    <2> QED BY <2>1, <2>2 DEF Init, Complete
  <1> QED BY <1>1, <1>2, InitInv DEF VerdictInv

\* What the steps of the workers do to what the others see.
LEMMA OthersStay ==
  ASSUME Types, NEW w \in Workers, Worker(w), NEW v \in Workers \ {w}
  PROVE  /\ pc'[v] = pc[v] /\ cur'[v] = cur[v] /\ next'[v] = next[v] /\ isnew'[v] = isnew[v]
         /\ Edge(v)' = Edge(v)
  BY OneMoves DEF Edge

\* Every step of a worker keeps Sound.
LEMMA SoundStep ==
  ASSUME Inv, Sound, NEW w \in Workers, Worker(w)
  PROVE  Sound'
  <1>0. Types /\ Working
    BY DEF Inv
  <1>1. stored' \subseteq Reachable
    <2>1. CASE Store(w)
      <3>1. cur[w] \in Reachable
        BY <1>0, <2>1, SafetyAssumption DEF Store, At, Working, Sound
      <3>2. Graph[cur[w]] \in Seq(Edges)
        BY <3>1, SafetyAssumption DEF Reachable
      <3>3. next[w] \in DOMAIN Graph[cur[w]]
        BY <1>0, <2>1, <3>2 DEF Store, Types
      <3>4. Edge(w).to \in Reachable
        BY <3>1, <3>3, ReachableClosed DEF Edge
      <3> QED BY <2>1, <3>4 DEF Store, Sound
    <2>2. CASE ~Store(w)
      <3>1. stored' = stored
        BY <2>2 DEF Worker, Take, SetParent, SetErrorFound, SetError, SetErrorTo, SetErrorLabel,
                    Terminate, Push, Close, Leave, searchVars
      <3> QED BY <3>1 DEF Sound
    <2> QED BY <2>1, <2>2
  <1>2. \A v \in Workers : cur'[v] # NoState => cur'[v] \in stored'
    <2>1. stored \subseteq stored'
      BY <1>0, OneMoves
    <2>2. cur'[w] = cur[w] \/ cur'[w] = NoState \/ cur'[w] \in open
      BY <1>0 DEF Worker, Take, Store, SetParent, SetErrorFound, SetError, SetErrorTo, SetErrorLabel,
                  Terminate, Push, Close, Leave, searchVars, Types
    <2> QED BY <1>0, <2>1, <2>2, OthersStay DEF Sound, Types
  <1>3. ASSUME NEW v \in Workers, InError(v)' PROVE Edge(v)'.error
    <2>1. CASE v # w
      BY <1>0, <1>3, <2>1, OthersStay DEF Sound, InError
    <2>2. CASE v = w
      <3>1. CASE Store(w) \/ SetParent(w)
        <4>1. Edge(w)' = Edge(w)
          BY <3>1 DEF Store, SetParent, searchVars, Edge
        <4>2. pc'[w] \in {"found", "from", "to", "label", "terminate"} => Edge(w).error
          BY <1>0, <3>1 DEF Store, SetParent, Goto, Types
        <4> QED BY <1>3, <2>2, <4>1, <4>2 DEF InError
      <3>2. CASE ~(Store(w) \/ SetParent(w))
        <4>1. /\ InError(w) /\ UNCHANGED <<cur, next>>
          BY <1>0, <1>3, <2>2, <3>2
          DEF Worker, Take, SetErrorFound, SetError, SetErrorTo, SetErrorLabel,
              Terminate, Push, Close, Leave, searchVars, InError, Goto, At, Types
        <4> QED BY <2>2, <4>1 DEF Sound, Edge
      <3> QED BY <3>1, <3>2
    <2> QED BY <2>1, <2>2
  <1>4. error_found' \in BOOLEAN /\ (error_found' => AnError)
    <2>1. CASE SetErrorFound(w)
      <3>1. InError(w) /\ InListener(w) /\ error_found' = TRUE
        BY <2>1 DEF SetErrorFound, InError, InListener, At
      <3>2. cur[w] \in Reachable /\ next[w] \in DOMAIN Graph[cur[w]]
        BY <1>0, <3>1, SafetyAssumption DEF Sound, Working, InListener, InError
      <3>3. Edge(w).error /\ Edge(w) \in EdgesOf(cur[w])
        BY <3>1, <3>2 DEF Sound, Edge, EdgesOf
      <3> QED BY <3>1, <3>2, <3>3 DEF AnError
    <2>2. CASE ~SetErrorFound(w)
      <3>1. error_found' = error_found
        BY <2>2 DEF Worker, Take, Store, SetParent, SetError, SetErrorTo, SetErrorLabel,
                    Terminate, Push, Close, Leave, errorVars
      <3> QED BY <3>1 DEF Sound
    <2> QED BY <2>1, <2>2
  <1>5. AnError' = AnError
    BY DEF AnError, Reachable, EdgesOf
  <1>6. Reachable' = Reachable
    BY DEF Reachable, EdgesOf
  <1> QED BY <1>1, <1>2, <1>3, <1>4, <1>5, <1>6 DEF Sound

\* What stays as it is for a state when the stored ones only become more.
LEMMA CoveredGrows ==
  ASSUME stored \subseteq stored', NEW s
  PROVE  /\ \A i : Clean(s, i) => Clean(s, i)'
         /\ Expanded(s) => Expanded(s)'
  BY DEF Clean, Expanded

\* Every step that finds no error keeps the stored states covered.
LEMMA CoveredStep ==
  ASSUME Inv, Sound, Complete, NEW w \in Workers, Worker(w), ~error_found, ~error_found'
  PROVE  Covered'
  <1>0. Types /\ Working /\ Covered /\ ~terminate
    BY DEF Inv, Complete
  <1>s. stored \subseteq stored'
    BY <1>0, OneMoves
  <1>o. \A v \in Workers \ {w} :
          /\ pc'[v] = pc[v] /\ cur'[v] = cur[v] /\ next'[v] = next[v] /\ isnew'[v] = isnew[v]
          /\ Edge(v)' = Edge(v)
    BY <1>0, OthersStay
  <1>c. \A v \in Workers \ {w} : cur'[v] # NoState => Clean(cur[v], next[v])'
    BY <1>0, <1>o, <1>s, CoveredGrows DEF Covered
  <1>p. \A v \in Workers \ {w} : At(v, "push")' => ~Edge(v)'.error
    BY <1>0, <1>o DEF Covered, At
  <1>g. ASSUME pc[w] \notin {"idle", "gone"}, pc'[w] # "gone"
        PROVE  ~\E v \in Workers : At(v, "gone")'
    BY <1>0, <1>g, <1>o DEF Covered, At
  <1>1. CASE Take(w)
    <2>1. PICK s \in open : open' = open \ {s} /\ cur' = [cur EXCEPT ![w] = s]
      BY <1>1 DEF Take
    <2>2. /\ pc[w] = "idle" /\ pc'[w] = "edge" /\ next'[w] = 1 /\ cur'[w] = s
          /\ stored' = stored /\ s \in States /\ cur[w] = NoState
      BY <1>0, <1>1, <2>1 DEF Take, At, Goto, Types, Complete
    <2>3. ASSUME NEW t \in stored
          PROVE  t \in open' \/ Taken(t)' \/ InTransit(t)' \/ Expanded(t)'
      <3>1. CASE t \in open
        BY <2>1, <2>2, <3>1 DEF Taken
      <3>2. CASE Taken(t)
        <4>1. PICK v \in Workers : cur[v] = t
          BY <3>2 DEF Taken
        <4>2. v # w
          BY <1>0, <2>2, <4>1, SafetyAssumption DEF Types
        <4> QED BY <1>o, <4>1, <4>2 DEF Taken
      <3>3. CASE InTransit(t)
        BY <1>o, <2>2, <3>3 DEF InTransit
      <3> QED BY <1>0, <1>s, <3>1, <3>2, <3>3, CoveredGrows DEF Covered
    <2>4. Clean(cur[w], next[w])'
      <3>1. Graph[s] \in Seq(Edges)
        BY <2>2, SafetyAssumption
      <3>2. \A j \in DOMAIN Graph[s] : ~(j < 1)
        BY <3>1
      <3> QED BY <2>2, <3>2 DEF Clean
    <2>5. \A v \in Workers : ~At(v, "gone")'
      BY <1>0, <1>o, <2>1, <2>2 DEF Covered, At
    <2>6. ~At(w, "push")'
      BY <2>2 DEF At
    <2> QED BY <1>c, <1>p, <2>2, <2>3, <2>4, <2>5, <2>6 DEF Covered
  <1>2. CASE Store(w)
    <2> DEFINE t == Edge(w).to
    <2>1. /\ pc[w] = "edge" /\ pc'[w] \in {"parent", "found", "push"}
          /\ UNCHANGED <<cur, next, open>> /\ stored' = stored \cup {t}
          /\ isnew' = [isnew EXCEPT ![w] = t \notin stored]
      BY <1>0, <1>2 DEF Store, At, Goto, Types
    <2>2. Edge(w)' = Edge(w)
      BY <2>1 DEF Edge
    <2>3. ASSUME NEW s \in stored
          PROVE  s \in open' \/ Taken(s)' \/ InTransit(s)' \/ Expanded(s)'
      <3>1. CASE InTransit(s)
        BY <1>o, <2>1, <3>1 DEF InTransit
      <3>2. CASE Taken(s)
        BY <2>1, <3>2 DEF Taken
      <3> QED BY <1>0, <1>s, <2>1, <3>1, <3>2, CoveredGrows DEF Covered
    <2>4. t \notin stored => InTransit(t)'
      BY <1>0, <2>1, <2>2 DEF InTransit, Types
    <2>5. cur'[w] # NoState => Clean(cur[w], next[w])'
      BY <1>0, <1>s, <2>1, CoveredGrows DEF Covered
    <2>6. At(w, "push")' => ~Edge(w)'.error
      BY <1>0, <1>2, <2>2 DEF Store, At, Goto, Types
    <2>7. ~\E v \in Workers : At(v, "gone")'
      BY <1>g, <2>1
    <2>8. ASSUME NEW s \in stored'
          PROVE  s \in open' \/ Taken(s)' \/ InTransit(s)' \/ Expanded(s)'
      <3>1. CASE s \in stored
        BY <2>3, <3>1
      <3>2. CASE s \notin stored
        <4>1. s = t
          BY <2>1, <3>2
        <4> QED BY <2>2, <2>4, <3>2, <4>1 DEF InTransit
      <3> QED BY <3>1, <3>2
    <2> QED BY <1>c, <1>p, <2>5, <2>6, <2>7, <2>8 DEF Covered
  <1>3. CASE SetParent(w)
    <2>1. /\ pc[w] = "parent" /\ pc'[w] = (IF Edge(w).error THEN "found" ELSE "push")
          /\ UNCHANGED <<cur, next, open, stored, isnew>>
      BY <1>0, <1>3 DEF SetParent, searchVars, At, Goto, Types
    <2>2. Edge(w)' = Edge(w)
      BY <2>1 DEF Edge
    <2>3. ASSUME NEW s \in stored
          PROVE  s \in open' \/ Taken(s)' \/ InTransit(s)' \/ Expanded(s)'
      <3>1. CASE InTransit(s)
        <4>1. PICK v \in Workers : pc[v] \in {"parent", "found", "push"} /\ isnew[v] /\ Edge(v).to = s
          BY <3>1 DEF InTransit
        <4>2. pc'[v] \in {"parent", "found", "push"} /\ isnew'[v] /\ Edge(v)' = Edge(v)
          BY <1>o, <2>1, <2>2, <4>1
        <4> QED BY <4>1, <4>2 DEF InTransit
      <3>2. CASE Taken(s)
        BY <2>1, <3>2 DEF Taken
      <3> QED BY <1>0, <1>s, <2>1, <3>1, <3>2, CoveredGrows DEF Covered
    <2>4. cur'[w] # NoState => Clean(cur[w], next[w])'
      BY <1>0, <1>s, <2>1, CoveredGrows DEF Covered
    <2>5. At(w, "push")' => ~Edge(w)'.error
      BY <2>1, <2>2 DEF At
    <2>6. ~\E v \in Workers : At(v, "gone")'
      BY <1>g, <2>1
    <2> QED BY <1>c, <1>p, <2>1, <2>3, <2>4, <2>5, <2>6 DEF Covered
  <1>4. CASE Push(w)
    <2> DEFINE t == Edge(w).to
    <2>1. /\ pc[w] = "push" /\ pc'[w] = "edge" /\ next'[w] = next[w] + 1
          /\ open' = IF isnew[w] THEN open \cup {t} ELSE open
          /\ UNCHANGED <<cur, stored, isnew>>
      BY <1>0, <1>4 DEF Push, At, Goto, Types
    <2>2. cur[w] \in States /\ next[w] \in DOMAIN Graph[cur[w]] /\ t \in stored
      BY <1>0, <2>1 DEF Working, InListener
    <2>3. ASSUME NEW s \in stored
          PROVE  s \in open' \/ Taken(s)' \/ InTransit(s)' \/ Expanded(s)'
      <3>1. CASE InTransit(s)
        <4>1. PICK v \in Workers : pc[v] \in {"parent", "found", "push"} /\ isnew[v] /\ Edge(v).to = s
          BY <3>1 DEF InTransit
        <4>2. CASE v = w
          BY <2>1, <4>1, <4>2
        <4>3. CASE v # w
          BY <1>o, <4>1, <4>3 DEF InTransit
        <4> QED BY <4>2, <4>3
      <3>2. CASE Taken(s)
        BY <2>1, <3>2 DEF Taken
      <3>3. open \subseteq open'
        BY <2>1
      <3> QED BY <1>0, <1>s, <3>1, <3>2, <3>3, CoveredGrows DEF Covered
    <2>4. Clean(cur[w], next[w])'
      <3>1. Graph[cur[w]] \in Seq(Edges) /\ next[w] \in Nat
        BY <1>0, <2>2, SafetyAssumption DEF Types
      <3>2. Clean(cur[w], next[w]) /\ t \in stored /\ ~Graph[cur[w]][next[w]].error
        BY <1>0, <2>1, <2>2, SafetyAssumption DEF Covered, At, Edge
      <3>3. ASSUME NEW j \in DOMAIN Graph[cur[w]], j < next[w] + 1
            PROVE  Graph[cur[w]][j].to \in stored /\ ~Graph[cur[w]][j].error
        <4>1. j < next[w] \/ j = next[w]
          BY <3>1, <3>3
        <4> QED BY <3>2, <3>3, <4>1 DEF Clean, Edge
      <3> QED BY <2>1, <3>3 DEF Clean
    <2>5. ~At(w, "push")'
      BY <2>1 DEF At
    <2>6. ~\E v \in Workers : At(v, "gone")'
      BY <1>g, <2>1
    <2> QED BY <1>c, <1>p, <2>1, <2>3, <2>4, <2>5, <2>6 DEF Covered
  <1>5. CASE Close(w)
    <2>1. /\ pc[w] = "edge" /\ pc'[w] = "idle" /\ cur'[w] = NoState
          /\ next[w] > Len(Graph[cur[w]]) /\ UNCHANGED <<next, open, stored, isnew>>
      BY <1>0, <1>5 DEF Close, At, Goto, Types
    <2>2. cur[w] \in States /\ Graph[cur[w]] \in Seq(Edges) /\ next[w] \in Nat
      BY <1>0, <2>1, SafetyAssumption DEF Working, Types
    <2>3. Expanded(cur[w])
      <3>1. Clean(cur[w], next[w])
        BY <1>0, <2>2, SafetyAssumption DEF Covered
      <3>2. \A j \in DOMAIN Graph[cur[w]] : j < next[w]
        BY <2>1, <2>2
      <3> QED BY <3>1, <3>2 DEF Clean, Expanded
    <2>4. ASSUME NEW s \in stored
          PROVE  s \in open' \/ Taken(s)' \/ InTransit(s)' \/ Expanded(s)'
      <3>1. CASE InTransit(s)
        BY <1>o, <2>1, <3>1 DEF InTransit
      <3>2. CASE Taken(s)
        BY <1>o, <1>s, <2>3, <3>2, CoveredGrows DEF Taken
      <3> QED BY <1>0, <1>s, <2>1, <3>1, <3>2, CoveredGrows DEF Covered
    <2>5. ~At(w, "push")'
      BY <2>1 DEF At
    <2>6. ~\E v \in Workers : At(v, "gone")'
      BY <1>g, <2>1
    <2> QED BY <1>c, <1>p, <2>1, <2>4, <2>5, <2>6 DEF Covered
  <1>6. CASE Leave(w)
    <2>1. /\ pc[w] = "idle" /\ pc'[w] = "gone" /\ UNCHANGED <<cur, next, open, stored, isnew>>
          /\ open = {} /\ \A v \in Workers : pc[v] \in {"idle", "gone"}
      BY <1>0, <1>6 DEF Leave, searchVars, At, Goto, Types
    <2>2. ASSUME NEW s \in stored
          PROVE  s \in open' \/ Taken(s)' \/ InTransit(s)' \/ Expanded(s)'
      <3>1. ~InTransit(s)
        BY <2>1 DEF InTransit
      <3>2. CASE Taken(s)
        BY <2>1, <3>2 DEF Taken
      <3> QED BY <1>0, <1>s, <2>1, <3>1, <3>2, CoveredGrows DEF Covered
    <2>3. cur'[w] # NoState => Clean(cur[w], next[w])'
      BY <1>0, <1>s, <2>1, CoveredGrows DEF Covered
    <2>4. ~At(w, "push")'
      BY <2>1 DEF At
    <2>5. open' = {} /\ \A v \in Workers : pc'[v] \in {"idle", "gone"}
      BY <1>o, <2>1
    <2> QED BY <1>c, <1>p, <2>1, <2>2, <2>3, <2>4, <2>5 DEF Covered
  <1>7. CASE SetErrorFound(w) \/ SetError(w) \/ SetErrorTo(w) \/ SetErrorLabel(w) \/ Terminate(w)
    BY <1>7 DEF SetErrorFound, SetError, SetErrorTo, SetErrorLabel, Terminate, At, Complete
  <1> QED BY <1>1, <1>2, <1>3, <1>4, <1>5, <1>6, <1>7 DEF Worker

LEMMA CompleteStep ==
  ASSUME Inv, Sound, Complete, NEW w \in Workers, Worker(w)
  PROVE  Complete'
  <1>0. Types
    BY DEF Inv
  <1>1. error_found => error_found'
    BY DEF Worker, Take, Store, SetParent, SetErrorFound, SetError, SetErrorTo, SetErrorLabel,
           Terminate, Push, Close, Leave, errorVars
  <1>2. \A v \in Workers : pc'[v] \in {"idle", "gone"} => cur'[v] = NoState
    <2>1. pc'[w] \in {"idle", "gone"} => cur'[w] = NoState
      BY <1>0 DEF Complete, Worker, Take, Store, SetParent, SetErrorFound, SetError, SetErrorTo,
                  SetErrorLabel, Terminate, Push, Close, Leave, searchVars, Goto, At, Types
    <2> QED BY <1>0, <2>1, OthersStay DEF Complete
  <1>3. terminate' => error_found'
    BY <1>1 DEF Complete, Worker, Take, Store, SetParent, SetErrorFound, SetError, SetErrorTo,
                SetErrorLabel, Terminate, Push, Close, Leave, searchVars, At
  <1>4. \A v \in Workers : pc'[v] \in {"from", "to", "label", "terminate"} => error_found'
    <2>1. pc'[w] \in {"from", "to", "label", "terminate"} => error_found'
      BY <1>0, <1>1 DEF Complete, Worker, Take, Store, SetParent, SetErrorFound, SetError, SetErrorTo,
                  SetErrorLabel, Terminate, Push, Close, Leave, Goto, At, Types
    <2> QED BY <1>0, <1>1, <2>1, OthersStay DEF Complete
  <1>5. ~error_found' => Covered'
    BY <1>1, CoveredStep
  <1> QED BY <1>2, <1>3, <1>4, <1>5 DEF Complete

LEMMA VerdictInvariant == Spec => []VerdictInv
  <1>1. VerdictInv /\ [Next]_vars => VerdictInv'
    <2>1. ASSUME VerdictInv, UNCHANGED vars PROVE VerdictInv'
      BY <2>1 DEF VerdictInv, Inv, vars, searchVars, errorVars, Types, Working, InListener, Fresh,
                  Writing, Pushing, At, Edge, ParentsInPlace, Rooted, Sound, InError, AnError, Reachable,
                  EdgesOf, Complete, Covered, Taken, InTransit, Expanded, Clean
    <2>2. ASSUME VerdictInv, NEW w \in Workers, Worker(w) PROVE VerdictInv'
      BY <2>2, WorkerInv, SoundStep, CompleteStep DEF VerdictInv
    <2> QED BY <2>1, <2>2 DEF Next, Finished
  <1> QED BY <1>1, InitVerdictInv, PTL DEF Spec

\* For every program graph and any number of workers, in whatever order they take the
\* states: the search reports an error exactly when there is a reachable error edge.
THEOREM VerdictIsRight == Spec => []Verdict
  <1>1. VerdictInv => Verdict
    <2> SUFFICES ASSUME VerdictInv, Joined PROVE error_found = AnError
      BY DEF Verdict, AnError
    <2>1. error_found \in BOOLEAN /\ (error_found => AnError)
      BY DEF VerdictInv, Sound
    <2>2. ASSUME ~error_found PROVE ~AnError
      <3>1. Covered /\ \A w \in Workers : pc[w] = "gone" /\ cur[w] = NoState
        BY <2>2 DEF VerdictInv, Complete, Joined, At
      <3>2. open = {} /\ Initial \in stored /\ stored \subseteq States
        BY <3>1, SafetyAssumption DEF Covered, At, VerdictInv, Inv, Types
      <3>3. \A s \in stored : Expanded(s)
        <4>1. ASSUME NEW s \in stored PROVE ~Taken(s) /\ ~InTransit(s)
          BY <3>1, <3>2, SafetyAssumption DEF Taken, InTransit
        <4> QED BY <3>1, <3>2, <4>1 DEF Covered
      <3>4. Reachable \subseteq stored
        BY <3>2, <3>3, ReachableLeast DEF Expanded
      <3>5. ASSUME NEW s \in Reachable, NEW e \in EdgesOf(s) PROVE ~e.error
        <4>1. PICK i \in DOMAIN Graph[s] : e = Graph[s][i]
          BY DEF EdgesOf
        <4> QED BY <3>3, <3>4, <4>1 DEF Expanded
      <3> QED BY <3>5 DEF AnError
    <2>3. AnError \in BOOLEAN
      BY DEF AnError
    <2> QED BY <2>1, <2>2, <2>3
  <1> QED BY <1>1, VerdictInvariant, PTL
-----------------------------------------------------------------------------
\* The members of Safety are written one by one.  They can only be mixed up when there
\* are two workers, and two error edges for them to find.
OneWorker == \A w, v \in Workers : w = v
OneErrorEdge ==
  \A s, t \in States : \A i \in DOMAIN Graph[s] : \A j \in DOMAIN Graph[t] :
    Graph[s][i].error /\ Graph[t][j].error => s = t /\ Graph[s][i] = Graph[t][j]

\* The members describe the edge s, i.
Describe(s, i) ==
  error = s /\ error_to = Graph[s][i].to /\ error_label = Graph[s][i].label

\* What a worker has written so far is still there, and when it has told the others to
\* stop, the members describe an error edge.
Recorded ==
  /\ \A w \in Workers :
       /\ pc[w] \in {"to", "label", "terminate"} => error = cur[w]
       /\ pc[w] \in {"label", "terminate"} => error_to = Edge(w).to
       /\ pc[w] = "terminate" => error_label = Edge(w).label
  /\ terminate =>
       /\ \E s \in States : \E i \in DOMAIN Graph[s] : Graph[s][i].error /\ Describe(s, i)
       /\ \E w \in Workers : pc[w] = "gone"
  /\ error_found => terminate \/ \E w \in Workers : pc[w] \in {"from", "to", "label", "terminate"}

\* Two workers that record an error record the same one, and one that still does when
\* the search is being stopped records what is recorded already.
LEMMA SameEdge ==
  ASSUME OneWorker \/ OneErrorEdge, Inv, Sound, NEW w \in Workers, InError(w)
  PROVE  /\ cur[w] \in States /\ next[w] \in DOMAIN Graph[cur[w]] /\ Edge(w).error
         /\ \A v \in Workers : InError(v) => cur[v] = cur[w] /\ Edge(v) = Edge(w)
         /\ Recorded /\ terminate => Describe(cur[w], next[w])
  <1>1. ASSUME NEW v \in Workers, InError(v)
        PROVE  cur[v] \in States /\ next[v] \in DOMAIN Graph[cur[v]] /\ Edge(v).error
    BY <1>1 DEF Inv, Sound, Working, InListener, InError
  <1>2. ASSUME NEW v \in Workers, InError(v) PROVE cur[v] = cur[w] /\ Edge(v) = Edge(w)
    <2>1. CASE OneWorker
      <3>1. v = w
        BY <2>1 DEF OneWorker
      <3> QED BY <3>1
    <2>2. CASE OneErrorEdge
      BY <1>1, <1>2, <2>2 DEF OneErrorEdge, Edge
    <2> QED BY <2>1, <2>2
  <1>3. ASSUME Recorded, terminate PROVE Describe(cur[w], next[w])
    <2>1. CASE OneWorker
      <3>1. PICK v \in Workers : pc[v] = "gone"
        BY <1>3 DEF Recorded
      <3>2. v = w
        BY <2>1 DEF OneWorker
      <3> QED BY <3>1, <3>2 DEF InError
    <2>2. CASE OneErrorEdge
      <3>1. PICK s \in States : \E i \in DOMAIN Graph[s] : Graph[s][i].error /\ Describe(s, i)
        BY <1>3 DEF Recorded
      <3>2. PICK i \in DOMAIN Graph[s] : Graph[s][i].error /\ Describe(s, i)
        BY <3>1
      <3>3. s = cur[w] /\ Graph[s][i] = Graph[cur[w]][next[w]]
        BY <1>1, <2>2, <3>2 DEF OneErrorEdge, Edge
      <3> QED BY <3>2, <3>3 DEF Describe
    <2> QED BY <2>1, <2>2
  <1> QED BY <1>1, <1>2, <1>3

LEMMA RecordedStep ==
  ASSUME OneWorker \/ OneErrorEdge, Inv, Sound, Recorded, NEW w \in Workers, Worker(w)
  PROVE  Recorded'
  <1>0. Types
    BY DEF Inv
  <1>o. \A v \in Workers \ {w} : pc'[v] = pc[v] /\ cur'[v] = cur[v] /\ Edge(v)' = Edge(v)
    BY <1>0, OthersStay
  <1>1. CASE SetErrorFound(w) \/ SetError(w) \/ SetErrorTo(w) \/ SetErrorLabel(w)
    <2>1. /\ InError(w) /\ pc'[w] \in {"from", "to", "label", "terminate"} /\ pc[w] # "gone"
          /\ UNCHANGED <<cur, next, terminate>> /\ Edge(w)' = Edge(w)
      BY <1>0, <1>1 DEF SetErrorFound, SetError, SetErrorTo, SetErrorLabel, searchVars, InError,
                        At, Goto, Edge, Types
    <2>2. /\ cur[w] \in States /\ next[w] \in DOMAIN Graph[cur[w]] /\ Edge(w).error
          /\ \A v \in Workers : InError(v) => cur[v] = cur[w] /\ Edge(v) = Edge(w)
          /\ terminate => Describe(cur[w], next[w])
      BY <2>1, SameEdge
    <2>3. error' = error \/ error' = cur[w]
      BY <1>1 DEF SetErrorFound, SetError, SetErrorTo, SetErrorLabel
    <2>4. error_to' = error_to \/ error_to' = Edge(w).to
      BY <1>1 DEF SetErrorFound, SetError, SetErrorTo, SetErrorLabel
    <2>5. error_label' = error_label \/ error_label' = Edge(w).label
      BY <1>1 DEF SetErrorFound, SetError, SetErrorTo, SetErrorLabel
    <2>6. ASSUME NEW v \in Workers
          PROVE  /\ pc'[v] \in {"to", "label", "terminate"} => error' = cur'[v]
                 /\ pc'[v] \in {"label", "terminate"} => error_to' = Edge(v)'.to
                 /\ pc'[v] = "terminate" => error_label' = Edge(v)'.label
      <3>1. CASE v # w
        <4>1. pc'[v] \in {"to", "label", "terminate"} => InError(v)
          BY <1>o, <3>1 DEF InError
        <4> QED BY <1>o, <2>2, <2>3, <2>4, <2>5, <3>1, <4>1 DEF Recorded
      <3>2. CASE v = w
        <4>1. /\ pc'[w] \in {"to", "label", "terminate"} => error' = cur[w]
              /\ pc'[w] \in {"label", "terminate"} => error_to' = Edge(w).to
              /\ pc'[w] = "terminate" => error_label' = Edge(w).label
          BY <1>0, <1>1 DEF SetErrorFound, SetError, SetErrorTo, SetErrorLabel, At, Goto, Types, Recorded
        <4> QED BY <2>1, <3>2, <4>1
      <3> QED BY <3>1, <3>2
    <2>7. ASSUME terminate'
          PROVE  /\ \E s \in States : \E i \in DOMAIN Graph[s] : Graph[s][i].error /\ Describe(s, i)'
                 /\ \E v \in Workers : pc'[v] = "gone"
      <3>1. Describe(cur[w], next[w])
        BY <2>1, <2>2, <2>7
      <3>2. UNCHANGED <<error, error_to, error_label>>
        BY <2>3, <2>4, <2>5, <3>1 DEF Describe, Edge
      <3>3. \E v \in Workers : pc'[v] = "gone"
        BY <1>o, <2>1, <2>7 DEF Recorded
      <3> QED BY <2>1, <2>7, <3>2, <3>3 DEF Recorded, Describe
    <2> QED BY <2>1, <2>6, <2>7 DEF Recorded, Describe
  <1>2. CASE Terminate(w)
    <2>1. /\ pc[w] = "terminate" /\ pc'[w] = "gone" /\ terminate' = TRUE
          /\ UNCHANGED <<error, error_to, error_label>>
      BY <1>0, <1>2 DEF Terminate, errorVars, At, Goto, Types
    <2>2. cur[w] \in States /\ next[w] \in DOMAIN Graph[cur[w]] /\ Edge(w).error
      BY <2>1, SameEdge DEF InError
    <2>3. Describe(cur[w], next[w]) /\ Graph[cur[w]][next[w]].error
      BY <2>1, <2>2 DEF Recorded, Describe, Edge
    <2>4. \E s \in States : \E i \in DOMAIN Graph[s] : Graph[s][i].error /\ Describe(s, i)'
      BY <2>1, <2>2, <2>3 DEF Describe
    <2> QED BY <1>o, <2>1, <2>4 DEF Recorded, Describe
  <1>3. CASE Take(w) \/ Store(w) \/ SetParent(w) \/ Push(w) \/ Close(w) \/ Leave(w)
    <2>1. /\ pc[w] \notin {"from", "to", "label", "terminate", "gone"}
          /\ pc'[w] \notin {"from", "to", "label", "terminate"}
          /\ UNCHANGED <<terminate, error_found, error, error_to, error_label>>
      BY <1>0, <1>3 DEF Take, Store, SetParent, Push, Close, Leave, searchVars, errorVars, At, Goto, Types
    <2> QED BY <1>o, <2>1 DEF Recorded, Describe
  <1> QED BY <1>1, <1>2, <1>3 DEF Worker

\* With one worker, or with one error edge in the whole graph, what the members of
\* Safety say in the end is an error edge.  With two of both the run of MCSafety_torn
\* shows that they may not.
THEOREM ErrorIsRecorded ==
  ASSUME OneWorker \/ OneErrorEdge
  PROVE  Spec => []ErrorIsEdge
  <1>1. Init => Recorded
    BY DEF Init, Recorded
  <1>2. VerdictInv /\ Recorded /\ [Next]_vars => Recorded'
    <2>1. ASSUME Recorded, UNCHANGED vars PROVE Recorded'
      BY <2>1 DEF Recorded, Describe, Edge, vars, searchVars, errorVars
    <2>2. ASSUME VerdictInv, Recorded, NEW w \in Workers, Worker(w) PROVE Recorded'
      BY <2>2, RecordedStep DEF VerdictInv
    <2> QED BY <2>1, <2>2 DEF Next, Finished
  <1>3. Recorded => ErrorIsEdge
    <2> SUFFICES ASSUME Recorded, Joined, error_found
                 PROVE  /\ error \in States
                        /\ [to |-> error_to, label |-> error_label, error |-> TRUE] \in EdgesOf(error)
      BY DEF ErrorIsEdge
    <2>1. terminate
      BY DEF Recorded, Joined, At
    <2>2. PICK s \in States : \E i \in DOMAIN Graph[s] : Graph[s][i].error /\ Describe(s, i)
      BY <2>1 DEF Recorded
    <2>3. PICK i \in DOMAIN Graph[s] : Graph[s][i].error /\ Describe(s, i)
      BY <2>2
    <2>4. Graph[s][i] \in Edges
      <3>1. Graph[s] \in Seq(Edges)
        BY SafetyAssumption
      <3> QED BY <3>1
    <2>5. Graph[s][i] = [to |-> error_to, label |-> error_label, error |-> TRUE]
      BY <2>3, <2>4 DEF Edges, Describe
    <2> QED BY <2>3, <2>5 DEF EdgesOf, Describe
  <1> QED BY <1>1, <1>2, <1>3, VerdictInvariant, PTL DEF Spec
=============================================================================
