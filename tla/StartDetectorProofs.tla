------------------------ MODULE StartDetectorProofs -------------------------
(***************************************************************************)
(* For any number of threads that fits the counter and any number of       *)
(* rounds: the two counters of StartDetector make a reusable barrier.      *)
(***************************************************************************)
EXTENDS StartDetector, FiniteSetTheorems, TLAPS

\* The threads that have been counted and not seen the barrier open, and those that
\* the guard still counts.
Spinning == {w \in Workers : At(w, "spin")}
Guarded == {w \in Workers : At(w, "spin") \/ At(w, "leave")}

\* A thread is one round ahead in `arrived` while it is inside the barrier.
Ahead ==
  \A w \in Workers :
    arrived[w] = left[w] + (IF pc[w] \in {"guard", "reset", "spin"} THEN 1 ELSE 0)

\* All threads are in the same round.
SameLeft == \A w, v \in Workers : left[w] = left[v]
SameArrived == \A w, v \in Workers : arrived[w] = arrived[v]

\* The threads come in one after another; nobody is left of the previous round.
Gathering ==
  /\ leaveGuard = 0
  /\ \A w \in Workers : pc[w] \in {"out", "count", "spin"}
  /\ counter = Cardinality(Spinning) /\ counter < peers
  /\ SameLeft

\* The last one is in, and has not yet opened the barrier for the others.
Full(g) ==
  /\ pc[g] \in {"guard", "reset"}
  /\ leaveGuard = IF At(g, "guard") THEN 0 ELSE peers
  /\ \A w \in Workers \ {g} : At(w, "spin")
  /\ counter = peers
  /\ SameLeft

\* The barrier is open, and the guard keeps the threads that have left outside.
Leaving ==
  /\ counter = 0
  /\ \A w \in Workers : pc[w] \in {"out", "spin", "leave"}
  /\ leaveGuard = Cardinality(Guarded) /\ leaveGuard > 0
  /\ SameArrived

Inv ==
  /\ TypeOK
  /\ Ahead
  /\ Gathering \/ (\E g \in Workers : Full(g)) \/ Leaving
-----------------------------------------------------------------------------
\* The number of threads fits the counters.
LEMMA Peers == peers \in Nat /\ peers > 0 /\ ShortRange \in Nat /\ peers < ShortRange
  BY StartAssumption, FS_CardinalityType, FS_EmptySet DEF StartAssumption, peers

\* A counter that stays in its range does not wrap.
LEMMA InRange == ASSUME NEW n \in 0..peers PROVE n % ShortRange = n
<1>1. ShortRange \in Nat /\ 0 <= n /\ n < ShortRange /\ n \in Int
  BY Peers
<1> QED BY <1>1

\* The number of threads in a set is a number up to `peers`, which only the set of all
\* threads reaches.
LEMMA Sizes ==
  ASSUME NEW S \in SUBSET Workers
  PROVE  /\ IsFiniteSet(S) /\ Cardinality(S) \in 0..peers
         /\ Cardinality(S) = peers => S = Workers
         /\ Cardinality(S) = 0 <=> S = {}
<1>1. IsFiniteSet(Workers)
  BY StartAssumption DEF StartAssumption
<1>2. IsFiniteSet(S) /\ Cardinality(S) <= peers /\ (Cardinality(S) = peers => S = Workers)
  BY <1>1, FS_Subset DEF peers
<1>3. Cardinality(S) \in Nat /\ peers \in Nat
  BY <1>1, <1>2, FS_CardinalityType DEF peers
<1>4. Cardinality(S) = 0 <=> S = {}
  BY <1>2, FS_EmptySet
<1> QED BY <1>2, <1>3, <1>4

\* One more, one less.
LEMMA OneMore ==
  ASSUME NEW S \in SUBSET Workers, NEW w \in Workers
  PROVE  /\ w \notin S => Cardinality(S \cup {w}) = Cardinality(S) + 1
         /\ w \in S => Cardinality(S \ {w}) = Cardinality(S) - 1
<1>1. IsFiniteSet(S)
  BY Sizes
<1> QED BY <1>1, FS_AddElement, FS_RemoveElement

LEMMA InitInv == Init => Inv
<1> SUFFICES ASSUME Init PROVE Inv
  OBVIOUS
<1>1. TypeOK /\ Ahead
  BY Peers DEF Init, TypeOK, Ahead, Pcs
<1>2. Spinning = {}
  BY DEF Init, Spinning, At
<1>3. Gathering
  BY <1>2, FS_EmptySet, Peers DEF Init, Gathering, SameLeft
<1> QED BY <1>1, <1>3 DEF Inv

\* Where a thread that makes a step is, tells the phase.
LEMMA Phase ==
  ASSUME Inv, NEW w \in Workers
  PROVE  /\ At(w, "count") => Gathering
         /\ At(w, "out") => Gathering \/ Leaving
         /\ At(w, "guard") \/ At(w, "reset") => Full(w)
         /\ At(w, "spin") /\ counter = 0 => Leaving
         /\ At(w, "leave") => Leaving
<1>1. ASSUME NEW g \in Workers, Full(g)
      PROVE  /\ ~At(w, "count") /\ ~At(w, "out") /\ ~At(w, "leave") /\ counter # 0
             /\ At(w, "guard") \/ At(w, "reset") => w = g
  BY <1>1, Peers DEF Full, At
<1>2. ASSUME Gathering, At(w, "spin") PROVE counter # 0
  <2>1. w \in Spinning
    BY <1>2 DEF Spinning
  <2> QED BY <1>2, <2>1, Sizes DEF Gathering, Spinning
<1> QED BY <1>1, <1>2 DEF Inv, Gathering, Leaving, At

\* A thread that is counted in while the threads gather.
LEMMA CountInv ==
  ASSUME Inv, NEW w \in Workers, Count(w)
  PROVE  Inv'
<1>1. Gathering /\ At(w, "count")
  BY Phase DEF Count
<1>2. w \notin Spinning
  BY <1>1 DEF Spinning, At
<1>3. Cardinality(Spinning \cup {w}) = counter + 1 /\ counter + 1 \in 1..peers
  <2>1. Spinning \in SUBSET Workers /\ counter = Cardinality(Spinning) /\ counter < peers
    BY <1>1 DEF Gathering, Spinning
  <2>2. Cardinality(Spinning \cup {w}) = counter + 1 /\ counter \in 0..peers
    BY <1>2, <2>1, OneMore, Sizes
  <2> QED BY <2>1, <2>2, Peers
<1>4. counter' = counter + 1
  BY <1>3, InRange, Peers DEF Count
<1>5. /\ pc' = [pc EXCEPT ![w] = IF counter' = peers THEN "guard" ELSE "spin"]
      /\ arrived' = [arrived EXCEPT ![w] = @ + 1] /\ UNCHANGED <<leaveGuard, left>>
  BY DEF Count, Goto
<1>6. TypeOK'
  BY <1>3, <1>4, <1>5, Peers DEF Inv, TypeOK, Pcs
<1>7. Ahead'
  BY <1>1, <1>5 DEF Inv, TypeOK, Ahead, At
<1>8. SameLeft'
  BY <1>1, <1>5 DEF Gathering, SameLeft
<1>9. CASE counter' = peers
  <2>1. Spinning \cup {w} = Workers
    BY <1>3, <1>4, <1>9, Sizes DEF Spinning
  <2>2. pc'[w] = "guard" /\ \A v \in Workers \ {w} : pc'[v] = "spin"
    BY <1>5, <1>9, <2>1 DEF Inv, TypeOK, Spinning, At
  <2>3. Full(w)'
    BY <1>1, <1>5, <1>8, <1>9, <2>2 DEF Full, Gathering, At
  <2> QED BY <1>6, <1>7, <2>3 DEF Inv
<1>10. CASE counter' # peers
  <2>1. Spinning' = Spinning \cup {w}
    BY <1>5, <1>10 DEF Inv, TypeOK, Spinning, At
  <2>2. Gathering'
    <3>1. \A v \in Workers : pc'[v] \in {"out", "count", "spin"}
      BY <1>1, <1>5, <1>10 DEF Inv, TypeOK, Gathering
    <3>2. counter' = Cardinality(Spinning') /\ counter' < peers
      BY <1>3, <1>4, <1>10, <2>1, Peers
    <3> QED BY <1>1, <1>5, <1>8, <3>1, <3>2 DEF Gathering
  <2> QED BY <1>6, <1>7, <2>2 DEF Inv
<1> QED BY <1>9, <1>10

\* The last thread raises the guard and opens the barrier.
LEMMA OpenInv ==
  ASSUME Inv, NEW w \in Workers, RaiseGuard(w) \/ Reset(w)
  PROVE  Inv'
<1>1. Full(w)
  BY Phase DEF RaiseGuard, Reset
<1>2. CASE RaiseGuard(w)
  <2>1. TypeOK' /\ Ahead'
    BY <1>2, Peers DEF Inv, TypeOK, Ahead, RaiseGuard, Goto, At, Pcs
  <2>2. Full(w)'
    BY <1>1, <1>2 DEF Inv, TypeOK, Full, SameLeft, RaiseGuard, Goto, At
  <2> QED BY <2>1, <2>2 DEF Inv
<1>3. CASE Reset(w)
  <2>1. TypeOK' /\ Ahead'
    BY <1>3, Peers DEF Inv, TypeOK, Ahead, Reset, Goto, At, Pcs
  <2>2. \A v \in Workers : pc'[v] = "spin"
    BY <1>1, <1>3 DEF Inv, TypeOK, Full, Reset, Goto, At
  <2>3. Guarded' = Workers
    BY <2>2 DEF Guarded, At
  <2>4. SameArrived'
    <3>1. \A v \in Workers : pc[v] \in {"reset", "spin"}
      BY <1>1, <1>3 DEF Full, Reset, At
    <3>2. \A v \in Workers : arrived[v] = left[v] + 1
      BY <3>1 DEF Inv, Ahead
    <3> QED BY <1>1, <1>3, <3>2 DEF Full, SameLeft, SameArrived, Reset
  <2>5. Leaving'
    BY <1>1, <1>3, <2>2, <2>3, <2>4, Peers DEF Leaving, Full, Reset, At, peers
  <2> QED BY <2>1, <2>5 DEF Inv
<1> QED BY <1>2, <1>3

\* A thread sees the barrier open.
LEMMA SeeOpenInv ==
  ASSUME Inv, NEW w \in Workers, SeeOpen(w)
  PROVE  Inv'
<1>1. Leaving
  BY Phase DEF SeeOpen
<1>2. TypeOK' /\ Ahead'
  BY DEF Inv, TypeOK, Ahead, SeeOpen, Goto, At, Pcs
<1>3. Guarded' = Guarded
  BY DEF Inv, TypeOK, Guarded, SeeOpen, Goto, At
<1>4. Leaving'
  BY <1>1, <1>3 DEF Inv, TypeOK, Leaving, SameArrived, SeeOpen, Goto, At
<1> QED BY <1>2, <1>4 DEF Inv

\* A thread is let out; with the last one the next round begins.
LEMMA LeaveInv ==
  ASSUME Inv, NEW w \in Workers, Leave(w)
  PROVE  Inv'
<1>1. Leaving /\ At(w, "leave")
  BY Phase DEF Leave
<1>2. w \in Guarded /\ Guarded' = Guarded \ {w}
  BY <1>1 DEF Inv, TypeOK, Guarded, Leave, Goto, At
<1>3. leaveGuard \in 1..peers /\ Cardinality(Guarded') = leaveGuard - 1
  BY <1>1, <1>2, OneMore, Sizes DEF Leaving, Guarded
<1>4. leaveGuard' = leaveGuard - 1
  BY <1>3, InRange, Peers DEF Leave
<1>5. TypeOK' /\ Ahead'
  BY <1>3, <1>4, Peers DEF Inv, TypeOK, Ahead, Leave, Goto, At, Pcs
<1>6. \A v \in Workers : pc'[v] \in {"out", "spin", "leave"}
  BY <1>1 DEF Inv, TypeOK, Leaving, Leave, Goto
<1>7. CASE leaveGuard' > 0
  <2>1. Leaving'
    BY <1>1, <1>3, <1>4, <1>6, <1>7 DEF Leaving, SameArrived, Leave
  <2> QED BY <1>5, <2>1 DEF Inv
<1>8. CASE leaveGuard' = 0
  <2>1. Guarded' = {}
    BY <1>3, <1>4, <1>8, Sizes, <1>2 DEF Guarded
  <2>2. \A v \in Workers : pc'[v] = "out"
    BY <1>6, <2>1 DEF Guarded, At
  <2>3. Spinning' = {} /\ SameLeft'
    <3>1. \A v \in Workers : arrived'[v] = left'[v]
      BY <1>5, <2>2 DEF TypeOK, Ahead
    <3>2. \A v, u \in Workers : arrived'[v] = arrived'[u]
      BY <1>1 DEF Leaving, SameArrived, Leave
    <3> QED BY <2>2, <3>1, <3>2 DEF Spinning, At, SameLeft
  <2>4. Gathering'
    BY <1>1, <1>8, <2>2, <2>3, FS_EmptySet, Peers DEF Gathering, Leaving, Leave
  <2> QED BY <1>5, <2>4 DEF Inv
<1> QED BY <1>3, <1>4, <1>7, <1>8

\* A thread that may enter finds the guard at 0 and the others gathering.
LEMMA EnterInv ==
  ASSUME Inv, NEW w \in Workers, Enter(w)
  PROVE  Inv'
<1>1. Gathering
  BY Phase DEF Enter, Leaving
<1>2. TypeOK' /\ Ahead'
  BY DEF Inv, TypeOK, Ahead, Enter, Goto, At, Pcs
<1>3. Spinning' = Spinning
  BY DEF Inv, TypeOK, Spinning, Enter, Goto, At
<1>4. Gathering'
  BY <1>1, <1>3 DEF Inv, TypeOK, Gathering, SameLeft, Enter, Goto, At
<1> QED BY <1>2, <1>4 DEF Inv

LEMMA Stutter == Inv /\ UNCHANGED vars => Inv'
  BY DEF Inv, TypeOK, Ahead, Gathering, Full, Leaving, SameLeft, SameArrived, Spinning, Guarded,
         At, vars

LEMMA NextInv == Inv /\ [Next]_vars => Inv'
<1> SUFFICES ASSUME Inv, [Next]_vars PROVE Inv'
  OBVIOUS
<1>1. ASSUME NEW w \in Workers, Thread(w) PROVE Inv'
  BY <1>1, CountInv, OpenInv, SeeOpenInv, LeaveInv, EnterInv, Stutter DEF Thread, Spin
<1> QED BY <1>1, Stutter DEF Next, Finished

LEMMA Invariant == Spec => []Inv
  BY InitInv, NextInv, PTL DEF Spec
-----------------------------------------------------------------------------
\* Nobody passes waitForAll for the nth time before everybody has been counted n times,
\* however fast some threads come back.
THEOREM BarrierIsHeld == Spec => []BarrierHolds
<1>1. Inv => BarrierHolds
  <2> SUFFICES ASSUME Inv, NEW w \in Workers, NEW v \in Workers PROVE left[w] <= arrived[v]
    BY DEF BarrierHolds
  <2>1. left[w] <= arrived[w] /\ left[v] <= arrived[v] /\ left[w] \in Nat /\ arrived[v] \in Nat
    BY DEF Inv, TypeOK, Ahead
  <2>2. left[w] = left[v] \/ arrived[w] = arrived[v]
    BY DEF Inv, Gathering, Full, Leaving, SameLeft, SameArrived
  <2> QED BY <2>1, <2>2 DEF Inv, TypeOK
<1> QED BY <1>1, Invariant, PTL

\* The two 16-bit counters stay in their ranges: no increment or decrement wraps.
THEOREM CountersNeverWrap == Spec => []NoWrap
<1>1. Inv => NoWrap
  <2> SUFFICES ASSUME Inv PROVE NoWrap
    OBVIOUS
  <2>1. counter <= peers
    BY Peers DEF Inv, TypeOK, Gathering, Full, Leaving
  <2>2. \A w \in Workers : At(w, "leave") => leaveGuard > 0
    BY Phase DEF Leaving
  <2> QED BY <2>1, <2>2 DEF NoWrap
<1> QED BY <1>1, Invariant, PTL

\* The detector implements the reusable barrier of module Barrier: being counted is
\* arriving, seeing the counter at 0 is leaving, and all other steps are invisible.
THEOREM DetectorRefines == Spec => ImplementsBarrier
<1>1. Init => B!Init
  BY DEF Init, B!Init
<1>2. Inv /\ [Next]_vars => [B!Next]_(B!vars)
  <2> SUFFICES ASSUME Inv, [Next]_vars PROVE [B!Next]_(B!vars)
    OBVIOUS
  <2>1. ASSUME NEW w \in Workers, Count(w) PROVE B!Next
    <3>1. arrived[w] = left[w]
      BY <2>1 DEF Inv, Ahead, TypeOK, Count, At
    <3>2. arrived' = [arrived EXCEPT ![w] = @ + 1] /\ UNCHANGED left
      BY <2>1 DEF Count
    <3>3. B!Arrive(w)
      BY <3>1, <3>2 DEF B!Arrive
    <3> QED BY <3>3 DEF B!Next
  <2>2. ASSUME NEW w \in Workers, SeeOpen(w) PROVE B!Next
    <3>1. Leaving /\ At(w, "spin")
      BY <2>2, Phase DEF SeeOpen
    <3>2. arrived[w] = left[w] + 1 /\ \A v \in Workers : arrived[v] >= arrived[w]
      BY <3>1 DEF Inv, Ahead, TypeOK, Leaving, SameArrived, At
    <3> QED BY <2>2, <3>2 DEF SeeOpen, B!Next, B!Leave
  <2>3. ASSUME NEW w \in Workers,
               Spin(w) \/ Enter(w) \/ RaiseGuard(w) \/ Reset(w) \/ Leave(w)
        PROVE  UNCHANGED B!vars
    BY <2>3 DEF Spin, Enter, RaiseGuard, Reset, Leave, vars, B!vars
  <2> QED BY <2>1, <2>2, <2>3 DEF Next, Finished, Thread, vars, B!vars
<1> QED BY <1>1, <1>2, Invariant, PTL DEF Spec, ImplementsBarrier, B!Spec
=============================================================================
