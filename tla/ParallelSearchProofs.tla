------------------------ MODULE ParallelSearchProofs ------------------------
(***************************************************************************)
(* What holds of ParallelSearch for every graph, every number of workers   *)
(* and every value of Step: type correctness, the exact meaning of the     *)
(* shared counter, that no open state is in two places, that the counter   *)
(* is 0 too early in one window only, and that no state is lost.  With one *)
(* worker there is no such window and the search is complete.              *)
(***************************************************************************)
EXTENDS ParallelSearch, FiniteSetTheorems, TLAPS

USE SearchAssumption

-----------------------------------------------------------------------------
(***************************************************************************)
(*                          Type correctness                               *)
(***************************************************************************)

\* Chunked::flush keeps the chunk size between 2 and 64.
LEMMA PublishType ==
  ASSUME TypeOK, NEW w \in Workers, Publish(w)
  PROVE  /\ sharedQ' \in SUBSET SUBSET States
         /\ qEmpty' \in BOOLEAN
         /\ outgoing' \in [Workers -> SUBSET States]
         /\ chunkSize' \in [Workers -> 2..64]
<1> DEFINE grow(n) == IF n < 64 THEN IF 2 * n < 64 THEN 2 * n ELSE 64 ELSE n
<1>1. \A n \in 2..64 : grow(n) \in 2..64
  OBVIOUS
<1>2. chunkSize' = [chunkSize EXCEPT ![w] = grow(chunkSize[w])]
  BY DEF Publish
<1>3. chunkSize' \in [Workers -> 2..64]
  <2> HIDE DEF grow
  <2> QED
    BY <1>1, <1>2 DEF TypeOK
<1>4. sharedQ' \in SUBSET SUBSET States /\ outgoing' \in [Workers -> SUBSET States]
  BY DEF TypeOK, Publish
<1>5. qEmpty' \in BOOLEAN
  BY DEF Publish
<1> QED
  BY <1>3, <1>4, <1>5

\* pseudoBFS hands its workers well-typed queues and counters.
LEMMA TypeInit == Init => TypeOK
<1>1. IsFiniteSet(Initials \ Ignored)
  <2>1. Initials \ Ignored \in SUBSET States
    OBVIOUS
  <2> QED
    BY <2>1, FS_Subset
<1>2. Cardinality(Initials \ Ignored) \in Nat
  BY <1>1, FS_CardinalityType
<1>3. Init => sharedQ \in SUBSET SUBSET States
  BY DEF Init
<1>4. Init => qEmpty \in BOOLEAN
  BY DEF Init
<1>5. Init => chunkSize \in [Workers -> 2..64]
  BY DEF Init
<1>6. Init => counter \in Nat
  BY <1>2 DEF Init
<1>7. Init => /\ pc \in [Workers -> WorkerPcs]
              /\ visited \in SUBSET States
              /\ cur \in [Workers -> States \cup {NoState}]
              /\ todo \in [Workers -> SUBSET States]
              /\ local \in [Workers -> Nat]
              /\ value \in [Workers -> Nat]
              /\ outgoing \in [Workers -> SUBSET States]
              /\ incoming \in [Workers -> SUBSET States]
  BY DEF Init, WorkerPcs
<1>8. Init => /\ terminate \in BOOLEAN /\ aborted \in BOOLEAN
              /\ threw \in SUBSET Workers /\ reaped \in SUBSET Workers
              /\ main \in MainPcs
  BY DEF Init, MainPcs
<1> QED
  BY <1>3, <1>4, <1>5, <1>6, <1>7, <1>8 DEF TypeOK

\* Every step keeps the types.
LEMMA TypeStep == TypeOK /\ [Next]_vars => TypeOK'
<1> SUFFICES ASSUME TypeOK, [Next]_vars PROVE TypeOK'
  OBVIOUS
<1> USE DEF TypeOK, WorkerPcs, MainPcs, searchVars, counterVars, queueVars, endVars,
            mainVars, Goto, At
<1>1. CASE Cleanup
  BY <1>1 DEF Cleanup
<1>2. CASE Join
  BY <1>2 DEF Join
<1>3. CASE Stop
  BY <1>3 DEF Stop
<1>4. CASE Finished \/ UNCHANGED vars
  BY <1>4 DEF Finished, vars
<1>5. ASSUME NEW w \in Workers, Get(w) PROVE TypeOK'
  BY <1>5 DEF Get
<1>6. ASSUME NEW w \in Workers, Worker(w) PROVE TypeOK'
  <2>1. CASE Arrive(w)
    BY <2>1 DEF Arrive
  <2>2. CASE Leave(w)
    BY <2>2 DEF Leave
  <2>3. CASE ReadWork(w)
    BY <2>3 DEF ReadWork
  <2>4. CASE ReadTerminate(w)
    BY <2>4 DEF ReadTerminate
  <2>5. CASE Peek(w)
    BY <2>5 DEF Peek
  <2>6. CASE GrabNothing(w)
    BY <2>6 DEF GrabNothing
  <2>7. CASE Throw(w)
    BY <2>7 DEF Throw
  <2>8. CASE Flush(w)
    BY <2>8, PublishType DEF Flush
  <2>9. CASE Count(w)
    BY <2>9 DEF Count
  <2>10. CASE Close(w)
    BY <2>10 DEF Close
  <2>11. CASE IdleFlush(w)
    BY <2>11, PublishType DEF IdleFlush
  <2>12. CASE SyncRead(w)
    BY <2>12 DEF SyncRead
  <2>13. CASE SyncNothing(w)
    BY <2>13 DEF SyncNothing, SyncedPc
  <2>14. CASE SyncCas(w)
    BY <2>14 DEF SyncCas, SyncedPc, SyncTo
  <2>15. CASE SyncRetry(w)
    BY <2>15 DEF SyncRetry
  <2>16. CASE AssertTerminate(w)
    BY <2>16 DEF AssertTerminate
  <2>17. CASE AssertQueue(w)
    BY <2>17 DEF AssertQueue
  <2>18. CASE Defer(w)
    BY <2>18 DEF Defer
  <2>19. ASSUME NEW chunk \in sharedQ, Grab(w, chunk) \/ AssertGrab(w, chunk) PROVE TypeOK'
    <3>1. /\ sharedQ' \in SUBSET SUBSET States /\ qEmpty' \in BOOLEAN
          /\ incoming' \in [Workers -> SUBSET States]
      BY <2>19 DEF Grab, AssertGrab, Take
    <3>2. CASE Grab(w, chunk)
      BY <3>1, <3>2 DEF Grab
    <3>3. CASE AssertGrab(w, chunk)
      BY <3>1, <3>3 DEF AssertGrab
    <3> QED
      BY <2>19, <3>2, <3>3
  <2>20. ASSUME NEW v \in incoming[w], Pop(w, v) PROVE TypeOK'
    BY <2>20 DEF Pop
  <2>21. ASSUME NEW s \in todo[w], Yield(w, s) PROVE TypeOK'
    BY <2>21 DEF Yield
  <2>22. ASSUME NEW s \in todo[w], YieldError(w, s) PROVE TypeOK'
    BY <2>22 DEF YieldError
  <2> QED
    BY <1>6, <2>1, <2>2, <2>3, <2>4, <2>5, <2>6, <2>7, <2>8, <2>9, <2>10, <2>11,
       <2>12, <2>13, <2>14, <2>15, <2>16, <2>17, <2>18, <2>19, <2>20, <2>21, <2>22 DEF Worker
<1> QED
  BY <1>1, <1>2, <1>3, <1>4, <1>5, <1>6 DEF Next, Main

\* The type invariant of the parallel search.
THEOREM TypeCorrect == Spec => []TypeOK
  BY TypeInit, TypeStep, PTL DEF Spec

-----------------------------------------------------------------------------
(***************************************************************************)
(*                        Counting the credit                              *)
(***************************************************************************)

\* Tokens, as a function of the local counters.
TokensOf(l) == UNION {{w} \X (1..l[w]) : w \in Workers}

\* The credit of one worker.
LEMMA CreditCard ==
  ASSUME NEW w, NEW n \in Nat
  PROVE  IsFiniteSet({w} \X (1..n)) /\ Cardinality({w} \X (1..n)) = n
<1>1. IsFiniteSet({w}) /\ Cardinality({w}) = 1
  BY FS_Singleton
<1>2. IsFiniteSet(1..n) /\ Cardinality(1..n) = n
  BY FS_Interval
<1>3. /\ IsFiniteSet({w} \X (1..n))
      /\ Cardinality({w} \X (1..n)) = Cardinality({w}) * Cardinality(1..n)
  BY <1>1, <1>2, FS_Product
<1> QED
  BY <1>1, <1>2, <1>3

\* Changing the local counter of one worker changes the total credit by the
\* difference.
LEMMA TokensUpdate ==
  ASSUME NEW l \in [Workers -> Nat], IsFiniteSet(TokensOf(l)),
         NEW w \in Workers, NEW n \in Nat
  PROVE  /\ IsFiniteSet(TokensOf([l EXCEPT ![w] = n]))
         /\ Cardinality(TokensOf([l EXCEPT ![w] = n])) = Cardinality(TokensOf(l)) - l[w] + n
<1> DEFINE old == {w} \X (1..l[w])
           new == {w} \X (1..n)
           rest == TokensOf(l) \ old
<1>1. IsFiniteSet(old) /\ Cardinality(old) = l[w]
  BY CreditCard
<1>2. IsFiniteSet(new) /\ Cardinality(new) = n
  BY CreditCard
<1>3. TokensOf(l) \cap old = old
  BY DEF TokensOf
<1>4. IsFiniteSet(rest) /\ Cardinality(rest) = Cardinality(TokensOf(l)) - l[w]
  <2>1. /\ IsFiniteSet(TokensOf(l) \ old)
        /\ Cardinality(TokensOf(l) \ old)
            = Cardinality(TokensOf(l)) - Cardinality(TokensOf(l) \cap old)
    BY FS_Difference
  <2> QED
    BY <1>1, <1>3, <2>1
<1>5. rest \cap new = {}
  BY DEF TokensOf
<1>6. TokensOf([l EXCEPT ![w] = n]) = rest \cup new
  <2>1. \A v \in Workers : [l EXCEPT ![w] = n][v] = IF v = w THEN n ELSE l[v]
    OBVIOUS
  <2>2. \A v : \A i : <<v, i>> \in rest <=> v \in Workers /\ v # w /\ i \in 1..l[v]
    BY DEF TokensOf
  <2>3. \A x \in rest : \E v \in Workers : \E i \in 1..l[v] : x = <<v, i>>
    BY DEF TokensOf
  <2>4. TokensOf([l EXCEPT ![w] = n]) \subseteq rest \cup new
    <3> SUFFICES ASSUME NEW v \in Workers, NEW i \in 1..[l EXCEPT ![w] = n][v]
                 PROVE  <<v, i>> \in rest \cup new
      BY DEF TokensOf
    <3> QED
      BY <2>1, <2>2
  <2>5. rest \cup new \subseteq TokensOf([l EXCEPT ![w] = n])
    BY <2>1, <2>2, <2>3 DEF TokensOf
  <2> QED
    BY <2>4, <2>5
<1>7. Cardinality({}) = 0
  BY FS_EmptySet
<1>8. Cardinality(TokensOf(l)) \in Nat
  BY FS_CardinalityType
<1> HIDE DEF old, new, rest
<1>9. /\ IsFiniteSet(rest \cup new)
      /\ Cardinality(rest \cup new)
          = Cardinality(rest) + Cardinality(new) - Cardinality(rest \cap new)
  BY <1>2, <1>4, FS_Union
<1>10. Cardinality(rest \cap new) = 0
  BY <1>5, <1>7
<1>11. Cardinality(rest \cup new) = Cardinality(TokensOf(l)) - l[w] + n
  BY <1>2, <1>4, <1>8, <1>9, <1>10
<1> QED
  BY <1>6, <1>9, <1>11

\* A worker's credit is part of the total.
LEMMA CreditBound ==
  ASSUME NEW l \in [Workers -> Nat], IsFiniteSet(TokensOf(l)), NEW w \in Workers
  PROVE  l[w] <= Cardinality(TokensOf(l))
<1>1. {w} \X (1..l[w]) \in SUBSET TokensOf(l)
  BY DEF TokensOf
<1>2. Cardinality({w} \X (1..l[w])) <= Cardinality(TokensOf(l))
  BY <1>1, FS_Subset
<1> QED
  BY <1>2, CreditCard

-----------------------------------------------------------------------------
(***************************************************************************)
(*                      Where the open states are                          *)
(***************************************************************************)

\* What the program counter of a worker says about its part of the queue.
Placed ==
  \A w \in Workers :
    /\ pc[w] \in {"succs", "flush", "count"} => cur[w] \in States
    /\ pc[w] \in {"start", "barrier", "loop", "check", "peek", "grab", "idle", "sync", "cas"}
         => cur[w] = NoState
    /\ pc[w] = "grab" => incoming[w] = {}
    /\ pc[w] = "flush" => outgoing[w] # {}

\* Every step keeps this relation.
LEMMA PlacedStep == TypeOK /\ Placed /\ [Next]_vars => Placed'
<1> SUFFICES ASSUME TypeOK, Placed, [Next]_vars PROVE Placed'
  OBVIOUS
<1> USE DEF TypeOK, Placed, searchVars, counterVars, queueVars, endVars, mainVars, Goto, At
<1>1. CASE Cleanup \/ Join \/ Stop \/ Finished \/ UNCHANGED vars
  BY <1>1 DEF Cleanup, Join, Stop, Finished, vars
<1>2. ASSUME NEW w \in Workers, Get(w) PROVE Placed'
  BY <1>2 DEF Get
<1>3. ASSUME NEW w \in Workers, Worker(w) PROVE Placed'
  <2>1. CASE Arrive(w)
    BY <2>1 DEF Arrive
  <2>2. CASE Leave(w)
    BY <2>2 DEF Leave
  <2>3. CASE ReadWork(w)
    BY <2>3 DEF ReadWork
  <2>4. CASE ReadTerminate(w)
    BY <2>4 DEF ReadTerminate
  <2>5. CASE Peek(w)
    BY <2>5 DEF Peek
  <2>6. CASE GrabNothing(w)
    BY <2>6 DEF GrabNothing
  <2>7. CASE Throw(w)
    BY <2>7 DEF Throw
  <2>8. CASE Flush(w)
    BY <2>8 DEF Flush, Publish
  <2>9. CASE Count(w)
    BY <2>9 DEF Count
  <2>10. CASE Close(w)
    BY <2>10 DEF Close
  <2>11. CASE IdleFlush(w)
    BY <2>11 DEF IdleFlush, Publish
  <2>12. CASE SyncRead(w)
    BY <2>12 DEF SyncRead
  <2>13. CASE SyncNothing(w)
    BY <2>13 DEF SyncNothing, SyncedPc
  <2>14. CASE SyncCas(w)
    BY <2>14 DEF SyncCas, SyncedPc
  <2>15. CASE SyncRetry(w)
    BY <2>15 DEF SyncRetry
  <2>16. CASE AssertTerminate(w)
    BY <2>16 DEF AssertTerminate
  <2>17. CASE AssertQueue(w)
    BY <2>17 DEF AssertQueue
  <2>18. CASE Defer(w)
    BY <2>18 DEF Defer
  <2>19. ASSUME NEW chunk \in sharedQ, Grab(w, chunk) \/ AssertGrab(w, chunk) PROVE Placed'
    BY <2>19 DEF Grab, AssertGrab, Take
  <2>20. ASSUME NEW v \in incoming[w], Pop(w, v) PROVE Placed'
    BY <2>20 DEF Pop
  <2>21. ASSUME NEW s \in todo[w], Yield(w, s) PROVE Placed'
    BY <2>21 DEF Yield
  <2>22. ASSUME NEW s \in todo[w], YieldError(w, s) PROVE Placed'
    BY <2>22 DEF YieldError
  <2> QED
    BY <1>3, <2>1, <2>2, <2>3, <2>4, <2>5, <2>6, <2>7, <2>8, <2>9, <2>10, <2>11,
       <2>12, <2>13, <2>14, <2>15, <2>16, <2>17, <2>18, <2>19, <2>20, <2>21, <2>22 DEF Worker
<1> QED
  BY <1>1, <1>2, <1>3 DEF Next, Main

openVars == <<sharedQ, outgoing, incoming, cur, visited>>

\* The steps that move open states; all others leave them where they are.
LEMMA StepCases ==
  ASSUME [Next]_vars
  PROVE  \/ UNCHANGED openVars
         \/ \E w \in Workers :
              \/ \E chunk \in sharedQ : Take(w, chunk) /\ UNCHANGED <<outgoing, cur, visited>>
              \/ \E v \in incoming[w] : Pop(w, v)
              \/ \E s \in todo[w] : Yield(w, s) \/ YieldError(w, s)
              \/ Publish(w) /\ UNCHANGED <<incoming, cur, visited>>
              \/ Close(w)
<1> USE DEF openVars, searchVars, counterVars, queueVars, endVars, mainVars
<1>1. CASE Main \/ Stop \/ Finished \/ UNCHANGED vars
  BY <1>1 DEF Main, Cleanup, Join, Get, Stop, Finished, vars
<1>2. ASSUME NEW w \in Workers, Worker(w)
      PROVE  \/ UNCHANGED openVars
             \/ \E chunk \in sharedQ : Take(w, chunk) /\ UNCHANGED <<outgoing, cur, visited>>
             \/ \E v \in incoming[w] : Pop(w, v)
             \/ \E s \in todo[w] : Yield(w, s) \/ YieldError(w, s)
             \/ Publish(w) /\ UNCHANGED <<incoming, cur, visited>>
             \/ Close(w)
  <2>1. CASE Flush(w) \/ IdleFlush(w)
    BY <2>1 DEF Flush, IdleFlush
  <2>2. CASE Arrive(w) \/ Leave(w) \/ ReadWork(w) \/ ReadTerminate(w) \/ Peek(w)
             \/ GrabNothing(w) \/ Throw(w) \/ Count(w)
    BY <2>2 DEF Arrive, Leave, ReadWork, ReadTerminate, Peek, GrabNothing, Throw, Count
  <2>3. CASE SyncRead(w) \/ SyncNothing(w) \/ SyncCas(w) \/ SyncRetry(w)
             \/ AssertTerminate(w) \/ AssertQueue(w) \/ Defer(w)
    BY <2>3 DEF SyncRead, SyncNothing, SyncCas, SyncRetry, AssertTerminate, AssertQueue, Defer
  <2>4. ASSUME NEW chunk \in sharedQ, Grab(w, chunk) \/ AssertGrab(w, chunk)
        PROVE  Take(w, chunk) /\ UNCHANGED <<outgoing, cur, visited>>
    BY <2>4 DEF Grab, AssertGrab
  <2> QED
    BY <1>2, <2>1, <2>2, <2>3, <2>4 DEF Worker
<1> QED
  BY <1>1, <1>2 DEF Next

OpenStored == Open \subseteq visited

\* The places where a state can be open.
IsOpen(s) ==
  \/ \E c \in sharedQ : s \in c
  \/ \E v \in Workers : s \in outgoing[v] \/ s \in incoming[v] \/ (s = cur[v] /\ s # NoState)

\* Membership in Open, spelled out.
LEMMA OpenMember ==
  /\ \A s : s \in Open <=> IsOpen(s)
  /\ \A s : s \in Open' <=> IsOpen(s)'
<1>1. ASSUME NEW s PROVE s \in Open <=> IsOpen(s)
  BY DEF Open, IsOpen
<1>2. ASSUME NEW s PROVE s \in Open' <=> IsOpen(s)'
  BY DEF Open, IsOpen
<1> QED
  BY <1>1, <1>2

\* How a step changes the set of open states.
LEMMA OpenStep ==
  ASSUME TypeOK, Placed, OpenOnce, NEW w \in Workers
  PROVE  /\ UNCHANGED openVars => Open' = Open
         /\ \A chunk \in sharedQ :
              Take(w, chunk) /\ UNCHANGED <<outgoing, cur, visited>> => Open' = Open
         /\ \A v \in incoming[w] : Pop(w, v) => Open' = Open
         /\ Publish(w) /\ UNCHANGED <<incoming, cur, visited>> => Open' = Open
         /\ Close(w) => Open' = Open \ {cur[w]} /\ cur[w] \in Open
         /\ \A s \in todo[w] : YieldError(w, s) => Open' = Open
         /\ \A s \in todo[w] :
              Yield(w, s) => Open' = IF s \in visited \/ s \in Ignored THEN Open ELSE Open \cup {s}
<1> USE DEF searchVars, counterVars, queueVars, endVars, mainVars, Goto, At
<1>1. UNCHANGED openVars => Open' = Open
  BY DEF openVars, Open
<1>2. ASSUME NEW chunk \in sharedQ, Take(w, chunk), UNCHANGED <<outgoing, cur, visited>>
      PROVE  Open' = Open
  <2>1. incoming[w] = {}
    BY <1>2 DEF Take
  <2>2. \A x : IsOpen(x)' <=> IsOpen(x)
    BY <1>2, <2>1 DEF Take, TypeOK, IsOpen
  <2> QED
    BY <2>2, OpenMember
<1>3. ASSUME NEW v \in incoming[w], Pop(w, v) PROVE Open' = Open
  <2>1. cur[w] = NoState /\ v \in States /\ v # NoState
    BY <1>3 DEF Pop, Placed, TypeOK
  <2>2. \A x : IsOpen(x)' <=> IsOpen(x)
    BY <1>3, <2>1 DEF Pop, TypeOK, IsOpen
  <2> QED
    BY <2>2, OpenMember
<1>4. ASSUME Publish(w), UNCHANGED <<incoming, cur, visited>> PROVE Open' = Open
  <2>1. \A x : IsOpen(x)' <=> IsOpen(x)
    BY <1>4 DEF Publish, TypeOK, IsOpen
  <2> QED
    BY <2>1, OpenMember
<1>5. ASSUME Close(w) PROVE Open' = Open \ {cur[w]} /\ cur[w] \in Open
  <2>1. cur[w] \in States /\ cur[w] # NoState
    BY <1>5 DEF Close, Placed
  <2>2. \A x : IsOpen(x)' <=> IsOpen(x) /\ x # cur[w]
    BY <1>5, <2>1 DEF Close, OpenOnce, TypeOK, IsOpen
  <2>3. IsOpen(cur[w])
    BY <2>1 DEF IsOpen
  <2> QED
    BY <2>2, <2>3, OpenMember
<1>6. ASSUME NEW s \in todo[w], YieldError(w, s) PROVE Open' = Open
  BY <1>6 DEF YieldError, Open
<1>7. ASSUME NEW s \in todo[w], Yield(w, s)
      PROVE  Open' = IF s \in visited \/ s \in Ignored THEN Open ELSE Open \cup {s}
  <2>1. CASE s \in visited \/ s \in Ignored
    BY <1>7, <2>1 DEF Yield, Open
  <2>2. CASE ~(s \in visited \/ s \in Ignored)
    <3>1. outgoing' = [outgoing EXCEPT ![w] = @ \cup {s}]
      BY <1>7, <2>2 DEF Yield
    <3>2. UNCHANGED <<sharedQ, incoming, cur>>
      BY <1>7 DEF Yield
    <3>3. \A x : IsOpen(x)' <=> IsOpen(x) \/ x = s
      BY <3>1, <3>2 DEF TypeOK, IsOpen
    <3> QED
      BY <2>2, <3>3, OpenMember
  <2> QED
    BY <2>1, <2>2
<1> QED
  BY <1>1, <1>2, <1>3, <1>4, <1>5, <1>6, <1>7

\* Open states are stored, and stay so.
\* Only stored states are opened.
LEMMA StoredStep == TypeOK /\ Placed /\ OpenOnce /\ OpenStored /\ [Next]_vars => OpenStored'
<1> SUFFICES ASSUME TypeOK, Placed, OpenOnce, OpenStored, [Next]_vars PROVE OpenStored'
  OBVIOUS
<1>1. CASE UNCHANGED openVars
  BY <1>1, OpenStep DEF OpenStored, openVars
<1>2. ASSUME NEW w \in Workers,
             \/ \E chunk \in sharedQ : Take(w, chunk) /\ UNCHANGED <<outgoing, cur, visited>>
             \/ \E v \in incoming[w] : Pop(w, v)
             \/ \E s \in todo[w] : YieldError(w, s)
             \/ Publish(w) /\ UNCHANGED <<incoming, cur, visited>>
             \/ Close(w)
      PROVE  OpenStored'
  <2>1. Open' \subseteq Open
    BY <1>2, OpenStep
  <2>2. visited \subseteq visited'
    BY <1>2 DEF Pop, YieldError, Close, searchVars
  <2> QED
    BY <2>1, <2>2 DEF OpenStored
<1>3. ASSUME NEW w \in Workers, NEW s \in todo[w], Yield(w, s) PROVE OpenStored'
  <2>1. visited' = visited \cup {s}
    BY <1>3 DEF Yield
  <2>2. Open' \subseteq Open \cup {s}
    BY <1>3, OpenStep
  <2> QED
    BY <2>1, <2>2 DEF OpenStored
<1> QED
  BY <1>1, <1>2, <1>3, StepCases

\* No step puts an open state in a second place.
\* Every step keeps the open states apart: what moves is taken off where it was.
LEMMA OnceStep == TypeOK /\ Placed /\ OpenOnce /\ OpenStored /\ [Next]_vars => OpenOnce'
<1> SUFFICES ASSUME TypeOK, Placed, OpenOnce, OpenStored, [Next]_vars PROVE OpenOnce'
  OBVIOUS
<1> USE DEF TypeOK, searchVars, counterVars, queueVars, endVars, mainVars, Goto, At
<1>1. CASE UNCHANGED openVars
  BY <1>1 DEF openVars, OpenOnce
<1>2. ASSUME NEW w \in Workers, NEW chunk \in sharedQ, Take(w, chunk),
             UNCHANGED <<outgoing, cur, visited>>
      PROVE  OpenOnce'
  <2>1. incoming[w] = {}
    BY <1>2 DEF Take
  <2> QED
    BY <1>2, <2>1 DEF Take, OpenOnce
<1>3. ASSUME NEW w \in Workers, NEW v \in incoming[w], Pop(w, v) PROVE OpenOnce'
  BY <1>3 DEF Pop, Placed, OpenOnce
<1>4. ASSUME NEW w \in Workers, NEW s \in todo[w], Yield(w, s) PROVE OpenOnce'
  <2>1. CASE s \in visited \/ s \in Ignored
    BY <1>4, <2>1 DEF Yield, OpenOnce
  <2>2. CASE ~(s \in visited \/ s \in Ignored)
    <3>1. /\ outgoing' = [outgoing EXCEPT ![w] = @ \cup {s}]
          /\ UNCHANGED <<sharedQ, incoming, cur>>
      BY <1>4, <2>2 DEF Yield
    <3>2. ~IsOpen(s) /\ s # NoState
      BY <2>2, OpenMember DEF OpenStored
    <3> QED
      BY <3>1, <3>2 DEF OpenOnce, IsOpen
  <2> QED
    BY <2>1, <2>2
<1>5. ASSUME NEW w \in Workers, NEW s \in todo[w], YieldError(w, s) PROVE OpenOnce'
  BY <1>5 DEF YieldError, OpenOnce
<1>6. ASSUME NEW w \in Workers, Publish(w), UNCHANGED <<incoming, cur, visited>>
      PROVE  OpenOnce'
  BY <1>6 DEF Publish, OpenOnce
<1>7. ASSUME NEW w \in Workers, Close(w) PROVE OpenOnce'
  <2>1. \A v \in Workers : cur'[v] = IF v = w THEN NoState ELSE cur[v]
    BY <1>7 DEF Close
  <2>2. UNCHANGED <<sharedQ, outgoing, incoming>>
    BY <1>7 DEF Close
  <2>3. \A x : IsOpen(x) => x # NoState
    BY DEF IsOpen
  <2> QED
    BY <2>1, <2>2, <2>3 DEF OpenOnce, IsOpen
<1> QED
  BY <1>1, <1>2, <1>3, <1>4, <1>5, <1>6, <1>7, StepCases

-----------------------------------------------------------------------------
(***************************************************************************)
(*                         The shared counter                              *)
(***************************************************************************)
CounterInv == CounterExact /\ IsFiniteSet(Tokens)

\* The sets that CounterExact counts are finite.
LEMMA Counted ==
  ASSUME TypeOK
  PROVE  /\ IsFiniteSet(Open) /\ Cardinality(Open) \in Nat
         /\ IsFiniteSet(Pending) /\ Cardinality(Pending) \in Nat
<1>1. \A s : IsOpen(s) => s \in States
  BY DEF TypeOK, IsOpen
<1>2. Open \in SUBSET States
  BY <1>1, OpenMember
<1>3. IsFiniteSet(Open)
  BY <1>2, FS_Subset
<1>4. Pending \in SUBSET Workers
  BY DEF Pending
<1>5. IsFiniteSet(Pending)
  BY <1>4, FS_Subset
<1> QED
  BY <1>3, <1>5, FS_CardinalityType

\* Each pending worker is expanding an open state of its own, so that there are
\* at least as many open states as pending workers.
LEMMA PendingBound ==
  ASSUME TypeOK, Placed, OpenOnce
  PROVE  /\ Cardinality(Pending) <= Cardinality(Open)
         /\ Cardinality(Pending) = Cardinality(Open)
              => \A s \in Open : \E w \in Pending : cur[w] = s
<1> DEFINE f == [w \in Pending |-> cur[w]]
<1>1. \A w \in Pending : cur[w] \in States /\ cur[w] # NoState
  BY DEF Pending, Placed
<1>2. \A w \in Pending : cur[w] \in Open
  BY <1>1, OpenMember DEF IsOpen, Pending
<1>3. \A v, w \in Pending : cur[v] = cur[w] => v = w
  BY <1>1 DEF OpenOnce, Pending
<1>4. f \in Injection(Pending, Open)
  BY <1>2, <1>3 DEF Injection, IsInjective
<1>5. IsFiniteSet(Open)
  BY Counted
<1>6. /\ Cardinality(Pending) <= Cardinality(Open)
      /\ Cardinality(Pending) = Cardinality(Open) <=> f \in Surjection(Pending, Open)
  BY <1>4, <1>5, FS_Injection
<1>7. f \in Surjection(Pending, Open) => \A s \in Open : \E w \in Pending : f[w] = s
  BY DEF Surjection
<1>8. \A w \in Pending : f[w] = cur[w]
  OBVIOUS
<1> QED
  BY <1>6, <1>7, <1>8

\* sync() is never asked to give back more than the counter holds.
LEMMA CreditHeld ==
  ASSUME TypeOK, Placed, OpenOnce, CounterInv, NEW w \in Workers
  PROVE  local[w] <= counter
<1>1. local[w] <= Cardinality(Tokens)
  BY CreditBound DEF TypeOK, CounterInv, Tokens, TokensOf
<1>2. Cardinality(Tokens) \in Nat
  BY FS_CardinalityType DEF CounterInv
<1> QED
  BY <1>1, <1>2, PendingBound, Counted DEF CounterInv, CounterExact, TypeOK

\* The local counter of w becomes n.
LEMMA TokensStep ==
  ASSUME TypeOK, CounterInv, NEW w \in Workers, NEW n \in Nat,
         local' = [local EXCEPT ![w] = n]
  PROVE  /\ IsFiniteSet(Tokens') /\ Cardinality(Tokens) \in Nat
         /\ Cardinality(Tokens') = Cardinality(Tokens) - local[w] + n
<1>1. Tokens = TokensOf(local) /\ Tokens' = TokensOf(local')
  BY DEF Tokens, TokensOf
<1>2. local \in [Workers -> Nat] /\ IsFiniteSet(TokensOf(local))
  BY <1>1 DEF TypeOK, CounterInv
<1>3. /\ IsFiniteSet(TokensOf([local EXCEPT ![w] = n]))
      /\ Cardinality(TokensOf([local EXCEPT ![w] = n]))
          = Cardinality(TokensOf(local)) - local[w] + n
  BY <1>2, TokensUpdate
<1>4. Cardinality(TokensOf(local)) \in Nat
  BY <1>2, FS_CardinalityType
<1> QED
  BY <1>1, <1>3, <1>4

\* A step that neither opens, closes nor counts.
LEMMA CounterKept ==
  ASSUME CounterInv, Open' = Open, Pending' = Pending, UNCHANGED <<counter, local>>
  PROVE  CounterInv'
<1>1. Tokens' = Tokens
  BY DEF Tokens
<1> QED
  BY <1>1 DEF CounterInv, CounterExact

\* A worker becomes or stops being pending when its program counter says so.
LEMMA PendingSame ==
  ASSUME TypeOK, NEW w \in Workers, NEW l, pc' = [pc EXCEPT ![w] = l],
         pc[w] \in {"flush", "count"} <=> l \in {"flush", "count"}
  PROVE  Pending' = Pending
<1>1. \A v \in Workers : pc'[v] \in {"flush", "count"} <=> pc[v] \in {"flush", "count"}
  BY DEF TypeOK
<1> QED
  BY <1>1 DEF Pending

\* The push of a new state makes its worker pending.
LEMMA PendingAdds ==
  ASSUME TypeOK, NEW w \in Workers, NEW l, pc' = [pc EXCEPT ![w] = l],
         pc[w] \notin {"flush", "count"}, l \in {"flush", "count"}
  PROVE  Cardinality(Pending') = Cardinality(Pending) + 1
<1>1. \A v \in Workers : pc'[v] \in {"flush", "count"} <=> pc[v] \in {"flush", "count"} \/ v = w
  BY DEF TypeOK
<1>2. Pending' = Pending \cup {w}
  BY <1>1 DEF Pending
<1>3. w \notin Pending /\ IsFiniteSet(Pending)
  BY Counted DEF Pending
<1>4. Cardinality(Pending \cup {w}) = Cardinality(Pending) + 1
  BY <1>3, FS_AddElement
<1> QED
  BY <1>2, <1>4

\* ++ work ends the wait of a pushed state to be counted.
LEMMA PendingDrops ==
  ASSUME TypeOK, NEW w \in Workers, NEW l, pc' = [pc EXCEPT ![w] = l],
         pc[w] \in {"flush", "count"}, l \notin {"flush", "count"}
  PROVE  Cardinality(Pending') = Cardinality(Pending) - 1
<1>1. \A v \in Workers : pc'[v] \in {"flush", "count"} <=> pc[v] \in {"flush", "count"} /\ v # w
  BY DEF TypeOK
<1>2. Pending' = Pending \ {w}
  BY <1>1 DEF Pending
<1>3. w \in Pending /\ IsFiniteSet(Pending)
  BY Counted DEF Pending
<1>4. Cardinality(Pending \ {w}) = Cardinality(Pending) - 1
  BY <1>3, FS_RemoveElement
<1> QED
  BY <1>2, <1>4

\* Every step keeps the exact meaning of the counter.
LEMMA CounterStep ==
  TypeOK /\ Placed /\ OpenOnce /\ OpenStored /\ CounterInv /\ [Next]_vars => CounterInv'
<1> SUFFICES ASSUME TypeOK, Placed, OpenOnce, OpenStored, CounterInv, [Next]_vars
             PROVE  CounterInv'
  OBVIOUS
<1> USE DEF searchVars, counterVars, queueVars, endVars, mainVars, Goto, At
<1>1. CASE Main \/ Stop \/ Finished \/ UNCHANGED vars
  <2>1. UNCHANGED <<pc, openVars, counter, local>>
    BY <1>1 DEF Main, Cleanup, Join, Get, Stop, Finished, vars, openVars
  <2>2. Open' = Open /\ Pending' = Pending
    BY <2>1 DEF openVars, Open, Pending
  <2> QED
    BY <2>1, <2>2, CounterKept
<1>2. ASSUME NEW w \in Workers, Worker(w) PROVE CounterInv'
  <2>1. ASSUME UNCHANGED <<openVars, counter, local>>,
               pc[w] \notin {"flush", "count"},
               NEW l, pc' = [pc EXCEPT ![w] = l], l \notin {"flush", "count"}
        PROVE  CounterInv'
    <3>1. Open' = Open
      BY <2>1, OpenStep
    <3>2. Pending' = Pending
      BY <2>1, PendingSame
    <3> QED
      BY <2>1, <3>1, <3>2, CounterKept
  <2>2. CASE Arrive(w) \/ Leave(w) \/ ReadWork(w) \/ ReadTerminate(w)
    BY <2>1, <2>2 DEF Arrive, Leave, ReadWork, ReadTerminate, openVars
  <2>3. CASE Peek(w) \/ GrabNothing(w) \/ Throw(w)
    BY <2>1, <2>3 DEF Peek, GrabNothing, Throw, openVars
  <2>4. CASE SyncRead(w)
    <3>1. \E l \in {"cas", "exitcas"} : pc' = [pc EXCEPT ![w] = l]
      BY <2>4 DEF SyncRead
    <3>2. UNCHANGED <<openVars, counter, local>> /\ pc[w] \notin {"flush", "count"}
      BY <2>4 DEF SyncRead, openVars
    <3> QED
      BY <2>1, <3>1, <3>2
  <2>5. CASE SyncNothing(w)
    <3>1. \E l \in {"loop", "done"} : pc' = [pc EXCEPT ![w] = l]
      BY <2>5 DEF SyncNothing, SyncedPc
    <3>2. UNCHANGED <<openVars, counter, local>> /\ pc[w] \notin {"flush", "count"}
      BY <2>5 DEF SyncNothing, openVars
    <3> QED
      BY <2>1, <3>1, <3>2
  <2>6. CASE AssertTerminate(w) \/ AssertQueue(w) \/ Defer(w)
    BY <2>1, <2>6 DEF AssertTerminate, AssertQueue, Defer, openVars
  <2>7. CASE SyncRetry(w)
    <3>1. UNCHANGED <<pc, openVars, counter, local>>
      BY <2>7 DEF SyncRetry, openVars
    <3>2. Open' = Open /\ Pending' = Pending
      BY <3>1 DEF openVars, Open, Pending
    <3> QED
      BY <3>1, <3>2, CounterKept
  <2>8. ASSUME NEW chunk \in sharedQ, Grab(w, chunk) \/ AssertGrab(w, chunk) PROVE CounterInv'
    <3>1. Open' = Open /\ UNCHANGED <<counter, local>>
      BY <2>8, OpenStep DEF Grab, AssertGrab
    <3>2. Pending' = Pending
      BY <2>8, PendingSame DEF Grab, AssertGrab, Take
    <3> QED
      BY <3>1, <3>2, CounterKept
  <2>9. ASSUME NEW v \in incoming[w], Pop(w, v) PROVE CounterInv'
    <3>1. Open' = Open /\ UNCHANGED <<counter, local>>
      BY <2>9, OpenStep DEF Pop
    <3>2. Pending' = Pending
      BY <2>9, PendingSame DEF Pop
    <3> QED
      BY <3>1, <3>2, CounterKept
  <2>10. ASSUME NEW s \in todo[w], YieldError(w, s) PROVE CounterInv'
    <3>1. Open' = Open /\ UNCHANGED <<counter, local>>
      BY <2>10, OpenStep DEF YieldError
    <3>2. Pending' = Pending
      BY <2>10, PendingSame DEF YieldError
    <3> QED
      BY <3>1, <3>2, CounterKept
  <2>11. CASE Flush(w)
    <3>1. Publish(w) /\ UNCHANGED <<incoming, cur, visited, counter, local>>
      BY <2>11 DEF Flush
    <3>2. Open' = Open
      BY <3>1, OpenStep
    <3>3. Pending' = Pending
      BY <2>11, PendingSame DEF Flush
    <3> QED
      BY <3>1, <3>2, <3>3, CounterKept
  <2>12. CASE IdleFlush(w)
    <3>1. /\ UNCHANGED <<incoming, cur, visited, counter, local>>
          /\ UNCHANGED <<sharedQ, qEmpty, outgoing, chunkSize>> \/ Publish(w)
      BY <2>12 DEF IdleFlush
    <3>2. Open' = Open
      BY <3>1, OpenStep DEF openVars
    <3>3. Pending' = Pending
      BY <2>12, PendingSame DEF IdleFlush
    <3> QED
      BY <3>1, <3>2, <3>3, CounterKept
  <2>13. ASSUME NEW s \in todo[w], Yield(w, s) PROVE CounterInv'
    <3>1. UNCHANGED <<counter, local>> /\ pc[w] = "succs"
      BY <2>13 DEF Yield
    <3>2. Tokens' = Tokens
      BY <3>1 DEF Tokens
    <3>3. CASE s \in visited \/ s \in Ignored
      <4>1. Open' = Open
        BY <2>13, <3>3, OpenStep
      <4>2. pc' = [pc EXCEPT ![w] = "succs"]
        BY <2>13, <3>3 DEF Yield
      <4>3. Pending' = Pending
        BY <3>1, <4>2, PendingSame
      <4> QED
        BY <3>1, <4>1, <4>3, CounterKept
    <3>4. CASE ~(s \in visited \/ s \in Ignored)
      <4>1. Open' = Open \cup {s} /\ s \notin Open
        BY <2>13, <3>4, OpenStep DEF OpenStored
      <4>2. Cardinality(Open') = Cardinality(Open) + 1
        BY <4>1, Counted, FS_AddElement
      <4>3. \E l \in {"flush", "count"} : pc' = [pc EXCEPT ![w] = l]
        BY <2>13, <3>4 DEF Yield
      <4>4. Cardinality(Pending') = Cardinality(Pending) + 1
        BY <3>1, <4>3, PendingAdds
      <4>5. Cardinality(Tokens) \in Nat
        BY FS_CardinalityType DEF CounterInv
      <4> QED
        BY <3>1, <3>2, <4>2, <4>4, <4>5, Counted DEF CounterInv, CounterExact, TypeOK
    <3> QED
      BY <3>3, <3>4
  <2>14. CASE Count(w)
    <3>1. UNCHANGED openVars /\ pc[w] = "count" /\ pc' = [pc EXCEPT ![w] = "succs"]
      BY <2>14 DEF Count, openVars
    <3>2. Open' = Open
      BY <3>1, OpenStep
    <3>3. Cardinality(Pending') = Cardinality(Pending) - 1
      BY <3>1, PendingDrops
    <3>4. Step - 1 \in Nat
      OBVIOUS
    <3>5. CASE local[w] = 0
      <4>1. local' = [local EXCEPT ![w] = Step - 1] /\ counter' = counter + Step
        BY <2>14, <3>5 DEF Count
      <4>2. /\ IsFiniteSet(Tokens') /\ Cardinality(Tokens) \in Nat
            /\ Cardinality(Tokens') = Cardinality(Tokens) - local[w] + (Step - 1)
        BY <3>4, <4>1, TokensStep
      <4> QED
        BY <3>2, <3>3, <3>5, <4>1, <4>2, Counted DEF CounterInv, CounterExact, TypeOK
    <3>6. CASE local[w] # 0
      <4>1. local' = [local EXCEPT ![w] = local[w] - 1] /\ counter' = counter
        BY <2>14, <3>6 DEF Count
      <4>2. local[w] - 1 \in Nat /\ local[w] \in Nat
        BY <3>6 DEF TypeOK
      <4>3. /\ IsFiniteSet(Tokens') /\ Cardinality(Tokens) \in Nat
            /\ Cardinality(Tokens') = Cardinality(Tokens) - local[w] + (local[w] - 1)
        BY <4>1, <4>2, TokensStep
      <4> QED
        BY <3>2, <3>3, <4>1, <4>2, <4>3, Counted DEF CounterInv, CounterExact, TypeOK
    <3> QED
      BY <3>5, <3>6
  <2>15. CASE Close(w)
    <3>1. Open' = Open \ {cur[w]} /\ cur[w] \in Open
      BY <2>15, OpenStep
    <3>2. Cardinality(Open') = Cardinality(Open) - 1
      <4>1. IsFiniteSet(Open)
        BY Counted
      <4>2. Cardinality(Open \ {cur[w]}) = Cardinality(Open) - 1
        BY <3>1, <4>1, FS_RemoveElement
      <4> QED
        BY <3>1, <4>2
    <3>3. Pending' = Pending
      BY <2>15, PendingSame DEF Close
    <3>4. local' = [local EXCEPT ![w] = local[w] + 1] /\ counter' = counter
      BY <2>15 DEF Close
    <3>5. local[w] \in Nat /\ local[w] + 1 \in Nat
      BY DEF TypeOK
    <3>6. /\ IsFiniteSet(Tokens') /\ Cardinality(Tokens) \in Nat
          /\ Cardinality(Tokens') = Cardinality(Tokens) - local[w] + (local[w] + 1)
      BY <3>4, <3>5, TokensStep
    <3> QED
      BY <3>2, <3>3, <3>4, <3>5, <3>6, Counted DEF CounterInv, CounterExact, TypeOK
  <2>16. CASE SyncCas(w)
    <3>1. UNCHANGED openVars /\ Pending' = Pending
      <4>1. \E l \in {"loop", "done"} : pc' = [pc EXCEPT ![w] = l]
        BY <2>16 DEF SyncCas, SyncedPc
      <4>2. UNCHANGED openVars /\ pc[w] \notin {"flush", "count"}
        BY <2>16 DEF SyncCas, openVars
      <4> QED
        BY <4>1, <4>2, PendingSame
    <3>2. Open' = Open
      BY <3>1, OpenStep
    <3>3. local' = [local EXCEPT ![w] = 0] /\ counter = value[w] /\ counter' = SyncTo(w)
      BY <2>16 DEF SyncCas
    <3>4. counter' = counter - local[w]
      BY <3>3, CreditHeld DEF SyncTo, TypeOK
    <3>5. /\ IsFiniteSet(Tokens') /\ Cardinality(Tokens) \in Nat
          /\ Cardinality(Tokens') = Cardinality(Tokens) - local[w] + 0
      BY <3>3, TokensStep
    <3>6. local[w] \in Nat
      BY DEF TypeOK
    <3> QED
      BY <3>1, <3>2, <3>4, <3>5, <3>6, Counted DEF CounterInv, CounterExact, TypeOK
  <2> QED
    BY <1>2, <2>2, <2>3, <2>4, <2>5, <2>6, <2>7, <2>8, <2>9, <2>10, <2>11, <2>12, <2>13,
       <2>14, <2>15, <2>16 DEF Worker
<1> QED
  BY <1>1, <1>2 DEF Next

-----------------------------------------------------------------------------
(***************************************************************************)
(*                      The inductive invariant                            *)
(***************************************************************************)
Inv == TypeOK /\ Placed /\ OpenOnce /\ OpenStored /\ CounterInv

\* The search starts with the accepted initial states open and counted.
LEMMA InvInit == Init => Inv
<1> SUFFICES ASSUME Init PROVE Inv
  OBVIOUS
<1>1. TypeOK
  BY TypeInit
<1>2. Placed
  BY DEF Init, Placed
<1>3. OpenOnce
  BY DEF Init, OpenOnce
<1>4. Open = Initials \ Ignored
  <2>1. \A s : IsOpen(s) <=> s \in Initials \ Ignored
    BY DEF Init, IsOpen
  <2> QED
    BY <2>1, OpenMember
<1>5. OpenStored
  BY <1>4 DEF Init, OpenStored
<1>6. Pending = {}
  BY DEF Init, Pending
<1>7. Tokens = {}
  <2>1. \A w \in Workers : {w} \X (1..local[w]) = {}
    BY DEF Init
  <2> QED
    BY <2>1 DEF Tokens
<1>8. Cardinality({}) = 0 /\ IsFiniteSet({})
  BY FS_EmptySet
<1>9. counter = Cardinality(Initials \ Ignored)
  BY DEF Init
<1>10. CounterInv
  <2>1. Cardinality(Open) \in Nat
    BY <1>1, Counted
  <2> QED
    BY <1>4, <1>6, <1>7, <1>8, <1>9, <2>1 DEF CounterInv, CounterExact
<1> QED
  BY <1>1, <1>2, <1>3, <1>5, <1>10 DEF Inv

\* Every step keeps the invariant.
LEMMA InvStep == Inv /\ [Next]_vars => Inv'
  BY TypeStep, PlacedStep, OnceStep, StoredStep, CounterStep DEF Inv

\* The inductive invariant holds throughout.
LEMMA Invariance == Spec => []Inv
  BY InvInit, InvStep, PTL DEF Spec

\* No open state is in two places, so none is expanded twice.
THEOREM OpenedOnce == Spec => []OpenOnce
<1>1. Inv => OpenOnce
  BY DEF Inv
<1> QED
  BY <1>1, Invariance, PTL

\* The shared counter exceeds the number of open states by exactly the credit
\* the workers hold, less the states that are pushed and not yet counted.
THEOREM CounterIsExact == Spec => []CounterExact
<1>1. Inv => CounterExact
  BY DEF Inv, CounterInv
<1> QED
  BY <1>1, Invariance, PTL

\* ApproximateCounter::sync never needs the clamp at zero in its subtraction.
THEOREM SyncNeverClamps == Spec => []NeverClamps
<1>1. Inv => NeverClamps
  BY CreditHeld DEF Inv, NeverClamps
<1> QED
  BY <1>1, Invariance, PTL

\* A counter of 0 leaves room for pending workers only.
LEMMA WindowOnly == Inv => DetectionWindow
<1> SUFFICES ASSUME Inv, counter = 0, NEW s \in Open
             PROVE  \E w \in Workers :
                      cur[w] = s /\ At(w, "count") /\ local[w] = 0 /\ outgoing[w] = {}
  BY DEF DetectionWindow
<1>1. Cardinality(Tokens) \in Nat
  BY FS_CardinalityType DEF Inv, CounterInv
<1>2. Cardinality(Pending) = Cardinality(Open)
  BY <1>1, PendingBound, Counted DEF Inv, CounterInv, CounterExact
<1>3. PICK w \in Pending : cur[w] = s
  BY <1>2, PendingBound DEF Inv
<1>4. w \in Workers /\ pc[w] \in {"flush", "count"}
  BY DEF Pending
<1>5. local[w] = 0
  <2>1. local[w] <= counter /\ local[w] \in Nat
    BY <1>4, CreditHeld DEF Inv, TypeOK
  <2> QED
    BY <2>1
<1>6. outgoing[w] = {}
  <2> SUFFICES ASSUME NEW t \in outgoing[w] PROVE FALSE
    OBVIOUS
  <2>1. t \in Open
    BY <1>4, OpenMember DEF IsOpen
  <2>2. PICK v \in Pending : cur[v] = t
    BY <1>2, <2>1, PendingBound DEF Inv
  <2> QED
    BY <1>4, <2>2 DEF Pending, Inv, OpenOnce
<1>7. pc[w] = "count"
  BY <1>4, <1>6 DEF Inv, Placed
<1> QED
  BY <1>3, <1>4, <1>5, <1>6, <1>7 DEF At

\* When the shared counter is 0, every open state is being expanded by a worker
\* that stands between the publication of a full chunk and ++ work.
THEOREM OnlyWindow == Spec => []DetectionWindow
  BY WindowOnly, Invariance, PTL

-----------------------------------------------------------------------------
(***************************************************************************)
(*                          Nothing is lost                                *)
(***************************************************************************)

\* The part of a state's edges that its worker has been given so far is stored
\* and free of errors.
Tracked ==
  \A w \in Workers :
    pc[w] \in {"succs", "flush", "count"} =>
      /\ todo[w] \subseteq Succ[cur[w]]
      /\ \A t \in Succ[cur[w]] \ todo[w] : t \in visited /\ <<cur[w], t>> \notin ErrorEdges

\* Every step keeps track of the edges that were yielded.
LEMMA TrackedStep == TypeOK /\ Placed /\ Tracked /\ [Next]_vars => Tracked'
<1> SUFFICES ASSUME TypeOK, Placed, Tracked, [Next]_vars PROVE Tracked'
  OBVIOUS
<1> USE DEF searchVars, counterVars, queueVars, endVars, mainVars, Goto, At
<1>1. ASSUME UNCHANGED <<pc, searchVars>> PROVE Tracked'
  BY <1>1 DEF Tracked
<1>2. CASE Main \/ Stop \/ Finished \/ UNCHANGED vars
  BY <1>1, <1>2 DEF Main, Cleanup, Join, Get, Stop, Finished, vars
<1>3. ASSUME NEW w \in Workers, Worker(w) PROVE Tracked'
  <2>1. ASSUME UNCHANGED searchVars, NEW l, pc' = [pc EXCEPT ![w] = l],
               l \in {"succs", "flush", "count"} => pc[w] \in {"succs", "flush", "count"}
        PROVE  Tracked'
    BY <2>1 DEF Tracked, TypeOK
  <2>2. CASE Arrive(w) \/ Leave(w) \/ ReadWork(w) \/ ReadTerminate(w)
    BY <2>1, <2>2 DEF Arrive, Leave, ReadWork, ReadTerminate
  <2>3. CASE Peek(w) \/ GrabNothing(w) \/ Throw(w)
    BY <2>1, <2>3 DEF Peek, GrabNothing, Throw
  <2>4. CASE Flush(w) \/ Count(w) \/ IdleFlush(w)
    BY <2>1, <2>4 DEF Flush, Count, IdleFlush
  <2>5. CASE SyncRead(w)
    <3>1. \E l \in {"cas", "exitcas"} : pc' = [pc EXCEPT ![w] = l]
      BY <2>5 DEF SyncRead
    <3>2. UNCHANGED searchVars
      BY <2>5 DEF SyncRead
    <3> QED
      BY <2>1, <3>1, <3>2
  <2>6. CASE SyncNothing(w) \/ SyncCas(w)
    <3>1. \E l \in {"loop", "done"} : pc' = [pc EXCEPT ![w] = l]
      BY <2>6 DEF SyncNothing, SyncCas, SyncedPc
    <3>2. UNCHANGED searchVars
      BY <2>6 DEF SyncNothing, SyncCas
    <3> QED
      BY <2>1, <3>1, <3>2
  <2>7. CASE SyncRetry(w)
    BY <1>1, <2>7 DEF SyncRetry
  <2>8. CASE AssertTerminate(w) \/ AssertQueue(w) \/ Defer(w)
    BY <2>1, <2>8 DEF AssertTerminate, AssertQueue, Defer
  <2>9. ASSUME NEW chunk \in sharedQ, Grab(w, chunk) \/ AssertGrab(w, chunk) PROVE Tracked'
    BY <2>1, <2>9 DEF Grab, AssertGrab, Take
  <2>10. ASSUME NEW v \in incoming[w], Pop(w, v) PROVE Tracked'
    BY <2>10 DEF Pop, Tracked, TypeOK
  <2>11. ASSUME NEW s \in todo[w], Yield(w, s) PROVE Tracked'
    <3>1. /\ visited' = visited \cup {s} /\ cur' = cur
          /\ todo' = [todo EXCEPT ![w] = todo[w] \ {s}]
          /\ pc[w] = "succs" /\ <<cur[w], s>> \notin ErrorEdges
          /\ \E l \in WorkerPcs : pc' = [pc EXCEPT ![w] = l]
      BY <2>11 DEF Yield, WorkerPcs
    <3> QED
      BY <3>1 DEF Tracked, TypeOK
  <2>12. ASSUME NEW s \in todo[w], YieldError(w, s) PROVE Tracked'
    BY <2>12 DEF YieldError, Tracked, TypeOK
  <2>13. CASE Close(w)
    BY <2>13 DEF Close, Tracked, TypeOK
  <2> QED
    BY <1>3, <2>2, <2>3, <2>4, <2>5, <2>6, <2>7, <2>8, <2>9, <2>10, <2>11, <2>12, <2>13
       DEF Worker
<1> QED
  BY <1>2, <1>3 DEF Next

\* An abort is never taken back, and nothing is deleted from the hash table.
LEMMA Grows == TypeOK /\ [Next]_vars => (aborted => aborted') /\ visited \subseteq visited'
<1> SUFFICES ASSUME TypeOK, [Next]_vars PROVE (aborted => aborted') /\ visited \subseteq visited'
  OBVIOUS
<1> USE DEF searchVars, counterVars, queueVars, endVars, mainVars
<1>1. CASE Main \/ Stop \/ Finished \/ UNCHANGED vars
  BY <1>1 DEF Main, Cleanup, Join, Get, Stop, Finished, vars
<1>2. ASSUME NEW w \in Workers, Worker(w) PROVE (aborted => aborted') /\ visited \subseteq visited'
  <2>1. CASE Arrive(w) \/ Leave(w) \/ ReadWork(w) \/ ReadTerminate(w) \/ Peek(w)
             \/ GrabNothing(w) \/ Throw(w) \/ Count(w) \/ Close(w) \/ Flush(w)
    BY <2>1 DEF Arrive, Leave, ReadWork, ReadTerminate, Peek, GrabNothing, Throw, Count,
                Close, Flush
  <2>2. CASE IdleFlush(w) \/ SyncRead(w) \/ SyncNothing(w) \/ SyncCas(w) \/ SyncRetry(w)
             \/ AssertTerminate(w) \/ AssertQueue(w) \/ Defer(w)
    BY <2>2 DEF IdleFlush, SyncRead, SyncNothing, SyncCas, SyncRetry, AssertTerminate,
                AssertQueue, Defer
  <2>3. ASSUME NEW s \in todo[w], Yield(w, s)
        PROVE  (aborted => aborted') /\ visited \subseteq visited'
    BY <2>3 DEF Yield
  <2>4. ASSUME NEW s \in todo[w], YieldError(w, s)
        PROVE  (aborted => aborted') /\ visited \subseteq visited'
    BY <2>4 DEF YieldError
  <2>5. ASSUME NEW chunk \in sharedQ, Grab(w, chunk) \/ AssertGrab(w, chunk)
        PROVE  (aborted => aborted') /\ visited \subseteq visited'
    BY <2>5 DEF Grab, AssertGrab, Take
  <2>6. ASSUME NEW v \in incoming[w], Pop(w, v)
        PROVE  (aborted => aborted') /\ visited \subseteq visited'
    BY <2>6 DEF Pop
  <2> QED
    BY <1>2, <2>1, <2>2, <2>3, <2>4, <2>5, <2>6 DEF Worker
<1> QED
  BY <1>1, <1>2 DEF Next

\* A state leaves Open when its last edge has been yielded, and in no other way.
LEMMA NothingLostStep ==
  Inv /\ Tracked /\ NothingLost /\ [Next]_vars => NothingLost'
<1> SUFFICES ASSUME Inv, Tracked, NothingLost, [Next]_vars PROVE NothingLost'
  OBVIOUS
<1>1. (aborted => aborted') /\ visited \subseteq visited'
  BY Grows DEF Inv
<1>2. \A s : Expanded(s) => Expanded(s)'
  BY <1>1 DEF Expanded
<1>3. ASSUME NEW s \in visited \ Ignored, s \in Open => s \in Open' \/ Expanded(s)'
      PROVE  \/ s \in Open'
             \/ Expanded(s)'
             \/ aborted' /\ \E v \in visited' : s \in Succ[v] /\ <<v, s>> \in ErrorEdges
  BY <1>1, <1>2, <1>3 DEF NothingLost
<1>4. ASSUME visited' = visited, Open' = Open PROVE NothingLost'
  <2>1. \A s \in visited' \ Ignored :
          \/ s \in Open'
          \/ Expanded(s)'
          \/ aborted' /\ \E v \in visited' : s \in Succ[v] /\ <<v, s>> \in ErrorEdges
    BY <1>3, <1>4
  <2> QED
    BY <2>1 DEF NothingLost
<1>5. CASE UNCHANGED openVars
  <2>1. Open' = Open /\ visited' = visited
    BY <1>5 DEF openVars, Open
  <2> QED
    BY <2>1, <1>4
<1>6. ASSUME NEW w \in Workers, NEW chunk \in sharedQ, Take(w, chunk),
             UNCHANGED <<outgoing, cur, visited>>
      PROVE  NothingLost'
  BY <1>4, <1>6, OpenStep DEF Inv
<1>7. ASSUME NEW w \in Workers, NEW v \in incoming[w], Pop(w, v) PROVE NothingLost'
  BY <1>4, <1>7, OpenStep DEF Inv, Pop
<1>8. ASSUME NEW w \in Workers, Publish(w), UNCHANGED <<incoming, cur, visited>>
      PROVE  NothingLost'
  BY <1>4, <1>8, OpenStep DEF Inv
<1>9. ASSUME NEW w \in Workers, Close(w) PROVE NothingLost'
  <2>1. Open' = Open \ {cur[w]} /\ visited' = visited
    BY <1>9, OpenStep DEF Inv, Close
  <2>2. Expanded(cur[w])
    <3>1. pc[w] = "succs" /\ todo[w] = {}
      BY <1>9 DEF Close, At
    <3>2. \A t \in Succ[cur[w]] : t \in visited /\ <<cur[w], t>> \notin ErrorEdges
      BY <3>1 DEF Tracked
    <3> QED
      BY <3>2 DEF Expanded
  <2>3. \A s \in visited \ Ignored : s \in Open => s \in Open' \/ Expanded(s)'
    BY <1>2, <2>1, <2>2
  <2>4. \A s \in visited' \ Ignored :
          \/ s \in Open'
          \/ Expanded(s)'
          \/ aborted' /\ \E v \in visited' : s \in Succ[v] /\ <<v, s>> \in ErrorEdges
    BY <1>3, <2>1, <2>3
  <2> QED
    BY <2>4 DEF NothingLost
<1>10. ASSUME NEW w \in Workers, NEW s \in todo[w], Yield(w, s) PROVE NothingLost'
  <2>1. visited' = visited \cup {s}
    BY <1>10 DEF Yield
  <2>2. Open' = IF s \in visited \/ s \in Ignored THEN Open ELSE Open \cup {s}
    BY <1>10, OpenStep DEF Inv
  <2>3. \A t \in visited' \ Ignored :
          \/ t \in Open'
          \/ Expanded(t)'
          \/ aborted' /\ \E v \in visited' : t \in Succ[v] /\ <<v, t>> \in ErrorEdges
    <3> SUFFICES ASSUME NEW t \in visited' \ Ignored
                 PROVE  \/ t \in Open'
                        \/ Expanded(t)'
                        \/ aborted' /\ \E v \in visited' : t \in Succ[v] /\ <<v, t>> \in ErrorEdges
      OBVIOUS
    <3>1. t \in visited \/ (t = s /\ s \notin visited)
      BY <2>1
    <3>2. t \in Open => t \in Open'
      BY <2>2
    <3>3. t = s /\ s \notin visited => t \in Open'
      BY <2>2
    <3> QED
      BY <1>3, <3>1, <3>2, <3>3
  <2> QED
    BY <2>3 DEF NothingLost
<1>11. ASSUME NEW w \in Workers, NEW s \in todo[w], YieldError(w, s) PROVE NothingLost'
  <2>1. visited' = visited \cup {s} /\ Open' = Open /\ aborted'
    <3>1. visited' = visited \cup {s} /\ aborted'
      BY <1>11 DEF YieldError
    <3>2. Open' = Open
      BY <1>11, OpenStep DEF Inv
    <3> QED
      BY <3>1, <3>2
  <2>2. pc[w] = "succs" /\ <<cur[w], s>> \in ErrorEdges
    BY <1>11 DEF YieldError, At
  <2>3. s \in Succ[cur[w]]
    BY <2>2 DEF Tracked
  <2>4. cur[w] \in visited
    <3>1. cur[w] \in States /\ cur[w] # NoState
      BY <2>2 DEF Inv, Placed
    <3> QED
      BY <3>1, OpenMember DEF Inv, OpenStored, IsOpen
  <2>5. \A t \in visited' \ Ignored :
          \/ t \in Open'
          \/ Expanded(t)'
          \/ aborted' /\ \E v \in visited' : t \in Succ[v] /\ <<v, t>> \in ErrorEdges
    <3> SUFFICES ASSUME NEW t \in visited' \ Ignored
                 PROVE  \/ t \in Open'
                        \/ Expanded(t)'
                        \/ aborted' /\ \E v \in visited' : t \in Succ[v] /\ <<v, t>> \in ErrorEdges
      OBVIOUS
    <3>1. CASE t \in visited
      BY <1>3, <2>1, <3>1
    <3>2. CASE t = s
      BY <2>1, <2>2, <2>3, <2>4, <3>2
    <3> QED
      BY <2>1, <3>1, <3>2
  <2> QED
    BY <2>5 DEF NothingLost
<1> QED
  BY <1>5, <1>6, <1>7, <1>8, <1>9, <1>10, <1>11, StepCases

LostInv == Inv /\ Tracked /\ NothingLost /\ Initials \subseteq visited

\* The invariant behind NothingLost is inductive.
LEMMA LostInvariance == Spec => []LostInv
<1>1. Init => LostInv
  <2> SUFFICES ASSUME Init PROVE LostInv
    OBVIOUS
  <2>1. Inv
    BY InvInit
  <2>2. Tracked /\ Initials \subseteq visited
    BY DEF Init, Tracked
  <2>3. \A s \in visited \ Ignored : IsOpen(s)
    BY DEF Init, IsOpen
  <2>4. NothingLost
    BY <2>3, OpenMember DEF NothingLost
  <2> QED
    BY <2>1, <2>2, <2>4 DEF LostInv
<1>2. LostInv /\ [Next]_vars => LostInv'
  <2> SUFFICES ASSUME LostInv, [Next]_vars PROVE LostInv'
    OBVIOUS
  <2>1. Inv' /\ Tracked' /\ NothingLost'
    BY InvStep, TrackedStep, NothingLostStep DEF LostInv, Inv
  <2>2. visited \subseteq visited'
    BY Grows DEF LostInv, Inv
  <2> QED
    BY <2>1, <2>2 DEF LostInv
<1> QED
  BY <1>1, <1>2, PTL DEF Spec

\* A stored state is open, ignored, expanded, or the target of the error that
\* ended the search, in every interleaving of any number of workers.
THEOREM NoStateLost == Spec => []NothingLost
<1>1. LostInv => NothingLost
  BY DEF LostInv
<1> QED
  BY <1>1, LostInvariance, PTL

-----------------------------------------------------------------------------
(***************************************************************************)
(*                   Completeness with one worker                          *)
(***************************************************************************)

\* The worker has left its loop.
Exits == {"assert", "assertqueue", "defer", "exitsync", "exitcas", "done"}

\* Once anything tells the search to end, it was cut short or has nothing left.
Quiet ==
  (\E w \in Workers : pc[w] \in Exits) \/ terminate \/ main # "waiting"
    => aborted \/ Open = {}

\* With one worker a counter of 0 means that nothing is open, when the loop of
\* pseudoBFS looks at it.
LEMMA QuietStep ==
  ASSUME NEW w0, Workers = {w0}
  PROVE  LostInv /\ Quiet /\ [Next]_vars => Quiet'
<1> SUFFICES ASSUME LostInv, Quiet, [Next]_vars, ~aborted' PROVE
               (\E w \in Workers : pc'[w] \in Exits) \/ terminate' \/ main' # "waiting"
                 => Open' = {}
  BY DEF Quiet
<1> USE DEF searchVars, counterVars, queueVars, endVars, mainVars, Goto, At
<1>1. ~aborted
  BY Grows DEF LostInv, Inv
<1>2. Open = {} => Open' = {}
  <2> SUFFICES ASSUME Open = {} PROVE Open' = {}
    OBVIOUS
  <2>1. \A w \in Workers : pc[w] \notin {"succs", "flush", "count"}
    BY OpenMember DEF IsOpen, LostInv, Inv, Placed
  <2>2. ASSUME NEW w \in Workers PROVE ~Close(w) /\ \A s : ~Yield(w, s) /\ ~YieldError(w, s)
    BY <2>1, <2>2 DEF Close, Yield, YieldError
  <2> QED
    BY <2>2, StepCases, OpenStep DEF LostInv, Inv
<1>3. ASSUME UNCHANGED <<pc, terminate, main>>
      PROVE  (\E w \in Workers : pc'[w] \in Exits) \/ terminate' \/ main' # "waiting"
               => Open' = {}
  BY <1>1, <1>2, <1>3 DEF Quiet
<1>4. CASE Finished \/ UNCHANGED vars
  BY <1>3, <1>4 DEF Finished, vars
<1>5. CASE Stop
  BY <1>5 DEF Stop
<1>6. CASE Cleanup \/ Join
  <2>1. main # "waiting"
    BY <1>6 DEF Cleanup, Join
  <2> QED
    BY <1>1, <1>2, <2>1 DEF Quiet
<1>7. ASSUME NEW w \in Workers, Get(w) PROVE Open' = {}
  BY <1>1, <1>2, <1>7 DEF Quiet, Get, Exits
<1>8. ASSUME Worker(w0)
      PROVE  (\E w \in Workers : pc'[w] \in Exits) \/ terminate' \/ main' # "waiting"
               => Open' = {}
  <2>1. CASE pc[w0] \in Exits
    BY <1>1, <1>2, <2>1 DEF Quiet
  <2>2. ASSUME UNCHANGED <<terminate, main>>, pc'[w0] \notin Exits
        PROVE  (\E w \in Workers : pc'[w] \in Exits) \/ terminate' \/ main' # "waiting"
                 => Open' = {}
    BY <1>1, <1>2, <2>2 DEF Quiet
  <2>3. CASE Arrive(w0) \/ Leave(w0) \/ Peek(w0) \/ GrabNothing(w0)
             \/ Flush(w0) \/ Count(w0) \/ Close(w0) \/ IdleFlush(w0)
    BY <2>2, <2>3 DEF Arrive, Leave, Peek, GrabNothing, Flush, Count, Close, IdleFlush,
                      Exits, LostInv, Inv, TypeOK
  <2>4. CASE ReadWork(w0)
    <3>1. CASE counter = 0
      <4>1. pc[w0] # "count"
        BY <2>4 DEF ReadWork
      <4>2. Open = {}
        BY <3>1, <4>1, WindowOnly DEF LostInv, DetectionWindow
      <4> QED
        BY <1>2, <4>2
    <3>2. CASE counter # 0
      BY <2>2, <2>4, <3>2 DEF ReadWork, Exits, LostInv, Inv, TypeOK
    <3> QED
      BY <3>1, <3>2
  <2>5. CASE ReadTerminate(w0)
    <3>1. CASE terminate
      BY <1>1, <1>2, <3>1 DEF Quiet
    <3>2. CASE ~terminate
      BY <2>2, <2>5, <3>2 DEF ReadTerminate, Exits, LostInv, Inv, TypeOK
    <3> QED
      BY <3>1, <3>2
  <2>6. CASE SyncRead(w0) \/ SyncNothing(w0) \/ SyncCas(w0)
    <3>1. CASE pc[w0] \in {"exitsync", "exitcas"}
      BY <2>1, <3>1 DEF Exits
    <3>2. CASE pc[w0] \in {"sync", "cas"}
      BY <2>2, <2>6, <3>2 DEF SyncRead, SyncNothing, SyncCas, SyncedPc, Exits, LostInv, Inv, TypeOK
    <3> QED
      BY <2>6, <3>1, <3>2 DEF SyncRead, SyncNothing, SyncCas
  <2>7. CASE SyncRetry(w0)
    BY <1>3, <2>7 DEF SyncRetry
  <2>8. CASE AssertTerminate(w0) \/ AssertQueue(w0) \/ Defer(w0)
    BY <2>1, <2>8 DEF AssertTerminate, AssertQueue, Defer, Exits
  <2>9. CASE Throw(w0)
    BY <2>9 DEF Throw
  <2>10. ASSUME NEW s \in todo[w0], YieldError(w0, s) PROVE FALSE
    BY <2>10 DEF YieldError
  <2>11. ASSUME NEW s \in todo[w0], Yield(w0, s)
         PROVE  UNCHANGED <<terminate, main>> /\ pc'[w0] \notin Exits
    <3>1. \E l \in {"succs", "flush", "count"} : pc' = [pc EXCEPT ![w0] = l]
      BY <2>11 DEF Yield
    <3> QED
      BY <2>11, <3>1 DEF Yield, Exits, LostInv, Inv, TypeOK
  <2>12. ASSUME NEW chunk \in sharedQ, Grab(w0, chunk) \/ AssertGrab(w0, chunk)
         PROVE  UNCHANGED <<terminate, main>> /\ (pc'[w0] \notin Exits \/ pc[w0] \in Exits)
    BY <2>12 DEF Grab, AssertGrab, Exits, LostInv, Inv, TypeOK
  <2>13. ASSUME NEW v \in incoming[w0], Pop(w0, v)
         PROVE  UNCHANGED <<terminate, main>> /\ pc'[w0] \notin Exits
    BY <2>13 DEF Pop, Exits, LostInv, Inv, TypeOK
  <2> QED
    BY <1>8, <2>1, <2>2, <2>3, <2>4, <2>5, <2>6, <2>7, <2>8, <2>9, <2>10, <2>11, <2>12, <2>13 DEF Worker
<1> QED
  BY <1>4, <1>5, <1>6, <1>7, <1>8 DEF Next, Main

\* A search with one worker that returns and was not cut short has stored and
\* expanded everything that is reachable, and met no error.
THEOREM SingleComplete ==
  ASSUME NEW w0, Workers = {w0}
  PROVE  Spec => []Complete
<1>1. Init => Quiet
  BY DEF Init, Quiet, Exits
<1>2. LostInv /\ Quiet /\ [Next]_vars => Quiet'
  BY QuietStep
<1>3. LostInv /\ Quiet => Complete
  <2> SUFFICES ASSUME LostInv, Quiet, main = "returned", ~aborted
               PROVE  Initials \subseteq visited /\ \A s \in visited \ Ignored : Expanded(s)
    BY DEF Complete
  <2>1. Open = {}
    BY DEF Quiet
  <2> QED
    BY <2>1 DEF LostInv, NothingLost
<1> QED
  BY <1>1, <1>2, <1>3, LostInvariance, PTL DEF Spec

-----------------------------------------------------------------------------
(***************************************************************************)
(*                 The ASSERT at the end of a worker                       *)
(***************************************************************************)

\* No empty chunk is published.
ChunksFull == {} \notin sharedQ

LEMMA ChunksStep == Placed /\ ChunksFull /\ [Next]_vars => ChunksFull'
<1> SUFFICES ASSUME Placed, ChunksFull, [Next]_vars PROVE ChunksFull'
  OBVIOUS
<1> USE DEF searchVars, counterVars, queueVars, endVars, mainVars, At
<1>1. CASE Main \/ Stop \/ Finished \/ UNCHANGED vars
  BY <1>1 DEF Main, Cleanup, Join, Get, Stop, Finished, vars, ChunksFull
<1>2. ASSUME NEW w \in Workers, Worker(w) PROVE ChunksFull'
  <2>1. CASE Flush(w)
    BY <2>1 DEF Flush, Publish, Placed, ChunksFull
  <2>2. CASE IdleFlush(w)
    BY <2>2 DEF IdleFlush, Publish, ChunksFull
  <2>3. CASE Arrive(w) \/ Leave(w) \/ ReadWork(w) \/ ReadTerminate(w) \/ Peek(w)
             \/ GrabNothing(w) \/ Throw(w) \/ Count(w) \/ Close(w)
    BY <2>3 DEF Arrive, Leave, ReadWork, ReadTerminate, Peek, GrabNothing, Throw, Count, Close, ChunksFull
  <2>4. CASE SyncRead(w) \/ SyncNothing(w) \/ SyncCas(w) \/ SyncRetry(w)
             \/ AssertTerminate(w) \/ AssertQueue(w) \/ Defer(w)
    BY <2>4 DEF SyncRead, SyncNothing, SyncCas, SyncRetry, AssertTerminate, AssertQueue, Defer, ChunksFull
  <2>5. ASSUME NEW chunk \in sharedQ, Grab(w, chunk) \/ AssertGrab(w, chunk) PROVE ChunksFull'
    BY <2>5 DEF Grab, AssertGrab, Take, ChunksFull
  <2>6. ASSUME NEW v \in incoming[w], Pop(w, v) PROVE ChunksFull'
    BY <2>6 DEF Pop, ChunksFull
  <2>7. ASSUME NEW s \in todo[w], Yield(w, s) \/ YieldError(w, s) PROVE ChunksFull'
    BY <2>7 DEF Yield, YieldError, ChunksFull
  <2> QED
    BY <1>2, <2>1, <2>2, <2>3, <2>4, <2>5, <2>6, <2>7 DEF Worker
<1> QED
  BY <1>1, <1>2 DEF Next

\* A worker that goes on to look at the queue has seen that _terminate is not set, so
\* it left the loop because the counter was 0.
Drained ==
  \A w \in Workers : (At(w, "assert") /\ ~terminate) \/ At(w, "assertqueue") => Open = {}

\* With one worker nothing is opened after it has left the loop.
LEMMA DrainedStep ==
  ASSUME NEW w0, Workers = {w0}
  PROVE  Inv /\ Drained /\ [Next]_vars => Drained'
<1> SUFFICES ASSUME Inv, Drained, [Next]_vars,
                    (At(w0, "assert") /\ ~terminate)' \/ At(w0, "assertqueue")'
             PROVE  Open' = {}
  BY DEF Drained
<1> USE DEF searchVars, counterVars, queueVars, endVars, mainVars, Goto, At
<1>0. TypeOK
  BY DEF Inv
<1>1. CASE pc[w0] \in {"assert", "assertqueue"}
  <2>1. ASSUME NEW w \in Workers
        PROVE  ~Close(w) /\ \A s : ~Yield(w, s) /\ ~YieldError(w, s)
    BY <1>1, <2>1 DEF Close, Yield, YieldError
  <2>2. ASSUME NEW w \in Workers PROVE \A v \in incoming[w] : ~Pop(w, v)
    BY <1>1, <2>2 DEF Pop
  <2>3. Open' = Open
    BY <2>1, <2>2, StepCases, OpenStep DEF Inv
  <2>4. terminate => terminate'
    <3>1. CASE Main \/ Stop \/ Finished \/ UNCHANGED vars
      BY <3>1 DEF Main, Cleanup, Join, Get, Stop, Finished, vars
    <3>2. ASSUME NEW w \in Workers, Worker(w) PROVE terminate => terminate'
      <4>1. AssertTerminate(w) \/ AssertQueue(w) \/ \E chunk \in sharedQ : AssertGrab(w, chunk)
        BY <1>1, <3>2, <2>1, <2>2
        DEF Worker, Arrive, Leave, ReadWork, ReadTerminate, Peek, GrabNothing, Throw, Count, Flush,
            IdleFlush, SyncRead, SyncNothing, SyncCas, SyncRetry, Defer, Grab
      <4> QED
        BY <4>1 DEF AssertTerminate, AssertQueue, AssertGrab
    <3> QED
      BY <3>1, <3>2 DEF Next
  <2>5. CASE pc[w0] = "assertqueue"
    BY <2>3, <2>5 DEF Drained
  <2>6. CASE pc[w0] = "assert"
    <3>1. CASE terminate
      <4>1. pc'[w0] = "assertqueue"
        BY <2>4, <3>1
      <4>2. ASSUME NEW w \in Workers PROVE ~Worker(w)
        <5>1. w = w0
          BY <4>2
        <5> QED
          BY <1>0, <2>6, <3>1, <4>1, <5>1
          DEF Worker, Arrive, Leave, ReadWork, ReadTerminate, Peek, GrabNothing, Throw, Count, Close,
              Flush, IdleFlush, SyncRead, SyncNothing, SyncCas, SyncRetry, AssertTerminate, AssertQueue,
              Defer, Grab, AssertGrab, Pop, Yield, YieldError, TypeOK
      <4>3. pc' = pc
        BY <4>2 DEF Next, Main, Cleanup, Join, Get, Stop, Finished, vars
      <4> QED
        BY <2>6, <4>1, <4>3
    <3>2. CASE ~terminate
      BY <2>3, <2>6, <3>2 DEF Drained
    <3> QED
      BY <3>1, <3>2
  <2> QED
    BY <1>1, <2>5, <2>6
<1>2. CASE pc[w0] \notin {"assert", "assertqueue"}
  <2>1. Worker(w0)
    BY <1>2 DEF Next, Main, Cleanup, Join, Get, Stop, Finished, vars
  <2>2. CASE ReadWork(w0)
    <3>1. counter = 0 /\ pc[w0] # "count" /\ UNCHANGED openVars
      BY <1>0, <2>2 DEF ReadWork, TypeOK, openVars
    <3>2. Open = {}
      BY <3>1, WindowOnly DEF DetectionWindow
    <3>3. Open' = Open
      BY <3>1, OpenStep DEF Inv
    <3> QED
      BY <3>2, <3>3
  <2>3. CASE ReadTerminate(w0)
    BY <1>0, <2>3 DEF ReadTerminate, TypeOK
  <2>4. ASSUME NEW s \in todo[w0], YieldError(w0, s) PROVE FALSE
    BY <1>0, <2>4 DEF YieldError, TypeOK
  <2>5. ASSUME NEW s \in todo[w0], Yield(w0, s) PROVE FALSE
    <3>1. \E l \in {"succs", "flush", "count"} : pc' = [pc EXCEPT ![w0] = l]
      BY <2>5 DEF Yield
    <3> QED
      BY <1>0, <3>1 DEF TypeOK
  <2>6. ~(Arrive(w0) \/ Leave(w0) \/ Peek(w0) \/ GrabNothing(w0) \/ Throw(w0) \/ Count(w0)
          \/ Close(w0) \/ Flush(w0) \/ IdleFlush(w0))
    BY <1>0 DEF Arrive, Leave, Peek, GrabNothing, Throw, Count, Close, Flush, IdleFlush, TypeOK
  <2>7. ~(SyncRead(w0) \/ SyncNothing(w0) \/ SyncCas(w0) \/ SyncRetry(w0)
          \/ AssertTerminate(w0) \/ AssertQueue(w0) \/ Defer(w0))
    BY <1>0, <1>2 DEF SyncRead, SyncNothing, SyncCas, SyncRetry, SyncedPc, AssertTerminate, AssertQueue,
                      Defer, TypeOK
  <2>8. ASSUME NEW chunk \in sharedQ, Grab(w0, chunk) \/ AssertGrab(w0, chunk) PROVE FALSE
    BY <1>0, <2>8 DEF Grab, AssertGrab, TypeOK
  <2>9. ASSUME NEW v \in incoming[w0], Pop(w0, v) PROVE FALSE
    BY <1>0, <2>9 DEF Pop, TypeOK
  <2> QED
    BY <2>1, <2>2, <2>3, <2>4, <2>5, <2>6, <2>7, <2>8, <2>9 DEF Worker
<1> QED
  BY <1>1, <1>2

\* With one worker the ASSERT never fails, whatever happens: the worker that gets to
\* evaluate queue.empty() left its loop when nothing was open.
THEOREM SingleAssertHolds ==
  ASSUME NEW w0, Workers = {w0}
  PROVE  Spec => []AssertHolds
<1>1. Init => ChunksFull /\ Drained
  BY DEF Init, ChunksFull, Drained, At
<1>2. Inv /\ ChunksFull /\ Drained /\ [Next]_vars => ChunksFull' /\ Drained'
  BY ChunksStep, DrainedStep DEF Inv
<1>3. ChunksFull /\ Drained => AssertHolds
  <2> SUFFICES ASSUME ChunksFull, NEW w \in Workers, Open = {}
               PROVE  incoming[w] = {} /\ sharedQ = {}
    BY DEF AssertHolds, Drained
  <2>1. \A s : ~IsOpen(s)
    BY OpenMember
  <2>2. incoming[w] = {}
    BY <2>1 DEF IsOpen
  <2>3. \A c \in sharedQ : c = {}
    BY <2>1 DEF IsOpen
  <2> QED
    BY <2>2, <2>3 DEF ChunksFull
<1> QED
  BY <1>1, <1>2, <1>3, Invariance, PTL DEF Spec

-----------------------------------------------------------------------------
(***************************************************************************)
(*                     The caller of Search::wait                          *)
(***************************************************************************)

\* What the thread in wait() knows about the workers it has reaped.
Reaped ==
  /\ \A w \in reaped : pc[w] = "done"
  /\ main = "waiting" => reaped \cap threw = {}
  /\ main \in {"returning", "joinreturn", "returned"} => reaped = Workers /\ threw = {}
  /\ main \in {"returned", "thrown"} => \A w \in Workers : pc[w] = "done"

\* A worker that is done stays done, and can no longer throw.
LEMMA DoneStep ==
  ASSUME TypeOK, NEW w \in Workers, Worker(w)
  PROVE  /\ pc[w] # "done" /\ UNCHANGED mainVars
         /\ \A v \in Workers : v # w => pc'[v] = pc[v]
         /\ threw' \subseteq threw \cup {w}
<1> USE DEF TypeOK, searchVars, counterVars, queueVars, endVars, mainVars, Goto, At
<1>1. CASE Arrive(w) \/ Leave(w) \/ ReadWork(w) \/ ReadTerminate(w) \/ Peek(w)
           \/ GrabNothing(w)
  BY <1>1 DEF Arrive, Leave, ReadWork, ReadTerminate, Peek, GrabNothing
<1>2. CASE Throw(w) \/ Count(w) \/ Close(w) \/ Flush(w) \/ IdleFlush(w)
  BY <1>2 DEF Throw, Count, Close, Flush, IdleFlush
<1>3. CASE SyncRead(w) \/ SyncNothing(w) \/ SyncCas(w) \/ SyncRetry(w)
  BY <1>3 DEF SyncRead, SyncNothing, SyncCas, SyncRetry
<1>4. CASE AssertTerminate(w) \/ AssertQueue(w) \/ Defer(w)
  BY <1>4 DEF AssertTerminate, AssertQueue, Defer
<1>5. ASSUME NEW chunk \in sharedQ, Grab(w, chunk) \/ AssertGrab(w, chunk)
      PROVE  /\ pc[w] # "done" /\ UNCHANGED mainVars
             /\ \A v \in Workers : v # w => pc'[v] = pc[v]
             /\ threw' \subseteq threw \cup {w}
  BY <1>5 DEF Grab, AssertGrab, Take
<1>6. ASSUME NEW v \in incoming[w], Pop(w, v)
      PROVE  /\ pc[w] # "done" /\ UNCHANGED mainVars
             /\ \A u \in Workers : u # w => pc'[u] = pc[u]
             /\ threw' \subseteq threw \cup {w}
  BY <1>6 DEF Pop
<1>7. ASSUME NEW s \in todo[w], Yield(w, s) \/ YieldError(w, s)
      PROVE  /\ pc[w] # "done" /\ UNCHANGED mainVars
             /\ \A v \in Workers : v # w => pc'[v] = pc[v]
             /\ threw' \subseteq threw \cup {w}
  BY <1>7 DEF Yield, YieldError
<1> QED
  BY <1>1, <1>2, <1>3, <1>4, <1>5, <1>6, <1>7 DEF Worker

\* Every step keeps what wait() knows.
LEMMA ReapedStep == TypeOK /\ Reaped /\ [Next]_vars => Reaped'
<1> SUFFICES ASSUME TypeOK, Reaped, [Next]_vars PROVE Reaped'
  OBVIOUS
<1> USE DEF TypeOK, MainPcs, Reaped, searchVars, counterVars, queueVars, endVars, mainVars, At
<1>1. CASE Stop \/ Finished \/ UNCHANGED vars
  BY <1>1 DEF Stop, Finished, vars
<1>2. CASE Cleanup
  BY <1>2 DEF Cleanup
<1>3. CASE Join
  BY <1>3 DEF Join
<1>4. ASSUME NEW w \in Workers, Get(w) PROVE Reaped'
  BY <1>4 DEF Get
<1>5. ASSUME NEW w \in Workers, Worker(w) PROVE Reaped'
  <2>1. /\ pc[w] # "done" /\ UNCHANGED <<main, reaped>>
        /\ \A v \in Workers : v # w => pc'[v] = pc[v]
        /\ threw' \subseteq threw \cup {w}
    BY <1>5, DoneStep
  <2>2. w \notin reaped
    BY <2>1
  <2> QED
    BY <2>1, <2>2
<1> QED
  BY <1>1, <1>2, <1>3, <1>4, <1>5 DEF Next, Main

\* wait() gives the caller a search without running workers, and returns
\* normally only when no worker threw.
THEOREM WaitJoinsAll == Spec => []WaitJoins
<1>1. Init => TypeOK /\ Reaped
  BY TypeInit DEF Init, Reaped
<1>2. TypeOK /\ Reaped /\ [Next]_vars => (TypeOK /\ Reaped)'
  BY TypeStep, ReapedStep
<1>3. TypeOK /\ Reaped => WaitJoins
  BY DEF Reaped, WaitJoins, At
<1> QED
  BY <1>1, <1>2, <1>3, PTL DEF Spec

-----------------------------------------------------------------------------
(***************************************************************************)
(*             One worker implements the abstract search                   *)
(***************************************************************************)
\* What the caller can see of a step.
LEMMA AbstractStep ==
  ASSUME NEW w0, Workers = {w0}
  PROVE  LostInv /\ Quiet /\ Reaped /\ [Next]_vars => [Abstract!Next]_(Abstract!vars)
<1> SUFFICES ASSUME LostInv, Quiet, Reaped, [Next]_vars, ~UNCHANGED (Abstract!vars)
             PROVE  Abstract!Next
  OBVIOUS
<1> USE DEF searchVars, counterVars, queueVars, endVars, mainVars, Goto, At
<1>1. ASSUME Open' = Open, visited' = visited, aborted' = aborted, main' = main PROVE FALSE
  BY <1>1 DEF Abstract!vars
<1>2. CASE Finished \/ UNCHANGED vars
  BY <1>1, <1>2 DEF Finished, vars, Open
<1>3. CASE Stop
  <2>1. Open' = Open
    BY <1>3 DEF Stop, Open
  <2> QED
    BY <1>3, <2>1 DEF Stop, Abstract!Next, Abstract!Abort
<1>4. CASE Cleanup
  <2>1. Open' = Open
    BY <1>4 DEF Cleanup, Open
  <2> QED
    BY <1>4, <2>1 DEF Cleanup, Abstract!vars
<1>5. ASSUME NEW w \in Workers, Get(w) PROVE FALSE
  <2>1. Open' = Open
    BY <1>5 DEF Get, Open
  <2> QED
    BY <1>5, <2>1 DEF Get, Abstract!vars
<1>6. CASE Join
  <2>1. Open' = Open
    BY <1>6 DEF Join, Open
  <2>2. Open = {} \/ aborted
    BY <1>6 DEF Join, Quiet
  <2> QED
    BY <1>6, <2>1, <2>2 DEF Join, Abstract!Next, Abstract!Finish
<1>7. CASE Worker(w0)
  <2>1. pc[w0] # "done" /\ UNCHANGED main
    BY <1>7, DoneStep DEF LostInv, Inv
  <2>2. main \notin {"returned", "thrown"}
    BY <2>1 DEF Reaped
  <2>3. pc[w0] \in {"succs", "flush", "count"} => cur[w0] \in Open /\ cur[w0] \in States
    BY OpenMember DEF IsOpen, LostInv, Inv, Placed
  <2>4. ASSUME NEW s \in todo[w0], Yield(w0, s) PROVE Abstract!Next
    <3>1. /\ pc[w0] = "succs" /\ <<cur[w0], s>> \notin ErrorEdges
          /\ visited' = visited \cup {s} /\ UNCHANGED aborted
      BY <2>4 DEF Yield
    <3>2. s \in Succ[cur[w0]] /\ s \in States
      BY <3>1 DEF Tracked, LostInv, Inv, TypeOK
    <3>3. Open' = IF s \in visited \/ s \in Ignored THEN Open ELSE Open \cup {s}
      BY <2>4, OpenStep DEF LostInv, Inv
    <3>4. s \notin visited
      BY <1>1, <2>1, <3>1, <3>3
    <3>5. Open' = Open \cup ({s} \ Ignored)
      BY <3>3, <3>4
    <3>6. Abstract!Discover(cur[w0], s)
      BY <2>1, <2>3, <3>1, <3>2, <3>4, <3>5 DEF Abstract!Discover
    <3> QED
      BY <2>2, <2>3, <3>1, <3>2, <3>6 DEF Abstract!Next
  <2>5. ASSUME NEW s \in todo[w0], YieldError(w0, s) PROVE Abstract!Next
    <3>1. /\ pc[w0] = "succs" /\ <<cur[w0], s>> \in ErrorEdges
          /\ visited' = visited \cup {s} /\ aborted' = TRUE
      BY <2>5 DEF YieldError
    <3>2. s \in Succ[cur[w0]] /\ s \in States
      BY <3>1 DEF Tracked, LostInv, Inv, TypeOK
    <3>3. Open' = Open
      BY <2>5, OpenStep DEF LostInv, Inv
    <3>4. Abstract!Error(cur[w0], s)
      BY <2>1, <2>3, <3>1, <3>2, <3>3 DEF Abstract!Error
    <3> QED
      BY <2>2, <2>3, <3>1, <3>2, <3>4 DEF Abstract!Next
  <2>6. CASE Close(w0)
    <3>1. pc[w0] = "succs" /\ todo[w0] = {} /\ UNCHANGED <<visited, aborted>>
      BY <2>6 DEF Close
    <3>2. Open' = Open \ {cur[w0]}
      BY <2>6, OpenStep DEF LostInv, Inv
    <3>3. \A t \in Succ[cur[w0]] : t \in visited /\ <<cur[w0], t>> \notin ErrorEdges
      BY <3>1 DEF LostInv, Tracked
    <3>4. Abstract!Expand(cur[w0])
      BY <2>1, <2>3, <3>1, <3>2, <3>3 DEF Abstract!Expand
    <3> QED
      BY <2>2, <2>3, <3>1, <3>4 DEF Abstract!Next
  <2>7. CASE Throw(w0)
    <3>1. Open' = Open
      BY <2>7 DEF Throw, Open
    <3> QED
      BY <2>1, <2>2, <2>7, <3>1 DEF Throw, Abstract!Next, Abstract!Abort
  <2>8. ASSUME NEW chunk \in sharedQ, Grab(w0, chunk) \/ AssertGrab(w0, chunk) PROVE FALSE
    <3>1. Take(w0, chunk) /\ UNCHANGED <<outgoing, cur, visited, aborted, main>>
      BY <2>8 DEF Grab, AssertGrab
    <3>2. Open' = Open
      BY <3>1, OpenStep DEF LostInv, Inv
    <3> QED
      BY <1>1, <3>1, <3>2
  <2>9. ASSUME NEW v \in incoming[w0], Pop(w0, v) PROVE FALSE
    <3>1. Open' = Open
      BY <2>9, OpenStep DEF LostInv, Inv
    <3> QED
      BY <1>1, <2>9, <3>1 DEF Pop
  <2>10. CASE Flush(w0) \/ IdleFlush(w0)
    <3>1. /\ UNCHANGED <<incoming, cur, visited, aborted, main>>
          /\ UNCHANGED <<sharedQ, outgoing>> \/ Publish(w0)
      BY <2>10 DEF Flush, IdleFlush
    <3>2. Open' = Open
      BY <3>1, OpenStep DEF LostInv, Inv, openVars
    <3> QED
      BY <1>1, <3>1, <3>2
  <2>11. CASE UNCHANGED <<openVars, aborted, main>>
    <3>1. Open' = Open /\ visited' = visited
      BY <2>11 DEF openVars, Open
    <3> QED
      BY <1>1, <2>11, <3>1
  <2>12. CASE Arrive(w0) \/ Leave(w0) \/ ReadWork(w0) \/ ReadTerminate(w0) \/ Peek(w0)
              \/ GrabNothing(w0) \/ Count(w0)
    BY <2>11, <2>12 DEF Arrive, Leave, ReadWork, ReadTerminate, Peek, GrabNothing, Count, openVars
  <2>13. CASE SyncRead(w0) \/ SyncNothing(w0) \/ SyncCas(w0) \/ SyncRetry(w0)
              \/ AssertTerminate(w0) \/ AssertQueue(w0) \/ Defer(w0)
    BY <2>11, <2>13 DEF SyncRead, SyncNothing, SyncCas, SyncRetry, AssertTerminate, AssertQueue,
                        Defer, openVars
  <2> QED
    BY <1>7, <2>4, <2>5, <2>6, <2>7, <2>8, <2>9, <2>10, <2>12, <2>13 DEF Worker
<1> QED
  BY <1>2, <1>3, <1>4, <1>5, <1>6, <1>7 DEF Next, Main

\* With one worker the search implements StateSpaceSearch: the caller sees states
\* stored, opened and expanded one by one, and gets control back when nothing is
\* open or the search was cut short.
THEOREM SingleRefines ==
  ASSUME NEW w0, Workers = {w0}
  PROVE  Spec => ImplementsSearch
<1>1. Init => Abstract!Init /\ Quiet /\ Reaped
  <2> SUFFICES ASSUME Init PROVE Abstract!Init /\ Quiet /\ Reaped
    OBVIOUS
  <2>1. \A s : IsOpen(s) <=> s \in Initials \ Ignored
    BY DEF Init, IsOpen
  <2>2. Open = Initials \ Ignored
    BY <2>1, OpenMember
  <2> QED
    BY <2>2 DEF Init, Abstract!Init, Quiet, Reaped, Exits
<1>2. LostInv /\ Quiet /\ [Next]_vars => Quiet'
  BY QuietStep
<1>3. LostInv /\ Reaped /\ [Next]_vars => Reaped'
  BY ReapedStep DEF LostInv, Inv
<1>4. LostInv /\ Quiet /\ Reaped /\ [Next]_vars => [Abstract!Next]_(Abstract!vars)
  BY AbstractStep
<1> QED
  BY <1>1, <1>2, <1>3, <1>4, LostInvariance, PTL DEF Spec, ImplementsSearch, Abstract!Spec
=============================================================================
