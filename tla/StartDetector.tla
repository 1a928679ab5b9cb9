--------------------------- MODULE StartDetector ---------------------------
(***************************************************************************)
(* shmem::StartDetector (bricks/brick-shmem), the "parallel reentrant      *)
(* barrier" at which the workers of a search wait for each other.  Two     *)
(* 16-bit counters are all the state there is; every load, store and       *)
(* increment of them is a step.  waitForAll is called with the number of   *)
(* threads that take part, and may be called again right after it returns. *)
(***************************************************************************)
EXTENDS Integers, FiniteSets

CONSTANTS Workers,     \* the threads that meet at the barrier
          ShortRange,  \* how many values an unsigned short has: 65536
          MaxRounds    \* bound: how often each thread calls waitForAll

\* The number of threads fits the unsigned short that counts them.
ASSUME StartAssumption ==
  /\ IsFiniteSet(Workers) /\ Workers # {}
  /\ ShortRange \in Nat /\ Cardinality(Workers) < ShortRange
  /\ MaxRounds \in Nat

peers == Cardinality(Workers)

VARIABLES pc, counter, leaveGuard,
          arrived,   \* history: how often each thread has been counted in
          left       \* history: how often each thread has seen the barrier open

vars == <<pc, counter, leaveGuard, arrived, left>>

Goto(w, l) == pc' = [pc EXCEPT ![w] = l]
At(w, l) == pc[w] = l

Init ==
  /\ pc = [w \in Workers |-> "out"]
  /\ counter = 0
  /\ leaveGuard = 0
  /\ arrived = [w \in Workers |-> 0]
  /\ left = [w \in Workers |-> 0]

\* while ( _s->leaveGuard );
Enter(w) ==
  /\ At(w, "out") /\ left[w] < MaxRounds
  /\ leaveGuard = 0
  /\ Goto(w, "count")
  /\ UNCHANGED <<counter, leaveGuard, arrived, left>>

\* fault: off by one, the barrier opens for the last but one
BadCount(w) ==
  /\ At(w, "count")
  /\ counter' = (counter + 1) % ShortRange
  /\ arrived' = [arrived EXCEPT ![w] = @ + 1]
  /\ Goto(w, IF counter' = peers - 1 THEN "guard" ELSE "spin")
  /\ UNCHANGED <<leaveGuard, left>>

\* if ( ++ _s->counter == peers )
Count(w) ==
  /\ At(w, "count")
  /\ counter' = (counter + 1) % ShortRange
  /\ arrived' = [arrived EXCEPT ![w] = @ + 1]
  /\ Goto(w, IF counter' = peers THEN "guard" ELSE "spin")
  /\ UNCHANGED <<leaveGuard, left>>

\* fault: the last thread opens the barrier before it raises the guard
BadRaiseGuard(w) ==
  /\ At(w, "guard")
  /\ counter' = 0
  /\ Goto(w, "reset")
  /\ UNCHANGED <<leaveGuard, arrived, left>>

\* _s->leaveGuard = peers;
RaiseGuard(w) ==
  /\ At(w, "guard")
  /\ leaveGuard' = peers
  /\ Goto(w, "reset")
  /\ UNCHANGED <<counter, arrived, left>>

\* _s->counter = 0;
Reset(w) ==
  /\ At(w, "reset")
  /\ counter' = 0
  /\ Goto(w, "spin")
  /\ UNCHANGED <<leaveGuard, arrived, left>>

\* fault: a thread that has been counted does not wait
BadSeeOpen(w) ==
  /\ At(w, "spin")
  /\ left' = [left EXCEPT ![w] = @ + 1]
  /\ Goto(w, "leave")
  /\ UNCHANGED <<counter, leaveGuard, arrived>>

\* while ( _s->counter );
SeeOpen(w) ==
  /\ At(w, "spin") /\ counter = 0
  /\ left' = [left EXCEPT ![w] = @ + 1]
  /\ Goto(w, "leave")
  /\ UNCHANGED <<counter, leaveGuard, arrived>>

\* fault: the guard is never lowered
BadLeave(w) ==
  /\ At(w, "leave")
  /\ Goto(w, "out")
  /\ UNCHANGED <<counter, leaveGuard, arrived, left>>

\* -- _s->leaveGuard;
Leave(w) ==
  /\ At(w, "leave")
  /\ leaveGuard' = (leaveGuard - 1) % ShortRange
  /\ Goto(w, "out")
  /\ UNCHANGED <<counter, arrived, left>>

\* One more turn of either of the two busy-waiting loops.
Spin(w) ==
  /\ \/ At(w, "out") /\ left[w] < MaxRounds /\ leaveGuard # 0
     \/ At(w, "spin") /\ counter # 0
  /\ UNCHANGED vars

Thread(w) ==
  \/ Spin(w) \/ Enter(w) \/ Count(w) \/ RaiseGuard(w) \/ Reset(w) \/ SeeOpen(w) \/ Leave(w)

AllDone == \A w \in Workers : At(w, "out") /\ left[w] = MaxRounds

\* Every thread has made its calls.
Finished == AllDone /\ UNCHANGED vars

Next == Finished \/ \E w \in Workers : Thread(w)

Spec == Init /\ [][Next]_vars

\* A thread that spins does not keep the others from running.
FairSpec == Spec /\ \A w \in Workers : WF_vars(Thread(w))

(***************************************************************************)
(*                              Properties                                 *)
(***************************************************************************)
Pcs == {"out", "count", "guard", "reset", "spin", "leave"}

\* The type invariant: both counters are 16-bit numbers.
TypeOK ==
  /\ pc \in [Workers -> Pcs]
  /\ counter \in 0..(ShortRange - 1)
  /\ leaveGuard \in 0..(ShortRange - 1)
  /\ arrived \in [Workers -> Nat]
  /\ left \in [Workers -> Nat]

\* The promise of the barrier: a thread that has passed waitForAll n times was
\* joined by every other thread at least n times.
BarrierHolds == \A w, v \in Workers : left[w] <= arrived[v]

\* The counters never wrap around: the barrier is not decremented below zero
\* nor counted past the number of threads.
NoWrap ==
  /\ counter <= peers
  /\ \A w \in Workers : At(w, "leave") => leaveGuard > 0

B == INSTANCE Barrier

\* The detector implements a reusable barrier.
ImplementsBarrier == B!Spec

\* No thread is left behind: all the calls return.
AllReturn == <>AllDone
=============================================================================
