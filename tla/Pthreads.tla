----------------------------- MODULE Pthreads ------------------------------
(***************************************************************************)
(* The threads, mutexes, condition variables and barriers that DiOS gives  *)
(* to a checked program (src/dios/libc/pthread, src/dios/libpthread,       *)
(* src/dios/include/sys/thread.h).  The program is arbitrary: any thread   *)
(* may make any call at any time.                                          *)
(*                                                                         *)
(* A call runs under an interrupt mask and is one step, except where it    *)
(* drops the mask to wait.  A call that waits in vain ends in __vm_cancel: *)
(* that schedule is not followed, and the action is not enabled.  Calls    *)
(* that only return an error change nothing and are no actions.  A fault   *)
(* ends the run of the program.                                            *)
(***************************************************************************)
EXTENDS Naturals, FiniteSets

CONSTANTS Threads,    \* the threads beside main, all of them created
          Mutexes,
          Conds,
          Barriers,
          Type,       \* the type of each mutex: "normal", "errorcheck" or "recursive"
          NThreads,   \* __nthreads of each barrier
          MaxLocks,   \* bound: the recursive locks of one mutex
          MaxRefs,    \* bound: the count of a _PThread, which recursive locks only raise
          MaxCancelled, MaxDetached,   \* bounds: the threads cancelled, and detached
          None

\* There are finitely many threads and mutexes, and None is none of the rest.
ASSUME PthreadAssumption ==
  /\ IsFiniteSet(Threads) /\ IsFiniteSet(Mutexes)
  /\ None \notin Threads /\ None \notin Mutexes /\ None \notin Conds \cup Barriers
  /\ None \notin {"circular", "dead", "endless"}

VARIABLES thread,    \* _PThread of each thread
          killed,    \* the threads whose task, with its TLS, is gone
          at,        \* where each thread is: in user code or in a call that waits
          owner, locks,       \* __owner and __lockCounter of each mutex
          binding, counter,   \* __mutex of a condition, __counter of it or of a barrier
          fault      \* the fault that ended the run, and who raised it

vars == <<thread, killed, at, owner, locks, binding, counter, fault>>
sync == <<owner, locks, binding, counter>>

User == [call |-> "user"]
NoFault == [why |-> None, who |-> None]

\* __init_thread
Init ==
  /\ thread = [t \in Threads |-> [running |-> TRUE, detached |-> FALSE, cancelled |-> FALSE,
                                  sleeping |-> FALSE, condition |-> None,
                                  waiting_mutex |-> None, refcnt |-> 1]]
  /\ killed = {}
  /\ at = [t \in Threads |-> User]
  /\ owner = [m \in Mutexes |-> None]
  /\ locks = [m \in Mutexes |-> 0]
  /\ binding = [c \in Conds |-> None]
  /\ counter = [c \in Conds \cup Barriers |-> 0]
  /\ fault = NoFault

\* Thread t is in user code and the program runs.
Runs(t) == fault = NoFault /\ at[t] = User
\* Thread t waits in `call`.
Waits(t, call) == fault = NoFault /\ at[t].call = call

Fault(t, why) ==
  /\ fault' = [why |-> why, who |-> t]
  /\ UNCHANGED <<thread, killed, at, sync>>
-----------------------------------------------------------------------------
(* The end of a thread *)

\* releaseAndKillThread
Kill(th, t) ==
  /\ killed' = killed \cup {t}
  /\ thread' = [th EXCEPT ![t].refcnt = @ - 1]

\* _clean_and_become_zombie: a thread that is not detached stays until it is joined.
Die(th, t) ==
  LET dead == [th EXCEPT ![t].running = FALSE]
  IN  /\ at' = [at EXCEPT ![t] = [call |-> "zombie"]]
      /\ IF th[t].detached THEN Kill(dead, t) ELSE thread' = dead /\ UNCHANGED killed

\* The thread returns from its entry function, or calls pthread_exit.
Exit(t) ==
  /\ Runs(t)
  /\ Die(thread, t)
  /\ UNCHANGED <<sync, fault>>

\* pthread_cancel: the thread finds out when it makes a call that may wait.
Cancel(t, u) ==
  /\ Runs(t) /\ u \notin killed
  /\ Cardinality({w \in Threads : thread[w].cancelled}) < MaxCancelled
  /\ thread' = [thread EXCEPT ![u].cancelled = TRUE]
  /\ UNCHANGED <<killed, at, sync, fault>>

TestCancel(t) ==
  /\ Runs(t) /\ thread[t].cancelled
  /\ Die(thread, t)
  /\ UNCHANGED <<sync, fault>>

Detach(t, u) ==
  /\ Runs(t) /\ u \notin killed /\ ~thread[u].detached
  /\ Cardinality({w \in Threads : thread[w].detached}) < MaxDetached
  /\ LET detached == [thread EXCEPT ![u].detached = TRUE]
     IN  IF thread[u].running THEN thread' = detached /\ UNCHANGED killed ELSE Kill(detached, u)
  /\ UNCHANGED <<at, sync, fault>>

\* pthread_join: waitOrCancel looks at `cancelled` before it waits, and only then.
Join(t, u) ==
  /\ Runs(t) /\ u \notin killed \cup {t} /\ ~thread[u].detached
  /\ \/ thread[t].cancelled /\ Die(thread, t)
     \/ /\ ~thread[t].cancelled /\ thread[u].running
        /\ at' = [at EXCEPT ![t] = [call |-> "join", whom |-> u]]
        /\ UNCHANGED <<thread, killed>>
     \/ ~thread[t].cancelled /\ ~thread[u].running /\ Kill(thread, u) /\ UNCHANGED at
  /\ UNCHANGED <<sync, fault>>

\* The thread that was waited for is gone when another one joined it, or when it was
\* detached and ended: its _PThread is freed, unless it still has a mutex, and its TLS
\* always.  Otherwise it has ended and is killed now.
JoinEnd(t) ==
  /\ Waits(t, "join")
  /\ LET u == at[t].whom
     IN  \/ u \in killed /\ ~(thread[u].detached /\ thread[u].refcnt > 0) /\ Fault(t, "memory")
         \/ /\ ~thread[u].running
            /\ \/ u \in killed /\ thread[u].detached /\ thread[u].refcnt > 0
                  /\ UNCHANGED <<thread, killed>>
               \/ u \notin killed /\ Kill(thread, u)
            /\ at' = [at EXCEPT ![t] = User]
            /\ UNCHANGED <<sync, fault>>
-----------------------------------------------------------------------------
(* Mutexes *)

\* _mutex_can_lock
CanLock(t, m) == owner[m] \in {None, t}

\* The thread that the search for a deadlock visits after u, None at its end.
Successor(u) == IF thread[u].waiting_mutex = None THEN None ELSE owner[thread[u].waiting_mutex]

\* Mutant: the search does not notice that it is back at its beginning.
BadEnds(t) == {None}

\* What ends the search that thread t makes: the end of the chain, or t itself.
Ends(t) == {None, t}

\* The threads that a search from the owner of m visits.
Visit(m) ==
  LET visit[n \in Nat] == IF n = 0 THEN owner[m]
                          ELSE IF visit[n - 1] = None THEN None ELSE Successor(visit[n - 1])
  IN  visit

Stops(t, u) == u \in Ends(t) \cup killed \/ ~thread[u].running

\* _check_deadlock(m, t): along the mutexes that are waited for, up to an end or to a
\* thread that has ended.  When it has made more steps than there are threads, it goes
\* round in a circle without t for ever.
CheckDeadlock(t, m) ==
  LET stops == {n \in 0..Cardinality(Threads) : Stops(t, Visit(m)[n])}
      last == Visit(m)[CHOOSE n \in stops : \A k \in stops : n <= k]
  IN  IF stops = {} THEN "endless"
      ELSE CASE last = None      -> "none"
             [] last = t         -> "circular"
             [] last \in killed  -> "memory"
             [] OTHER            -> "dead"

\* Mutant: waiting_mutex is not reset.
BadTake(t, m) ==
  /\ thread' = [thread EXCEPT ![t].refcnt = @ + 1]
  /\ locks' = [locks EXCEPT ![m] = @ + 1]
  /\ owner' = [owner EXCEPT ![m] = t]
  /\ at' = [at EXCEPT ![t] = User]

\* Mutant: the thread is not referenced.
BadTakeUncounted(t, m) ==
  /\ thread' = [thread EXCEPT ![t].waiting_mutex = None]
  /\ locks' = [locks EXCEPT ![m] = @ + 1]
  /\ owner' = [owner EXCEPT ![m] = t]
  /\ at' = [at EXCEPT ![t] = User]

\* The end of _mutex_lock: no longer waiting, one more lock, the thread referenced.
Take(t, m) ==
  /\ thread' = [thread EXCEPT ![t].waiting_mutex = None, ![t].refcnt = @ + 1]
  /\ locks' = [locks EXCEPT ![m] = @ + 1]
  /\ owner' = [owner EXCEPT ![m] = t]
  /\ at' = [at EXCEPT ![t] = User]

\* _mutex_lock with wait set, up to the point where the mask is dropped.  getThread reads
\* the TLS of the owner, which is gone when that thread was joined.
MutexLock(t, m) ==
  \/ owner[m] \in killed /\ Fault(t, "memory")
  \/ owner[m] = t /\ Type[m] = "normal" /\ Fault(t, "double lock")
  \/ /\ owner[m] = None \/ (owner[m] = t /\ Type[m] = "recursive")
     /\ locks[m] < MaxLocks /\ thread[t].refcnt < MaxRefs
     /\ Take(t, m)
     /\ UNCHANGED <<killed, binding, counter, fault>>
  \/ /\ ~CanLock(t, m) /\ owner[m] \notin killed
     /\ thread' = [thread EXCEPT ![t].waiting_mutex = m]
     /\ at' = [at EXCEPT ![t] = [call |-> "lock", mutex |-> m]]
     /\ UNCHANGED <<killed, sync, fault>>

Lock(t, m) == Runs(t) /\ MutexLock(t, m)

\* After the thread was scheduled again: the mutex is free, or the wait is hopeless.
LockEnd(t) ==
  /\ Waits(t, "lock")
  /\ LET m == at[t].mutex
     IN  \/ owner[m] = None /\ thread[t].refcnt < MaxRefs /\ Take(t, m) /\ UNCHANGED <<killed, binding, counter, fault>>
         \/ /\ owner[m] # None /\ CheckDeadlock(t, m) # "none"
            /\ Fault(t, CheckDeadlock(t, m))

\* pthread_mutex_trylock: it faults, too, when the thread has the mutex.
TryLock(t, m) ==
  /\ Runs(t)
  /\ CanLock(t, m) \/ owner[m] \in killed
  /\ MutexLock(t, m)

\* pthread_mutex_unlock by the owner: it is released with the last of its locks.
Unlocks(m) ==
  /\ locks' = [locks EXCEPT ![m] = @ - 1]
  /\ owner' = [owner EXCEPT ![m] = IF locks[m] = 1 THEN None ELSE @]

Released(t, m) == [thread EXCEPT ![t].refcnt = IF locks[m] = 1 THEN @ - 1 ELSE @]

Unlock(t, m) ==
  /\ Runs(t)
  /\ \/ owner[m] # t /\ Type[m] = "normal" /\ Fault(t, "unlock")
     \/ /\ owner[m] = t
        /\ thread' = Released(t, m) /\ Unlocks(m)
        /\ UNCHANGED <<killed, at, binding, counter, fault>>
-----------------------------------------------------------------------------
(* Condition variables and barriers *)

\* setSleeping, _cond_adjust_count and waitOrCancel: a thread that was cancelled before it
\* falls asleep ends in _cancel.  It is in the counter of c, and is not taken out of it.
FallAsleep(th, t, c, place) ==
  LET counted == [th EXCEPT ![t].condition = c]
  IN  /\ counter' = [counter EXCEPT ![c] = @ + 1]
      /\ IF th[t].cancelled THEN Die(counted, t)
         ELSE /\ thread' = [counted EXCEPT ![t].sleeping = TRUE]
              /\ at' = [at EXCEPT ![t] = place]
              /\ UNCHANGED killed

\* pthread_cond_wait; its spurious wake-up changes nothing.
CondWait(t, c, m) ==
  /\ Runs(t) /\ owner[m] = t
  /\ \/ binding[c] \notin {None, m} /\ Fault(t, "binding")
     \/ /\ binding[c] \in {None, m}
        /\ binding' = [binding EXCEPT ![c] = m]
        /\ Unlocks(m)
        /\ FallAsleep(Released(t, m), t, c, [call |-> "condition", mutex |-> m])
        /\ UNCHANGED fault

\* After the wake-up, the mutex has to be locked again.
CondWaitEnd(t) ==
  /\ Waits(t, "condition") /\ ~thread[t].sleeping
  /\ MutexLock(t, at[t].mutex)

Sleepers(c) == {t \in Threads : thread[t].sleeping /\ thread[t].condition = c}

\* Mutant: the counter goes down by one, however many are woken.
BadWake(t, c, woken) ==
  /\ thread' = [u \in Threads |->
       IF u \in woken THEN [thread[u] EXCEPT !.sleeping = FALSE, !.condition = None] ELSE thread[u]]
  /\ counter' = [counter EXCEPT ![c] = @ - 1]

\* _cond_signal: the choice is a nonempty set of sleepers, all of them in a broadcast.
\* Its assertion compares the counter with the threads it finds asleep.
Wake(t, c, woken) ==
  /\ thread' = [u \in Threads |->
       IF u \in woken THEN [thread[u] EXCEPT !.sleeping = FALSE, !.condition = None] ELSE thread[u]]
  /\ counter' = [counter EXCEPT ![c] = @ - Cardinality(woken)]

\* pthread_cond_signal, pthread_cond_broadcast
Signal(t, c) ==
  /\ Runs(t) /\ counter[c] > 0
  /\ \/ counter[c] # Cardinality(Sleepers(c)) /\ Fault(t, "assertion")
     \/ /\ counter[c] = Cardinality(Sleepers(c))
        /\ \E woken \in SUBSET Sleepers(c) \ {{}} :
             /\ Wake(t, c, woken)
             /\ binding' = [binding EXCEPT ![c] = IF woken = Sleepers(c) THEN None ELSE @]
        /\ UNCHANGED <<killed, at, owner, locks, fault>>

BarrierWait(t, b) ==
  /\ Runs(t)
  /\ \/ counter[b] + 1 = NThreads[b] /\ counter[b] # Cardinality(Sleepers(b)) /\ Fault(t, "assertion")
     \/ /\ counter[b] + 1 = NThreads[b] /\ counter[b] = Cardinality(Sleepers(b))
        /\ Wake(t, b, Sleepers(b))
        /\ UNCHANGED <<killed, at, owner, locks, binding, fault>>
     \/ /\ counter[b] + 1 # NThreads[b]
        /\ FallAsleep(thread, t, b, [call |-> "barrier"])
        /\ UNCHANGED <<owner, locks, binding, fault>>

BarrierWaitEnd(t) ==
  /\ Waits(t, "barrier") /\ ~thread[t].sleeping
  /\ at' = [at EXCEPT ![t] = User]
  /\ UNCHANGED <<thread, killed, sync, fault>>

Next ==
  \E t \in Threads :
    \/ Exit(t) \/ TestCancel(t) \/ JoinEnd(t) \/ LockEnd(t) \/ CondWaitEnd(t) \/ BarrierWaitEnd(t)
    \/ \E u \in Threads : Cancel(t, u) \/ Detach(t, u) \/ Join(t, u)
    \/ \E m \in Mutexes : Lock(t, m) \/ TryLock(t, m) \/ Unlock(t, m)
    \/ \E c \in Conds : Signal(t, c) \/ \E m \in Mutexes : CondWait(t, c, m)
    \/ \E b \in Barriers : BarrierWait(t, b)

Spec == Init /\ [][Next]_vars
-----------------------------------------------------------------------------
(* Properties *)

\* Thread t waits for a mutex of another thread.
BlockedBy(t, u) == at[t].call = "lock" /\ owner[at[t].mutex] = u /\ u # t

\* A deadlock that is reported is one: the threads of some set, the reporting thread
\* among them, all wait for each other, or for a thread that has ended.
DeadlockReal ==
  fault.why \in {"circular", "dead"} =>
    \E D \in SUBSET Threads :
      /\ fault.who \in D
      /\ \A t \in D : \E u \in Threads : BlockedBy(t, u) /\ (u \in D \/ ~thread[u].running)

\* The search of _check_deadlock goes on for ever only when other threads do wait in a
\* circle that none of them has looked for yet, and the searching thread is not in it.
EndlessOutside ==
  fault.why = "endless" =>
    \E D \in SUBSET (Threads \ {fault.who}) :
      D # {} /\ \A t \in D : \E u \in D : BlockedBy(t, u)

\* The counter of a condition variable or barrier is the number of threads that fell
\* asleep there and were not woken, those that _cancel ended on the way included: the
\* assertion of _cond_signal can fail, but only for a cancelled thread.
SleepersCounted ==
  \A c \in Conds \cup Barriers :
    counter[c] = Cardinality(Sleepers(c))
                 + Cardinality({t \in Threads : /\ thread[t].cancelled /\ ~thread[t].running
                                                /\ thread[t].condition = c})

\* The _PThread of a thread is not freed while the thread or a mutex refers to it.
RefsSuffice ==
  \A t \in Threads :
    thread[t].refcnt >= Cardinality({m \in Mutexes : owner[m] = t})
                        + (IF t \in killed THEN 0 ELSE 1)
=============================================================================
