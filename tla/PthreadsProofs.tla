-------------------------- MODULE PthreadsProofs ---------------------------
(***************************************************************************)
(* The counters, the references and the search for deadlocks of Pthreads,  *)
(* for any threads, mutexes, condition variables and barriers.             *)
(***************************************************************************)
EXTENDS Pthreads, Integers, FiniteSetTheorems, FunctionTheorems, TLAPS

Waited == Conds \cup Barriers

PThread == [running : BOOLEAN, detached : BOOLEAN, cancelled : BOOLEAN, sleeping : BOOLEAN,
            condition : Waited \cup {None}, waiting_mutex : Mutexes \cup {None}, refcnt : Int]

Places == {User, [call |-> "zombie"], [call |-> "barrier"]}
            \cup [call : {"join"}, whom : Threads] \cup [call : {"lock", "condition"}, mutex : Mutexes]

Types ==
  /\ thread \in [Threads -> PThread]
  /\ killed \subseteq Threads
  /\ at \in [Threads -> Places]
  /\ owner \in [Mutexes -> Threads \cup {None}]
  /\ locks \in [Mutexes -> Int]
  /\ binding \in [Conds -> Mutexes \cup {None}]
  /\ counter \in [Waited -> Int]

\* A thread runs until it is a zombie; only a thread that runs sleeps.  One that has ended
\* is still on a condition only if _cancel ended it there.
Alive ==
  \A t \in Threads :
    /\ thread[t].running <=> at[t].call # "zombie"
    /\ t \in killed => ~thread[t].running
    /\ thread[t].running => (thread[t].sleeping <=> thread[t].condition # None)
    /\ thread[t].sleeping => at[t].call \in {"condition", "barrier"}
    /\ ~thread[t].running /\ thread[t].condition # None => thread[t].cancelled

\* waiting_mutex is the mutex that the thread waits for, and another thread has it.
Blocked ==
  \A t \in Threads :
    /\ thread[t].waiting_mutex # None <=> at[t].call = "lock"
    /\ at[t].call = "lock" => at[t].mutex = thread[t].waiting_mutex /\ owner[at[t].mutex] # t

\* The threads that fell asleep on c and were not woken.
Members(c) == {t \in Threads : thread[t].condition = c}
Counted == \A c \in Waited : counter[c] = Cardinality(Members(c))

Owned(t) == {m \in Mutexes : owner[m] = t}

Inv == Types /\ Alive /\ Blocked /\ Counted /\ RefsSuffice
-----------------------------------------------------------------------------
(* The state of one thread *)

LEMMA UserThread ==
  ASSUME Types, Alive, Blocked, NEW t \in Threads, Runs(t)
  PROVE  /\ thread[t].running /\ t \notin killed /\ ~thread[t].sleeping
         /\ thread[t].condition = None /\ thread[t].waiting_mutex = None /\ at[t].call = "user"
<1>1. at[t].call = "user"
  BY DEF Runs, User
<1>2. thread[t].running /\ thread[t].sleeping \in BOOLEAN /\ ~thread[t].sleeping
  BY <1>1 DEF Alive, Types, PThread
<1>3. thread[t].condition = None /\ t \notin killed
  BY <1>2 DEF Alive
<1>4. thread[t].waiting_mutex = None
  BY <1>1 DEF Blocked
<1> QED BY <1>1, <1>2, <1>3, <1>4

LEMMA KillEffect ==
  ASSUME NEW th \in [Threads -> PThread], NEW u \in Threads, killed \subseteq Threads, Kill(th, u)
  PROVE  /\ killed' = killed \cup {u} /\ killed' \subseteq Threads
         /\ thread' \in [Threads -> PThread]
         /\ \A w \in Threads \ {u} : thread'[w] = th[w]
         /\ thread'[u] = [th[u] EXCEPT !.refcnt = @ - 1]
<1>1. thread' = [th EXCEPT ![u] = [th[u] EXCEPT !.refcnt = @ - 1]] /\ killed' = killed \cup {u}
  BY DEF Kill
<1>2. [th[u] EXCEPT !.refcnt = @ - 1] \in PThread
  BY DEF PThread
<1> QED BY <1>1, <1>2

\* What becomes of the thread that dies.
Dead(p, q) ==
  /\ ~q.running /\ q.detached = p.detached /\ q.cancelled = p.cancelled /\ q.sleeping = p.sleeping
  /\ q.condition = p.condition /\ q.waiting_mutex = p.waiting_mutex

LEMMA DieEffect ==
  ASSUME NEW th \in [Threads -> PThread], NEW t \in Threads, killed \subseteq Threads, Die(th, t)
  PROVE  /\ at' = [at EXCEPT ![t] = [call |-> "zombie"]] /\ killed' \subseteq Threads
         /\ thread' \in [Threads -> PThread]
         /\ \A w \in Threads \ {t} : thread'[w] = th[w]
         /\ Dead(th[t], thread'[t])
         /\ \/ killed' = killed /\ thread'[t].refcnt = th[t].refcnt
            \/ killed' = killed \cup {t} /\ thread'[t].refcnt = th[t].refcnt - 1
<1> DEFINE dead == [th EXCEPT ![t].running = FALSE]
<1>1. /\ at' = [at EXCEPT ![t] = [call |-> "zombie"]]
      /\ IF th[t].detached THEN Kill(dead, t) ELSE thread' = dead /\ UNCHANGED killed
  BY DEF Die
<1>2. /\ dead \in [Threads -> PThread] /\ \A w \in Threads \ {t} : dead[w] = th[w]
      /\ dead[t] = [th[t] EXCEPT !.running = FALSE]
  BY DEF PThread
<1> HIDE DEF dead
<1>3. /\ ~dead[t].running /\ dead[t].detached = th[t].detached /\ dead[t].cancelled = th[t].cancelled
      /\ dead[t].sleeping = th[t].sleeping /\ dead[t].condition = th[t].condition
      /\ dead[t].waiting_mutex = th[t].waiting_mutex /\ dead[t].refcnt = th[t].refcnt
  BY <1>2 DEF PThread
<1>4. CASE th[t].detached
  <2>1. Kill(dead, t)
    BY <1>1, <1>4
  <2>2. /\ killed' = killed \cup {t} /\ killed' \subseteq Threads
        /\ thread' \in [Threads -> PThread]
        /\ \A w \in Threads \ {t} : thread'[w] = dead[w]
        /\ thread'[t] = [dead[t] EXCEPT !.refcnt = @ - 1]
    BY <1>2, <2>1, KillEffect
  <2>3. Dead(th[t], thread'[t]) /\ thread'[t].refcnt = th[t].refcnt - 1
    BY <1>2, <1>3, <2>2 DEF PThread, Dead
  <2> QED BY <1>1, <1>2, <2>2, <2>3
<1>5. CASE ~th[t].detached
  <2>1. thread' = dead /\ killed' = killed
    BY <1>1, <1>5
  <2>2. Dead(th[t], thread'[t])
    BY <1>3, <2>1 DEF Dead
  <2> QED BY <1>1, <1>2, <1>3, <2>1, <2>2
<1> QED BY <1>4, <1>5
-----------------------------------------------------------------------------
(* The references *)

Spare(t) == thread[t].refcnt - (IF t \in killed THEN 0 ELSE 1)

LEMMA OwnedFinite ==
  ASSUME Types, NEW t \in Threads
  PROVE  IsFiniteSet(Owned(t)) /\ Cardinality(Owned(t)) \in Nat
<1>1. IsFiniteSet(Owned(t))
  BY PthreadAssumption, FS_Subset DEF Owned, PthreadAssumption
<1> QED BY <1>1, FS_CardinalityType

LEMMA SpareInt ==
  ASSUME Types, NEW t \in Threads
  PROVE  Spare(t) \in Int /\ thread[t].refcnt \in Int
<1>1. thread[t] \in PThread
  BY DEF Types
<1>2. thread[t].refcnt \in Int
  BY <1>1 DEF PThread
<1> QED BY <1>2 DEF Spare

LEMMA RefsAre ==
  ASSUME Types
  PROVE  RefsSuffice <=> \A t \in Threads : Spare(t) >= Cardinality(Owned(t))
<1>1. ASSUME NEW t \in Threads
      PROVE  thread[t].refcnt >= Cardinality({m \in Mutexes : owner[m] = t})
                                   + (IF t \in killed THEN 0 ELSE 1)
             <=> Spare(t) >= Cardinality(Owned(t))
  <2>1. Cardinality(Owned(t)) \in Nat /\ thread[t].refcnt \in Int
    BY OwnedFinite, SpareInt
  <2>2. Owned(t) = {m \in Mutexes : owner[m] = t}
    BY DEF Owned
  <2> QED BY <2>1, <2>2 DEF Spare
<1> QED BY <1>1 DEF RefsSuffice

LEMMA RefsFollow ==
  Types' /\ (\A t \in Threads : Spare(t)' >= Cardinality(Owned(t)')) => RefsSuffice'
<1>1. Types => (RefsSuffice <=> \A t \in Threads : Spare(t) >= Cardinality(Owned(t)))
  BY RefsAre
<1>2. (Types => (RefsSuffice <=> \A t \in Threads : Spare(t) >= Cardinality(Owned(t))))'
  BY <1>1, PTL
<1> QED BY <1>2

\* A step that changes no owner and keeps what each thread has to spare.
LEMMA RefsStay ==
  ASSUME Types, Types', RefsSuffice, owner' = owner,
         \A t \in Threads : \/ thread'[t].refcnt = thread[t].refcnt /\ (t \in killed <=> t \in killed')
                            \/ thread'[t].refcnt = thread[t].refcnt - 1 /\ t \notin killed /\ t \in killed'
  PROVE  RefsSuffice'
<1>1. ASSUME NEW t \in Threads
      PROVE  Spare(t)' >= Cardinality(Owned(t))'
  <2>1. Spare(t) >= Cardinality(Owned(t))
    BY RefsAre
  <2>2. Owned(t)' = Owned(t)
    BY DEF Owned
  <2>3. Spare(t)' = Spare(t)
    BY SpareInt DEF Spare
  <2> QED BY <2>1, <2>2, <2>3
<1> QED BY <1>1, RefsFollow

LEMMA RefsSame ==
  ASSUME Types, Types', RefsSuffice, owner' = owner, killed' = killed,
         \A t \in Threads : thread'[t].refcnt = thread[t].refcnt
  PROVE  RefsSuffice'
BY RefsStay
-----------------------------------------------------------------------------
(* The counters *)

LEMMA MembersFinite ==
  ASSUME NEW c
  PROVE  IsFiniteSet(Members(c)) /\ Cardinality(Members(c)) \in Nat
<1>1. IsFiniteSet(Members(c))
  BY PthreadAssumption, FS_Subset DEF Members, PthreadAssumption
<1> QED BY <1>1, FS_CardinalityType

\* A step that takes no thread to a condition, and none from it.
LEMMA CountStays ==
  ASSUME Counted, counter' = counter, \A t \in Threads : thread'[t].condition = thread[t].condition
  PROVE  Counted'
<1>1. ASSUME NEW c \in Waited
      PROVE  counter'[c] = Cardinality(Members(c)')
  <2>1. Members(c)' = Members(c)
    BY DEF Members
  <2> QED BY <2>1 DEF Counted
<1> QED BY <1>1 DEF Counted, Waited
\* A step in which thread t falls asleep on c.
LEMMA CountEnters ==
  ASSUME Types, Counted, NEW t \in Threads, NEW c \in Waited, thread[t].condition = None,
         thread'[t].condition = c, \A w \in Threads \ {t} : thread'[w].condition = thread[w].condition,
         counter' = [counter EXCEPT ![c] = @ + 1]
  PROVE  Counted'
<1>1. None \notin Waited
  BY PthreadAssumption DEF PthreadAssumption, Waited
<1>2. ASSUME NEW d \in Waited
      PROVE  counter'[d] = Cardinality(Members(d)')
  <2>1. counter[d] = Cardinality(Members(d)) /\ IsFiniteSet(Members(d)) /\ Cardinality(Members(d)) \in Nat
    BY MembersFinite DEF Counted
  <2>2. CASE d = c
    <3>1. Members(d)' = Members(d) \cup {t} /\ t \notin Members(d)
      BY <1>1, <2>2 DEF Members
    <3>2. Cardinality(Members(d)') = Cardinality(Members(d)) + 1
      BY <2>1, <3>1, FS_AddElement
    <3>3. counter'[d] = counter[d] + 1
      BY <2>2 DEF Types
    <3> QED BY <2>1, <3>2, <3>3
  <2>3. CASE d # c
    <3>1. Members(d)' = Members(d)
      BY <1>1, <2>3 DEF Members
    <3>2. counter'[d] = counter[d]
      BY <2>3 DEF Types
    <3> QED BY <2>1, <3>1, <3>2
  <2> QED BY <2>2, <2>3
<1> QED BY <1>2 DEF Counted, Waited

\* What a thread keeps when it is woken.
Woken(p, q) ==
  /\ ~q.sleeping /\ q.condition = None /\ q.running = p.running /\ q.detached = p.detached
  /\ q.cancelled = p.cancelled /\ q.waiting_mutex = p.waiting_mutex /\ q.refcnt = p.refcnt

LEMMA WakeEffect ==
  ASSUME Types, NEW t, NEW c \in Waited, NEW woken \in SUBSET Sleepers(c), Wake(t, c, woken)
  PROVE  /\ thread' \in [Threads -> PThread] /\ counter' \in [Waited -> Int]
         /\ \A u \in woken : Woken(thread[u], thread'[u])
         /\ \A u \in Threads \ woken : thread'[u] = thread[u]
         /\ \A u \in Threads : thread'[u].refcnt = thread[u].refcnt
<1>1. thread' = [u \in Threads |->
        IF u \in woken THEN [thread[u] EXCEPT !.sleeping = FALSE, !.condition = None] ELSE thread[u]]
  BY DEF Wake
<1>2. \A u \in Threads : thread[u] \in PThread
  BY DEF Types
<1>3. ASSUME NEW u \in woken
      PROVE  Woken(thread[u], thread'[u]) /\ thread'[u] \in PThread
  <2>1. u \in Threads
    BY DEF Sleepers
  <2>2. thread'[u] = [thread[u] EXCEPT !.sleeping = FALSE, !.condition = None]
    BY <1>1, <2>1
  <2>3. thread[u] \in PThread
    BY <1>2, <2>1
  <2> QED BY <2>2, <2>3 DEF PThread, Woken
<1>4. ASSUME NEW u \in Threads \ woken
      PROVE  thread'[u] = thread[u]
  BY <1>1
<1>5. thread' \in [Threads -> PThread]
  <2>1. \A u \in Threads : thread'[u] \in PThread
    BY <1>2, <1>3, <1>4
  <2>2. thread' = [u \in Threads |-> thread'[u]]
    BY <1>1
  <2> QED BY <2>1, <2>2
<1>6. counter' \in [Waited -> Int]
  <2>1. IsFiniteSet(woken)
    BY PthreadAssumption, FS_Subset DEF PthreadAssumption, Sleepers
  <2>2. Cardinality(woken) \in Nat
    BY <2>1, FS_CardinalityType
  <2>3. counter' = [counter EXCEPT ![c] = @ - Cardinality(woken)]
    BY DEF Wake
  <2>4. counter \in [Waited -> Int]
    BY DEF Types
  <2> QED BY <2>2, <2>3, <2>4
<1>7. \A u \in Threads : thread'[u].refcnt = thread[u].refcnt
  BY <1>3, <1>4 DEF Woken
<1> QED BY <1>3, <1>4, <1>5, <1>6, <1>7

LEMMA CountWoken ==
  ASSUME Types, Counted, NEW t, NEW c \in Waited, NEW woken \in SUBSET Sleepers(c), Wake(t, c, woken)
  PROVE  Counted'
<1>1. None \notin Waited
  BY PthreadAssumption DEF PthreadAssumption, Waited
<1>2. /\ \A u \in woken : thread'[u].condition = None /\ thread[u].condition = c
      /\ \A u \in Threads \ woken : thread'[u] = thread[u]
      /\ woken \subseteq Threads
  <2>1. woken \subseteq Threads /\ \A u \in woken : thread[u].condition = c
    BY DEF Sleepers
  <2>2. /\ \A u \in woken : Woken(thread[u], thread'[u])
        /\ \A u \in Threads \ woken : thread'[u] = thread[u]
    BY WakeEffect
  <2> QED BY <2>1, <2>2 DEF Woken
<1>3. ASSUME NEW d \in Waited
      PROVE  counter'[d] = Cardinality(Members(d)')
  <2>1. counter[d] = Cardinality(Members(d)) /\ IsFiniteSet(Members(d)) /\ Cardinality(Members(d)) \in Nat
    BY MembersFinite DEF Counted
  <2>2. CASE d = c
    <3>1. Members(d)' = Members(d) \ woken /\ woken \subseteq Members(d)
      BY <1>1, <1>2, <2>2 DEF Members
    <3>2. IsFiniteSet(woken) /\ Cardinality(woken) \in Nat
      BY <2>1, <3>1, FS_Subset, FS_CardinalityType
    <3>3. Members(d) \cap woken = woken
      BY <3>1
    <3>4. Cardinality(Members(d) \ woken) = Cardinality(Members(d)) - Cardinality(Members(d) \cap woken)
      BY <2>1, FS_Difference
    <3>5. counter'[d] = counter[d] - Cardinality(woken)
      BY <2>2 DEF Types, Wake
    <3> QED BY <2>1, <3>1, <3>3, <3>4, <3>5
  <2>3. CASE d # c
    <3>1. Members(d)' = Members(d)
      BY <1>1, <1>2, <2>3 DEF Members
    <3>2. counter'[d] = counter[d]
      BY <2>3 DEF Types, Wake
    <3> QED BY <2>1, <3>1, <3>2
  <2> QED BY <2>2, <2>3
<1> QED BY <1>3 DEF Counted, Waited
-----------------------------------------------------------------------------
(* The end of a thread *)

LEMMA PlacesAre ==
  /\ User \in Places /\ [call |-> "zombie"] \in Places /\ [call |-> "barrier"] \in Places
  /\ \A u \in Threads : [call |-> "join", whom |-> u] \in Places
  /\ \A m \in Mutexes : [call |-> "lock", mutex |-> m] \in Places /\ [call |-> "condition", mutex |-> m] \in Places
  /\ \A p \in Places : /\ p.call = "user" => p = User
                       /\ p.call = "join" => p.whom \in Threads
                       /\ p.call \in {"lock", "condition"} => p.mutex \in Mutexes
BY DEF Places, User

LEMMA DieStep ==
  ASSUME Inv, NEW t \in Threads, Runs(t), Die(thread, t), UNCHANGED <<sync, fault>>
  PROVE  Inv'
<1> USE DEF Inv
<1>1. /\ thread[t].running /\ t \notin killed /\ ~thread[t].sleeping
      /\ thread[t].condition = None /\ thread[t].waiting_mutex = None /\ at[t].call = "user"
  BY UserThread
<1>2. thread \in [Threads -> PThread] /\ killed \subseteq Threads
  BY DEF Types
<1>3. /\ at' = [at EXCEPT ![t] = [call |-> "zombie"]] /\ killed' \subseteq Threads
      /\ thread' \in [Threads -> PThread]
      /\ \A w \in Threads \ {t} : thread'[w] = thread[w]
      /\ Dead(thread[t], thread'[t])
      /\ \/ killed' = killed /\ thread'[t].refcnt = thread[t].refcnt
         \/ killed' = killed \cup {t} /\ thread'[t].refcnt = thread[t].refcnt - 1
  BY <1>2, DieEffect
<1>4. owner' = owner /\ locks' = locks /\ binding' = binding /\ counter' = counter
  BY DEF sync
<1>5. at' \in [Threads -> Places] /\ at'[t].call = "zombie" /\ \A w \in Threads \ {t} : at'[w] = at[w]
  BY <1>3, PlacesAre DEF Types
<1>6. Types'
  BY <1>3, <1>4, <1>5 DEF Types
<1>7. Alive'
  BY <1>1, <1>3, <1>5 DEF Alive, Dead
<1>8. Blocked'
  BY <1>1, <1>3, <1>4, <1>5 DEF Blocked, Dead
<1>9. Counted'
  BY <1>3, <1>4, CountStays DEF Dead
<1>10. RefsSuffice'
  BY <1>1, <1>3, <1>4, <1>6, RefsStay
<1> QED BY <1>6, <1>7, <1>8, <1>9, <1>10

LEMMA FaultStep ==
  ASSUME Inv, NEW t, NEW why, Fault(t, why)
  PROVE  Inv'
BY DEF Inv, Types, Alive, Blocked, Counted, Members, RefsSuffice, Fault, sync

\* A thread that has ended, and not been joined, is killed.
LEMMA KillStep ==
  ASSUME Inv, NEW t \in Threads, NEW u \in Threads \ killed, NEW th \in [Threads -> PThread],
         Kill(th, u), ~thread[u].running,
         \A w \in Threads : th[w] = thread[w] \/ th[w] = [thread[w] EXCEPT !.detached = TRUE],
         at' = at \/ (at' = [at EXCEPT ![t] = User] /\ at[t].call = "join"), UNCHANGED sync
  PROVE  Inv'
<1> USE DEF Inv
<1>1. thread \in [Threads -> PThread] /\ killed \subseteq Threads
  BY DEF Types
<1>2. /\ killed' = killed \cup {u} /\ killed' \subseteq Threads
      /\ thread' \in [Threads -> PThread]
      /\ \A w \in Threads \ {u} : thread'[w] = th[w]
      /\ thread'[u] = [th[u] EXCEPT !.refcnt = @ - 1]
  BY <1>1, KillEffect
<1>3. \A w \in Threads :
        /\ thread'[w].running = thread[w].running /\ thread'[w].cancelled = thread[w].cancelled
        /\ thread'[w].sleeping = thread[w].sleeping /\ thread'[w].condition = thread[w].condition
        /\ thread'[w].waiting_mutex = thread[w].waiting_mutex
        /\ w # u => thread'[w].refcnt = thread[w].refcnt
        /\ w = u => thread'[w].refcnt = thread[w].refcnt - 1
  <2> SUFFICES ASSUME NEW w \in Threads
               PROVE  /\ thread'[w].running = thread[w].running /\ thread'[w].cancelled = thread[w].cancelled
                      /\ thread'[w].sleeping = thread[w].sleeping /\ thread'[w].condition = thread[w].condition
                      /\ thread'[w].waiting_mutex = thread[w].waiting_mutex
                      /\ w # u => thread'[w].refcnt = thread[w].refcnt
                      /\ w = u => thread'[w].refcnt = thread[w].refcnt - 1
    OBVIOUS
  <2>1. thread[w] \in PThread /\ th[w] \in PThread
    BY <1>1
  <2>2. th[w] = thread[w] \/ th[w] = [thread[w] EXCEPT !.detached = TRUE]
    OBVIOUS
  <2>3. /\ th[w].running = thread[w].running /\ th[w].cancelled = thread[w].cancelled
        /\ th[w].sleeping = thread[w].sleeping /\ th[w].condition = thread[w].condition
        /\ th[w].waiting_mutex = thread[w].waiting_mutex /\ th[w].refcnt = thread[w].refcnt
    BY <2>1, <2>2 DEF PThread
  <2>4. CASE w = u
    BY <1>2, <2>1, <2>3, <2>4 DEF PThread
  <2>5. CASE w # u
    BY <1>2, <2>3, <2>5
  <2> QED BY <2>4, <2>5
<1>4. owner' = owner /\ locks' = locks /\ binding' = binding /\ counter' = counter
  BY DEF sync
<1>5. /\ at' \in [Threads -> Places] /\ \A w \in Threads \ {t} : at'[w] = at[w]
      /\ at'[t] = at[t] \/ (at'[t].call = "user" /\ at[t].call = "join")
  BY PlacesAre DEF Types, User
<1>6. Types'
  BY <1>2, <1>4, <1>5 DEF Types
<1>7. Alive'
  <2>1. \A w \in Threads : at'[w] = at[w] \/ (at'[w].call = "user" /\ at[w].call = "join")
    BY <1>5
  <2>2. u \in Threads
    OBVIOUS
  <2> QED BY <1>2, <1>3, <2>1, <2>2 DEF Alive
<1>8. Blocked'
  BY <1>3, <1>4, <1>5 DEF Blocked
<1>9. Counted'
  BY <1>3, <1>4, CountStays
<1>10. RefsSuffice'
  BY <1>2, <1>3, <1>4, <1>6, RefsStay
<1> QED BY <1>6, <1>7, <1>8, <1>9, <1>10
-----------------------------------------------------------------------------
(* Mutexes *)

LEMMA TakeStep ==
  ASSUME Inv, NEW t \in Threads, NEW m \in Mutexes, Take(t, m), owner[m] \in {None, t},
         UNCHANGED <<killed, binding, counter>>,
         at[t].call \in {"user", "condition", "lock"}, ~thread[t].sleeping
  PROVE  Inv'
<1> USE DEF Inv
<1>1. /\ thread \in [Threads -> PThread] /\ thread[t] \in PThread
      /\ thread[t].running /\ thread[t].condition = None
  BY DEF Types, Alive
<1> DEFINE p == [thread[t] EXCEPT !.waiting_mutex = None]
           q == [p EXCEPT !.refcnt = thread[t].refcnt + 1]
<1>2. /\ thread' \in [Threads -> PThread] /\ \A w \in Threads \ {t} : thread'[w] = thread[w]
      /\ thread'[t] = q
  <2>1. thread' = [thread EXCEPT ![t] = q]
    <3>1. thread' = [thread EXCEPT ![t] = [thread[t] EXCEPT !.waiting_mutex = None, !.refcnt = thread[t].refcnt + 1]]
      BY DEF Take
    <3>2. [thread[t] EXCEPT !.waiting_mutex = None, !.refcnt = thread[t].refcnt + 1] = q
      BY <1>1 DEF PThread
    <3> QED BY <3>1, <3>2
  <2>2. p \in PThread
    BY <1>1 DEF PThread
  <2>3. thread[t].refcnt \in Int
    BY <1>1 DEF PThread
  <2>4. thread[t].refcnt + 1 \in Int
    BY <2>3
  <2>5. q \in PThread
    <3> HIDE DEF p
    <3> QED BY <2>2, <2>4 DEF PThread
  <2> QED BY <1>1, <2>1, <2>5
<1>3. /\ thread'[t].running = thread[t].running /\ thread'[t].cancelled = thread[t].cancelled
      /\ thread'[t].sleeping = thread[t].sleeping /\ thread'[t].condition = thread[t].condition
      /\ thread'[t].waiting_mutex = None /\ thread'[t].refcnt = thread[t].refcnt + 1
  <2>1. /\ p.running = thread[t].running /\ p.cancelled = thread[t].cancelled
        /\ p.sleeping = thread[t].sleeping /\ p.condition = thread[t].condition
        /\ p.waiting_mutex = None /\ p \in PThread
    BY <1>1 DEF PThread
  <2> HIDE DEF p
  <2>2. /\ q.running = p.running /\ q.cancelled = p.cancelled /\ q.sleeping = p.sleeping
        /\ q.condition = p.condition /\ q.waiting_mutex = p.waiting_mutex
        /\ q.refcnt = thread[t].refcnt + 1
    BY <2>1 DEF PThread
  <2> HIDE DEF q
  <2> QED BY <1>2, <2>1, <2>2
<1> HIDE DEF p, q
<1>4. killed' = killed /\ binding' = binding /\ counter' = counter
  OBVIOUS
<1>5. /\ owner' \in [Mutexes -> Threads \cup {None}] /\ owner'[m] = t
      /\ \A l \in Mutexes \ {m} : owner'[l] = owner[l]
      /\ locks' \in [Mutexes -> Int]
  BY DEF Take, Types
<1>6. at' \in [Threads -> Places] /\ at'[t].call = "user" /\ \A w \in Threads \ {t} : at'[w] = at[w]
  BY PlacesAre DEF Take, Types, User
<1>7. Types'
  BY <1>2, <1>4, <1>5, <1>6 DEF Types
<1>8. Alive'
  <2>1. ASSUME NEW w \in Threads
        PROVE  /\ thread'[w].running <=> at'[w].call # "zombie"
               /\ w \in killed => ~thread'[w].running
               /\ thread'[w].running => (thread'[w].sleeping <=> thread'[w].condition # None)
               /\ thread'[w].sleeping => at'[w].call \in {"condition", "barrier"}
               /\ ~thread'[w].running /\ thread'[w].condition # None => thread'[w].cancelled
    <3>1. CASE w = t
      BY <1>1, <1>3, <1>6, <3>1 DEF Alive
    <3>2. CASE w # t
      BY <1>2, <1>6, <3>2 DEF Alive
    <3> QED BY <3>1, <3>2
  <2> QED BY <1>4, <2>1 DEF Alive
<1>9. Blocked'
  <2>1. ASSUME NEW w \in Threads
        PROVE  /\ thread'[w].waiting_mutex # None <=> at'[w].call = "lock"
               /\ at'[w].call = "lock" => at'[w].mutex = thread'[w].waiting_mutex /\ owner'[at'[w].mutex] # w
    <3>1. CASE w = t
      BY <1>3, <1>6, <3>1
    <3>2. CASE w # t
      <4>1. /\ thread'[w] = thread[w] /\ at'[w] = at[w]
            /\ at[w].call = "lock" => at[w].mutex \in Mutexes
        BY <1>2, <1>6, <3>2, PlacesAre DEF Types
      <4> QED BY <1>5, <3>2, <4>1 DEF Blocked
    <3> QED BY <3>1, <3>2
  <2> QED BY <2>1 DEF Blocked
<1>10. Counted'
  BY <1>2, <1>3, <1>4, CountStays
<1>11. RefsSuffice'
  <2>1. ASSUME NEW w \in Threads
        PROVE  Spare(w)' >= Cardinality(Owned(w)')
    <3>1. Spare(w) >= Cardinality(Owned(w)) /\ Spare(w) \in Int /\ thread[w].refcnt \in Int
      BY RefsAre, SpareInt
    <3>2. IsFiniteSet(Owned(w)) /\ Cardinality(Owned(w)) \in Nat
      BY OwnedFinite
    <3>3. CASE w = t
      <4>1. Owned(w)' = Owned(w) \cup {m}
        BY <1>5, <3>3 DEF Owned
      <4>2. Cardinality(Owned(w) \cup {m}) <= Cardinality(Owned(w)) + 1
        <5>1. Cardinality(Owned(w) \cup {m}) = IF m \in Owned(w) THEN Cardinality(Owned(w)) ELSE Cardinality(Owned(w)) + 1
          BY <3>2, FS_AddElement
        <5> QED BY <3>2, <5>1
      <4>3. Spare(w)' = Spare(w) + 1
        BY <1>3, <1>4, <3>1, <3>3 DEF Spare
      <4>4. Cardinality(Owned(w) \cup {m}) \in Nat
        BY <3>2, FS_AddElement, FS_CardinalityType
      <4> QED BY <3>1, <3>2, <4>1, <4>2, <4>3, <4>4
    <3>4. CASE w # t
      <4>1. Owned(w)' = Owned(w)
        <5>1. w # None
          BY PthreadAssumption DEF PthreadAssumption
        <5> QED BY <1>5, <3>4, <5>1 DEF Owned
      <4>2. Spare(w)' = Spare(w)
        BY <1>2, <1>4, <3>4 DEF Spare
      <4> QED BY <3>1, <4>1, <4>2
    <3> QED BY <3>3, <3>4
  <2> QED BY <1>7, <2>1, RefsFollow
<1> QED BY <1>7, <1>8, <1>9, <1>10, <1>11

LEMMA MutexLockStep ==
  ASSUME Inv, NEW t \in Threads, NEW m \in Mutexes, MutexLock(t, m),
         at[t].call \in {"user", "condition"}, ~thread[t].sleeping
  PROVE  Inv'
<1>1. CASE \E why \in {"memory", "double lock"} : Fault(t, why)
  BY <1>1, FaultStep
<1>2. CASE /\ owner[m] \in {None, t} /\ Take(t, m) /\ UNCHANGED <<killed, binding, counter, fault>>
  BY <1>2, TakeStep
<1>3. CASE /\ ~CanLock(t, m)
           /\ thread' = [thread EXCEPT ![t].waiting_mutex = m]
           /\ at' = [at EXCEPT ![t] = [call |-> "lock", mutex |-> m]]
           /\ UNCHANGED <<killed, sync, fault>>
  <2> USE DEF Inv
  <2>1. thread \in [Threads -> PThread] /\ thread[t] \in PThread /\ thread[t].running
    BY DEF Types, Alive
  <2>2. /\ thread' \in [Threads -> PThread] /\ \A w \in Threads \ {t} : thread'[w] = thread[w]
        /\ thread'[t] = [thread[t] EXCEPT !.waiting_mutex = m]
    BY <1>3, <2>1 DEF PThread
  <2>3. /\ thread'[t].running = thread[t].running /\ thread'[t].cancelled = thread[t].cancelled
        /\ thread'[t].sleeping = thread[t].sleeping /\ thread'[t].condition = thread[t].condition
        /\ thread'[t].waiting_mutex = m /\ thread'[t].refcnt = thread[t].refcnt
    BY <2>1, <2>2 DEF PThread
  <2>4. /\ killed' = killed /\ owner' = owner /\ locks' = locks /\ binding' = binding /\ counter' = counter
    BY <1>3 DEF sync
  <2>5. /\ at' \in [Threads -> Places] /\ at'[t].call = "lock" /\ at'[t].mutex = m
        /\ \A w \in Threads \ {t} : at'[w] = at[w]
    BY <1>3, PlacesAre DEF Types
  <2>6. m # None /\ owner[m] # t
    BY <1>3, PthreadAssumption DEF PthreadAssumption, CanLock
  <2>7. Types'
    BY <2>2, <2>4, <2>5 DEF Types
  <2>8. Alive'
    <3>1. ASSUME NEW w \in Threads
          PROVE  /\ thread'[w].running <=> at'[w].call # "zombie"
                 /\ w \in killed => ~thread'[w].running
                 /\ thread'[w].running => (thread'[w].sleeping <=> thread'[w].condition # None)
                 /\ thread'[w].sleeping => at'[w].call \in {"condition", "barrier"}
                 /\ ~thread'[w].running /\ thread'[w].condition # None => thread'[w].cancelled
      <4>1. CASE w = t
        BY <2>1, <2>3, <2>5, <4>1 DEF Alive
      <4>2. CASE w # t
        BY <2>2, <2>5, <4>2 DEF Alive
      <4> QED BY <4>1, <4>2
    <3> QED BY <2>4, <3>1 DEF Alive
  <2>9. Blocked'
    <3>1. ASSUME NEW w \in Threads
          PROVE  /\ thread'[w].waiting_mutex # None <=> at'[w].call = "lock"
                 /\ at'[w].call = "lock" => at'[w].mutex = thread'[w].waiting_mutex /\ owner[at'[w].mutex] # w
      <4>1. CASE w = t
        BY <2>3, <2>5, <2>6, <4>1
      <4>2. CASE w # t
        BY <2>2, <2>5, <4>2 DEF Blocked
      <4> QED BY <4>1, <4>2
    <3> QED BY <2>4, <3>1 DEF Blocked
  <2>10. Counted'
    BY <2>2, <2>3, <2>4, CountStays
  <2>11. RefsSuffice'
    BY <2>2, <2>3, <2>4, <2>7, RefsSame
  <2> QED BY <2>7, <2>8, <2>9, <2>10, <2>11
<1> QED BY <1>1, <1>2, <1>3 DEF MutexLock

\* The references and the owners after an unlock, whatever becomes of the thread then.
LEMMA UnlockRefs ==
  ASSUME Types, Types', RefsSuffice, NEW t \in Threads, NEW m \in Mutexes, owner[m] = t, Unlocks(m),
         \A w \in Threads \ {t} : thread'[w].refcnt = thread[w].refcnt /\ (w \in killed <=> w \in killed'),
         LET r == IF locks[m] = 1 THEN thread[t].refcnt - 1 ELSE thread[t].refcnt
         IN  \/ thread'[t].refcnt = r /\ (t \in killed <=> t \in killed')
             \/ thread'[t].refcnt = r - 1 /\ t \notin killed /\ t \in killed'
  PROVE  RefsSuffice'
<1>1. /\ owner'[m] = IF locks[m] = 1 THEN None ELSE t
      /\ \A l \in Mutexes \ {m} : owner'[l] = owner[l]
  BY DEF Unlocks, Types
<1>2. None \notin Threads
  BY PthreadAssumption DEF PthreadAssumption
<1>3. ASSUME NEW w \in Threads
      PROVE  Spare(w)' >= Cardinality(Owned(w)')
  <2>1. Spare(w) >= Cardinality(Owned(w)) /\ Spare(w) \in Int /\ thread[w].refcnt \in Int
    BY RefsAre, SpareInt
  <2>2. IsFiniteSet(Owned(w)) /\ Cardinality(Owned(w)) \in Nat
    BY OwnedFinite
  <2>3. CASE w = t /\ locks[m] = 1
    <3>1. Owned(w)' = Owned(w) \ {m} /\ m \in Owned(w)
      BY <1>1, <1>2, <2>3 DEF Owned
    <3>2. Cardinality(Owned(w) \ {m}) = Cardinality(Owned(w)) - 1
      BY <2>2, <3>1, FS_RemoveElement
    <3>3. Spare(w)' = Spare(w) - 1
      BY <2>1, <2>3 DEF Spare
    <3> QED BY <2>1, <2>2, <3>1, <3>2, <3>3
  <2>4. CASE w = t /\ locks[m] # 1
    <3>1. Owned(w)' = Owned(w)
      BY <1>1, <2>4 DEF Owned
    <3>2. Spare(w)' = Spare(w)
      BY <2>1, <2>4 DEF Spare
    <3> QED BY <2>1, <3>1, <3>2
  <2>5. CASE w # t
    <3>1. Owned(w)' = Owned(w)
      BY <1>1, <1>2, <2>5 DEF Owned
    <3>2. Spare(w)' = Spare(w)
      BY <2>5 DEF Spare
    <3> QED BY <2>1, <3>1, <3>2
  <2> QED BY <2>3, <2>4, <2>5
<1> QED BY <1>3, RefsFollow

LEMMA UnlocksEffect ==
  ASSUME Types, NEW m \in Mutexes, Unlocks(m)
  PROVE  /\ owner' \in [Mutexes -> Threads \cup {None}] /\ locks' \in [Mutexes -> Int]
         /\ \A l \in Mutexes : owner'[l] \in {owner[l], None}
BY DEF Unlocks, Types

LEMMA ReleasedEffect ==
  ASSUME Types, NEW t \in Threads, NEW m \in Mutexes
  PROVE  /\ Released(t, m) \in [Threads -> PThread]
         /\ \A w \in Threads \ {t} : Released(t, m)[w] = thread[w]
         /\ LET q == Released(t, m)[t]
            IN  /\ q.running = thread[t].running /\ q.detached = thread[t].detached
                /\ q.cancelled = thread[t].cancelled /\ q.sleeping = thread[t].sleeping
                /\ q.condition = thread[t].condition /\ q.waiting_mutex = thread[t].waiting_mutex
                /\ q.refcnt = IF locks[m] = 1 THEN thread[t].refcnt - 1 ELSE thread[t].refcnt
<1> DEFINE th == Released(t, m)
<1>1. thread \in [Threads -> PThread] /\ thread[t] \in PThread
  BY DEF Types
<1>2. th = [thread EXCEPT ![t] = [thread[t] EXCEPT !.refcnt = IF locks[m] = 1 THEN @ - 1 ELSE @]]
  BY DEF Released
<1>3. [thread[t] EXCEPT !.refcnt = IF locks[m] = 1 THEN @ - 1 ELSE @] \in PThread
  BY <1>1 DEF PThread
<1> HIDE DEF th
<1>4. /\ th \in [Threads -> PThread] /\ \A w \in Threads \ {t} : th[w] = thread[w]
      /\ th[t] = [thread[t] EXCEPT !.refcnt = IF locks[m] = 1 THEN @ - 1 ELSE @]
  BY <1>1, <1>2, <1>3
<1>5. /\ th[t].running = thread[t].running /\ th[t].detached = thread[t].detached
      /\ th[t].cancelled = thread[t].cancelled /\ th[t].sleeping = thread[t].sleeping
      /\ th[t].condition = thread[t].condition /\ th[t].waiting_mutex = thread[t].waiting_mutex
      /\ th[t].refcnt = IF locks[m] = 1 THEN thread[t].refcnt - 1 ELSE thread[t].refcnt
  BY <1>1, <1>4 DEF PThread
<1> QED BY <1>4, <1>5 DEF th

LEMMA UnlockStep ==
  ASSUME Inv, NEW t \in Threads, NEW m \in Mutexes, owner[m] = t,
         thread' = Released(t, m), Unlocks(m), UNCHANGED <<killed, at, binding, counter>>
  PROVE  Inv'
<1> USE DEF Inv
<1> DEFINE th == Released(t, m)
<1>1. /\ th \in [Threads -> PThread] /\ \A w \in Threads \ {t} : th[w] = thread[w]
      /\ th[t].running = thread[t].running /\ th[t].detached = thread[t].detached
      /\ th[t].cancelled = thread[t].cancelled /\ th[t].sleeping = thread[t].sleeping
      /\ th[t].condition = thread[t].condition /\ th[t].waiting_mutex = thread[t].waiting_mutex
      /\ th[t].refcnt = IF locks[m] = 1 THEN thread[t].refcnt - 1 ELSE thread[t].refcnt
  BY ReleasedEffect
<1>2. thread' = th
  OBVIOUS
<1> HIDE DEF th
<1>3. /\ owner' \in [Mutexes -> Threads \cup {None}] /\ locks' \in [Mutexes -> Int]
      /\ \A l \in Mutexes : owner'[l] \in {owner[l], None}
  BY UnlocksEffect
<1>4. Types'
  BY <1>1, <1>2, <1>3 DEF Types
<1>5. Alive'
  BY <1>1, <1>2 DEF Alive
<1>6. Blocked'
  <2>1. \A w \in Threads : thread'[w].waiting_mutex = thread[w].waiting_mutex
    BY <1>1, <1>2
  <2>2. \A w \in Threads : at[w].call = "lock" => at[w].mutex \in Mutexes
    BY PlacesAre DEF Types
  <2>3. None \notin Threads
    BY PthreadAssumption DEF PthreadAssumption
  <2> QED BY <1>3, <2>1, <2>2, <2>3 DEF Blocked
<1>7. Counted'
  BY <1>1, <1>2, CountStays
<1>8. RefsSuffice'
  <2>1. \A w \in Threads \ {t} : thread'[w].refcnt = thread[w].refcnt /\ (w \in killed <=> w \in killed')
    BY <1>1, <1>2
  <2>2. /\ thread'[t].refcnt = IF locks[m] = 1 THEN thread[t].refcnt - 1 ELSE thread[t].refcnt
        /\ (t \in killed <=> t \in killed')
    BY <1>1, <1>2
  <2> QED BY <1>4, <2>1, <2>2, UnlockRefs
<1> QED BY <1>4, <1>5, <1>6, <1>7, <1>8
-----------------------------------------------------------------------------
(* Condition variables and barriers *)

\* The thread is in the counter, and sleeps, or has ended.
LEMMA FallAsleepEffect ==
  ASSUME Inv, NEW t \in Threads, Runs(t), NEW c \in Waited, NEW place \in Places,
         place.call \in {"condition", "barrier"}, NEW th \in [Threads -> PThread],
         \A w \in Threads \ {t} : th[w] = thread[w],
         Dead([thread[t] EXCEPT !.running = FALSE], [th[t] EXCEPT !.running = FALSE]), th[t].running,
         FallAsleep(th, t, c, place),
         owner' \in [Mutexes -> Threads \cup {None}], \A l \in Mutexes : owner'[l] \in {owner[l], None},
         locks' \in [Mutexes -> Int], binding' \in [Conds -> Mutexes \cup {None}]
  PROVE  /\ Types' /\ Alive' /\ Blocked' /\ Counted'
         /\ \A w \in Threads \ {t} : thread'[w].refcnt = thread[w].refcnt /\ (w \in killed <=> w \in killed')
         /\ \/ thread'[t].refcnt = th[t].refcnt /\ (t \in killed <=> t \in killed')
            \/ thread'[t].refcnt = th[t].refcnt - 1 /\ t \notin killed /\ t \in killed'
<1> USE DEF Inv
<1> DEFINE counted == [th EXCEPT ![t].condition = c]
<1>1. /\ thread[t].running /\ t \notin killed /\ ~thread[t].sleeping
      /\ thread[t].condition = None /\ thread[t].waiting_mutex = None /\ at[t].call = "user"
  BY UserThread
<1>2. /\ thread \in [Threads -> PThread] /\ killed \subseteq Threads /\ at \in [Threads -> Places]
      /\ counter \in [Waited -> Int] /\ None \notin Waited
  BY PthreadAssumption DEF Types, PthreadAssumption, Waited
<1>3. /\ th[t].detached = thread[t].detached /\ th[t].cancelled = thread[t].cancelled
      /\ th[t].sleeping = thread[t].sleeping /\ th[t].condition = thread[t].condition
      /\ th[t].waiting_mutex = thread[t].waiting_mutex
  <2>1. thread[t] \in PThread /\ th[t] \in PThread
    BY <1>2
  <2> QED BY <2>1 DEF Dead, PThread
<1>4. /\ counted \in [Threads -> PThread] /\ \A w \in Threads \ {t} : counted[w] = thread[w]
      /\ counted[t] = [th[t] EXCEPT !.condition = c]
  <2>1. [th[t] EXCEPT !.condition = c] \in PThread
    BY DEF PThread
  <2> QED BY <2>1
<1>5. /\ counter' = [counter EXCEPT ![c] = @ + 1]
      /\ IF th[t].cancelled THEN Die(counted, t)
         ELSE /\ thread' = [counted EXCEPT ![t].sleeping = TRUE]
              /\ at' = [at EXCEPT ![t] = place]
              /\ UNCHANGED killed
  BY DEF FallAsleep
<1> HIDE DEF counted
<1>6. /\ counted[t].running /\ counted[t].cancelled = thread[t].cancelled /\ ~counted[t].sleeping
      /\ counted[t].condition = c /\ counted[t].waiting_mutex = None /\ counted[t].refcnt = th[t].refcnt
  <2>1. th[t] \in PThread
    OBVIOUS
  <2> QED BY <1>1, <1>3, <1>4, <2>1 DEF PThread
\* What the thread is afterwards.
<1>7. /\ thread' \in [Threads -> PThread] /\ killed' \subseteq Threads /\ at' \in [Threads -> Places]
      /\ \A w \in Threads \ {t} : thread'[w] = thread[w] /\ at'[w] = at[w] /\ (w \in killed <=> w \in killed')
      /\ thread'[t].condition = c /\ thread'[t].waiting_mutex = None /\ at'[t].call # "lock"
      /\ \/ /\ thread'[t].running /\ thread'[t].sleeping /\ t \notin killed'
            /\ at'[t].call \in {"condition", "barrier"} /\ thread'[t].refcnt = th[t].refcnt
         \/ /\ ~thread'[t].running /\ ~thread'[t].sleeping /\ thread'[t].cancelled /\ at'[t].call = "zombie"
            /\ \/ thread'[t].refcnt = th[t].refcnt /\ t \notin killed'
               \/ thread'[t].refcnt = th[t].refcnt - 1 /\ t \in killed'
  <2>1. CASE th[t].cancelled
    <3>1. Die(counted, t)
      BY <1>5, <2>1
    <3>2. /\ at' = [at EXCEPT ![t] = [call |-> "zombie"]] /\ killed' \subseteq Threads
          /\ thread' \in [Threads -> PThread]
          /\ \A w \in Threads \ {t} : thread'[w] = counted[w]
          /\ Dead(counted[t], thread'[t])
          /\ \/ killed' = killed /\ thread'[t].refcnt = counted[t].refcnt
             \/ killed' = killed \cup {t} /\ thread'[t].refcnt = counted[t].refcnt - 1
      BY <1>2, <1>4, <3>1, DieEffect
    <3>3. at' \in [Threads -> Places] /\ at'[t].call = "zombie" /\ \A w \in Threads \ {t} : at'[w] = at[w]
      BY <1>2, <3>2, PlacesAre
    <3>4. /\ ~thread'[t].running /\ ~thread'[t].sleeping /\ thread'[t].cancelled
          /\ thread'[t].condition = c /\ thread'[t].waiting_mutex = None
      BY <1>3, <1>6, <2>1, <3>2 DEF Dead
    <3>5. \/ thread'[t].refcnt = th[t].refcnt /\ t \notin killed'
          \/ thread'[t].refcnt = th[t].refcnt - 1 /\ t \in killed'
      BY <1>1, <1>6, <3>2
    <3>6. \A w \in Threads \ {t} : thread'[w] = thread[w] /\ at'[w] = at[w] /\ (w \in killed <=> w \in killed')
      BY <1>4, <3>2, <3>3
    <3> QED BY <3>2, <3>3, <3>4, <3>5, <3>6
  <2>2. CASE ~th[t].cancelled
    <3>1. /\ thread' = [counted EXCEPT ![t] = [counted[t] EXCEPT !.sleeping = TRUE]]
          /\ at' = [at EXCEPT ![t] = place] /\ killed' = killed
      BY <1>5, <2>2
    <3>2. [counted[t] EXCEPT !.sleeping = TRUE] \in PThread
      <4>1. counted[t] \in PThread
        BY <1>4
      <4> HIDE DEF counted
      <4> QED BY <4>1 DEF PThread
    <3>3. /\ thread' \in [Threads -> PThread] /\ thread'[t] = [counted[t] EXCEPT !.sleeping = TRUE]
          /\ \A w \in Threads \ {t} : thread'[w] = thread[w]
      BY <1>4, <3>1, <3>2
    <3>4. /\ thread'[t].running /\ thread'[t].sleeping /\ thread'[t].condition = c
          /\ thread'[t].waiting_mutex = None /\ thread'[t].refcnt = th[t].refcnt
      <4>1. counted[t] \in PThread
        BY <1>4
      <4> QED BY <1>6, <3>3, <4>1 DEF PThread
    <3>5. at' \in [Threads -> Places] /\ at'[t] = place /\ \A w \in Threads \ {t} : at'[w] = at[w]
      BY <1>2, <3>1
    <3> QED BY <1>1, <1>2, <3>1, <3>3, <3>4, <3>5
  <2> QED BY <2>1, <2>2
<1>8. Types'
  <2>1. counter' \in [Waited -> Int]
    BY <1>2, <1>5
  <2> QED BY <1>7, <2>1 DEF Types
<1>9. Alive'
  <2>1. ASSUME NEW w \in Threads
        PROVE  /\ thread'[w].running <=> at'[w].call # "zombie"
               /\ w \in killed' => ~thread'[w].running
               /\ thread'[w].running => (thread'[w].sleeping <=> thread'[w].condition # None)
               /\ thread'[w].sleeping => at'[w].call \in {"condition", "barrier"}
               /\ ~thread'[w].running /\ thread'[w].condition # None => thread'[w].cancelled
    <3>1. CASE w = t
      BY <1>2, <1>7, <3>1
    <3>2. CASE w # t
      BY <1>7, <3>2 DEF Alive
    <3> QED BY <3>1, <3>2
  <2> QED BY <2>1 DEF Alive
<1>10. Blocked'
  <2>1. None \notin Threads /\ \A w \in Threads : at[w].call = "lock" => at[w].mutex \in Mutexes
    BY PthreadAssumption, PlacesAre DEF PthreadAssumption, Types
  <2>2. ASSUME NEW w \in Threads
        PROVE  /\ thread'[w].waiting_mutex # None <=> at'[w].call = "lock"
               /\ at'[w].call = "lock" => at'[w].mutex = thread'[w].waiting_mutex /\ owner'[at'[w].mutex] # w
    <3>1. CASE w = t
      BY <1>7, <3>1
    <3>2. CASE w # t
      <4>1. thread'[w] = thread[w] /\ at'[w] = at[w]
        BY <1>7, <3>2
      <4> QED BY <2>1, <4>1 DEF Blocked
    <3> QED BY <3>1, <3>2
  <2> QED BY <2>2 DEF Blocked
<1>11. Counted'
  BY <1>1, <1>5, <1>7, CountEnters
<1> QED BY <1>1, <1>7, <1>8, <1>9, <1>10, <1>11

LEMMA WakeStep ==
  ASSUME Inv, NEW t \in Threads, NEW c \in Waited, NEW woken \in SUBSET Sleepers(c), Wake(t, c, woken),
         UNCHANGED <<killed, at, owner, locks>>, binding' \in [Conds -> Mutexes \cup {None}]
  PROVE  Inv'
<1> USE DEF Inv
<1>1. /\ thread' \in [Threads -> PThread] /\ counter' \in [Waited -> Int]
      /\ \A u \in woken : Woken(thread[u], thread'[u])
      /\ \A u \in Threads \ woken : thread'[u] = thread[u]
      /\ \A u \in Threads : thread'[u].refcnt = thread[u].refcnt
  BY WakeEffect
<1>2. Types'
  BY <1>1 DEF Types
<1>3. Alive'
  BY <1>1 DEF Alive, Woken
<1>4. Blocked'
  BY <1>1 DEF Blocked, Woken
<1>5. Counted'
  BY CountWoken
<1>6. RefsSuffice'
  BY <1>1, <1>2, RefsSame
<1> QED BY <1>2, <1>3, <1>4, <1>5, <1>6

LEMMA CondWaitStep ==
  ASSUME Inv, NEW t \in Threads, NEW c \in Conds, NEW m \in Mutexes, CondWait(t, c, m)
  PROVE  Inv'
<1>1. CASE Fault(t, "binding")
  BY <1>1, FaultStep
<1>2. CASE /\ binding' = [binding EXCEPT ![c] = m]
           /\ Unlocks(m)
           /\ FallAsleep(Released(t, m), t, c, [call |-> "condition", mutex |-> m])
  <2> USE DEF Inv
  <2> DEFINE th == Released(t, m)
             place == [call |-> "condition", mutex |-> m]
  <2>1. /\ th \in [Threads -> PThread] /\ \A w \in Threads \ {t} : th[w] = thread[w]
        /\ th[t].running = thread[t].running /\ th[t].detached = thread[t].detached
        /\ th[t].cancelled = thread[t].cancelled /\ th[t].sleeping = thread[t].sleeping
        /\ th[t].condition = thread[t].condition /\ th[t].waiting_mutex = thread[t].waiting_mutex
        /\ th[t].refcnt = IF locks[m] = 1 THEN thread[t].refcnt - 1 ELSE thread[t].refcnt
    BY ReleasedEffect
  <2>2. /\ owner' \in [Mutexes -> Threads \cup {None}] /\ locks' \in [Mutexes -> Int]
        /\ \A l \in Mutexes : owner'[l] \in {owner[l], None}
    BY <1>2, UnlocksEffect
  <2>3. binding' \in [Conds -> Mutexes \cup {None}]
    BY <1>2 DEF Types
  <2>4. place \in Places /\ place.call \in {"condition", "barrier"} /\ c \in Waited
    BY PlacesAre DEF Waited
  <2>5. Runs(t) /\ owner[m] = t /\ thread[t].running
    BY UserThread DEF CondWait
  <2>6. FallAsleep(th, t, c, place)
    BY <1>2
  <2> HIDE DEF th, place
  <2>7. Dead([thread[t] EXCEPT !.running = FALSE], [th[t] EXCEPT !.running = FALSE])
    <3>1. thread[t] \in PThread /\ th[t] \in PThread
      BY <2>1 DEF Types
    <3> QED BY <2>1, <3>1 DEF Dead, PThread
  <2>8. /\ Types' /\ Alive' /\ Blocked' /\ Counted'
        /\ \A w \in Threads \ {t} : thread'[w].refcnt = thread[w].refcnt /\ (w \in killed <=> w \in killed')
        /\ \/ thread'[t].refcnt = th[t].refcnt /\ (t \in killed <=> t \in killed')
           \/ thread'[t].refcnt = th[t].refcnt - 1 /\ t \notin killed /\ t \in killed'
    <3>1. th[t].running /\ Runs(t)
      BY <2>1, <2>5
    <3>2. /\ th \in [Threads -> PThread] /\ \A w \in Threads \ {t} : th[w] = thread[w]
      BY <2>1
    <3> HIDE DEF Inv
    <3> QED BY <2>2, <2>3, <2>4, <2>6, <2>7, <3>1, <3>2, FallAsleepEffect
  <2>9. RefsSuffice'
    BY <1>2, <2>1, <2>5, <2>8, UnlockRefs
  <2> QED BY <2>8, <2>9
<1> QED BY <1>1, <1>2 DEF CondWait

LEMMA BarrierWaitStep ==
  ASSUME Inv, NEW t \in Threads, NEW b \in Barriers, BarrierWait(t, b)
  PROVE  Inv'
<1>1. CASE Fault(t, "assertion")
  BY <1>1, FaultStep
<1>2. CASE Wake(t, b, Sleepers(b)) /\ UNCHANGED <<killed, at, owner, locks, binding, fault>>
  <2>1. b \in Waited /\ binding' \in [Conds -> Mutexes \cup {None}]
    BY <1>2 DEF Waited, Inv, Types
  <2> QED BY <1>2, <2>1, WakeStep
<1>3. CASE FallAsleep(thread, t, b, [call |-> "barrier"]) /\ UNCHANGED <<owner, locks, binding, fault>>
  <2> USE DEF Inv
  <2> DEFINE place == [call |-> "barrier"]
  <2>1. thread \in [Threads -> PThread] /\ thread[t] \in PThread
    BY DEF Types
  <2>2. /\ owner' \in [Mutexes -> Threads \cup {None}] /\ locks' \in [Mutexes -> Int]
        /\ \A l \in Mutexes : owner'[l] \in {owner[l], None}
        /\ binding' \in [Conds -> Mutexes \cup {None}] /\ owner' = owner
    BY <1>3 DEF Types
  <2>3. place \in Places /\ place.call \in {"condition", "barrier"} /\ b \in Waited
    BY PlacesAre DEF Waited
  <2>4. Runs(t) /\ thread[t].running
    BY UserThread DEF BarrierWait
  <2>5. FallAsleep(thread, t, b, place)
    BY <1>3
  <2> HIDE DEF place
  <2>6. Dead([thread[t] EXCEPT !.running = FALSE], [thread[t] EXCEPT !.running = FALSE])
    BY <2>1 DEF Dead, PThread
  <2>7. /\ Types' /\ Alive' /\ Blocked' /\ Counted'
        /\ \A w \in Threads \ {t} : thread'[w].refcnt = thread[w].refcnt /\ (w \in killed <=> w \in killed')
        /\ \/ thread'[t].refcnt = thread[t].refcnt /\ (t \in killed <=> t \in killed')
           \/ thread'[t].refcnt = thread[t].refcnt - 1 /\ t \notin killed /\ t \in killed'
    BY <2>1, <2>2, <2>3, <2>4, <2>5, <2>6, FallAsleepEffect
  <2>8. RefsSuffice'
    BY <2>2, <2>7, RefsStay
  <2> QED BY <2>7, <2>8
<1> QED BY <1>1, <1>2, <1>3 DEF BarrierWait
-----------------------------------------------------------------------------
(* The inductive invariant *)

LEMMA InitInv == Init => Inv
<1> SUFFICES ASSUME Init PROVE Inv
  OBVIOUS
<1>1. Types
  BY PlacesAre DEF Init, Types, PThread, Waited
<1>2. Alive /\ Blocked
  BY DEF Init, Alive, Blocked, User
<1>3. Counted
  <2>1. ASSUME NEW c \in Waited
        PROVE  Members(c) = {}
    BY PthreadAssumption DEF Init, Members, PthreadAssumption, Waited
  <2>2. \A c \in Waited : counter[c] = 0
    BY DEF Init, Waited
  <2>3. Cardinality({}) = 0
    BY FS_EmptySet
  <2> QED BY <2>1, <2>2, <2>3 DEF Counted
<1>4. RefsSuffice
  <2>1. ASSUME NEW t \in Threads
        PROVE  {m \in Mutexes : owner[m] = t} = {} /\ thread[t].refcnt = 1 /\ t \notin killed
    BY PthreadAssumption DEF Init, PthreadAssumption
  <2>2. Cardinality({}) = 0
    BY FS_EmptySet
  <2>3. ASSUME NEW t \in Threads
        PROVE  thread[t].refcnt >= Cardinality({m \in Mutexes : owner[m] = t})
                                     + (IF t \in killed THEN 0 ELSE 1)
    <3> DEFINE X == {m \in Mutexes : owner[m] = t}
    <3>1. Cardinality(X) = 0 /\ thread[t].refcnt = 1 /\ t \notin killed
      BY <2>1, <2>2
    <3> HIDE DEF X
    <3>2. thread[t].refcnt >= Cardinality(X) + (IF t \in killed THEN 0 ELSE 1)
      BY <3>1
    <3> QED BY <3>2 DEF X
  <2> QED BY <2>3 DEF RefsSuffice
<1> QED BY <1>1, <1>2, <1>3, <1>4 DEF Inv

\* A step that only marks a thread as cancelled or detached.
LEMMA MarkStep ==
  ASSUME Inv, NEW u \in Threads,
         thread' = [thread EXCEPT ![u].cancelled = TRUE] \/ thread' = [thread EXCEPT ![u].detached = TRUE],
         UNCHANGED <<killed, at, sync>>
  PROVE  Inv'
<1> USE DEF Inv
<1>1. thread \in [Threads -> PThread] /\ thread[u] \in PThread
  BY DEF Types
<1>2. /\ \A w \in Threads \ {u} : thread'[w] = thread[w]
      /\ thread'[u] = [thread[u] EXCEPT !.cancelled = TRUE] \/ thread'[u] = [thread[u] EXCEPT !.detached = TRUE]
      /\ thread' \in [Threads -> PThread]
  BY <1>1 DEF PThread
<1>3. /\ thread'[u].running = thread[u].running /\ thread'[u].sleeping = thread[u].sleeping
      /\ thread'[u].condition = thread[u].condition /\ thread'[u].waiting_mutex = thread[u].waiting_mutex
      /\ thread'[u].refcnt = thread[u].refcnt /\ (thread[u].cancelled => thread'[u].cancelled)
  BY <1>1, <1>2 DEF PThread
<1>4. /\ killed' = killed /\ at' = at /\ owner' = owner /\ locks' = locks
      /\ binding' = binding /\ counter' = counter
  BY DEF sync
<1>5. Types'
  BY <1>2, <1>4 DEF Types
<1>6. Alive'
  BY <1>2, <1>3, <1>4 DEF Alive
<1>7. Blocked'
  BY <1>2, <1>3, <1>4 DEF Blocked
<1>8. Counted'
  BY <1>2, <1>3, <1>4, CountStays
<1>9. RefsSuffice'
  BY <1>2, <1>3, <1>4, <1>5, RefsSame
<1> QED BY <1>5, <1>6, <1>7, <1>8, <1>9

\* A thread goes to, or comes back from, a place where it waits for no mutex.
LEMMA MoveStep ==
  ASSUME Inv, NEW t \in Threads, NEW place \in Places, at' = [at EXCEPT ![t] = place],
         place.call \in {"user", "join"}, at[t].call \in {"user", "join", "barrier"}, ~thread[t].sleeping,
         UNCHANGED <<thread, killed, sync>>
  PROVE  Inv'
<1> USE DEF Inv
<1>1. /\ thread' = thread /\ killed' = killed /\ owner' = owner /\ locks' = locks
      /\ binding' = binding /\ counter' = counter
  BY DEF sync
<1>2. at' \in [Threads -> Places] /\ at'[t] = place /\ \A w \in Threads \ {t} : at'[w] = at[w]
  BY DEF Types
<1>3. Types'
  BY <1>1, <1>2 DEF Types
<1>4. Alive'
  BY <1>1, <1>2 DEF Alive
<1>5. Blocked'
  BY <1>1, <1>2 DEF Blocked
<1>6. Counted'
  BY <1>1, CountStays
<1>7. RefsSuffice'
  BY <1>1, <1>3, RefsSame
<1> QED BY <1>3, <1>4, <1>5, <1>6, <1>7

LEMMA DetachStep ==
  ASSUME Inv, NEW t \in Threads, NEW u \in Threads, Detach(t, u)
  PROVE  Inv'
<1> DEFINE detached == [thread EXCEPT ![u].detached = TRUE]
<1>1. u \notin killed /\ UNCHANGED <<at, sync, fault>>
  BY DEF Detach
<1>2. thread \in [Threads -> PThread]
  BY DEF Inv, Types
<1>3. CASE thread[u].running
  BY <1>1, <1>3, MarkStep DEF Detach
<1>4. CASE ~thread[u].running
  <2>1. Kill(detached, u)
    BY <1>4 DEF Detach
  <2>2. /\ detached \in [Threads -> PThread]
        /\ \A w \in Threads : detached[w] = thread[w] \/ detached[w] = [thread[w] EXCEPT !.detached = TRUE]
    BY <1>2 DEF PThread
  <2> HIDE DEF detached
  <2> QED BY <1>1, <1>4, <2>1, <2>2, KillStep
<1> QED BY <1>3, <1>4

LEMMA JoinStep ==
  ASSUME Inv, NEW t \in Threads, NEW u \in Threads, Join(t, u)
  PROVE  Inv'
<1>1. Runs(t) /\ u \notin killed /\ UNCHANGED <<sync, fault>>
  BY DEF Join
<1>2. thread \in [Threads -> PThread] /\ at[t].call = "user" /\ ~thread[t].sleeping
  BY <1>1, UserThread DEF Inv, Types
<1>3. CASE Die(thread, t)
  BY <1>1, <1>3, DieStep
<1>4. CASE at' = [at EXCEPT ![t] = [call |-> "join", whom |-> u]] /\ UNCHANGED <<thread, killed>>
  <2> DEFINE place == [call |-> "join", whom |-> u]
  <2>1. place \in Places /\ place.call \in {"user", "join"}
    BY PlacesAre
  <2>2. at' = [at EXCEPT ![t] = place]
    BY <1>4
  <2> HIDE DEF place
  <2> QED BY <1>1, <1>2, <1>4, <2>1, <2>2, MoveStep
<1>5. CASE ~thread[u].running /\ Kill(thread, u) /\ UNCHANGED at
  BY <1>1, <1>2, <1>5, KillStep
<1> QED BY <1>3, <1>4, <1>5 DEF Join

LEMMA JoinEndStep ==
  ASSUME Inv, NEW t \in Threads, JoinEnd(t)
  PROVE  Inv'
<1> DEFINE u == at[t].whom
<1>1. at[t].call = "join"
  BY DEF JoinEnd, Waits
<1>2. /\ u \in Threads /\ thread \in [Threads -> PThread] /\ ~thread[t].sleeping
      /\ User \in Places /\ User.call = "user"
  BY <1>1, PlacesAre DEF Inv, Types, Alive, User
<1>3. CASE Fault(t, "memory")
  BY <1>3, FaultStep
<1>4. CASE at' = [at EXCEPT ![t] = User] /\ UNCHANGED <<sync, fault>> /\ UNCHANGED <<thread, killed>>
  <2> HIDE DEF u
  <2> QED BY <1>1, <1>2, <1>4, MoveStep
<1>5. CASE /\ ~thread[u].running /\ u \notin killed /\ Kill(thread, u)
           /\ at' = [at EXCEPT ![t] = User] /\ UNCHANGED <<sync, fault>>
  <2> HIDE DEF u
  <2> QED BY <1>1, <1>2, <1>5, KillStep
<1> QED BY <1>3, <1>4, <1>5 DEF JoinEnd

LEMMA SignalStep ==
  ASSUME Inv, NEW t \in Threads, NEW c \in Conds, Signal(t, c)
  PROVE  Inv'
<1>1. CASE Fault(t, "assertion")
  BY <1>1, FaultStep
<1>2. ASSUME NEW woken \in SUBSET Sleepers(c), Wake(t, c, woken),
             binding' = [binding EXCEPT ![c] = IF woken = Sleepers(c) THEN None ELSE @],
             UNCHANGED <<killed, at, owner, locks, fault>>
      PROVE  Inv'
  <2>1. c \in Waited /\ binding' \in [Conds -> Mutexes \cup {None}]
    BY <1>2 DEF Waited, Inv, Types
  <2> QED BY <1>2, <2>1, WakeStep
<1> QED BY <1>1, <1>2 DEF Signal

LEMMA WaitEndSteps ==
  ASSUME Inv, NEW t \in Threads, LockEnd(t) \/ CondWaitEnd(t) \/ BarrierWaitEnd(t)
  PROVE  Inv'
<1>1. /\ at[t].call = "lock" => at[t].mutex \in Mutexes /\ ~thread[t].sleeping
      /\ at[t].call = "condition" => at[t].mutex \in Mutexes
      /\ User \in Places /\ User.call = "user"
  BY PlacesAre DEF Inv, Types, Alive, User
<1>2. CASE LockEnd(t)
  <2>1. at[t].call = "lock"
    BY <1>2 DEF LockEnd, Waits
  <2>2. CASE \E why : Fault(t, why)
    BY <2>2, FaultStep
  <2>3. CASE owner[at[t].mutex] = None /\ Take(t, at[t].mutex) /\ UNCHANGED <<killed, binding, counter, fault>>
    BY <1>1, <2>1, <2>3, TakeStep
  <2> QED BY <1>2, <2>2, <2>3 DEF LockEnd
<1>3. CASE CondWaitEnd(t)
  BY <1>1, <1>3, MutexLockStep DEF CondWaitEnd, Waits
<1>4. CASE BarrierWaitEnd(t)
  BY <1>1, <1>4, MoveStep DEF BarrierWaitEnd, Waits
<1> QED BY <1>2, <1>3, <1>4

LEMMA UnlockCases ==
  ASSUME Inv, NEW t \in Threads, NEW m \in Mutexes, Unlock(t, m)
  PROVE  Inv'
<1>1. CASE Fault(t, "unlock")
  BY <1>1, FaultStep
<1>2. CASE owner[m] = t /\ thread' = Released(t, m) /\ Unlocks(m) /\ UNCHANGED <<killed, at, binding, counter, fault>>
  BY <1>2, UnlockStep
<1> QED BY <1>1, <1>2 DEF Unlock

LEMMA LockCases ==
  ASSUME Inv, NEW t \in Threads, NEW m \in Mutexes, Lock(t, m) \/ TryLock(t, m)
  PROVE  Inv'
<1>1. Runs(t) /\ MutexLock(t, m)
  BY DEF Lock, TryLock
<1>2. at[t].call = "user" /\ ~thread[t].sleeping
  BY <1>1, UserThread DEF Inv
<1> QED BY <1>1, <1>2, MutexLockStep

LEMMA NextInv ==
  ASSUME Inv, Next
  PROVE  Inv'
<1> PICK t \in Threads :
      \/ Exit(t) \/ TestCancel(t) \/ JoinEnd(t) \/ LockEnd(t) \/ CondWaitEnd(t) \/ BarrierWaitEnd(t)
      \/ \E u \in Threads : Cancel(t, u) \/ Detach(t, u) \/ Join(t, u)
      \/ \E m \in Mutexes : Lock(t, m) \/ TryLock(t, m) \/ Unlock(t, m)
      \/ \E c \in Conds : Signal(t, c) \/ \E m \in Mutexes : CondWait(t, c, m)
      \/ \E b \in Barriers : BarrierWait(t, b)
  BY DEF Next
<1>1. CASE Exit(t) \/ TestCancel(t)
  BY <1>1, DieStep DEF Exit, TestCancel
<1>2. CASE JoinEnd(t)
  BY <1>2, JoinEndStep
<1>3. CASE LockEnd(t) \/ CondWaitEnd(t) \/ BarrierWaitEnd(t)
  BY <1>3, WaitEndSteps
<1>4. CASE \E u \in Threads : Cancel(t, u)
  BY <1>4, MarkStep DEF Cancel
<1>5. CASE \E u \in Threads : Detach(t, u) \/ Join(t, u)
  BY <1>5, DetachStep, JoinStep
<1>6. CASE \E m \in Mutexes : Lock(t, m) \/ TryLock(t, m)
  BY <1>6, LockCases
<1>7. CASE \E m \in Mutexes : Unlock(t, m)
  BY <1>7, UnlockCases
<1>8. CASE \E c \in Conds : Signal(t, c) \/ \E m \in Mutexes : CondWait(t, c, m)
  BY <1>8, SignalStep, CondWaitStep
<1>9. CASE \E b \in Barriers : BarrierWait(t, b)
  BY <1>9, BarrierWaitStep
<1> QED BY <1>1, <1>2, <1>3, <1>4, <1>5, <1>6, <1>7, <1>8, <1>9

LEMMA StutterInv ==
  ASSUME Inv, UNCHANGED vars
  PROVE  Inv'
BY DEF Inv, Types, Alive, Blocked, Counted, Members, RefsSuffice, vars

LEMMA Invariance == Spec => []Inv
<1>1. Init => Inv
  BY InitInv
<1>2. Inv /\ [Next]_vars => Inv'
  BY NextInv, StutterInv
<1> QED BY <1>1, <1>2, PTL DEF Spec

\* The sleepers of a condition variable or barrier, and those that _cancel ended there,
\* are all that are in its counter: the threads that fell asleep are one or the other.
LEMMA CountedSleepers == Inv => SleepersCounted
<1> SUFFICES ASSUME Inv, NEW c \in Conds \cup Barriers
             PROVE  counter[c] = Cardinality(Sleepers(c))
                      + Cardinality({t \in Threads : /\ thread[t].cancelled /\ ~thread[t].running
                                                     /\ thread[t].condition = c})
  BY DEF SleepersCounted
<1> DEFINE S == Sleepers(c)
           E == {t \in Threads : /\ thread[t].cancelled /\ ~thread[t].running
                                 /\ thread[t].condition = c}
<1>1. c \in Waited /\ c # None
  BY PthreadAssumption DEF PthreadAssumption, Waited
<1>2. S \cup E = Members(c) /\ S \cap E = {}
  <2>1. \A t \in Threads : thread[t].running \in BOOLEAN /\ thread[t].sleeping \in BOOLEAN
    BY DEF Inv, Types, PThread
  <2>2. ASSUME NEW t \in Threads
        PROVE  /\ t \in S => t \in Members(c) /\ t \notin E
               /\ t \in E => t \in Members(c)
               /\ t \in Members(c) => t \in S \/ t \in E
    BY <1>1, <2>1 DEF Inv, Alive, Sleepers, Members
  <2> QED BY <2>2 DEF Sleepers, Members
<1>3. IsFiniteSet(S) /\ IsFiniteSet(E)
  BY PthreadAssumption, FS_Subset DEF Sleepers, PthreadAssumption
<1>4. Cardinality(S \cup E) = Cardinality(S) + Cardinality(E)
  <2>1. Cardinality(S \cup E) = Cardinality(S) + Cardinality(E) - Cardinality(S \cap E)
    BY <1>3, FS_Union
  <2>2. Cardinality(S \cap E) = 0
    BY <1>2, FS_EmptySet
  <2>3. Cardinality(S) \in Nat /\ Cardinality(E) \in Nat
    BY <1>3, FS_CardinalityType
  <2> HIDE DEF S, E
  <2> QED BY <2>1, <2>2, <2>3
<1>5. counter[c] = Cardinality(Members(c))
  BY <1>1 DEF Inv, Counted
<1> QED BY <1>2, <1>4, <1>5

\* The counter that _cond_signal checks counts the sleepers, and besides them only threads
\* that were cancelled: for any threads and any calls.
THEOREM SleepersAreCounted == Spec => []SleepersCounted
BY Invariance, CountedSleepers, PTL

\* As long as a thread is not killed or has a mutex, its _PThread is referenced.
THEOREM ReferencesSuffice == Spec => []RefsSuffice
<1>1. Inv => RefsSuffice
  BY DEF Inv
<1> QED BY <1>1, Invariance, PTL
-----------------------------------------------------------------------------
(* The search for deadlocks *)

\* A set of natural numbers has a least element.
LEMMA Least ==
  ASSUME NEW T \in SUBSET Nat, T # {}
  PROVE  \E x \in T : \A y \in T : x <= y
<1> DEFINE I == {0..(x - 1) : x \in T}
<1>1. I \subseteq FiniteSubsetsOf(Nat)
  <2> SUFFICES ASSUME NEW x \in T PROVE 0..(x - 1) \in FiniteSubsetsOf(Nat)
    OBVIOUS
  <2>1. IsFiniteSet(0..(x - 1))
    BY FS_Interval
  <2>2. 0..(x - 1) \subseteq Nat
    OBVIOUS
  <2> QED BY <2>1, <2>2 DEF FiniteSubsetsOf
<1>2. I # {}
  OBVIOUS
<1> HIDE DEF I
<1>3. PICK X \in I : \A Y \in I : ~ (<<Y, X>> \in StrictSubsetOrdering(Nat))
  BY <1>1, <1>2, FS_StrictSubsetOrderingWellFounded, WFMin
<1>4. PICK x \in T : X = 0..(x - 1)
  BY <1>3 DEF I
<1>5. ASSUME NEW y \in T, y < x PROVE FALSE
  <2>1. 0..(y - 1) \in I
    BY DEF I
  <2>2. 0..(y - 1) \subseteq 0..(x - 1) /\ 0..(y - 1) # 0..(x - 1)
    <3>1. y \in 0..(x - 1) /\ y \notin 0..(y - 1)
      BY <1>5
    <3> QED BY <3>1, <1>5
  <2>3. X \in SUBSET Nat /\ 0..(y - 1) \in SUBSET Nat
    BY <1>4
  <2>4. <<0..(y - 1), X>> \in StrictSubsetOrdering(Nat)
    BY <2>2, <2>3, <1>4 DEF StrictSubsetOrdering
  <2> QED BY <2>1, <2>4, <1>3
<1> QED BY <1>5

\* The values of a function that is iterated.
Iterates(D, a, s) == \E f \in [Nat -> D] : f[0] = a /\ \A n \in Nat : f[n + 1] = s[f[n]]

LEMMA Iterate ==
  ASSUME NEW D, NEW a \in D, NEW s \in [D -> D]
  PROVE  Iterates(D, a, s)
<1> DEFINE Chain(n) == {g \in [0..n -> D] : g[0] = a /\ \A k \in 0..(n - 1) : g[k + 1] = s[g[k]]}
<1>1. ASSUME NEW n \in Nat
      PROVE  Chain(n) # {}
  <2> DEFINE T == {k \in Nat : Chain(k) = {}}
  <2>1. ASSUME T # {} PROVE FALSE
    <3>1. PICK x \in T : \A y \in T : x <= y
      BY <2>1, Least, T \in SUBSET Nat
    <3>2. x \in Nat /\ Chain(x) = {}
      OBVIOUS
    <3>3. CASE x = 0
      <4> DEFINE g == [k \in 0..0 |-> a]
      <4>1. g \in [0..0 -> D] /\ g[0] = a
        OBVIOUS
      <4>2. \A k \in 0..(0 - 1) : g[k + 1] = s[g[k]]
        OBVIOUS
      <4> HIDE DEF g
      <4> QED BY <3>2, <3>3, <4>1, <4>2
    <3>4. CASE x # 0
      <4>1. x - 1 \in Nat /\ x - 1 \notin T
        BY <3>1, <3>2, <3>4
      <4>2. PICK g \in [0..(x - 1) -> D] : g[0] = a /\ \A k \in 0..((x - 1) - 1) : g[k + 1] = s[g[k]]
        BY <4>1
      <4> DEFINE h == [k \in 0..x |-> IF k = x THEN s[g[x - 1]] ELSE g[k]]
      <4>3. h \in [0..x -> D]
        <5>1. s[g[x - 1]] \in D
          BY <4>1, <4>2
        <5>2. \A k \in 0..x : k # x => k \in 0..(x - 1)
          BY <3>2
        <5>3. \A k \in 0..x : (IF k = x THEN s[g[x - 1]] ELSE g[k]) \in D
          BY <4>2, <5>1, <5>2
        <5> QED BY <5>3
      <4>4. h[0] = a
        BY <3>2, <3>4, <4>2
      <4>5. ASSUME NEW k \in 0..(x - 1)
            PROVE  h[k + 1] = s[h[k]]
        <5>1. k \in 0..x /\ k + 1 \in 0..x /\ k # x
          BY <3>2
        <5>2. h[k] = g[k]
          BY <5>1
        <5>3. CASE k = x - 1
          <6>1. k + 1 = x
            BY <3>2, <5>3
          <6>2. h[k + 1] = s[g[x - 1]]
            BY <5>1, <6>1
          <6> QED BY <5>2, <5>3, <6>2
        <5>4. CASE k # x - 1
          <6>1. k \in 0..((x - 1) - 1) /\ k + 1 # x
            BY <3>2, <5>4
          <6>2. h[k + 1] = g[k + 1]
            BY <5>1, <6>1
          <6> QED BY <4>2, <5>2, <6>1, <6>2
        <5> QED BY <5>3, <5>4
      <4> HIDE DEF h
      <4> QED BY <3>2, <4>3, <4>4, <4>5
    <3> QED BY <3>3, <3>4
  <2> QED BY <2>1
<1>2. ASSUME NEW m \in Nat, NEW n \in Nat, m <= n, NEW g \in Chain(m), NEW h \in Chain(n), NEW j \in 0..m
      PROVE  g[j] = h[j]
  <2> DEFINE T == {k \in 0..m : g[k] # h[k]}
  <2>1. ASSUME T # {} PROVE FALSE
    <3>1. PICK x \in T : \A y \in T : x <= y
      BY <2>1, Least, T \in SUBSET Nat
    <3>2. x \in 0..m /\ g[x] # h[x]
      OBVIOUS
    <3>3. x # 0
      BY <3>2
    <3>4. x - 1 \in 0..(m - 1) /\ x - 1 \in 0..(n - 1) /\ (x - 1) + 1 = x /\ x - 1 \in 0..m
      BY <1>2, <3>2, <3>3
    <3>5. x - 1 \notin T
      BY <3>1, <3>4
    <3>6. g[x - 1] = h[x - 1]
      BY <3>4, <3>5
    <3>7. g[(x - 1) + 1] = s[g[x - 1]] /\ h[(x - 1) + 1] = s[h[x - 1]]
      BY <3>4
    <3> QED BY <3>2, <3>4, <3>6, <3>7
  <2> QED BY <2>1
<1> DEFINE c(n) == CHOOSE g \in Chain(n) : TRUE
           f == [n \in Nat |-> c(n)[n]]
<1>3. ASSUME NEW n \in Nat
      PROVE  c(n) \in Chain(n) /\ f[n] = c(n)[n]
  BY <1>1
<1> HIDE DEF c, f
<1>4. \A n \in Nat : c(n) \in [0..n -> D] /\ c(n)[0] = a /\ \A k \in 0..(n - 1) : c(n)[k + 1] = s[c(n)[k]]
  BY <1>3
<1>5. \A n \in Nat : f[n] \in D
  BY <1>3, <1>4
<1>6. f[0] = a
  BY <1>3, <1>4
<1>7. ASSUME NEW n \in Nat
      PROVE  f[n + 1] = s[f[n]]
  <2>1. n + 1 \in Nat /\ n <= n + 1 /\ n \in 0..n /\ n \in 0..((n + 1) - 1)
    OBVIOUS
  <2>2. c(n)[n] = c(n + 1)[n]
    <3>1. c(n) \in Chain(n) /\ c(n + 1) \in Chain(n + 1)
      BY <1>3, <2>1
    <3> HIDE DEF Chain
    <3> QED BY <1>2, <2>1, <3>1
  <2>3. c(n + 1)[n + 1] = s[c(n + 1)[n]]
    BY <1>4, <2>1
  <2> QED BY <1>3, <2>1, <2>2, <2>3
<1>8. f \in [Nat -> D]
  <2>1. f = [n \in Nat |-> f[n]]
    BY DEF f
  <2> QED BY <1>5, <2>1
<1> QED BY <1>6, <1>7, <1>8 DEF Iterates

\* The search goes from the owner of m to the owner of the mutex it waits for, and so on.
LEMMA VisitFacts ==
  ASSUME Types, NEW m \in Mutexes
  PROVE  /\ Visit(m)[0] = owner[m]
         /\ \A n \in Nat : /\ Visit(m)[n] \in Threads \cup {None}
                           /\ Visit(m)[n + 1] = IF Visit(m)[n] = None THEN None ELSE Successor(Visit(m)[n])
<1> DEFINE D == Threads \cup {None}
           s == [u \in D |-> IF u = None THEN None ELSE Successor(u)]
           P(g) == g = [n \in Nat |-> IF n = 0 THEN owner[m]
                                      ELSE IF g[n - 1] = None THEN None ELSE Successor(g[n - 1])]
<1>1. owner[m] \in D
  BY DEF Types
<1>2. s \in [D -> D]
  <2>1. ASSUME NEW u \in D
        PROVE  (IF u = None THEN None ELSE Successor(u)) \in D
    <3>1. CASE u = None
      BY <3>1
    <3>2. CASE u # None
      <4>1. u \in Threads
        BY <3>2
      <4>2. thread[u] \in PThread
        BY <4>1 DEF Types
      <4>3. thread[u].waiting_mutex \in Mutexes \cup {None}
        BY <4>2 DEF PThread
      <4> QED BY <3>2, <4>3 DEF Successor, Types
    <3> QED BY <3>1, <3>2
  <2> QED BY <2>1
<1> HIDE DEF D
<1>3. PICK f \in [Nat -> D] : f[0] = owner[m] /\ \A n \in Nat : f[n + 1] = s[f[n]]
  <2> HIDE DEF s
  <2>1. Iterates(D, owner[m], s)
    <3> DEFINE a == owner[m]
    <3>1. a \in D
      BY <1>1
    <3> HIDE DEF a
    <3>2. Iterates(D, a, s)
      BY <1>2, <3>1, Iterate
    <3> QED BY <3>2 DEF a
  <2> QED BY <2>1 DEF Iterates
<1>4. P(f)
  <2>1. ASSUME NEW n \in Nat
        PROVE  f[n] = IF n = 0 THEN owner[m] ELSE IF f[n - 1] = None THEN None ELSE Successor(f[n - 1])
    <3>1. CASE n = 0
      BY <1>3, <3>1
    <3>2. CASE n # 0
      <4>1. n - 1 \in Nat /\ (n - 1) + 1 = n
        BY <3>2
      <4>2. f[n] = s[f[n - 1]] /\ f[n - 1] \in D
        BY <1>3, <4>1
      <4> QED BY <3>2, <4>2
    <3> QED BY <3>1, <3>2
  <2>2. f = [n \in Nat |-> f[n]]
    BY <1>3
  <2> QED BY <2>1, <2>2
<1>5. Visit(m) = CHOOSE g : P(g)
  BY DEF Visit
<1>6. P(Visit(m))
  <2> HIDE DEF P
  <2> QED BY <1>4, <1>5
<1> DEFINE v == Visit(m)
<1>7. v = [n \in Nat |-> IF n = 0 THEN owner[m] ELSE IF v[n - 1] = None THEN None ELSE Successor(v[n - 1])]
  BY <1>6
<1> HIDE DEF v, P
<1>8. v[0] = owner[m]
  BY <1>7
<1>9. ASSUME NEW n \in Nat
      PROVE  v[n + 1] = IF v[n] = None THEN None ELSE Successor(v[n])
  <2>1. n + 1 \in Nat /\ n + 1 # 0 /\ (n + 1) - 1 = n
    OBVIOUS
  <2> QED BY <1>7, <2>1
<1>10. ASSUME NEW n \in Nat
       PROVE  v[n] \in D
  <2> DEFINE T == {k \in Nat : v[k] \notin D}
  <2>1. ASSUME T # {} PROVE FALSE
    <3>1. PICK x \in T : \A y \in T : x <= y
      BY <2>1, Least, T \in SUBSET Nat
    <3>2. x \in Nat /\ v[x] \notin D
      OBVIOUS
    <3>3. x # 0
      BY <1>1, <1>8, <3>2
    <3>4. x - 1 \in Nat /\ (x - 1) + 1 = x /\ x - 1 \notin T
      BY <3>1, <3>2, <3>3
    <3>5. v[x - 1] \in D
      BY <3>4
    <3>6. v[x] = s[v[x - 1]]
      BY <1>9, <3>4, <3>5
    <3> HIDE DEF s
    <3> QED BY <1>2, <3>2, <3>5, <3>6
  <2> QED BY <2>1
<1> QED BY <1>8, <1>9, <1>10 DEF v, D

\* From a thread the search goes to the thread that it waits for.
LEMMA Follows ==
  ASSUME Types, Blocked, NEW u \in Threads, NEW v \in Threads, v = Successor(u)
  PROVE  BlockedBy(u, v)
<1>1. None \notin Threads
  BY PthreadAssumption DEF PthreadAssumption
<1>2. thread[u].waiting_mutex # None /\ owner[thread[u].waiting_mutex] = v
  BY <1>1 DEF Successor
<1> QED BY <1>2 DEF Blocked, BlockedBy

\* The thread that reports the deadlock waits for the first of the others.
LEMMA FirstBlocked ==
  ASSUME Types, Blocked, NEW t \in Threads, at[t].call = "lock"
  PROVE  at[t].mutex \in Mutexes /\ BlockedBy(t, owner[at[t].mutex])
BY PlacesAre DEF Types, Blocked, BlockedBy

LEMMA CircleFound ==
  ASSUME Types, Blocked, NEW t \in Threads, at[t].call = "lock", owner[at[t].mutex] # None,
         CheckDeadlock(t, at[t].mutex) \in {"circular", "dead"}
  PROVE  \E D \in SUBSET Threads :
           /\ t \in D
           /\ \A w \in D : \E u \in Threads : BlockedBy(w, u) /\ (u \in D \/ ~thread[u].running)
<1> DEFINE m == at[t].mutex
           N == Cardinality(Threads)
           v == Visit(m)
           stops == {n \in 0..N : Stops(t, v[n])}
           last == v[CHOOSE n \in stops : \A k \in stops : n <= k]
<1>1. m \in Mutexes /\ BlockedBy(t, owner[m])
  BY FirstBlocked
<1>2. N \in Nat /\ None \notin Threads
  BY PthreadAssumption, FS_CardinalityType DEF PthreadAssumption
<1>3. /\ v[0] = owner[m]
      /\ \A n \in Nat : v[n] \in Threads \cup {None} /\ v[n + 1] = IF v[n] = None THEN None ELSE Successor(v[n])
  BY <1>1, VisitFacts
<1>4. CheckDeadlock(t, m) = IF stops = {} THEN "endless"
                            ELSE CASE last = None      -> "none"
                                   [] last = t         -> "circular"
                                   [] last \in killed  -> "memory"
                                   [] OTHER            -> "dead"
  BY DEF CheckDeadlock
<1>5. owner[m] # None
  OBVIOUS
<1>6. CheckDeadlock(t, m) \in {"circular", "dead"}
  OBVIOUS
<1> HIDE DEF m, N, v
<1>7. PICK n \in stops : last = v[n] /\ \A k \in stops : n <= k
  <2>1. stops # {}
    BY <1>4, <1>6
  <2>2. \E n \in stops : \A k \in stops : n <= k
    <3>1. stops \in SUBSET Nat
      OBVIOUS
    <3> HIDE DEF stops
    <3> QED BY <2>1, <3>1, Least
  <2> HIDE DEF stops
  <2> QED BY <2>2
<1>8. n \in Nat /\ n <= N /\ \A k \in 0..(n - 1) : ~Stops(t, v[k])
  <2>1. n \in 0..N
    OBVIOUS
  <2>2. ASSUME NEW k \in 0..(n - 1), Stops(t, v[k]) PROVE FALSE
    <3>1. k \in 0..N /\ ~(n <= k)
      BY <1>2, <2>1
    <3>2. k \in stops
      BY <2>2, <3>1
    <3> QED BY <1>7, <3>1, <3>2
  <2> QED BY <1>2, <2>1, <2>2
<1>9. last = t \/ (last \in Threads /\ ~thread[last].running)
  <2>1. stops # {}
    BY <1>7
  <2>2. Stops(t, last)
    BY <1>7
  <2>3. last \in Threads \cup {None}
    BY <1>3, <1>7, <1>8
  <2> HIDE DEF last, stops
  <2>4. last # None /\ (last = t \/ last \notin killed)
    <3>1. CheckDeadlock(t, m) = CASE last = None      -> "none"
                                  [] last = t         -> "circular"
                                  [] last \in killed  -> "memory"
                                  [] OTHER            -> "dead"
      BY <1>4, <2>1
    <3>2. CASE last = None
      <4>1. last # t /\ last \notin killed
        BY <1>2, <3>2 DEF Types
      <4> QED BY <1>6, <3>1, <3>2, <4>1
    <3>3. CASE last # None /\ last # t /\ last \in killed
      BY <1>6, <3>1, <3>3
    <3> QED BY <3>2, <3>3
  <2> QED BY <2>2, <2>3, <2>4 DEF Stops, Ends
<1> HIDE DEF last, stops
<1> DEFINE D == {t} \cup {v[k] : k \in 0..(n - 1)}
<1>10. ASSUME NEW k \in 0..(n - 1)
       PROVE  k \in Nat /\ v[k] \in Threads
  <2>1. v[k] # None
    BY <1>8 DEF Stops, Ends
  <2> QED BY <1>3, <1>8, <2>1
<1>11. ASSUME NEW k \in 0..n
       PROVE  v[k] \in Threads /\ (v[k] \in D \/ ~thread[v[k]].running)
  <2>1. CASE k \in 0..(n - 1)
    BY <1>10, <2>1
  <2>2. CASE k \notin 0..(n - 1)
    <3>1. k = n
      BY <1>8, <2>2
    <3> QED BY <1>7, <1>9, <3>1
  <2> QED BY <2>1, <2>2
<1>12. ASSUME NEW w \in D
       PROVE  \E u \in Threads : BlockedBy(w, u) /\ (u \in D \/ ~thread[u].running)
  <2>1. CASE w = t
    <3>1. 0 \in 0..n
      BY <1>8
    <3> HIDE DEF D
    <3> QED BY <1>1, <1>3, <1>11, <2>1, <3>1
  <2>2. ASSUME NEW k \in 0..(n - 1), w = v[k]
        PROVE  \E u \in Threads : BlockedBy(w, u) /\ (u \in D \/ ~thread[u].running)
    <3>1. k \in Nat /\ w \in Threads /\ k + 1 \in 0..n
      BY <1>8, <1>10, <2>2
    <3>2. v[k + 1] = Successor(w) /\ v[k + 1] \in Threads /\ (v[k + 1] \in D \/ ~thread[v[k + 1]].running)
      BY <1>2, <1>3, <1>11, <2>2, <3>1
    <3> HIDE DEF D
    <3>3. BlockedBy(w, v[k + 1])
      BY <3>1, <3>2, Follows
    <3> QED BY <3>2, <3>3
  <2> QED BY <2>1, <2>2
<1>13. D \in SUBSET Threads /\ t \in D
  BY <1>10
<1> HIDE DEF D
<1> QED BY <1>12, <1>13

LEMMA CircleOutside ==
  ASSUME Types, Blocked, NEW t \in Threads, at[t].call = "lock", owner[at[t].mutex] # None,
         CheckDeadlock(t, at[t].mutex) = "endless"
  PROVE  \E D \in SUBSET (Threads \ {t}) : D # {} /\ \A w \in D : \E u \in D : BlockedBy(w, u)
<1> DEFINE m == at[t].mutex
           N == Cardinality(Threads)
           v == Visit(m)
           stops == {n \in 0..N : Stops(t, v[n])}
           last == v[CHOOSE n \in stops : \A k \in stops : n <= k]
<1>1. m \in Mutexes
  BY FirstBlocked
<1>2. N \in Nat /\ None \notin Threads /\ IsFiniteSet(Threads)
  BY PthreadAssumption, FS_CardinalityType DEF PthreadAssumption
<1>3. \A n \in Nat : v[n] \in Threads \cup {None} /\ v[n + 1] = IF v[n] = None THEN None ELSE Successor(v[n])
  BY <1>1, VisitFacts
<1>4. CheckDeadlock(t, m) = IF stops = {} THEN "endless"
                            ELSE CASE last = None      -> "none"
                                   [] last = t         -> "circular"
                                   [] last \in killed  -> "memory"
                                   [] OTHER            -> "dead"
  BY DEF CheckDeadlock
<1>5. CheckDeadlock(t, m) = "endless"
  OBVIOUS
<1> HIDE DEF m, N, v
<1>6. stops = {}
  <2> HIDE DEF stops, last
  <2> QED BY <1>4, <1>5
\* All the threads that are visited are others.
<1>7. ASSUME NEW n \in 0..N
      PROVE  n \in Nat /\ v[n] \in Threads \ {t}
  <2>1. n \in Nat /\ ~Stops(t, v[n])
    BY <1>2, <1>6
  <2> QED BY <1>3, <2>1 DEF Stops, Ends
<1> HIDE DEF stops, last
\* One of them is visited twice, as there are fewer than steps.
<1>8. PICK i \in 0..N, j \in 0..N : i < j /\ v[i] = v[j]
  <2> DEFINE f == [n \in 0..N |-> v[n]]
  <2>1. f \in [0..N -> Threads \ {t}]
    BY <1>7
  <2>2. IsFiniteSet(0..N) /\ Cardinality(0..N) = N + 1
    BY <1>2, FS_Interval
  <2>3. IsFiniteSet(Threads \ {t}) /\ Cardinality(Threads \ {t}) = N - 1
    BY <1>2, FS_RemoveElement DEF N
  <2>4. Cardinality(Threads \ {t}) < Cardinality(0..N)
    BY <1>2, <2>2, <2>3
  <2> HIDE DEF f
  <2>5. \E x, y \in 0..N : x # y /\ f[x] = f[y]
    <3> DEFINE S == 0..N
               T == Threads \ {t}
    <3>1. f \in [S -> T] /\ IsFiniteSet(S) /\ IsFiniteSet(T) /\ Cardinality(T) < Cardinality(S)
      BY <2>1, <2>2, <2>3, <2>4
    <3> HIDE DEF S, T
    <3>2. \E x, y \in S : x # y /\ f[x] = f[y]
      BY <3>1, FS_PigeonHole
    <3> QED BY <3>2 DEF S
  <2>6. PICK x \in 0..N, y \in 0..N : x # y /\ f[x] = f[y]
    BY <2>5
  <2>7. v[x] = v[y]
    BY <2>6 DEF f
  <2>8. x < y \/ y < x
    BY <2>6, <1>2
  <2> QED BY <2>7, <2>8
<1> DEFINE D == {v[k] : k \in i..(j - 1)}
<1>9. ASSUME NEW k \in i..(j - 1)
      PROVE  /\ k \in Nat /\ v[k] \in Threads \ {t} /\ v[k + 1] \in D /\ v[k + 1] \in Threads
             /\ v[k + 1] = Successor(v[k])
  <2>1. k \in 0..N /\ k + 1 \in 0..N
    BY <1>2, <1>8
  <2>2. v[k] \in Threads \ {t} /\ v[k + 1] \in Threads /\ k \in Nat
    BY <1>7, <2>1
  <2>3. v[k + 1] = Successor(v[k])
    BY <1>2, <1>3, <2>2
  <2>4. v[k + 1] \in D
    <3>1. CASE k + 1 = j
      <4>1. i \in i..(j - 1)
        BY <1>8
      <4> QED BY <1>8, <3>1, <4>1
    <3>2. CASE k + 1 # j
      <4>1. k + 1 \in i..(j - 1)
        BY <1>8, <3>2
      <4> QED BY <4>1
    <3> QED BY <3>1, <3>2
  <2> QED BY <2>2, <2>3, <2>4
<1>10. D \in SUBSET (Threads \ {t})
  BY <1>9
<1>11. D # {}
  <2>1. i \in i..(j - 1)
    BY <1>8
  <2> QED BY <2>1
<1>12. ASSUME NEW w \in D
       PROVE  \E u \in D : BlockedBy(w, u)
  <2>1. PICK k \in i..(j - 1) : w = v[k]
    OBVIOUS
  <2>2. /\ w \in Threads /\ v[k + 1] \in D /\ v[k + 1] \in Threads /\ v[k + 1] = Successor(w)
    BY <1>9, <2>1
  <2> HIDE DEF D
  <2>3. BlockedBy(w, v[k + 1])
    BY <2>2, Follows
  <2> QED BY <2>2, <2>3
<1> HIDE DEF D
<1> QED BY <1>10, <1>11, <1>12
-----------------------------------------------------------------------------
(* The reports of the search *)

Reports == DeadlockReal /\ EndlessOutside

LEMMA NoReport ==
  ASSUME fault.why \notin {"circular", "dead", "endless"}
  PROVE  Reports
BY DEF Reports, DeadlockReal, EndlessOutside

\* A fault ends the run, and it is one of a call or of the search.
LEMMA NextFault ==
  ASSUME Next
  PROVE  /\ fault = NoFault
         /\ \/ fault' = fault
            \/ fault'.why \in {"memory", "double lock", "unlock", "binding", "assertion"}
            \/ \E t \in Threads : /\ at[t].call = "lock" /\ owner[at[t].mutex] # None
                                  /\ Fault(t, CheckDeadlock(t, at[t].mutex))
<1> PICK t \in Threads :
      \/ Exit(t) \/ TestCancel(t) \/ JoinEnd(t) \/ LockEnd(t) \/ CondWaitEnd(t) \/ BarrierWaitEnd(t)
      \/ \E u \in Threads : Cancel(t, u) \/ Detach(t, u) \/ Join(t, u)
      \/ \E m \in Mutexes : Lock(t, m) \/ TryLock(t, m) \/ Unlock(t, m)
      \/ \E c \in Conds : Signal(t, c) \/ \E m \in Mutexes : CondWait(t, c, m)
      \/ \E b \in Barriers : BarrierWait(t, b)
  BY DEF Next
<1> DEFINE Goal == /\ fault = NoFault
                   /\ \/ fault' = fault
                      \/ fault'.why \in {"memory", "double lock", "unlock", "binding", "assertion"}
                      \/ \E w \in Threads : /\ at[w].call = "lock" /\ owner[at[w].mutex] # None
                                            /\ Fault(w, CheckDeadlock(w, at[w].mutex))
<1>1. ASSUME NEW why, Fault(t, why)
      PROVE  fault'.why = why
  BY <1>1 DEF Fault
<1>2. CASE Exit(t) \/ TestCancel(t) \/ BarrierWaitEnd(t)
  BY <1>2 DEF Exit, TestCancel, BarrierWaitEnd, Runs, Waits
<1>3. CASE JoinEnd(t)
  BY <1>1, <1>3 DEF JoinEnd, Waits
<1>4. CASE LockEnd(t)
  BY <1>4 DEF LockEnd, Waits
<1>5. ASSUME NEW m, MutexLock(t, m)
      PROVE  fault' = fault \/ fault'.why \in {"memory", "double lock"}
  BY <1>1, <1>5 DEF MutexLock
<1>6. CASE CondWaitEnd(t)
  BY <1>5, <1>6 DEF CondWaitEnd, Waits
<1>7. CASE \E u \in Threads : Cancel(t, u) \/ Detach(t, u) \/ Join(t, u)
  BY <1>7 DEF Cancel, Detach, Join, Runs
<1>8. CASE \E m \in Mutexes : Lock(t, m) \/ TryLock(t, m)
  BY <1>5, <1>8 DEF Lock, TryLock, Runs
<1>9. CASE \E m \in Mutexes : Unlock(t, m)
  BY <1>1, <1>9 DEF Unlock, Runs
<1>10. CASE \E c \in Conds : Signal(t, c) \/ \E m \in Mutexes : CondWait(t, c, m)
  BY <1>1, <1>10 DEF Signal, CondWait, Runs
<1>11. CASE \E b \in Barriers : BarrierWait(t, b)
  BY <1>1, <1>11 DEF BarrierWait, Runs
<1> QED BY <1>2, <1>3, <1>4, <1>6, <1>7, <1>8, <1>9, <1>10, <1>11

LEMMA NextReports ==
  ASSUME Inv, Next
  PROVE  Reports'
<1>1. fault.why \notin {"circular", "dead", "endless"}
  <2>1. fault = NoFault
    BY NextFault
  <2>2. fault.why = None
    BY <2>1 DEF NoFault
  <2> QED BY <2>2, PthreadAssumption DEF PthreadAssumption
<1>2. CASE fault' = fault
  BY <1>1, <1>2 DEF Reports, DeadlockReal, EndlessOutside
<1>3. CASE fault'.why \in {"memory", "double lock", "unlock", "binding", "assertion"}
  BY <1>3 DEF Reports, DeadlockReal, EndlessOutside
<1>4. ASSUME NEW t \in Threads, at[t].call = "lock", owner[at[t].mutex] # None,
             Fault(t, CheckDeadlock(t, at[t].mutex))
      PROVE  Reports'
  <2> DEFINE why == CheckDeadlock(t, at[t].mutex)
  <2>1. /\ fault'.why = why /\ fault'.who = t
        /\ thread' = thread /\ at' = at /\ owner' = owner
    BY <1>4 DEF Fault, sync
  <2>2. Types /\ Blocked
    BY DEF Inv
  <2>3. why \in {"circular", "dead"} =>
          \E D \in SUBSET Threads :
            /\ t \in D
            /\ \A w \in D : \E u \in Threads : BlockedBy(w, u) /\ (u \in D \/ ~thread[u].running)
    BY <1>4, <2>2, CircleFound
  <2>4. why = "endless" =>
          \E D \in SUBSET (Threads \ {t}) : D # {} /\ \A w \in D : \E u \in D : BlockedBy(w, u)
    BY <1>4, <2>2, CircleOutside
  <2> HIDE DEF why
  <2>5. \A w, u : BlockedBy(w, u)' <=> BlockedBy(w, u)
    BY <2>1 DEF BlockedBy
  <2>6. DeadlockReal'
    BY <2>1, <2>3, <2>5 DEF DeadlockReal
  <2>7. EndlessOutside'
    BY <2>1, <2>4, <2>5 DEF EndlessOutside
  <2> QED BY <2>6, <2>7 DEF Reports
<1> QED BY <1>2, <1>3, <1>4, NextFault

LEMMA ReportsHold == Spec => []Reports
<1>1. Init => Reports
  BY NoReport, PthreadAssumption DEF Init, NoFault, PthreadAssumption
<1>2. Inv /\ Next => Reports'
  BY NextReports
<1>3. Reports /\ UNCHANGED vars => Reports'
  BY DEF Reports, DeadlockReal, EndlessOutside, BlockedBy, vars
<1> QED BY <1>1, <1>2, <1>3, Invariance, PTL DEF Spec

\* A deadlock that _check_deadlock reports is one, however many threads and mutexes are in it.
THEOREM ReportedDeadlockIsReal == Spec => []DeadlockReal
<1>1. Reports => DeadlockReal
  BY DEF Reports
<1> QED BY <1>1, ReportsHold, PTL

\* _check_deadlock goes on for ever only in a circle of other threads.
THEOREM EndlessIsOutside == Spec => []EndlessOutside
<1>1. Reports => EndlessOutside
  BY DEF Reports
<1> QED BY <1>1, ReportsHold, PTL
=============================================================================
