--------------------------- MODULE ParallelSearch ---------------------------
(***************************************************************************)
(* The parallel state space search of DIVINE: ss::Search::pseudoBFS and    *)
(* ss::Search::wait (divine/ss/search.hpp) with the two structures its     *)
(* workers share, the chunked work queue shmem::SharedQueue and the        *)
(* termination detector shmem::ApproximateCounter (bricks/brick-shmem).    *)
(*                                                                         *)
(* A step is one access to memory that another thread can see, together    *)
(* with the worker's private computation around it.  The critical sections *)
(* of LockedQueue are single steps (they are serialised by a spin lock),   *)
(* but the unlocked read of its _empty flag is a step of its own, and so   *)
(* are the push of a state, the ++ work that follows it, and the load and  *)
(* the compare-and-swap of ApproximateCounter::sync.                       *)
(*                                                                         *)
(* Chunks are sets and the queue is a set of chunks: the order in which a  *)
(* pseudo-BFS takes open states is not promised to anyone.  The listener   *)
(* answers Terminate on ErrorEdges, Ignore on the states of Ignored, and   *)
(* AsNeeded otherwise; Process, which re-opens known states, is left out.  *)
(***************************************************************************)
EXTENDS Integers, FiniteSets

CONSTANTS Workers,     \* the threads that start() launches
          States,      \* states of the explored graph
          Succ,        \* successors, as Builder::edges yields them
          Initials,    \* what Builder::initials yields: at most one state
          ErrorEdges,  \* edges on which the listener answers Terminate
          Ignored,     \* states on which the listener answers Ignore
          Step,        \* ApproximateCounter::step (100000 in the code)
          Checked,     \* the build evaluates ASSERT (it does not define NDEBUG)
          NoState      \* "no state is being expanded"

ASSUME SearchAssumption ==
  /\ IsFiniteSet(Workers) /\ Workers # {}
  /\ IsFiniteSet(States)
  /\ Succ \in [States -> SUBSET States]
  /\ Initials \subseteq States /\ Cardinality(Initials) <= 1
  /\ ErrorEdges \subseteq States \X States
  /\ Ignored \subseteq States
  /\ Step \in Nat \ {0}
  /\ Checked \in BOOLEAN
  /\ NoState \notin States

VARIABLES
  pc,         \* where each worker is
  visited,    \* the states in the builder's hash table
  counter,    \* ApproximateCounter::Shared::counter
  local,      \* ApproximateCounter::_l of each worker
  value,      \* the local 'value' of sync()
  sharedQ,    \* LockedQueue::q, the chunks waiting for a worker
  qEmpty,     \* LockedQueue::_empty
  outgoing,   \* Chunked::outgoing of each worker
  incoming,   \* Chunked::incoming of each worker
  chunkSize,  \* Chunked::chunkSize of each worker
  cur,        \* the state v a worker is expanding, or NoState
  todo,       \* its successors not yet yielded by Builder::edges
  terminate,  \* Search::_terminate
  threw,      \* workers that leave by an exception other than Terminate
  aborted,    \* history: an error edge, stop() or an exception occurred
  main,       \* the thread in Search::wait
  reaped      \* the futures whose get() has returned

searchVars == <<visited, cur, todo>>
counterVars == <<counter, local, value>>
queueVars == <<sharedQ, qEmpty, outgoing, incoming, chunkSize>>
endVars == <<terminate, threw, aborted>>
mainVars == <<main, reaped>>
vars == <<pc, searchVars, counterVars, queueVars, endVars, mainVars>>

Goto(w, l) == pc' = [pc EXCEPT ![w] = l]
At(w, l) == pc[w] = l

(***************************************************************************)
(* Faults.  Each Bad... operator is a plausible mistake in the definition  *)
(* that follows it; it is part of no specification, and serves to show     *)
(* that a property can see the mistake.                                    *)
(***************************************************************************)
(***************************************************************************)
(* pseudoBFS() up to the lambda: the initial states are pushed and         *)
(* counted, the queue is flushed (which doubles chunkSize to 4 unless      *)
(* nothing was pushed), and each worker gets a copy of the queue and of    *)
(* the counter.  A copied counter has _l = 0, and the destructor of the    *)
(* original syncs, which leaves the exact number of initial states.        *)
(***************************************************************************)
Init ==
  LET accepted == Initials \ Ignored
  IN  /\ pc = [w \in Workers |-> "start"]
      /\ visited = Initials
      /\ cur = [w \in Workers |-> NoState]
      /\ todo = [w \in Workers |-> {}]
      /\ counter = Cardinality(accepted)
      /\ local = [w \in Workers |-> 0]
      /\ value = [w \in Workers |-> 0]
      /\ sharedQ = {accepted} \ {{}}
      /\ qEmpty = (accepted = {})
      /\ outgoing = [w \in Workers |-> {}]
      /\ incoming = [w \in Workers |-> {}]
      /\ chunkSize = [w \in Workers |-> IF accepted = {} THEN 2 ELSE 4]
      /\ terminate = FALSE
      /\ threw = {}
      /\ aborted = FALSE
      /\ main = "waiting"
      /\ reaped = {}

(***************************************************************************)
(* StartDetector::waitForAll as its users see it: nobody leaves before     *)
(* everybody has arrived.  Module StartDetector has the real code.         *)
(***************************************************************************)
Arrive(w) ==
  /\ At(w, "start")
  /\ Goto(w, "barrier")
  /\ UNCHANGED <<searchVars, counterVars, queueVars, endVars, mainVars>>

Leave(w) ==
  /\ At(w, "barrier")
  /\ \A v \in Workers : pc[v] # "start"
  /\ Goto(w, "loop")
  /\ UNCHANGED <<searchVars, counterVars, queueVars, endVars, mainVars>>

(***************************************************************************)
(* while ( work && !_terminate->load() )                                   *)
(***************************************************************************)
ReadWork(w) ==
  /\ At(w, "loop")
  /\ Goto(w, IF counter = 0 THEN "assert" ELSE "check")
  /\ UNCHANGED <<searchVars, counterVars, queueVars, endVars, mainVars>>

ReadTerminate(w) ==
  /\ At(w, "check")
  /\ Goto(w, IF terminate THEN "assert" ELSE "peek")
  /\ UNCHANGED <<searchVars, counterVars, queueVars, endVars, mainVars>>

(***************************************************************************)
(* queue.empty(): a worker without an incoming chunk looks at the _empty   *)
(* flag without the lock, and only then locks the queue and takes a chunk  *)
(* if there still is one.                                                  *)
(***************************************************************************)
Peek(w) ==
  /\ At(w, "peek") /\ incoming[w] = {}
  /\ Goto(w, IF qEmpty THEN "idle" ELSE "grab")
  /\ UNCHANGED <<searchVars, counterVars, queueVars, endVars, mainVars>>

\* LockedQueue::pop with the lock held: the oldest chunk becomes incoming.
Take(w, chunk) ==
  /\ incoming[w] = {} /\ chunk \in sharedQ
  /\ sharedQ' = sharedQ \ {chunk}
  /\ qEmpty' = (sharedQ' = {})
  /\ incoming' = [incoming EXCEPT ![w] = chunk]

\* the chunk stays in the queue
BadGrab(w, chunk) ==
  /\ At(w, "grab") /\ chunk \in sharedQ
  /\ incoming' = [incoming EXCEPT ![w] = chunk]
  /\ Goto(w, "peek")
  /\ UNCHANGED <<searchVars, counterVars, sharedQ, qEmpty, outgoing, chunkSize,
                 endVars, mainVars>>

Grab(w, chunk) ==
  /\ At(w, "grab") /\ Take(w, chunk)
  /\ Goto(w, "peek")
  /\ UNCHANGED <<searchVars, counterVars, outgoing, chunkSize, endVars, mainVars>>

GrabNothing(w) ==
  /\ At(w, "grab") /\ sharedQ = {}
  /\ Goto(w, "idle")
  /\ UNCHANGED <<searchVars, counterVars, queueVars, endVars, mainVars>>

\* queue.pop() on a nonempty incoming chunk, and the call of Builder::edges.
Pop(w, v) ==
  /\ At(w, "peek") /\ v \in incoming[w]
  /\ incoming' = [incoming EXCEPT ![w] = @ \ {v}]
  /\ cur' = [cur EXCEPT ![w] = v]
  /\ todo' = [todo EXCEPT ![w] = Succ[v]]
  /\ Goto(w, "succs")
  /\ UNCHANGED <<visited, counterVars, sharedQ, qEmpty, outgoing, chunkSize,
                 endVars, mainVars>>

(***************************************************************************)
(* One edge of _succs: Builder::edges stores the successor, which tells    *)
(* whether it is new; the listener sees the edge and then the state; a new *)
(* state goes to the outgoing chunk, which is flushed if it is full.       *)
(***************************************************************************)
Yield(w, s) ==
  LET isnew == s \notin visited
      push  == isnew /\ s \notin Ignored
      out   == outgoing[w] \cup {s}
  IN  /\ At(w, "succs") /\ s \in todo[w] /\ <<cur[w], s>> \notin ErrorEdges
      /\ visited' = visited \cup {s}
      /\ todo' = [todo EXCEPT ![w] = @ \ {s}]
      /\ outgoing' = IF push THEN [outgoing EXCEPT ![w] = out] ELSE outgoing
      /\ Goto(w, CASE ~push -> "succs"
                   [] push /\ Cardinality(out) >= chunkSize[w] -> "flush"
                   [] OTHER -> "count")
      /\ UNCHANGED <<cur, counterVars, sharedQ, qEmpty, incoming, chunkSize,
                     endVars, mainVars>>

\* the answer Terminate is not looked at
BadYieldError(w, s) ==
  /\ At(w, "succs") /\ s \in todo[w] /\ <<cur[w], s>> \in ErrorEdges
  /\ visited' = visited \cup {s}
  /\ todo' = [todo EXCEPT ![w] = @ \ {s}]
  /\ UNCHANGED <<pc, cur, counterVars, queueVars, endVars, mainVars>>

\* The listener answers Terminate: _terminate is set, Terminate is thrown and
\* caught around the loop.
YieldError(w, s) ==
  /\ At(w, "succs") /\ s \in todo[w] /\ <<cur[w], s>> \in ErrorEdges
  /\ visited' = visited \cup {s}
  /\ todo' = [todo EXCEPT ![w] = @ \ {s}]
  /\ terminate' = TRUE
  /\ aborted' = TRUE
  /\ Goto(w, "assert")
  /\ UNCHANGED <<cur, counterVars, queueVars, threw, mainVars>>

\* Builder::edges throws (a failed rehash, a dying solver): the exception
\* passes the catch clause, skips the ASSERT and ends in the future.
Throw(w) ==
  /\ At(w, "succs") /\ todo[w] # {}
  /\ threw' = threw \cup {w}
  /\ aborted' = TRUE
  /\ Goto(w, "defer")
  /\ UNCHANGED <<searchVars, counterVars, queueVars, terminate, mainVars>>

\* Chunked::flush on a nonempty outgoing chunk, with LockedQueue::push.
Publish(w) ==
  /\ sharedQ' = sharedQ \cup {outgoing[w]}
  /\ qEmpty' = FALSE
  /\ outgoing' = [outgoing EXCEPT ![w] = {}]
  /\ chunkSize' = [chunkSize EXCEPT ![w] = IF @ < 64 THEN IF 2 * @ < 64 THEN 2 * @ ELSE 64
                                           ELSE @]

\* the full chunk is thrown away
BadFlush(w) ==
  /\ At(w, "flush")
  /\ outgoing' = [outgoing EXCEPT ![w] = {}]
  /\ Goto(w, "count")
  /\ UNCHANGED <<searchVars, counterVars, sharedQ, qEmpty, chunkSize, incoming, endVars,
                 mainVars>>

Flush(w) ==
  /\ At(w, "flush")
  /\ Publish(w)
  /\ Goto(w, "count")
  /\ UNCHANGED <<searchVars, counterVars, incoming, endVars, mainVars>>

\* the refill does not pay for the state being counted
BadRefill(w) ==
  /\ At(w, "count")
  /\ counter' = IF local[w] = 0 THEN counter + Step ELSE counter
  /\ local' = [local EXCEPT ![w] = IF @ = 0 THEN Step ELSE @ - 1]
  /\ Goto(w, "succs")
  /\ UNCHANGED <<searchVars, value, queueVars, endVars, mainVars>>

\* ++ work: credit is taken from the shared counter Step states at a time.
Count(w) ==
  /\ At(w, "count")
  /\ IF local[w] = 0
     THEN /\ counter' = counter + Step
          /\ local' = [local EXCEPT ![w] = Step - 1]
     ELSE /\ local' = [local EXCEPT ![w] = @ - 1]
          /\ UNCHANGED counter
  /\ Goto(w, "succs")
  /\ UNCHANGED <<searchVars, value, queueVars, endVars, mainVars>>

\* -- work is forgotten
BadClose(w) ==
  /\ At(w, "succs") /\ todo[w] = {}
  /\ cur' = [cur EXCEPT ![w] = NoState]
  /\ Goto(w, "loop")
  /\ UNCHANGED <<visited, todo, counterVars, queueVars, endVars, mainVars>>

\* the last edge is forgotten
BadCloseEarly(w) ==
  /\ At(w, "succs") /\ Cardinality(todo[w]) <= 1
  /\ local' = [local EXCEPT ![w] = @ + 1]
  /\ cur' = [cur EXCEPT ![w] = NoState]
  /\ Goto(w, "loop")
  /\ UNCHANGED <<visited, todo, counter, value, queueVars, endVars, mainVars>>

\* -- work, after the last edge.
Close(w) ==
  /\ At(w, "succs") /\ todo[w] = {}
  /\ local' = [local EXCEPT ![w] = @ + 1]
  /\ cur' = [cur EXCEPT ![w] = NoState]
  /\ Goto(w, "loop")
  /\ UNCHANGED <<visited, todo, counter, value, queueVars, endVars, mainVars>>

(***************************************************************************)
(* The queue is empty: queue.flush(); work.sync(); continue.               *)
(***************************************************************************)
\* an idle worker does not call sync()
BadIdleFlush(w) ==
  /\ At(w, "idle")
  /\ IF outgoing[w] = {} THEN UNCHANGED <<sharedQ, qEmpty, outgoing, chunkSize>>
                         ELSE Publish(w)
  /\ Goto(w, "loop")
  /\ UNCHANGED <<searchVars, counterVars, incoming, endVars, mainVars>>

IdleFlush(w) ==
  /\ At(w, "idle")
  /\ IF outgoing[w] = {} THEN UNCHANGED <<sharedQ, qEmpty, outgoing, chunkSize>>
                         ELSE Publish(w)
  /\ Goto(w, "sync")
  /\ UNCHANGED <<searchVars, counterVars, incoming, endVars, mainVars>>

\* intptr_t value = _s->counter;   Also entered from the destructor of a
\* worker's counter, when its functor is destroyed ("exitsync").
SyncRead(w) ==
  /\ pc[w] \in {"sync", "exitsync"}
  /\ value' = [value EXCEPT ![w] = counter]
  /\ Goto(w, IF At(w, "sync") THEN "cas" ELSE "exitcas")
  /\ UNCHANGED <<searchVars, counter, local, queueVars, endVars, mainVars>>

SyncedPc(w) == IF At(w, "cas") THEN "loop" ELSE "done"

\* while ( _l > 0 ): nothing to give back.
SyncNothing(w) ==
  /\ pc[w] \in {"cas", "exitcas"} /\ local[w] = 0
  /\ Goto(w, SyncedPc(w))
  /\ UNCHANGED <<searchVars, counterVars, queueVars, endVars, mainVars>>

\* The amount sync() leaves in the counter; the code clamps it at zero.
SyncTo(w) == IF value[w] >= local[w] THEN value[w] - local[w] ELSE 0

\* a store instead of the compare-and-swap: a concurrent refill is lost
BadSyncStore(w) ==
  /\ pc[w] \in {"cas", "exitcas"} /\ local[w] > 0
  /\ counter' = SyncTo(w)
  /\ local' = [local EXCEPT ![w] = 0]
  /\ Goto(w, SyncedPc(w))
  /\ UNCHANGED <<searchVars, value, queueVars, endVars, mainVars>>

\* the credit is given back but kept
BadSyncCas(w) ==
  /\ pc[w] \in {"cas", "exitcas"} /\ local[w] > 0
  /\ counter = value[w]
  /\ counter' = SyncTo(w)
  /\ Goto(w, SyncedPc(w))
  /\ UNCHANGED <<searchVars, local, value, queueVars, endVars, mainVars>>

SyncCas(w) ==
  /\ pc[w] \in {"cas", "exitcas"} /\ local[w] > 0
  /\ counter = value[w]
  /\ counter' = SyncTo(w)
  /\ local' = [local EXCEPT ![w] = 0]
  /\ Goto(w, SyncedPc(w))
  /\ UNCHANGED <<searchVars, value, queueVars, endVars, mainVars>>

\* compare_exchange_weak failed and stored what it saw in value.
SyncRetry(w) ==
  /\ pc[w] \in {"cas", "exitcas"} /\ local[w] > 0
  /\ counter # value[w]
  /\ value' = [value EXCEPT ![w] = counter]
  /\ UNCHANGED <<pc, searchVars, counter, local, queueVars, endVars, mainVars>>

(***************************************************************************)
(* ASSERT( _terminate->load() || queue.empty() ), the Defer that sets      *)
(* _terminate, and the destruction of the worker.  The ASSERT is compiled  *)
(* only in checked builds; there, queue.empty() takes a chunk if there is  *)
(* one, and the failed assertion throws.                                   *)
(***************************************************************************)
AssertTerminate(w) ==
  /\ At(w, "assert")
  /\ Goto(w, IF terminate \/ ~Checked THEN "defer" ELSE "assertqueue")
  /\ UNCHANGED <<searchVars, counterVars, queueVars, endVars, mainVars>>

AssertQueue(w) ==
  /\ At(w, "assertqueue") /\ (incoming[w] # {} \/ sharedQ = {})
  /\ threw' = IF incoming[w] = {} THEN threw ELSE threw \cup {w}
  /\ Goto(w, "defer")
  /\ UNCHANGED <<searchVars, counterVars, queueVars, terminate, aborted, mainVars>>

AssertGrab(w, chunk) ==
  /\ At(w, "assertqueue") /\ Take(w, chunk)
  /\ threw' = threw \cup {w}
  /\ Goto(w, "defer")
  /\ UNCHANGED <<searchVars, counterVars, outgoing, chunkSize, terminate, aborted, mainVars>>

Defer(w) ==
  /\ At(w, "defer")
  /\ terminate' = TRUE
  /\ Goto(w, "exitsync")
  /\ UNCHANGED <<searchVars, counterVars, queueVars, threw, aborted, mainVars>>

(***************************************************************************)
(* The thread in Search::wait.  shmem::wait polls the futures until every  *)
(* one has been got; get() of a worker that threw rethrows, which leads to *)
(* cleanup: set _terminate and wait for the remaining workers.             *)
(***************************************************************************)
Get(w) ==
  /\ main = "waiting" /\ At(w, "done") /\ w \notin reaped
  /\ reaped' = reaped \cup {w}
  /\ main' = IF w \in threw THEN "throwing"
             ELSE IF reaped' = Workers THEN "returning" ELSE main
  /\ UNCHANGED <<pc, searchVars, counterVars, queueVars, endVars>>

Cleanup ==
  /\ main \in {"throwing", "returning"}
  /\ terminate' = TRUE
  /\ main' = IF main = "throwing" THEN "jointhrow" ELSE "joinreturn"
  /\ UNCHANGED <<pc, searchVars, counterVars, queueVars, threw, aborted, reaped>>

\* the remaining workers are not waited for
BadJoin ==
  /\ main \in {"jointhrow", "joinreturn"}
  /\ main' = IF main = "jointhrow" THEN "thrown" ELSE "returned"
  /\ UNCHANGED <<pc, searchVars, counterVars, queueVars, endVars, reaped>>

Join ==
  /\ main \in {"jointhrow", "joinreturn"}
  /\ \A w \in Workers : At(w, "done")
  /\ main' = IF main = "jointhrow" THEN "thrown" ELSE "returned"
  /\ UNCHANGED <<pc, searchVars, counterVars, queueVars, endVars, reaped>>

\* Job::stop, called by the monitor of a running verification.
Stop ==
  /\ main = "waiting" /\ ~terminate
  /\ terminate' = TRUE
  /\ aborted' = TRUE
  /\ UNCHANGED <<pc, searchVars, counterVars, queueVars, threw, mainVars>>

\* wait() has returned or thrown: the search object is at rest.
Finished ==
  /\ main \in {"returned", "thrown"}
  /\ UNCHANGED vars

Worker(w) ==
  \/ Arrive(w) \/ Leave(w) \/ ReadWork(w) \/ ReadTerminate(w)
  \/ Peek(w) \/ GrabNothing(w) \/ \E chunk \in sharedQ : Grab(w, chunk)
  \/ \E v \in incoming[w] : Pop(w, v)
  \/ \E s \in todo[w] : Yield(w, s) \/ YieldError(w, s)
  \/ Throw(w) \/ Flush(w) \/ Count(w) \/ Close(w)
  \/ IdleFlush(w) \/ SyncRead(w) \/ SyncNothing(w) \/ SyncCas(w) \/ SyncRetry(w)
  \/ AssertTerminate(w) \/ AssertQueue(w) \/ Defer(w)
  \/ \E chunk \in sharedQ : AssertGrab(w, chunk)

Main == Cleanup \/ Join \/ \E w \in Workers : Get(w)

Next == Main \/ Stop \/ Finished \/ \E w \in Workers : Worker(w)

Spec == Init /\ [][Next]_vars

\* The threads are preemptive and the spin loops of other threads do not stop
\* one of them: each thread keeps running.
FairSpec == Spec /\ WF_vars(Main) /\ \A w \in Workers : WF_vars(Worker(w))

(***************************************************************************)
(*                              Properties                                 *)
(***************************************************************************)
WorkerPcs == {"start", "barrier", "loop", "check", "peek", "grab", "succs", "flush",
              "count", "idle", "sync", "cas", "assert", "assertqueue", "defer",
              "exitsync", "exitcas", "done"}
MainPcs == {"waiting", "throwing", "returning", "jointhrow", "joinreturn", "thrown",
            "returned"}

\* The type invariant of the search.
TypeOK ==
  /\ pc \in [Workers -> WorkerPcs]
  /\ visited \in SUBSET States
  /\ cur \in [Workers -> States \cup {NoState}]
  /\ todo \in [Workers -> SUBSET States]
  /\ counter \in Nat
  /\ local \in [Workers -> Nat]
  /\ value \in [Workers -> Nat]
  /\ sharedQ \in SUBSET SUBSET States
  /\ qEmpty \in BOOLEAN
  /\ outgoing \in [Workers -> SUBSET States]
  /\ incoming \in [Workers -> SUBSET States]
  /\ chunkSize \in [Workers -> 2..64]
  /\ terminate \in BOOLEAN
  /\ threw \in SUBSET Workers
  /\ aborted \in BOOLEAN
  /\ main \in MainPcs
  /\ reaped \in SUBSET Workers

\* The open states: stored, accepted, and not yet completely expanded.
Open == (UNION sharedQ) \cup (UNION {outgoing[w] : w \in Workers})
        \cup (UNION {incoming[w] : w \in Workers})
        \cup ({cur[w] : w \in Workers} \ {NoState})

\* Workers between queue.push( s ) and ++ work.
Pending == {w \in Workers : pc[w] \in {"flush", "count"}}

\* One token for each state a worker may still open without touching the
\* shared counter: their number is the sum of local.
Tokens == UNION {{w} \X (1..local[w]) : w \in Workers}

\* What the comment of ApproximateCounter calls "Shared counter - Sum local =
\* actual open count", made exact: a state that was pushed and is not yet
\* counted makes the counter lag by one.
CounterExact == counter + Cardinality(Pending) = Cardinality(Open) + Cardinality(Tokens)

\* "local >= 0, hence shared is an overapproximation of the actual open count":
\* this fails in one window only.  When the counter is 0, every state that is
\* still open is being expanded by a worker that has just published a full chunk,
\* has no credit left, and is about to count the last state of that chunk.
DetectionWindow ==
  counter = 0 => \A s \in Open : \E w \in Workers :
                    cur[w] = s /\ At(w, "count") /\ local[w] = 0 /\ outgoing[w] = {}

\* No edge of s is missing from the hash table, and none was an error.
Expanded(s) == Succ[s] \subseteq visited /\ \A t \in Succ[s] : <<s, t>> \notin ErrorEdges

\* Nothing falls between the queues: whatever happens, a stored state is still
\* open, or ignored, or expanded, or the target of the error edge that ended the
\* search.
NothingLost ==
  \A s \in visited \ Ignored :
    \/ s \in Open
    \/ Expanded(s)
    \/ aborted /\ \E v \in visited : s \in Succ[v] /\ <<v, s>> \in ErrorEdges

\* An open state is in one place: no state is expanded by two workers or twice.
OpenOnce ==
  /\ \A c, d \in sharedQ : c # d => c \cap d = {}
  /\ \A w \in Workers, c \in sharedQ :
       /\ c \cap outgoing[w] = {} /\ c \cap incoming[w] = {} /\ cur[w] \notin c
  /\ \A w, v \in Workers :
       /\ outgoing[w] \cap incoming[v] = {}
       /\ cur[w] \notin outgoing[v] /\ cur[w] \notin incoming[v]
       /\ w # v => /\ outgoing[w] \cap outgoing[v] = {}
                   /\ incoming[w] \cap incoming[v] = {}
                   /\ cur[w] = cur[v] => cur[w] = NoState

\* The ASSERT at the end of a worker: it finds the queue empty.
AssertHolds == \A w \in Workers : At(w, "assertqueue") => incoming[w] = {} /\ sharedQ = {}

\* sync() never clamps: a worker never gives back more than the counter holds.
NeverClamps ==
  \A w \in Workers : pc[w] \in {"cas", "exitcas"} /\ counter = value[w] => local[w] <= counter

\* "This implies partial correctness": when wait() returns from a search that
\* nothing cut short, the whole reachable graph has been stored and none of its
\* edges is an error.
Complete ==
  main = "returned" /\ ~aborted =>
    Initials \subseteq visited /\ \A s \in visited \ Ignored : Expanded(s)

\* wait() hands the caller a quiet search: every worker is gone, and its
\* exception, if any, was not swallowed.
WaitJoins ==
  /\ main \in {"returned", "thrown"} => \A w \in Workers : At(w, "done")
  /\ main = "returned" => threw = {}

\* The search as its caller sees it (module StateSpaceSearch).
Abstract == INSTANCE StateSpaceSearch
              WITH open <- Open, finished <- main \in {"returned", "thrown"}

\* The parallel search implements the abstract one.
ImplementsSearch == Abstract!Spec

\* "Termination follows from proper calls to sync()": the search ends.
Terminates == <>(main \in {"returned", "thrown"})
=============================================================================
