# A TLA+ verification of DIVINE's core

DIVINE is an explicit-state model checker for C and C++ programs.  `divine check`
compiles a program to LLVM bitcode, runs it in a virtual machine under DiOS (a
small operating system that is itself part of the checked program), and explores
its states with several threads until there is an error, an accepting cycle, or
nothing left.  This project specifies the part that decides whether the verdict
is right: the parallel search, the data structures its threads share, the two
algorithms (safety and liveness) on top, and two parts of DiOS that decide which
states there are at all, the threads and the weak memory of the checked program.

Paths below are relative to the root of the repository.

## 1. Inventory

### The path of a verification

    ui (verify, check)
      -> mc::Job (start, wait with a monitor, result, ce_trace)
           -> mc::Safety: a listener for ss::Search          mc::Liveness: NestedDFS
                -> ss::Search (N threads)                       (one thread)
                     -> shmem::StartDetector, SharedQueue, ApproximateCounter
                     -> mc::Builder: edges() runs the VM, store() inserts the snapshot
                          -> brq::concurrent_hash_set           (states)
                          -> mem::Cow heap                      (objects of snapshots)
                               -> concurrent_hash_set with erase, RefPool
      -> mc::trace replays the counterexample with a search of one thread

| component | state | operations | who touches it |
|---|---|---|---|
| `ss::Search` (divine/ss/search.hpp) | `_terminate`, the threads, a copy of builder and listener per thread | `start`, the workers, `wait`, `stop` | workers, the waiting thread, whoever calls `stop` |
| `ApproximateCounter` (bricks/brick-shmem:240) | a shared `counter`, a private credit `_l` per thread | `++`, `--`, `sync`, `operator bool` | all workers, no lock |
| `SharedQueue` = `Chunked<LockedQueue>` (530-634) | a deque of chunks behind a spin lock, an unlocked `_empty`, two private chunks per thread | `push`, `pop`, `flush`, `empty` | all workers |
| `StartDetector` (308) | two 16-bit atomics | `waitForAll` | all workers |
| `hash_set` (bricks/brick-hashset) | a chain of tables, in each the cells, `to_rehash`, `next`; a private `_table` per thread | `insert`, `find`, `erase`, growth by all threads together | all workers |
| `mc::Builder` (divine/mc/builder.hpp) | the hash set, pools, a context | `start`, `initials`, `edges`, `store` | one copy per worker, shared hash set |
| `mc::Safety` (divine/mc/safety.hpp) | parents in a slave pool, `_error`, `_error_to`, `_error_label`, `_error_found` | the listener, `result`, `ce_trace` | one object for all workers |
| `mc::NestedDFS` (divine/mc/liveness.hpp) | two stacks, flags in a slave pool, the counterexample | `outer`, `inner`, `run` | one thread |
| `mc::Job` (divine/mc/job.hpp) | a future for the search, a monitor | `start`, `wait`, `stop` | two threads |
| `mc::trace` (divine/mc/trace.hpp) | a position in the counterexample | the replay listener | one thread |
| `mem::Cow` (divine/mem/cow.tpp) | objects shared by snapshots, 8-bit reference counts | `snapshot`, `snap_dedup`, `snap_put`, `detach` | all workers |
| `RefPool`, `SlavePool` (bricks/brick-mem) | counters and side data by pool pointer | `get`, `put`, `materialise` | all workers |
| `mc::Weaver`, `mc::Machine` | a task queue | tasks, matched by type | `exec` and unit tests, one thread |
| vm, mem (metadata, definedness, pointers ...) | the memory of one run | the interpreter | private to a worker |
| ltl, smt, sim, dbg, cc, ra, rt, ui, lart | | sequential translation, queries, front ends | one thread |
| DiOS: scheduler, processes (dios/sys), pthreads (dios/libc/pthread, dios/libpthread), weak memory (dios/rst), files (dios/vfs) | tasks, locks, store buffers, inodes of the checked program | system calls | one task at a time, scheduled by the checker |

Vendored code (clang, llvm, lld, compiler-rt, stp, minisat, cryptominisat,
external, libcxx, libm, most of dios/libc) is no part of this.

### What is hard about it

* Termination detection with an approximate counter: the shared counter, the
  private credits and the queue are updated in separate steps, without a lock.
* Growth of the hash set while everybody inserts: cells are invalidated under the
  hands of other threads, tables are replaced twice in a row, a rehash may fail
  in the middle.
* The result of an insert (`isnew`, or "I got my own snapshot back") decides who
  opens a state: one thread must, and only one.
* Ending: an error edge, an exception, `stop()` and the natural end race with each
  other, and `wait()` must join everybody.
* Side data (parents, flags) of a state is written after the state is visible.
* The nested search shares flags among all its inner searches and cuts its lasso
  out of two stacks that hold more than the path.
* Objects of the heap are found in a hash table by threads that have no reference to
  them yet, while others give up the last one; the count of the table's own reference
  comes late, and the counters have 8 bits.
* DiOS follows chains of owners for deadlocks while the chains change, and frees the
  thread objects that mutexes refer to.
* The simulation of store buffers is lazy: what has reached memory is decided by the
  loads, one address at a time, and the decisions must fit one order of stores.

The list with lines, and which property covers which hazard, is under `hazards`
in `PROJECT.json`.

### What makes each component correct

* Search: what is stored is open in one place, expanded, or accounted for by an
  early end; the counter never falls to 0 early; a normal return means that the
  whole graph was seen; it ends.
* Barrier: nobody leaves round n before everybody entered it; no counter wraps;
  nobody gets stuck.
* Hash set: a completed insert stays visible; exactly one insert of a state claims
  it; every segment is moved once; nothing is stored in a dead table; every call
  returns.
* Safety: the verdict is right, the stored edge is an error edge, its source has
  a complete chain of parents.
* Liveness: an accepting cycle is found exactly when there is one, the trace is a
  lasso of the graph, errors are not missed.
* Replay: every error that is reported can be shown.
* Heap: a count is the number of references, no object is freed while a snapshot
  refers to it, equal states have equal snapshots.
* Threads of the checked program: a reported deadlock is one, sleepers and
  references are counted, so that no error of the program is invented or missed.
* Weak memory: every value a load returns is one that x86-TSO allows.

## 2. Modules

| module | models | composed with |
|---|---|---|
| `ParallelSearch` | `ss::Search::pseudoBFS` and `wait`, `ApproximateCounter`, `SharedQueue` | `StateSpaceSearch` by refinement |
| `StateSpaceSearch` | abstract: what any search promises its caller | |
| `StartDetector` | `shmem::StartDetector` | `Barrier` by refinement |
| `Barrier` | abstract: a barrier of several rounds | used by `ParallelSearch` (`Arrive`, `Leave`) as an assumption |
| `HashSet` | `brq::hash_set` over `atomic_cell`, concurrent | |
| `Safety` | `mc::Safety` over an abstract search of several workers | |
| `TraceReplay` | `Safety::ce_trace` and `mc::trace` | extends `Safety`: the replay follows the search |
| `CowHeap` | `mem::Cow` with the tombstones of its hash set, `RefPool`, and the snapshots of `Builder` | |
| `Pthreads` | mutexes, condition variables, barriers, join, detach and cancellation of DiOS | |
| `WeakMemory` | the store buffers of dios/rst/weakmem.cpp | `TotalStoreOrder` observes it |
| `TotalStoreOrder` | reference: the x86-TSO machine, as a function on sets of its states | |
| `NestedDFS` | `mc::NestedDFS` | |
| `...Proofs` | theorems of `ParallelSearch`, `StartDetector`, `HashSet`, `Safety`, `NestedDFS`, `CowHeap`, `Pthreads` and `WeakMemory` | each extends its module |
| `MC...` | instances for TLC | |

Operators called `Bad...`, and those with "Mutant" in their comment, are no part
of any specification.  Each is a plausible mistake in the definition that follows
it, and `mutants` in `PROJECT.json` says which property notices it.

### ParallelSearch

A step is one access to shared memory with the private computation around it.  A
worker goes through the barrier (`Arrive`, `Leave`), tests the loop condition
(`work`, then `_terminate`), peeks at `_empty` without the lock, takes a chunk with
it, pops a state, and yields successors one at a time.  The push of a state, the
publication of a full chunk, and the `++ work` after it are separate steps, as are
the load and the compare-and-swap of `sync()`: one that fails reloads the value.
Spurious failures of `compare_exchange_weak`, which repeat the loop with the same
value and change nothing, are stutters and left out.  The `Defer`
and the destructor of the counter (which syncs once more) are on every way out:
the end of the loop, `Terminate` on an error edge, and any other exception.  The
main thread polls futures, gets exceptions, and runs `cleanup`.  `stop()` can
happen at any time.

Abstracted: a chunk is a set and the queue a set of chunks, since the order
promises nothing; storing a state is atomic (what the hash set really does is
module `HashSet`).  `Checked` says whether `ASSERT` is evaluated (release builds
define `NDEBUG`).

`aborted` is a history variable: an error edge, an exception or `stop()` occurred.

### StartDetector

One step per access to `counter` and `leaveGuard`, which are 16 bits wide (the
arithmetic is modulo `ShortRange`, 65536 in the code).  The spin loops are steps that change nothing, or
guards.

### HashSet

Tables 1, 2, ... are a chain; each thread has its own `_table`.  Steps: a look at a
cell (`invalid`, `empty`), `try_store`, `match`, the CAS on `next`, claiming a
segment, the exchange that invalidates a cell, the insertion of what was in it into
the next table (with the shorter chain), completing a segment, waiting as the leader
(`to_rehash != -1`) or as a helper (`to_rehash < 0`), and opening the new table.  A
rehash that finds no room stores 0 and throws.  A value belongs to a class (the
state it is a snapshot of); `adaptor.match` compares classes, as `mc::Hasher` does.
The history variables count how often inserts of a class said `isnew`, and how
often they returned the value they were called with, which is what
`Builder::store` compares.

Not here: `erase` and tombstones (they are in `CowHeap`), the reference counts of the
tables (no table is freed), the sequential variant.

### Safety

Each assignment of the listener is a step: the parent, `_error_found`, `_error`,
`_error_to`, `_error_label`, then `Terminate`.  The search underneath is reduced to
a set of open states; `Leave` is possible when nothing is open and nobody works, or
when `_terminate` is set.  `Rooted` is the set of states from which the loop in
`ce_trace` gets to the initial state.

### TraceReplay

When all workers are gone and an error was found, `CeTrace` collects the states, and
the second search runs: one step per state that is popped and per edge that its
listener sees.  States are compared by what they are, not by snapshot, as
`ex.equal` does; that the replay overwrites snapshots by ones with debug information
makes no difference then.  Labels are numbers, 0 stands for `std::nullopt`.

### CowHeap

A snapshot is a list of objects; the model has snapshots of one object, since the
loops treat the objects one after another and each has its own count.  A worker
loads a state (`restore`), writes (`detach` gives it a private object), and takes a
snapshot: `Insert` is the insertion in `snap_dedup`, which finds an equal object,
perhaps reviving its tombstone, or stores the own one; `GetCheck` and the increment
after it are the two steps of `RefPool::get`, once for the table's reference and once
for the snapshot.  `Store` and `Discard` are the two outcomes of `Builder::store`, and
`Discard` also the snapshots that `edges` drops.  `SnapPut` decrements; the callback at
1 finds the cell and buries it in two steps (`EraseFind`, `Bury`).  `Drop` is a growth
of the table that meets a tombstone.  Objects are not reused, so that a freed object
that is still referred to shows.  `lost` remembers what `restore` forgot
(`/* fixme leak */`, src/divine/mem/data.hpp:81).  Growth and insertion are atomic
here; what they do in steps is module `HashSet`.

### Pthreads

The program is arbitrary: any thread in user code may make any call.  A call runs
under the interrupt mask and is one action; one that waits drops the mask and is two
(`Lock` and `LockEnd`, `CondWait` and `CondWaitEnd`, ...).  A call that is scheduled and
still cannot go on ends in `__vm_cancel`: this schedule is not followed, so the second
action is not enabled.  A fault ends the run; the flag `deadlocked`, which is set only
behind a fault, is left out.  `CheckDeadlock` follows the owners as the loop does and
says `endless` where the loop does not end.  All threads exist in the beginning.

What the model shows beside the properties: the comment at
src/dios/libc/pthread/pthread-mutex.cpp:40 ("the cycle is detected first time it occurs,
therefore it must go through this mutex") holds only if a member of the circle is the
next to be scheduled; a third thread that waits for one of them runs in the circle for
ever (`EndlessOutside` says that this is the only way).  The assertion of `_cond_signal`
fails after a thread was cancelled on its way into a wait (`SleepersCounted`).

### WeakMemory

Threads run straight-line programs that `Init` chooses from a family.  Operators on
`[mem, buf]` are the helpers of weakmem.cpp and return the set of outcomes of their
`__vm_choose`; one action per entry point of the runtime.  Addresses do not overlap in
part.  `machine` is a history variable with all states of the x86-TSO machine that
explain the results so far; a run is one of x86-TSO when it never becomes empty.
A flush of a part of a buffer (`Flush`) stores the lines that match up to some line and
commits the others before it.  `FlushEligible` has the loop in `tso_load` as it is: its
`continue` skips `++ id`, so that the buffers after the one kept for the end replace it
and are not flushed.  That only removes behaviours.

### NestedDFS

One step per turn of the loops in `outer` and `inner`.  The graph is a variable
that `Init` chooses from a family and nothing changes, so that one run covers all
graphs of a family, in each with all orders of the edges.  `counterexample` holds
the fragments as the code copies them from the stacks.

## 3. Runs

| run | checks | instance, and why it is enough |
|---|---|---|
| `search_pair` | `CounterExact`, `OpenOnce`, `NeverClamps`, `DetectionWindow`, `NothingLost`, `WaitJoins` | 2 workers, 7 states, `Step` = 3 so that credits run out and are refilled in the middle; the root has more successors than a chunk takes, so chunks are published while their last state is uncounted and two workers expand at once; an error edge and a correct one lead to the same state; exceptions and `stop()` anywhere |
| `search_whole` | `Complete`, `AssertHolds`, `ImplementsSearch`, `Terminates` | 2 workers, 8 states, an ignored one, joining paths and a cycle, `Step` = 2; no error edge, since one would end every search by `_terminate`: only the counter, given back by idle workers, can end it. No worker fills a chunk with its credit used up while another one holds the rest of the open states, so the window of `DetectionWindow` is not reached and two workers are as good as one; the theorems say the same of one worker on every graph |
| `start_rounds` | `BarrierHolds`, `NoWrap`, `ImplementsBarrier`, `AllReturn` | 4 threads, 3 rounds: a fast thread meets slow ones of the previous round |
| `hash_grow` | `RehashExact`, `Sealed`, `FindSees`, `Claimed`, `NewReported`, `ReturnsUnlessFailed` | 2 threads, tables of 4, 8 and 16 cells in segments of 4, chains of 2 cells: two growths, the second one with two segments; depending on the order of the calls a rehash fails |
| `ndfs_plain` | `FlagMatchesStack`, `StacksThreaded`, `GenuineTrace`, `NoCycleMissed`, `NoErrorMissed`, `Terminates` | every graph of 3 reachable states (up to renaming) with up to 2 ordered edges per state, accepting or not, of which one state may be entered by error edges only |
| `safety_listener` | `ParentsInPlace`, `Verdict`, `ErrorIsEdge`, `Replayed` | 3 workers, 5 states, one error edge, next to a correct edge between the same states, to a state that has another parent in some behaviours; then the replay |
| `heap_count` | `CountExact`, `NoLeak`, `Sequential`, `FreedUnused` | 4 objects of 2 contents, up to 2 snapshots in the hands of each worker; 2 workers far from the limit of the counter, and 1 worker with a limit of 3, which it reaches: tombstones are made, revived and dropped, objects are shared by states and private snapshots |
| `pthread_calls` | `DeadlockReal`, `EndlessOutside`, `SleepersCounted`, `RefsSuffice` | 3 threads, a normal and a recursive mutex, a condition variable, a barrier of 2: the least with a circle of two and a third thread outside; one cancellation, one detach, 2 recursive locks, counts up to 3 |
| `weakmem_litmus` | `Explained`, `CommittedFirst` | the litmus tests of test/weakmem/x86-tso, one with longer buffers, and all programs of 2 threads with 2 operations each (stores, loads, fences, swaps, strong and weak compare-and-swaps), with buffers of one line or of any size |

Three more runs expect a violation.  Each is a disagreement between the code and
what a comment or a document of the repository says (`findings` in `PROJECT.json`
quotes it):

* `search_chunk`, `Complete`: with two workers, the counter can be 0 while a
  published chunk has an uncounted state; a worker that sees it leaves and sets
  `_terminate`, and `wait()` returns normally with an error edge never looked at.
  The comment in brick-shmem derives partial correctness from "local ≥ 0", which
  the push before the count breaks.  `DetectionWindow` (checked and proved) says that
  this is the only way.
* `ndfs_late`, `NoErrorMissed`: an error edge to a state that was visited before is
  not noticed by the liveness algorithm.
* `weakmem_order`, `Explained`: a fence takes a store of another thread that an earlier
  load has committed for one that may come later, and its own store to the same
  location is overwritten by the older one.  The program has two operations more than
  the small ones of `weakmem_litmus`.

Further configurations, each of which TLC finds violated:

* `MCHashSet_claim.cfg` (`ClaimedOnce`): a state whose cell is invalidated during an
  insert of it is stored a second time, which contradicts the assertion at
  src/bricks/brick-hashset:709; with three threads the copy can replace the original,
  two inserts both get their own snapshot back, and `Builder::store` calls both new.
* `MCHashSet_stall.cfg` (`AllReturn`): when a helper's rehash fails, the leader of the
  growth spins forever, although the code stores 0 "to prevent stalls and deadlocks"
  (src/bricks/brick-hashset:715).
* `MCSafety_torn.cfg` (`ErrorIsEdge`): two workers that find an error each can leave a
  mixture of two edges in the members of `Safety`, which the replay does not find.
* `MCCowHeap_race.cfg` (`NoDangling`): a worker finds an object whose last reference
  another one gives up, and has a snapshot with a freed object.
* `MCCowHeap_limit.cfg` (`CountExact`): two workers that have compared the counter below
  its limit both increment it, and it wraps.

Bounds: a run bounds the graph, the number of threads, and in `HashSet` the calls
and the number of tables; `MaxRounds` bounds the rounds of the barrier, `MaxHeld` the
snapshots of a worker in `CowHeap` (and `Objects` the allocations), and `MaxLocks`,
`MaxRefs`, `MaxCancelled` and `MaxDetached` the calls in `Pthreads`, where recursive
locks would raise the count of a thread without end.  No counter is capped otherwise.
Symmetry (permutations of workers or threads) is used for invariants only, in
`search_pair`, `search_chunk` and `pthread_calls`, where all of them may do the same.
`CHECK_DEADLOCK` is off where the system may stop: when the programs of `WeakMemory`
have ended, when a fault or endless waiting ends a program of `Pthreads`, and when the
objects of `CowHeap` are used up.

Fairness: each thread is weakly fair, and so is the thread in `wait()`.  The threads
are those of `std::async`, scheduled preemptively by the operating system, and
a thread that spins does not hold up another.  Nothing is assumed of particular
actions: a compare-and-swap lost to another thread, or a scheduler that always runs
the wrong thread first, must not keep the search from ending.  That a
`compare_exchange_weak` does not fail spuriously for ever is assumed, since such
failures are stutters of the model.  The replay is the code of one thread and weakly
fair.  Nothing is assumed fair of the checked program in `Pthreads` and `WeakMemory`.

## 4. Theorems

All proofs are checked by TLAPS for every value of the constants that the module
allows: any finite graph, number of workers, `Step`, error edges, ignored states.

`ParallelSearchProofs`:

* `TypeCorrect`: type correctness.
* `CounterIsExact`: `counter + |Pending| = |Open| + |Tokens|`.  It is not inductive
  alone: that a push adds one to `Open` needs that the state was open nowhere else
  (`OpenOnce`), which needs that open states are stored (`OpenStored`), and that a
  worker has a state exactly while it is expanding one (`Placed`).  So
  `Inv == TypeOK /\ Placed /\ OpenOnce /\ OpenStored /\ CounterInv`; each part is
  shown to be preserved by each action, where the cardinality lemmas
  (`TokensStep`, `PendingAdds`, `OpenStep` ...) say how an action changes the sizes.
* `OpenedOnce`, `SyncNeverClamps`, `OnlyWindow` follow from `Inv`.
* `NoStateLost`: `NothingLost`, with `Tracked` (while a state is expanded, the
  successors not yet yielded are in `todo`, the others are stored).
* `SingleComplete`: with one worker `Complete` holds, because the one worker cannot
  see the counter at 0 in its own window (`QuietStep`).
* `WaitJoinsAll`: `WaitJoins`, with `Reaped` (who was reaped is gone, who has
  gone stays gone).
* `SingleRefines`: with one worker the search implements `StateSpaceSearch`.

With two workers `Complete` is false, so there is no theorem.

* `SingleAssertHolds`: with one worker the assertion after the loop holds
  (`AssertHolds`): the worker that evaluates `queue.empty()` has left the loop when
  nothing was open and has no chunk (`ChunksFull`, `Drained`).

`StartDetectorProofs`, for any finite, non-empty set of threads that is smaller than
the range of an unsigned short (`StartAssumption`) and any number of rounds:

* `BarrierIsHeld`, `CountersNeverWrap`, `DetectorRefines`.  The properties compare
  rounds; what keeps them is the cycle that the two counters go through: the threads
  come in one after another with `leaveGuard` at 0 (`Gathering`), the last one is in and
  sets the guard (`Full`), the guard counts the threads down while the fast ones are
  already back in front of it (`Leaving`).  `Inv` is type correctness, `Ahead` (a thread
  is one round ahead while it is inside) and the disjunction of the three phases; each
  step stays in a phase or goes on to the next one.  For the refinement only the last
  increment and the way out of the spin loop are steps of `Barrier`.

`SafetyProofs`, for every graph and non-empty set of workers:

* `ParentsAreInPlace`: `ParentsInPlace`.  The parent of a
  state is written after the state is stored and before it is pushed.  The
  invariant says that the writer is the only one who writes (`Writing`: two workers
  in that place have different targets, and there is no parent yet), that states not
  stored have no parent (`Fresh`), and that a state about to be pushed has its chain
  (`Pushing`).  `RootedGrows` is the heart: a parent written for the first time, with
  a source that is itself rooted, breaks no chain and completes one.  It rests on
  one assumption about the hash set, that only one worker is told that a state is
  new, which is property `ClaimedOnce` of `HashSet` and can fail (`MCHashSet_claim.cfg`).
* `VerdictIsRight`: `Verdict`.  One half is soundness: what is stored is reachable, and
  whoever is about to set `_error_found` is at an error edge (`Sound`).  The other half is
  `Covered`, which holds until an error is found: a stored state is open, taken, on
  its way to be pushed, or all its edges were followed and none is an error edge.  When
  a worker is gone nothing is open or taken, so that the stored states are closed under
  the edges and contain the reachable ones.
* `ErrorIsRecorded`: `ErrorIsEdge`, if there is one worker or one error edge in the graph.
  The four members are written one after another; the invariant (`Recorded`) says
  which of them are already those of the edge.  Without the hypothesis the property is
  false (`MCSafety_torn.cfg`).

`NestedDFSProofs`, for every finite or infinite graph with finitely many edges of each
state, in every order of the edges:

* `FlagsMatchStack` and `StacksArePaths` need that states have their flags as soon as they
  are stored (`Begun`), so that `init_state` never resets a flag that is in use, and that
  the state of an item without predecessor is the initial one or the seed (`Rooted`).
* `NoAcceptingCycleMissed`.  The nested searches share `inner_visited`, so a nested search
  alone proves nothing.  `Nested` says that what all of them saw was left by
  the outer search before, and that its successors were seen or wait.  When one ends
  (`NestedEnd`), nothing waits: `inner_visited` is closed, contains the seed, and has no
  state of the outer path, so that none of these is reachable from the seed.  `Outer` carries this on:
  every edge of a state the outer search left was followed, and if it is
  accepting it is on no cycle; the edges of the states on the path are done with too,
  or wait above, or the nested search is about them.
* `FoundIsThere`: what is reported is there.  The outer path leads to all of its stack
  (`Leads`), and the accepting edge that a nested search is about starts at the end
  of that path (`Accepts`), so that a way back to any of its states closes a cycle.
* `TraceIsGenuine` (`GenuineTrace`): the fragments of the two stacks, put together, are a
  run.  `Path` keeps the expanded items of a fragment; each of them is a successor of the one
  before it (`Chained`, from `StacksRooted`), so that what is collected is a walk through all of
  them (`Collected`, by induction over the items).  `TopRun` is about a lasso, or an
  error, of the outer stack alone; `InnerRun` joins three walks: the outer path, whose
  end has the accepting edge to the seed, the nested path from the seed to the state that
  closes the lasso, and what is above that state's position on the outer stack.  If the
  nested search comes back to its seed, the accepting edge is the last one, or
  the seed is on the outer path too.
* `NoFaultyStateMissed`: `NoErrorMissed`, if the edges to a state are all error edges or none
  is, and no error edge leads to the initial state (`FaultyStates`).  Nothing in the
  code guarantees this, and `ndfs_late` shows that it cannot be left out.

`CowHeapProofs`, for any number of workers, objects and contents:

* `CountsAreExact`, `FreedIsUnused`, `NothingLeaks`.  The invariant `Exactly` says that the
  count, plus one if the table's reference is not counted yet, is the number of
  holders plus one for the table.  It needs to know who may be about to count
  (`OneCounts`), that what a worker writes is known to nobody (`Private`), and that the
  check in `RefPool::get` still holds at the increment (`Checked`).  The last is true
  when no other worker can raise the counter to its limit in between.  Hence the
  hypothesis `Roomy`: there is one worker, or the limit is higher than the number of
  references that workers, states and the table can have.  Beyond it the property is
  false (`MCCowHeap_limit.cfg`).  `CountExact` speaks of objects that are not in
  the pool: with three workers an object that was freed through the uncounted window
  is still referred to, and its counter may wrap.
* `OneWorkerIsSafe`: with one worker, whatever the limit, no snapshot has a freed object
  and equal objects are one.

`PthreadsProofs`, for finite sets of threads and mutexes and any conditions and barriers
(`PthreadAssumption`):

* `SleepersAreCounted` and `ReferencesSuffice`.  Besides types the invariant says who runs
  and who sleeps (`Alive`), and that `waiting_mutex` is the mutex whose `lock` the
  thread is in, which another one owns (`Blocked`).  A call changes the counter of one
  condition, or moves a reference of one mutex; the lemmas on cardinalities say by how much.
* `ReportedDeadlockIsReal`, `EndlessIsOutside`.  `CheckDeadlock` follows the owners with a
  recursive function on the number of steps.  The proof needs no induction over
  it: the threads that the loop visits are the values of an iterated function
  (`Iterate`, by the library's theorem on definitions by recursion), there is a least
  number at which the loop stops (`Least`), and the threads visited before that are the
  circle (`CircleFound`, `CircleOutside`).

`HashSetProofs`, for any finite set of threads, any programs of calls, hash function,
`MaxChain` of 2 or more, and table sizes that are multiples of the first
(`HashSetAssumption`):

* `RehashIsExact`, `LeftTablesAreSealed`, `InsertedIsFound`.  These are about runs in
  which no rehash has failed, as the properties themselves are: after a failure
  `to_rehash` is set to 0 and the values that were not moved are given up.
* The invariant (`Inv`) has three parts.  `Basic` places the threads and holds always;
  it alone gives `TypesHold`.  `Accounts` is the bookkeeping: there is one grower
  (`OneGrower`), only the last table can be closed (`Counts`), and of the segments that
  were claimed all is invalid but what lies ahead of a thread that is moving them
  (`Covered`).  `Contents` is about the values: each class that was inserted is in a
  table, where a look from the start of its probing sequence comes to it, or a thread
  carries it (`Kept`), and a thread half way through the sequence has not gone past it
  (`Looks`).
* The three depend on each other.  A segment counted as moved is invalid only because
  its mover goes on to its end, a table that is open and last holds all that
  was inserted because its predecessors are invalid (`LastHolds`), and a find in an
  older table is restarted because of that.  A cell never becomes empty again, and one
  that holds a value changes only to invalid: so what was passed need not be looked at
  again.
* `SomebodyOwns` (`Claimed`) and `NewIsReported` (`NewReported`): who is told that a state
  is new.  Both are about the end of a run, and need what goes before (`Told`).  A class
  is in the last table once at most, on its probing sequence (`Once`); so a thread that
  returns the value of another one has its own value nowhere, and the value it returns
  is in the table.  Every value that is in a table, or carried to the next one, belongs
  to an insert that still runs, unless an insert of its class has returned its own value
  before (`Owners`).  When all have returned, only the second is left.  `Reports` says the
  same of `isnew`, through the first growth: the insert that stored the value, or has it
  in its `wasnew` over the restart, still runs or has said so.  A value may be inserted
  any number of times.  That everybody returned must mean that no rehash failed: who has
  thrown stays where it is (`ThrownStay`).  `ClaimedOnce` is false and has no theorem.

`WeakMemoryProofs`, for any finite set of threads, any locations and programs whose
instructions have the operands they use (`WeakMemoryAssumption`), buffers of any size:

* `CommittedAreOldest` (`CommittedFirst`).  A flush that ends at some line keeps the lines
  before it that do not match and marks all of them, and leaves those behind as they are
  (`FlushOrdered`); so a buffer that was ordered stays so, wherever the flush ends.
  `Inv` says that of all buffers.  Each helper of the runtime takes a state in `Sound` to
  states in `Sound` (`FlushBuffersSound`, `TsoLoadSound`, `FlushAllSound` ...), since
  several are called within one action.  What a recursive function over the lines
  yields comes from `Recursion` and `Climb`, an induction over the lines of one buffer.

Only model-checked:

* all liveness properties (the prover does not do fairness and ENABLED), and the
  replay (`Replayed`);
* `Explained` of `WeakMemory`.  It cannot be a theorem: `weakmem_order` shows a program of
  six operations that breaks it.  The run checks it for the litmus tests and for all
  programs of its size.

## 5. Plan

Models that could be added:

1. `refcount_ptr` of the tables: no table is freed while a thread is in it.
2. `mc::Job::wait` and the monitor; the DFS order of `ss::Search` against
   `StateSpaceSearch`.
3. The fair scheduler of DiOS (groups against the promise of fairness), read-write
   locks, thread-specific data and the exit of the main thread.
4. `Fifo` of brick-shmem against a sequence; `Weaver`; LTL to Büchi against the
   semantics on lassos.

## 6. Not modelled

`components` in `PROJECT.json` gives the reason for each part.  The interpreter,
the heap layers around `Cow`, the SMT back ends and the LLVM passes are sequential
and work on bytes or program text; what the search sees of them is a graph, which
is a constant here.  Front ends, statistics, tracing and drawing are left out.
