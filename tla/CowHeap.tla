------------------------------ MODULE CowHeap ------------------------------
(***************************************************************************)
(* Objects of the copy-on-write heap (src/divine/mem/cow.hpp, cow.tpp)     *)
(* that workers share: the hash table of objects with its tombstones, and  *)
(* the reference counts of RefPool (src/bricks/brick-mem).                 *)
(*                                                                         *)
(* Of a snapshot, one object is modelled; a snapshot is that object.  The  *)
(* other objects go through the same loop one after another.  A worker     *)
(* loads a snapshot, may write (which gives it an object of its own), takes*)
(* a snapshot, and then either stores it as a new state or puts it.  The   *)
(* hash table is the abstraction of module HashSet in which insert and the *)
(* move of a cell are one step; objects are never reused, so that a use    *)
(* after free shows.                                                       *)
(***************************************************************************)
EXTENDS Naturals, Sequences, FiniteSets, SequencesExt

CONSTANTS Objects,     \* pointers into the pool of objects
          Contents,    \* what an object may contain
          Instances,   \* [workers, limit]: who works, and the maximum of the counter type
          MaxHeld,     \* bound: private snapshots of one worker
          Object0,     \* the object of the initial state, and
          Content0,    \* its content
          None

\* The counters can count the two references of the initial state.  The names of workers
\* and contents differ, so that both can name a holder.
ASSUME CowAssumption ==
  /\ Object0 \in Objects /\ Content0 \in Contents /\ None \notin Objects /\ None \notin Contents
  /\ IsFiniteSet(Contents) /\ MaxHeld \in Nat
  /\ \A i \in Instances :
       /\ IsFiniteSet(i.workers) /\ i.workers \cap Contents = {}
       /\ i.limit \in Nat /\ i.limit >= 2

VARIABLES inst,      \* the instance
          content,   \* the content of each object, None before it is allocated
          count,     \* _obj_refcnt
          freed,     \* objects returned to the pool
          live,      \* objects in the hash table
          tombs,     \* objects in the hash table whose cell is a tombstone
          stored,    \* for each content the snapshot in the table of states, or None
          mine,      \* for each worker its snapshots that are no states (yet)
          base,      \* the snapshot that is loaded
          own,       \* the object in _l.exceptions, or None
          pc, obj,   \* where the worker is, and the object it deals with
          lost       \* history: objects dropped from _l.exceptions by restore

vars == <<inst, content, count, freed, live, tombs, stored, mine, base, own, pc, obj, lost>>
pool == <<content, count, freed>>
table == <<live, tombs>>

Workers == inst.workers

\* Builder::start has stored the initial state; all workers begin with its snapshot.
Init ==
  /\ inst \in Instances
  /\ content = [o \in Objects |-> IF o = Object0 THEN Content0 ELSE None]
  /\ count = [o \in Objects |-> IF o = Object0 THEN 2 ELSE 0]
  /\ live = {Object0} /\ tombs = {} /\ freed = {} /\ lost = {}
  /\ stored = [c \in Contents |-> IF c = Content0 THEN Object0 ELSE None]
  /\ mine = [w \in Workers |-> <<>>]
  /\ base = [w \in Workers |-> Object0]
  /\ own = [w \in Workers |-> None]
  /\ pc = [w \in Workers |-> "run"]
  /\ obj = [w \in Workers |-> None]

Goto(w, label) == pc' = [pc EXCEPT ![w] = label]

\* The worker goes to `label`, or is done with the object.
Continue(w, more, label) ==
  /\ Goto(w, IF more THEN label ELSE "run")
  /\ obj' = IF more THEN obj ELSE [obj EXCEPT ![w] = None]
-----------------------------------------------------------------------------
(* RefPool.  The counter is atomic; a get reads it and increments it in    *)
(* two steps.  A put is one step here: its test for saturation matters only*)
(* at the limit, and between the 0 and the return to the pool only a       *)
(* worker that has not counted its reference yet could touch the object.   *)

Increment(o) == count' = [count EXCEPT ![o] = (@ + 1) % (inst.limit + 1)]

\* Mutant: an object is freed while the hash table still refers to it.
BadPut(o) ==
  /\ count' = [count EXCEPT ![o] = @ - 1]
  /\ freed' = IF count[o] <= 2 THEN freed \cup {o} ELSE freed

\* Mutant: nothing goes back to the pool.
BadPutKeep(o) ==
  /\ count' = [count EXCEPT ![o] = @ - 1]
  /\ freed' = freed

\* A saturated counter is never decremented: its object is immortal.
Put(o) ==
  IF count[o] = inst.limit THEN UNCHANGED <<count, freed>>
  ELSE /\ count' = [count EXCEPT ![o] = (@ + inst.limit) % (inst.limit + 1)]
       /\ freed' = IF count[o] = 1 THEN freed \cup {o} ELSE freed
-----------------------------------------------------------------------------
(* Loading and writing *)

\* Cow::restore: what the worker wrote and did not take a snapshot of is forgotten.
Load(w, s) ==
  /\ base' = [base EXCEPT ![w] = s]
  /\ own' = [own EXCEPT ![w] = None]
  /\ lost' = lost \cup ({own[w]} \ {None})

LoadState(w) ==
  /\ pc[w] = "run"
  /\ \E c \in Contents : stored[c] # None /\ Load(w, stored[c])
  /\ UNCHANGED <<inst, pool, table, stored, mine, pc, obj>>

\* Cow::detach, or a new object: a fresh copy that only this worker knows.
Write(w) ==
  /\ pc[w] = "run" /\ own[w] = None
  /\ LET o == CHOOSE o \in Objects : content[o] = None
     IN  /\ \E p \in Objects : content[p] = None
         /\ \E c \in Contents : content' = [content EXCEPT ![o] = c]
         /\ own' = [own EXCEPT ![w] = o]
  /\ UNCHANGED <<inst, count, freed, table, stored, mine, base, pc, obj, lost>>
-----------------------------------------------------------------------------
(* Cow::snapshot *)

\* An object that was not written is shared with the snapshot that is loaded.
Snapshot(w) ==
  /\ pc[w] = "run" /\ Len(mine[w]) < MaxHeld
  /\ \/ own[w] # None /\ Goto(w, "insert") /\ UNCHANGED obj
     \/ /\ own[w] = None
        /\ Goto(w, "get")
        /\ obj' = [obj EXCEPT ![w] = base[w]]
  /\ UNCHANGED <<inst, pool, table, stored, mine, base, own, lost>>

\* The insert in snap_dedup: an equal object that is in the table is found, and its
\* tombstone revived; without one the worker's own object is stored.
Equal(w) == {o \in live \cup tombs : content[o] = content[own[w]]}

Insert(w) ==
  /\ pc[w] = "insert"
  /\ \/ /\ Equal(w) = {}
        /\ live' = live \cup {own[w]}
        /\ obj' = [obj EXCEPT ![w] = own[w]]
        /\ Goto(w, "tableget")
        /\ UNCHANGED <<freed, tombs>>
     \/ \E o \in Equal(w) :
          /\ live' = live \cup {o}
          /\ tombs' = tombs \ {o}
          /\ freed' = freed \cup {own[w]}
          /\ obj' = [obj EXCEPT ![w] = o]
          /\ Goto(w, "get")
  /\ own' = [own EXCEPT ![w] = None]
  /\ UNCHANGED <<inst, content, count, stored, mine, base, lost>>

\* Mutant: the reference of every cell that is moved is given up.
BadDrop(w) ==
  /\ pc[w] \in {"insert", "erase"}
  /\ \E o \in live \cup tombs : live' = live \ {o} /\ tombs' = tombs \ {o} /\ Put(o)
  /\ UNCHANGED <<inst, content, stored, mine, base, own, pc, obj, lost>>

\* The table grows: rehash_segment drops a tombstone, and ObjHasher::invalidate gives
\* its reference up.
Drop(w) ==
  /\ pc[w] \in {"insert", "erase"}
  /\ \E o \in tombs : tombs' = tombs \ {o} /\ Put(o)
  /\ UNCHANGED <<inst, content, live, stored, mine, base, own, pc, obj, lost>>

\* RefPool::get, first for the reference from the hash table, then for the snapshot.
GetCheck(w) ==
  /\ \/ pc[w] = "tableget" /\ Goto(w, IF count[obj[w]] < inst.limit THEN "tableinc" ELSE "get")
     \/ pc[w] = "get" /\ Goto(w, IF count[obj[w]] < inst.limit THEN "inc" ELSE "taken")
  /\ UNCHANGED <<inst, pool, table, stored, mine, base, own, obj, lost>>

TableGet(w) ==
  /\ pc[w] = "tableinc"
  /\ Increment(obj[w])
  /\ Goto(w, "get")
  /\ UNCHANGED <<inst, content, freed, table, stored, mine, base, own, obj, lost>>

\* Mutant: the snapshot's reference is not counted.
BadTaken(w) ==
  /\ pc[w] \in {"inc", "taken"}
  /\ UNCHANGED count
  /\ mine' = [mine EXCEPT ![w] = Append(@, obj[w])]
  /\ base' = [base EXCEPT ![w] = obj[w]]
  /\ Continue(w, FALSE, "run")
  /\ UNCHANGED <<inst, content, freed, table, stored, own, lost>>

\* The snapshot is complete, and the worker goes on from it.
Taken(w) ==
  /\ pc[w] \in {"inc", "taken"}
  /\ IF pc[w] = "inc" THEN Increment(obj[w]) ELSE UNCHANGED count
  /\ mine' = [mine EXCEPT ![w] = Append(@, obj[w])]
  /\ base' = [base EXCEPT ![w] = obj[w]]
  /\ Continue(w, FALSE, "run")
  /\ UNCHANGED <<inst, content, freed, table, stored, own, lost>>
-----------------------------------------------------------------------------
(* Builder::store, Builder::edges and Cow::snap_put *)

\* A snapshot with a content that is no state yet becomes one, and is kept for good.
Store(w) ==
  /\ pc[w] = "run"
  /\ \E n \in DOMAIN mine[w] :
       LET s == mine[w][n]
       IN  /\ stored[content[s]] = None
           /\ stored' = [stored EXCEPT ![content[s]] = s]
           /\ mine' = [mine EXCEPT ![w] = RemoveAt(@, n)]
  /\ UNCHANGED <<inst, pool, table, base, own, pc, obj, lost>>

\* Others, and snapshots of edges that have to be split, are put and a state is loaded.
\* When it is the loaded snapshot, snap_put leaves the work to restore; that order is the
\* one here.
Discard(w) ==
  /\ pc[w] = "run"
  /\ \E n \in DOMAIN mine[w], c \in Contents :
       /\ stored[c] # None
       /\ obj' = [obj EXCEPT ![w] = mine[w][n]]
       /\ mine' = [mine EXCEPT ![w] = RemoveAt(@, n)]
       /\ Load(w, stored[c])
  /\ Goto(w, "put")
  /\ UNCHANGED <<inst, pool, table, stored>>

SnapPut(w) ==
  /\ pc[w] = "put"
  /\ Put(obj[w])
  /\ Continue(w, count[obj[w]] = 2 /\ count[obj[w]] # inst.limit, "erase")
  /\ UNCHANGED <<inst, content, table, stored, mine, base, own, lost>>

\* The callback of put: only the hash table refers to the object, which is buried there.
\* The cell is read and changed in two steps; when it changed in between, or has been
\* moved, it is left alone or found again.
EraseFind(w) ==
  /\ pc[w] = "erase"
  /\ Continue(w, obj[w] \in live, "bury")
  /\ UNCHANGED <<inst, pool, table, stored, mine, base, own, lost>>

Bury(w) ==
  /\ pc[w] = "bury"
  /\ live' = live \ {obj[w]}
  /\ tombs' = IF obj[w] \in live THEN tombs \cup {obj[w]} ELSE tombs
  /\ Continue(w, FALSE, "run")
  /\ UNCHANGED <<inst, pool, stored, mine, base, own, lost>>

Next ==
  \E w \in Workers :
    \/ LoadState(w) \/ Write(w)
    \/ Snapshot(w) \/ Insert(w) \/ Drop(w) \/ GetCheck(w) \/ TableGet(w) \/ Taken(w)
    \/ Store(w) \/ Discard(w) \/ SnapPut(w) \/ EraseFind(w) \/ Bury(w)

Spec == Init /\ [][Next]_vars
-----------------------------------------------------------------------------
(* Properties *)

Allocated == {o \in Objects : content[o] # None}

\* Snapshots that refer to an object: those of the workers, a state, and one whose put
\* has not begun to count.
Holders(o) ==
  {h \in Workers \X (1..MaxHeld) : h[2] \in DOMAIN mine[h[1]] /\ mine[h[1]][h[2]] = o}
  \cup {<<c, 0>> : c \in {d \in Contents : stored[d] = o}}
  \cup {<<w, 0>> : w \in {v \in Workers : pc[v] = "put" /\ obj[v] = o}}

\* The worker that put o in the table has yet to count the table's reference.
Uncounted(o) == \E w \in Workers : pc[w] \in {"tableget", "tableinc"} /\ obj[w] = o

InTable(o) == o \in live \cup tombs

One(b) == IF b THEN 1 ELSE 0

\* However inserts, burials, growths and puts of the workers mix, the counter of an object
\* that is not back in the pool is the number of snapshots with the object plus the
\* table's reference, less that reference while it is not counted yet, unless the counter
\* is saturated.
CountExact ==
  \A o \in Allocated \ freed :
    \/ count[o] = inst.limit
    \/ count[o] + One(Uncounted(o)) = Cardinality(Holders(o)) + One(InTable(o))

\* An object goes back to the pool only when no snapshot has it and it is not in the
\* table, but for one window: the worker that put it there has not counted the table's
\* reference yet, and another one found the object, took snapshots and put them.
FreedUnused ==
  [][\A o \in freed' \ freed : Uncounted(o) \/ (Holders(o)' = {} /\ ~InTable(o)')]_vars

\* Every object whose counter is 0 is back in the pool, except an object that a worker
\* is writing or inserting and those that restore forgot.
NoLeak ==
  \A o \in Allocated :
    count[o] = 0 => \/ o \in freed \cup lost
                    \/ \E w \in Workers : own[w] = o \/ obj[w] = o

\* With one worker, as in the replay of traces and in the nested search, no snapshot ever
\* has a freed object, and equal objects of snapshots are the same object.
Sequential ==
  Cardinality(Workers) = 1 =>
    \A o, p \in Allocated : Holders(o) # {} /\ Holders(p) # {} =>
      o \notin freed /\ (content[o] = content[p] => o = p)

\* No snapshot has a freed object, also when several workers share the heap.
NoDangling == \A o \in freed : Holders(o) = {}
=============================================================================
