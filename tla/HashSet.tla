------------------------------ MODULE HashSet ------------------------------
(***************************************************************************)
(* The concurrent hash set of the state space (bricks/brick-hashset):      *)
(* insert, find, growth and the co-operative rehashing by which all        *)
(* threads move a table to its successor, over atomic_cell.                *)
(*                                                                         *)
(* Tables form a chain, 1, 2, ...; the next table of t is t + 1, and it    *)
(* exists when t < linked.  Every thread has its own hash_set object, a    *)
(* pointer to a table of the chain.  A step is one access to a cell, to    *)
(* to_rehash or to next.  A cell is looked at once for its invalid() and   *)
(* empty(), and once for match: a change between the two loads of one look *)
(* has the effect of a change right after it.                              *)
(*                                                                         *)
(* Each thread runs a fixed program of insert and find calls.  ASSERTs are *)
(* not evaluated (NDEBUG); what they claim is stated as properties.        *)
(***************************************************************************)
EXTENDS Integers, Sequences, FiniteSets

CONSTANTS Workers,
          Values,
          Class,      \* what adaptor.match compares: two snapshots may be of one state
          Hash,       \* the hash of each class
          Sizes,      \* the sizes of the tables (grow_t), a bound on the growth
          MaxChain,   \* max_chain
          Cluster,    \* hash_table::cluster_size
          Program,    \* the calls each thread makes
          NoValue, Empty, Invalid

Classes == {Class[v] : v \in Values}
Calls == [op : {"insert", "find"}, x : Values]

ASSUME HashSetAssumption ==
  /\ DOMAIN Class = Values
  /\ Hash \in [Classes -> Nat]
  /\ Sizes \in Seq(Nat \ {0}) /\ Sizes # <<>>
  /\ \A t \in 1..Len(Sizes) : Sizes[t] % Sizes[1] = 0
  /\ MaxChain \in Nat /\ MaxChain >= 2
  /\ Cluster \in Nat \ {0}
  /\ Program \in [Workers -> Seq(Calls)]
  /\ IsFiniteSet(Workers)
  /\ {NoValue, Empty, Invalid} \cap Values = {} /\ Empty # Invalid

Tables == 1..Len(Sizes)
Segment == Sizes[1]
segment_count(t) == Sizes[t] \div Segment

VARIABLES
  linked,    \* the last table of the chain
  cell,      \* the cells of each table
  toRehash,  \* hash_table::to_rehash
  pc, table, \* where each thread is, and its _table
  call,      \* the number of calls it has completed
  probe,     \* the loop variable of hash_table::insert and find_generic
  outcome,   \* what its last look into its table said
  value,     \* and the value it returned, or NoValue
  wasnew,    \* the parameter of hash_set::insert
  role,      \* why it rehashes: "user" (not yet), "helper" or "grower"
  seg, pos,  \* the segment it moves, and the cell of that segment
  carry,     \* the value it is moving, or NoValue
  threw,     \* threads whose rehash failed
  done,      \* history: classes some completed insert was called with
  known,     \* history: the class of x was in done when the current call began
  news,      \* history: how often an insert of a class returned isnew
  owned,     \* history: how often it returned the very value it was called with
  missed     \* history: a find did not see a value that it had to see

tableVars == <<linked, cell, toRehash>>
lookVars == <<probe, outcome, value, wasnew>>
moveVars == <<role, seg, pos, carry>>
history == <<done, known, news, owned, missed>>
vars == <<tableVars, pc, table, call, lookVars, moveVars, threw, history>>

At(w, l) == pc[w] = l
Goto(w, l) == pc' = [pc EXCEPT ![w] = l]
Call(w) == Program[w][call[w] + 1]
Inserts(w) == Call(w).op = "insert"
Moving(w) == carry[w] # NoValue

Init ==
  /\ linked = 1
  /\ cell = [t \in Tables |-> [i \in 0..(Sizes[t] - 1) |-> Empty]]
  /\ toRehash = [t \in Tables |-> IF t = 1 THEN segment_count(1) ELSE 0]
  /\ pc = [w \in Workers |-> "idle"]
  /\ table = [w \in Workers |-> 1]
  /\ call = [w \in Workers |-> 0]
  /\ probe = [w \in Workers |-> 0]
  /\ outcome = [w \in Workers |-> "none"]
  /\ value = [w \in Workers |-> NoValue]
  /\ wasnew = [w \in Workers |-> FALSE]
  /\ role = [w \in Workers |-> "user"]
  /\ seg = [w \in Workers |-> 0]
  /\ pos = [w \in Workers |-> 0]
  /\ carry = [w \in Workers |-> NoValue]
  /\ threw = {}
  /\ done = {}
  /\ known = [w \in Workers |-> FALSE]
  /\ news = [c \in Classes |-> 0]
  /\ owned = [c \in Classes |-> 0]
  /\ missed = FALSE

(***************************************************************************)
(* hash_table::index: quadratic probing between clusters, linear within.   *)
(***************************************************************************)
index(h, i, t) ==
  LET j == i % Cluster
      c == i \div Cluster
  IN  (h + j + (3 * c + 2 * c * c) * Cluster) % Sizes[t]

\* The value, the table, the cell and the length of chain of the current loop.
Key(w) == IF Moving(w) THEN carry[w] ELSE Call(w).x
Target(w) == IF Moving(w) THEN table[w] + 1 ELSE table[w]
Slot(w) == index(Hash[Class[Key(w)]], probe[w], Target(w))
Chain(w) == IF Moving(w) THEN (3 * MaxChain) \div 4 ELSE MaxChain
Seen(w) == cell[Target(w)][Slot(w)]

\* Mutant: match compares bits of the hash that the index uses as well.
BadMatches(w) ==
  Seen(w) \in Values /\ Hash[Class[Seen(w)]] % Segment = Hash[Class[Key(w)]] % Segment

\* hash_adaptor::match
Matches(w) == Seen(w) \in Values /\ Class[Seen(w)] = Class[Key(w)]

\* A call of hash_set::insert or find begins.
Begin(w) ==
  /\ At(w, "idle") /\ call[w] < Len(Program[w])
  /\ known' = [known EXCEPT ![w] = Class[Call(w).x] \in done]
  /\ probe' = [probe EXCEPT ![w] = 0]
  /\ wasnew' = [wasnew EXCEPT ![w] = FALSE]
  /\ Goto(w, "look")
  /\ UNCHANGED <<tableVars, table, call, outcome, value, moveVars, threw, done, news, owned, missed>>

(***************************************************************************)
(* The end of a probing loop.  For a call, a full chain leads to grow();   *)
(* everything else is followed by check_outdated().  For a value that is   *)
(* being moved, a chain without room is fatal: the thread stores 0 in      *)
(* to_rehash of the new table and throws.                                  *)
(***************************************************************************)
Answer(w, o) ==
  /\ outcome' = [outcome EXCEPT ![w] = o]
  /\ value' = [value EXCEPT ![w] = CASE o = "new" -> Key(w)
                                     [] o = "found" -> Seen(w)
                                     [] OTHER -> NoValue]
  /\ Goto(w, IF o = "full" /\ Inserts(w) THEN "grow" ELSE "outdated")
  /\ UNCHANGED <<toRehash, pos, carry, threw>>

Moved(w, o) ==
  /\ carry' = [carry EXCEPT ![w] = NoValue]
  /\ IF o \in {"new", "found"}
     THEN /\ pos' = [pos EXCEPT ![w] = @ + 1]
          /\ Goto(w, "move")
          /\ UNCHANGED <<toRehash, threw>>
     ELSE /\ toRehash' = [toRehash EXCEPT ![Target(w)] = 0]
          /\ threw' = threw \cup {w}
          /\ Goto(w, "thrown")
          /\ UNCHANGED pos
  /\ UNCHANGED <<outcome, value>>

EndLoop(w, o) ==
  /\ IF Moving(w) THEN Moved(w, o) ELSE Answer(w, o)
  /\ UNCHANGED probe

\* cell.invalid() and cell.empty()
Look(w) ==
  /\ At(w, "look")
  /\ \/ Seen(w) = Invalid /\ EndLoop(w, "invalid")
     \/ /\ Seen(w) = Empty /\ (Moving(w) \/ Inserts(w)) /\ Goto(w, "store")
        /\ UNCHANGED <<toRehash, probe, outcome, value, pos, carry, threw>>
     \/ /\ Seen(w) \in Values /\ Goto(w, "match")
        /\ UNCHANGED <<toRehash, probe, outcome, value, pos, carry, threw>>
  /\ UNCHANGED <<linked, cell, table, call, wasnew, role, seg, history>>

\* find_generic ends at an empty cell.
FindNothing(w) ==
  /\ At(w, "look") /\ Seen(w) = Empty /\ ~Moving(w) /\ ~Inserts(w)
  /\ EndLoop(w, "full")
  /\ UNCHANGED <<linked, cell, table, call, wasnew, role, seg, history>>

\* cell.try_store( x, h ): a compare-and-swap from the empty cell.
TryStore(w) ==
  /\ At(w, "store")
  /\ IF Seen(w) = Empty
     THEN /\ cell' = [cell EXCEPT ![Target(w)][Slot(w)] = Key(w)]
          /\ EndLoop(w, "new")
     ELSE /\ Goto(w, "match")
          /\ UNCHANGED <<cell, toRehash, probe, outcome, value, pos, carry, threw>>
  /\ UNCHANGED <<linked, table, call, wasnew, role, seg, history>>

\* adaptor.match( cell, x, h ), and the next turn of the loop.
Match(w) ==
  /\ At(w, "match")
  /\ \/ Matches(w) /\ EndLoop(w, "found")
     \/ ~Matches(w) /\ probe[w] + 1 >= Chain(w) /\ EndLoop(w, "full")
     \/ /\ ~Matches(w) /\ probe[w] + 1 < Chain(w)
        /\ probe' = [probe EXCEPT ![w] = @ + 1]
        /\ Goto(w, "look")
        /\ UNCHANGED <<toRehash, outcome, value, pos, carry, threw>>
  /\ UNCHANGED <<linked, cell, table, call, wasnew, role, seg, history>>

\* Mutant: the counter of the new table starts one too high.
BadGrow(w) ==
  /\ At(w, "grow") /\ table[w] < Len(Sizes)
  /\ IF linked = table[w]
     THEN /\ linked' = linked + 1
          /\ toRehash' = [toRehash EXCEPT ![linked + 1] = 0 - segment_count(linked)]
          /\ role' = [role EXCEPT ![w] = "grower"]
     ELSE /\ role' = [role EXCEPT ![w] = "helper"]
          /\ UNCHANGED <<linked, toRehash>>
  /\ Goto(w, "claim")
  /\ UNCHANGED <<cell, table, call, lookVars, seg, pos, carry, threw, history>>

(***************************************************************************)
(* grow(): the thread that links the next table leads the rehashing, any   *)
(* other one throws its table away and helps.  Either way insert starts    *)
(* again, with wasnew = false.                                             *)
(***************************************************************************)
Grow(w) ==
  /\ At(w, "grow") /\ table[w] < Len(Sizes)
  /\ IF linked = table[w]
     THEN /\ linked' = linked + 1
          /\ toRehash' = [toRehash EXCEPT ![linked + 1] = 0 - segment_count(linked) - 1]
          /\ role' = [role EXCEPT ![w] = "grower"]
     ELSE /\ role' = [role EXCEPT ![w] = "helper"]
          /\ UNCHANGED <<linked, toRehash>>
  /\ Goto(w, "claim")
  /\ UNCHANGED <<cell, table, call, lookVars, seg, pos, carry, threw, history>>

\* Mutant: what the interrupted attempt did is forgotten.
BadRestart(w) ==
  /\ probe' = [probe EXCEPT ![w] = 0]
  /\ wasnew' = [wasnew EXCEPT ![w] = FALSE]
  /\ role' = [role EXCEPT ![w] = "user"]
  /\ Goto(w, "look")

\* A call starts over after the table was replaced.
Restart(w) ==
  /\ probe' = [probe EXCEPT ![w] = 0]
  /\ wasnew' = [wasnew EXCEPT ![w] = outcome[w] = "new"]
  /\ role' = [role EXCEPT ![w] = "user"]
  /\ Goto(w, "look")

\* hash_set::insert and hash_set::find return.
ReturnInsert(w) ==
  LET x   == Call(w).x
      new == wasnew[w] \/ outcome[w] = "new"
  IN  /\ Inserts(w)
      /\ done' = done \cup {Class[x]}
      /\ news' = [news EXCEPT ![Class[x]] = @ + IF new THEN 1 ELSE 0]
      /\ owned' = [owned EXCEPT ![Class[x]] = @ + IF value[w] = x THEN 1 ELSE 0]
      /\ UNCHANGED missed

ReturnFind(w) ==
  /\ ~Inserts(w)
  /\ missed' = (missed \/ (known[w] /\ outcome[w] # "found"))
  /\ UNCHANGED <<done, news, owned>>

Return(w) ==
  /\ ReturnInsert(w) \/ ReturnFind(w)
  /\ call' = [call EXCEPT ![w] = @ + 1]
  /\ Goto(w, "idle")

\* Mutant: find returns without check_outdated().
BadCheckOutdated(w) ==
  /\ At(w, "outdated")
  /\ \/ /\ linked = table[w] \/ ~Inserts(w)
        /\ role[w] = "user"
        /\ Return(w)
        /\ UNCHANGED <<probe, wasnew, role, known>>
     \/ /\ linked = table[w] /\ role[w] = "helper"
        /\ Restart(w)
        /\ UNCHANGED <<call, history>>
     \/ /\ linked # table[w] /\ Inserts(w)
        /\ role' = [role EXCEPT ![w] = "helper"]
        /\ Goto(w, "claim")
        /\ UNCHANGED <<call, probe, wasnew, history>>
  /\ UNCHANGED <<tableVars, table, outcome, value, seg, pos, carry, threw>>

(***************************************************************************)
(* check_outdated(): without a next table the call is over, unless this    *)
(* is the inner check after an update; with one, the thread helps.         *)
(***************************************************************************)
CheckOutdated(w) ==
  /\ At(w, "outdated")
  /\ \/ /\ linked = table[w] /\ role[w] = "user"
        /\ Return(w)
        /\ UNCHANGED <<probe, wasnew, role, known>>
     \/ /\ linked = table[w] /\ role[w] = "helper"
        /\ Restart(w)
        /\ UNCHANGED <<call, history>>
     \/ /\ linked # table[w]
        /\ role' = [role EXCEPT ![w] = "helper"]
        /\ Goto(w, "claim")
        /\ UNCHANGED <<call, probe, wasnew, history>>
  /\ UNCHANGED <<tableVars, table, outcome, value, seg, pos, carry, threw>>

(***************************************************************************)
(* rehash_segment( *_table, *next ), in a loop until no segment is left.   *)
(* A helper then waits until to_rehash of the next table is not negative,  *)
(* the grower until it is -1, which says that every segment was moved.     *)
(***************************************************************************)
AfterRehash(w) == IF role[w] = "grower" THEN "spin" ELSE "await"

\* atomic_add_if_nonzero( from.to_rehash, -1 )
Claim(w) ==
  /\ At(w, "claim")
  /\ IF toRehash[table[w]] = 0
     THEN /\ table' = [table EXCEPT ![w] = @ + 1]
          /\ Goto(w, AfterRehash(w))
          /\ UNCHANGED <<toRehash, seg, pos>>
     ELSE /\ toRehash' = [toRehash EXCEPT ![table[w]] = @ - 1]
          /\ seg' = [seg EXCEPT ![w] = toRehash[table[w]] - 1]
          /\ pos' = [pos EXCEPT ![w] = 0]
          /\ Goto(w, "move")
          /\ UNCHANGED table
  /\ UNCHANGED <<linked, cell, call, lookVars, role, carry, threw, history>>

\* Mutant: an empty cell is skipped and stays usable.
BadInvalidate(w) ==
  LET i   == seg[w] * Segment + pos[w]
      old == cell[table[w]][i]
  IN  /\ At(w, "move") /\ pos[w] < Segment
      /\ IF old \in Values
         THEN /\ cell' = [cell EXCEPT ![table[w]][i] = Invalid]
              /\ carry' = [carry EXCEPT ![w] = old]
              /\ probe' = [probe EXCEPT ![w] = 0]
              /\ Goto(w, "look")
              /\ UNCHANGED pos
         ELSE /\ pos' = [pos EXCEPT ![w] = @ + 1]
              /\ UNCHANGED <<cell, pc, carry, probe>>
      /\ UNCHANGED <<linked, toRehash, table, call, outcome, value, wasnew, role, seg, threw, history>>

\* c->invalidate(): what was in the cell is carried to the next table.
Invalidate(w) ==
  LET i   == seg[w] * Segment + pos[w]
      old == cell[table[w]][i]
  IN  /\ At(w, "move") /\ pos[w] < Segment
      /\ cell' = [cell EXCEPT ![table[w]][i] = Invalid]
      /\ IF old \in Values
         THEN /\ carry' = [carry EXCEPT ![w] = old]
              /\ probe' = [probe EXCEPT ![w] = 0]
              /\ Goto(w, "look")
              /\ UNCHANGED pos
         ELSE /\ pos' = [pos EXCEPT ![w] = @ + 1]
              /\ UNCHANGED <<pc, carry, probe>>
      /\ UNCHANGED <<linked, toRehash, table, call, outcome, value, wasnew, role, seg, threw, history>>

\* Mutant: a moved segment is not counted.
BadSegmentDone(w) ==
  /\ At(w, "move") /\ pos[w] = Segment
  /\ IF seg[w] > 0
     THEN Goto(w, "claim") /\ UNCHANGED table
     ELSE Goto(w, AfterRehash(w)) /\ table' = [table EXCEPT ![w] = @ + 1]
  /\ UNCHANGED <<tableVars, call, lookVars, moveVars, threw, history>>

\* ++ to.to_rehash; return id > 0
SegmentDone(w) ==
  /\ At(w, "move") /\ pos[w] = Segment
  /\ toRehash' = [toRehash EXCEPT ![table[w] + 1] = @ + 1]
  /\ IF seg[w] > 0
     THEN Goto(w, "claim") /\ UNCHANGED table
     ELSE Goto(w, AfterRehash(w)) /\ table' = [table EXCEPT ![w] = @ + 1]
  /\ UNCHANGED <<linked, cell, call, lookVars, moveVars, threw, history>>

\* await_update(), and the check_outdated() that follows it.
Await(w) ==
  /\ At(w, "await") /\ toRehash[table[w]] >= 0
  /\ Goto(w, "outdated")
  /\ UNCHANGED <<tableVars, table, call, lookVars, moveVars, threw, history>>

\* while ( _table->to_rehash.load() != -1 );
SeeMoved(w) ==
  /\ At(w, "spin") /\ toRehash[table[w]] = -1
  /\ Goto(w, "open")
  /\ UNCHANGED <<tableVars, table, call, lookVars, moveVars, threw, history>>

\* _table->to_rehash = _table->segment_count(), and insert starts over.
OpenTable(w) ==
  /\ At(w, "open")
  /\ toRehash' = [toRehash EXCEPT ![table[w]] = segment_count(table[w])]
  /\ Restart(w)
  /\ UNCHANGED <<linked, cell, table, call, outcome, value, seg, pos, carry, threw, history>>

\* One more turn of a waiting loop.
Spin(w) ==
  /\ \/ At(w, "await") /\ toRehash[table[w]] < 0
     \/ At(w, "spin") /\ toRehash[table[w]] # -1
  /\ UNCHANGED vars

Thread(w) ==
  \/ Begin(w) \/ Look(w) \/ FindNothing(w) \/ TryStore(w) \/ Match(w) \/ Grow(w)
  \/ CheckOutdated(w) \/ Claim(w) \/ Invalidate(w) \/ SegmentDone(w) \/ Await(w) \/ SeeMoved(w) \/ OpenTable(w)
  \/ Spin(w)

Returned(w) == At(w, "idle") /\ call[w] = Len(Program[w])

Finished ==
  /\ \A w \in Workers : Returned(w) \/ At(w, "thrown")
  /\ UNCHANGED vars

Next == Finished \/ \E w \in Workers : Thread(w)

Spec == Init /\ [][Next]_vars
FairSpec == Spec /\ \A w \in Workers : WF_vars(Thread(w))

(***************************************************************************)
(*                              Properties                                 *)
(***************************************************************************)
Pcs == {"idle", "look", "store", "match", "grow", "outdated", "claim", "move", "await",
        "spin", "open", "thrown"}

\* The type invariant; to_rehash is signed, and a segment number is never negative.
TypeOK ==
  /\ linked \in Tables
  /\ \A t \in Tables : cell[t] \in [0..(Sizes[t] - 1) -> Values \cup {Empty, Invalid}]
  /\ toRehash \in [Tables -> Int]
  /\ pc \in [Workers -> Pcs]
  /\ table \in [Workers -> 1..linked]
  /\ \A w \in Workers : call[w] \in 0..Len(Program[w])
  /\ probe \in [Workers -> 0..(MaxChain - 1)]
  /\ outcome \in [Workers -> {"none", "new", "found", "full", "invalid"}]
  /\ value \in [Workers -> Values \cup {NoValue}]
  /\ wasnew \in [Workers -> BOOLEAN]
  /\ role \in [Workers -> {"user", "helper", "grower"}]
  /\ seg \in [Workers -> Nat]
  /\ pos \in [Workers -> 0..Segment]
  /\ carry \in [Workers -> Values \cup {NoValue}]
  /\ threw \subseteq Workers
  /\ done \subseteq Classes
  /\ known \in [Workers -> BOOLEAN]
  /\ news \in [Classes -> Nat]
  /\ owned \in [Classes -> Nat]
  /\ missed \in BOOLEAN

\* The threads that are moving a segment of table t.
Rehashing(t) == {w \in Workers : table[w] = t /\ (At(w, "move") \/ Moving(w))}

\* The bookkeeping behind to_rehash: while table t is being moved, the counter of
\* its successor says how many segments are not yet moved, claimed or not.
RehashExact ==
  \A t \in Tables :
    t < linked /\ threw = {} /\ toRehash[t + 1] < 0 =>
      0 - 1 - toRehash[t + 1] = toRehash[t] + Cardinality(Rehashing(t))

\* A late store never ends up in a dead table: when a table is opened for use,
\* every cell of its predecessor is invalid.
Sealed ==
  \A t \in Tables :
    t < linked /\ threw = {} /\ toRehash[t + 1] >= -1 =>
      \A i \in DOMAIN cell[t] : cell[t][i] = Invalid

\* What was inserted stays visible: a find that begins after an insert of the same
\* value has returned finds it, whatever is being rehashed meanwhile.
FindSees == threw = {} => ~missed

AllDone == \A w \in Workers : Returned(w)

\* Builder::store, which the search relies on, takes a snapshot for new when insert
\* returns the very snapshot it was called with.  Somebody is always told so: no
\* sequence of growths makes every thread believe that another one has the state.
Claimed == AllDone => \A c \in done : owned[c] >= 1

\* ... and nobody else is: no state is opened twice.
ClaimedOnce == \A c \in Classes : owned[c] <= 1

\* isnew(), which ss::Random and graph_search::store rely on, survives a growth: when
\* an insert of a value has returned, it or another one has been told that the value
\* was new, or one that is still running will be.  This is said of one growth only:
\* the restart passes on the outcome of the last attempt, not its own wasnew, and an
\* insert that is restarted twice forgets.
Inserting(c) == \E w \in Workers : pc[w] \notin {"idle", "thrown"} /\ Inserts(w) /\ Class[Call(w).x] = c
NewReported == linked <= 2 /\ threw = {} => \A c \in done : news[c] >= 1 \/ Inserting(c)

\* Every call returns, through any number of growths, as long as no rehash fails:
\* the leader, the helpers and those who wait for the new table do not wait for
\* each other in a circle.
ReturnsUnlessFailed == <>(threw # {} \/ \A w \in Workers : Returned(w))

\* Every call returns, or throws.
AllReturn == <>(\A w \in Workers : Returned(w) \/ At(w, "thrown"))
=============================================================================
