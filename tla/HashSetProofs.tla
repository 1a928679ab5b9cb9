---------------------------- MODULE HashSetProofs ---------------------------
(***************************************************************************)
(* The rehashing of HashSet, for any threads, programs, hash functions and *)
(* table sizes: the counters are exact, a table that was left is sealed,   *)
(* a value whose insert has returned is found, and somebody is told that   *)
(* it is new.                                                              *)
(***************************************************************************)
EXTENDS HashSet, FiniteSetTheorems, TLAPS

Content == Values \cup {Empty, Invalid}
Slots(t) == 0..(Sizes[t] - 1)
CellMaps == UNION {[Slots(t) -> Content] : t \in Tables}

\* TypeOK, in the form that the provers need of cell and call.
Types ==
  /\ TypeOK
  /\ cell \in [Tables -> CellMaps]
  /\ call \in [Workers -> Nat]

\* The table of a thread is open, unless the thread waits for it; one that helps has the
\* table that is being left.
Where(w) ==
  /\ pc[w] \notin {"idle", "thrown"} => call[w] < Len(Program[w])
  /\ Moving(w) => pc[w] \in {"look", "store", "match"} /\ pos[w] < Segment
  /\ pc[w] \in {"claim", "move"} \/ Moving(w) => table[w] < linked
  /\ pc[w] \notin {"await", "spin", "open"} => toRehash[table[w]] >= 0

Signs ==
  \A t \in Tables :
    /\ t < linked => toRehash[t] >= 0
    /\ t > linked => toRehash[t] = 0

Basic == Types /\ (\A w \in Workers : Where(w)) /\ Signs

\* The grower leads the rehashing into the last table, which is not open.
Role(w) ==
  /\ pc[w] \in {"claim", "move"} \/ Moving(w) => role[w] # "user"
  /\ pc[w] = "await" => role[w] = "helper"
  /\ pc[w] \in {"spin", "open"} => role[w] = "grower"
  /\ pc[w] = "open" => toRehash[table[w]] = -1
  /\ role[w] = "grower" =>
       /\ toRehash[linked] < 0
       /\ pc[w] \in {"claim", "move", "spin", "open"} \/ Moving(w)
       /\ table[w] = IF pc[w] \in {"spin", "open"} THEN linked ELSE linked - 1

OneGrower == \A v, w \in Workers : role[v] = "grower" /\ role[w] = "grower" => v = w

\* Once a table is open, nothing is left to be moved into it.
Counts ==
  \A t \in Tables :
    t < linked =>
      IF toRehash[t + 1] < 0
      THEN 0 - 1 - toRehash[t + 1] = toRehash[t] + Cardinality(Rehashing(t))
      ELSE toRehash[t] = 0 /\ Rehashing(t) = {}

LastOpen == toRehash[linked] >= 0 => toRehash[linked] = segment_count(linked)

\* The cells of its segment that w still has to invalidate.
Ahead(w) ==
  {i \in Nat : /\ seg[w] * Segment + pos[w] + (IF Moving(w) THEN 1 ELSE 0) <= i
               /\ i < seg[w] * Segment + Segment}

\* Of the claimed segments, everything is invalid but what lies ahead of a thread.
Covered ==
  \A t \in Tables : \A i \in Slots(t) :
    t < linked /\ i >= toRehash[t] * Segment =>
      cell[t][i] = Invalid \/ \E w \in Rehashing(t) : i \in Ahead(w)

\* No cell of the last table is invalid.
LastValid == \A t \in Tables : \A i \in Slots(t) : t >= linked => cell[t][i] # Invalid

Accounts == (\A w \in Workers : Role(w)) /\ OneGrower /\ Counts /\ LastOpen /\ Covered /\ LastValid

\* The probing sequence of hash h in t has no empty cell before its n-th.
Reaches(h, t, n) == \A k \in Nat : k < n => cell[t][index(h, k, t)] # Empty

\* A look for class c in table t that has come to the n-th cell finds it.
Placed(c, t, n) ==
  \E j \in Nat :
    /\ n <= j /\ j < MaxChain
    /\ Reaches(Hash[c], t, j)
    /\ cell[t][index(Hash[c], j, t)] \in Values
    /\ Class[cell[t][index(Hash[c], j, t)]] = c

\* Nothing that was inserted is lost: it is in a table or on its way to the next one.
Kept ==
  \A c \in done :
    \/ \E t \in 1..linked : Placed(c, t, 0)
    \/ \E w \in Workers : Moving(w) /\ Class[carry[w]] = c

Wanted(w) == Class[Call(w).x]

\* What a thread that is in a call knows of the last table.
Looks(w) ==
  /\ pc[w] \in {"look", "store", "match"} => Reaches(Hash[Class[Key(w)]], Target(w), probe[w])
  /\ pc[w] = "match" => Seen(w) # Empty
  /\ pc[w] = "store" /\ ~Moving(w) => Inserts(w)
  /\ pc[w] # "idle" /\ known[w] => Wanted(w) \in done
  /\ pc[w] \in {"look", "match"} /\ ~Moving(w) /\ ~Inserts(w) /\ known[w] /\ table[w] = linked =>
       Placed(Wanted(w), linked, probe[w])
  /\ pc[w] = "outdated" /\ role[w] = "user" /\ table[w] = linked =>
       IF Inserts(w) THEN Placed(Wanted(w), linked, 0) ELSE known[w] => outcome[w] = "found"

Contents == Kept /\ (\A w \in Workers : Looks(w)) /\ ~missed

Inv == Basic /\ (threw = {} => Accounts /\ Contents)
-----------------------------------------------------------------------------
(* Tables, cells and keys *)

LEMMA TableSizes ==
  ASSUME NEW t \in Tables
  PROVE  /\ Sizes[t] \in Nat \ {0} /\ Segment \in Nat \ {0} /\ segment_count(t) \in Nat
         /\ segment_count(t) * Segment = Sizes[t]
         /\ 1 \in Tables /\ Len(Sizes) \in Nat
<1>1. Sizes \in Seq(Nat \ {0}) /\ Sizes # <<>> /\ Len(Sizes) \in Nat /\ Sizes[t] % Sizes[1] = 0
  BY HashSetAssumption DEF HashSetAssumption, Tables
<1>2. Len(Sizes) >= 1
  BY <1>1
<1>3. Sizes[t] \in Nat \ {0} /\ Sizes[1] \in Nat \ {0} /\ 1 \in Tables
  BY <1>1, <1>2 DEF Tables
<1>4. ASSUME NEW n \in Nat \ {0}, NEW d \in Nat \ {0}, n % d = 0
      PROVE  n \div d \in Nat /\ (n \div d) * d = n
  BY <1>4
<1> QED BY <1>1, <1>3, <1>4 DEF Segment, segment_count

LEMMA IndexSlot ==
  ASSUME NEW h \in Nat, NEW i \in Nat, NEW t \in Tables
  PROVE  index(h, i, t) \in Slots(t)
<1>1. Sizes[t] \in Nat \ {0} /\ Cluster \in Nat \ {0}
  BY TableSizes, HashSetAssumption DEF HashSetAssumption
<1> DEFINE j == i % Cluster
           c == i \div Cluster
<1>2. j \in Int /\ c \in Int
  BY <1>1
<1> HIDE DEF j, c
<1>3. 3 * c + 2 * c * c \in Int
  BY <1>2
<1>4. (3 * c + 2 * c * c) * Cluster \in Int
  BY <1>1, <1>3
<1> DEFINE a == (3 * c + 2 * c * c) * Cluster
<1> HIDE DEF a
<1>5. a \in Int
  BY <1>4 DEF a
<1>6. h + j + a \in Int
  BY <1>2, <1>5
<1>7. (h + j + a) % Sizes[t] \in 0..(Sizes[t] - 1)
  BY <1>1, <1>6
<1>8. index(h, i, t) = (h + j + a) % Sizes[t]
  BY DEF index, j, c, a
<1> QED BY <1>7, <1>8 DEF Slots

LEMMA ClassHash ==
  ASSUME NEW x \in Values
  PROVE  Class[x] \in Classes /\ Hash[Class[x]] \in Nat
BY HashSetAssumption DEF HashSetAssumption, Classes

LEMMA CallInProgram ==
  ASSUME Types, NEW w \in Workers, call[w] < Len(Program[w])
  PROVE  Call(w) \in Calls /\ Call(w).x \in Values /\ call[w] + 1 \in 0..Len(Program[w])
<1>1. Program[w] \in Seq(Calls)
  BY HashSetAssumption DEF HashSetAssumption
<1>2. Len(Program[w]) \in Nat /\ call[w] \in Nat
  BY <1>1 DEF Types
<1>3. call[w] + 1 \in 1..Len(Program[w])
  BY <1>2
<1>4. Call(w) \in Calls
  BY <1>1, <1>2, <1>3 DEF Call
<1> QED BY <1>2, <1>3, <1>4 DEF Calls

Probing(w) == pc[w] \in {"look", "store", "match"}

LEMMA KeyFacts ==
  ASSUME Basic, NEW w \in Workers, Probing(w)
  PROVE  /\ Key(w) \in Values /\ Class[Key(w)] \in Classes /\ Hash[Class[Key(w)]] \in Nat
         /\ Target(w) \in Tables /\ Target(w) \in Nat
         /\ Target(w) = (IF Moving(w) THEN table[w] + 1 ELSE table[w])
         /\ Slot(w) \in Slots(Target(w)) /\ Seen(w) \in Content
         /\ Seen(w) = cell[Target(w)][Slot(w)]
         /\ Slot(w) = index(Hash[Class[Key(w)]], probe[w], Target(w))
         /\ Target(w) \in 1..linked /\ probe[w] \in 0..(MaxChain - 1)
         /\ Chain(w) \in Nat /\ Chain(w) <= MaxChain
         /\ call[w] < Len(Program[w])
<1>1. call[w] < Len(Program[w]) /\ (Moving(w) => table[w] < linked)
  BY DEF Basic, Where, Probing
<1>2. Call(w).x \in Values
  BY <1>1, CallInProgram DEF Basic
<1>3. /\ carry[w] \in Values \cup {NoValue} /\ table[w] \in 1..linked /\ linked \in Tables
      /\ probe[w] \in 0..(MaxChain - 1) /\ MaxChain \in Nat
  BY HashSetAssumption DEF Basic, Types, TypeOK, HashSetAssumption
<1>4. Key(w) \in Values
  BY <1>2, <1>3 DEF Key, Moving
<1>5. Class[Key(w)] \in Classes /\ Hash[Class[Key(w)]] \in Nat
  BY <1>4, ClassHash
<1>6. Target(w) \in 1..linked /\ linked \in 1..Len(Sizes) /\ Len(Sizes) \in Nat
  <2>1. Sizes \in Seq(Nat \ {0})
    BY HashSetAssumption DEF HashSetAssumption
  <2>2. Len(Sizes) \in Nat /\ linked \in 1..Len(Sizes)
    BY <1>3, <2>1 DEF Tables
  <2>3. linked \in Nat /\ table[w] \in Nat /\ 1 <= table[w] /\ table[w] <= linked
    BY <1>3, <2>2
  <2>4. Target(w) \in 1..linked
    BY <1>1, <2>3 DEF Target
  <2> QED BY <2>2, <2>4
<1>7. Target(w) \in Tables /\ Target(w) \in Nat
  BY <1>6 DEF Tables
<1>8. Slot(w) \in Slots(Target(w))
  BY <1>3, <1>5, <1>7, IndexSlot DEF Slot
<1>9. cell[Target(w)] \in [Slots(Target(w)) -> Content]
  BY <1>7 DEF Basic, Types, TypeOK, Slots, Content
<1>10. Seen(w) \in Content
  BY <1>8, <1>9 DEF Seen
<1>11. Chain(w) \in Nat /\ Chain(w) <= MaxChain
  BY <1>3 DEF Chain
<1> QED BY <1>1, <1>3, <1>4, <1>5, <1>6, <1>7, <1>8, <1>10, <1>11 DEF Seen, Slot, Target

\* What a write to one cell does.
Wrote(t, i, v) ==
  /\ cell' \in [Tables -> CellMaps]
  /\ \A u \in Tables : cell'[u] \in [Slots(u) -> Content]
  /\ cell'[t][i] = v
  /\ \A u \in Tables : \A k \in Slots(u) : u # t \/ k # i => cell'[u][k] = cell[u][k]

LEMMA CellWrite ==
  ASSUME Types, NEW t \in Tables, NEW i \in Slots(t), NEW v \in Content,
         cell' = [cell EXCEPT ![t][i] = v]
  PROVE  Wrote(t, i, v)
<1>1. cell \in [Tables -> CellMaps] /\ \A u \in Tables : cell[u] \in [Slots(u) -> Content]
  BY DEF Types, TypeOK, Slots, Content
<1> DEFINE g == [cell[t] EXCEPT ![i] = v]
<1>2. g \in [Slots(t) -> Content]
  BY <1>1
<1>3. g \in CellMaps
  BY <1>2 DEF CellMaps
<1>4. g[i] = v /\ \A k \in Slots(t) : k # i => g[k] = cell[t][k]
  BY <1>1
<1>5. cell' = [cell EXCEPT ![t] = g]
  OBVIOUS
<1> HIDE DEF g
<1>6. cell' \in [Tables -> CellMaps] /\ cell'[t] = g /\ \A u \in Tables : u # t => cell'[u] = cell[u]
  BY <1>1, <1>3, <1>5
<1> QED BY <1>1, <1>2, <1>4, <1>6 DEF Wrote
-----------------------------------------------------------------------------
(* Types *)

LEMMA EndLoopTypes ==
  ASSUME Basic, NEW w \in Workers, Probing(w),
         NEW o \in {"new", "found", "full", "invalid"}, o = "found" => Seen(w) \in Values,
         EndLoop(w, o)
  PROVE  /\ toRehash' \in [Tables -> Int] /\ pc' \in [Workers -> Pcs]
         /\ probe' = probe
         /\ outcome' \in [Workers -> {"none", "new", "found", "full", "invalid"}]
         /\ value' \in [Workers -> Values \cup {NoValue}]
         /\ pos' \in [Workers -> 0..Segment]
         /\ carry' \in [Workers -> Values \cup {NoValue}]
         /\ threw' \subseteq Workers
<1>1. Types
  BY DEF Basic
<1>2. Key(w) \in Values /\ Target(w) \in Tables
  BY KeyFacts
<1>3. probe' = probe
  BY DEF EndLoop
<1>4. /\ toRehash \in [Tables -> Int] /\ pc \in [Workers -> Pcs]
      /\ outcome \in [Workers -> {"none", "new", "found", "full", "invalid"}]
      /\ value \in [Workers -> Values \cup {NoValue}]
      /\ pos \in [Workers -> 0..Segment]
      /\ carry \in [Workers -> Values \cup {NoValue}]
      /\ threw \subseteq Workers
  BY <1>1 DEF Types, TypeOK
<1>5. CASE Moving(w)
  <2>1. Moved(w, o)
    BY <1>5 DEF EndLoop
  <2>2. pos[w] \in Nat /\ pos[w] < Segment /\ Segment \in Nat
    BY <1>5, TableSizes, HashSetAssumption DEF Basic, Where, Types, TypeOK
  <2>3. pos[w] + 1 \in 0..Segment
    BY <2>2
  <2>4. carry' = [carry EXCEPT ![w] = NoValue] /\ outcome' = outcome /\ value' = value
    BY <2>1 DEF Moved
  <2>5. CASE o \in {"new", "found"}
    <3>1. pos' = [pos EXCEPT ![w] = @ + 1] /\ pc' = [pc EXCEPT ![w] = "move"] /\ toRehash' = toRehash /\ threw' = threw
      BY <2>1, <2>5 DEF Moved, Goto
    <3> QED BY <1>4, <1>3, <2>3, <2>4, <3>1 DEF Pcs
  <2>6. CASE o \notin {"new", "found"}
    <3>1. /\ pos' = pos /\ pc' = [pc EXCEPT ![w] = "thrown"] /\ threw' = threw \cup {w}
          /\ toRehash' = [toRehash EXCEPT ![Target(w)] = 0]
      BY <2>1, <2>6 DEF Moved, Goto
    <3>2. toRehash' \in [Tables -> Int]
      BY <1>2, <1>4, <3>1
    <3>3. pc' \in [Workers -> Pcs]
      BY <1>4, <3>1 DEF Pcs
    <3>4. pos' \in [Workers -> 0..Segment]
      BY <1>4, <3>1
    <3>5. threw' \subseteq Workers
      BY <1>4, <3>1
    <3>6. carry' \in [Workers -> Values \cup {NoValue}]
      BY <1>4, <2>4
    <3> QED BY <1>4, <1>3, <2>4, <3>2, <3>3, <3>4, <3>5, <3>6
  <2> QED BY <2>5, <2>6
<1>6. CASE ~Moving(w)
  <2>1. Answer(w, o)
    BY <1>6 DEF EndLoop
  <2>2. \E v \in Values \cup {NoValue} : value' = [value EXCEPT ![w] = v]
    <3>1. CASE o = "new"
      BY <1>2, <2>1, <3>1 DEF Answer
    <3>2. CASE o = "found"
      BY <2>1, <3>2 DEF Answer
    <3>3. CASE o \in {"full", "invalid"}
      BY <2>1, <3>3 DEF Answer
    <3> QED BY <3>1, <3>2, <3>3
  <2>3. value' \in [Workers -> Values \cup {NoValue}]
    BY <1>1, <2>2 DEF Types, TypeOK
  <2>4. /\ outcome' = [outcome EXCEPT ![w] = o]
        /\ Goto(w, IF o = "full" /\ Inserts(w) THEN "grow" ELSE "outdated")
        /\ UNCHANGED <<toRehash, pos, carry, threw>>
    BY <2>1 DEF Answer
  <2> QED BY <1>4, <1>3, <2>3, <2>4 DEF Goto, Pcs
<1> QED BY <1>5, <1>6

\* A turn of the probing loop, but for the write to the cell.
LEMMA ProbeTypes ==
  ASSUME Basic, NEW w \in Workers, Probing(w),
         cell' \in [Tables -> CellMaps], \A u \in Tables : cell'[u] \in [Slots(u) -> Content],
         toRehash' \in [Tables -> Int], pc' \in [Workers -> Pcs],
         probe' \in [Workers -> 0..(MaxChain - 1)],
         outcome' \in [Workers -> {"none", "new", "found", "full", "invalid"}],
         value' \in [Workers -> Values \cup {NoValue}],
         pos' \in [Workers -> 0..Segment],
         carry' \in [Workers -> Values \cup {NoValue}],
         threw' \subseteq Workers,
         UNCHANGED <<linked, table, call, wasnew, role, seg, history>>
  PROVE  Types'
<1>1. Types
  BY DEF Basic
<1> QED BY <1>1 DEF Types, TypeOK, history, Slots, Content

LEMMA LookTypes ==
  ASSUME Basic, NEW w \in Workers, Look(w) \/ FindNothing(w)
  PROVE  Types'
<1>1. Types /\ Probing(w) /\ cell' = cell /\ UNCHANGED <<linked, table, call, wasnew, role, seg, history>>
  BY DEF Basic, Look, FindNothing, At, Probing
<1>2. CASE EndLoop(w, "invalid") \/ EndLoop(w, "full")
  BY <1>1, <1>2, EndLoopTypes, ProbeTypes DEF Types, TypeOK, Slots, Content
<1>3. CASE /\ Goto(w, "store") \/ Goto(w, "match")
           /\ UNCHANGED <<toRehash, probe, outcome, value, pos, carry, threw>>
  <2>1. pc' \in [Workers -> Pcs]
    BY <1>1, <1>3 DEF Types, TypeOK, Goto, Pcs
  <2> QED BY <1>1, <1>3, <2>1, ProbeTypes DEF Types, TypeOK, Slots, Content
<1> QED BY <1>2, <1>3 DEF Look, FindNothing

LEMMA TryStoreTypes ==
  ASSUME Basic, NEW w \in Workers, TryStore(w)
  PROVE  Types' /\ (Seen(w) = Empty => Wrote(Target(w), Slot(w), Key(w)))
<1>1. Types /\ Probing(w) /\ UNCHANGED <<linked, table, call, wasnew, role, seg, history>>
  BY DEF Basic, TryStore, At, Probing
<1>2. CASE Seen(w) = Empty
  <2>1. cell' = [cell EXCEPT ![Target(w)][Slot(w)] = Key(w)] /\ EndLoop(w, "new")
    BY <1>2 DEF TryStore
  <2>2. Wrote(Target(w), Slot(w), Key(w))
    BY <1>1, <2>1, KeyFacts, CellWrite DEF Content
  <2>3. probe' = probe
    BY <2>1 DEF EndLoop
  <2>4. Types'
    BY <1>1, <2>1, <2>2, <2>3, EndLoopTypes, ProbeTypes DEF Types, TypeOK, Wrote
  <2> QED BY <2>2, <2>4
<1>3. CASE Seen(w) # Empty
  <2>1. Goto(w, "match") /\ UNCHANGED <<cell, toRehash, probe, outcome, value, pos, carry, threw>>
    BY <1>3 DEF TryStore
  <2>2. pc' \in [Workers -> Pcs]
    BY <1>1, <2>1 DEF Types, TypeOK, Goto, Pcs
  <2> QED BY <1>1, <1>3, <2>1, <2>2, ProbeTypes DEF Types, TypeOK, Slots, Content
<1> QED BY <1>2, <1>3

LEMMA MatchTypes ==
  ASSUME Basic, NEW w \in Workers, Match(w)
  PROVE  Types'
<1>1. Types /\ Probing(w) /\ cell' = cell /\ UNCHANGED <<linked, table, call, wasnew, role, seg, history>>
  BY DEF Basic, Match, At, Probing
<1>2. CASE Matches(w) /\ EndLoop(w, "found")
  BY <1>1, <1>2, EndLoopTypes, ProbeTypes DEF Types, TypeOK, Slots, Content, Matches
<1>3. CASE EndLoop(w, "full")
  BY <1>1, <1>3, EndLoopTypes, ProbeTypes DEF Types, TypeOK, Slots, Content
<1>4. CASE /\ probe[w] + 1 < Chain(w)
           /\ probe' = [probe EXCEPT ![w] = @ + 1]
           /\ Goto(w, "look")
           /\ UNCHANGED <<toRehash, outcome, value, pos, carry, threw>>
  <2>1. probe[w] + 1 \in 0..(MaxChain - 1)
    BY <1>1, <1>4, KeyFacts, HashSetAssumption DEF HashSetAssumption
  <2>2. pc' \in [Workers -> Pcs] /\ probe' \in [Workers -> 0..(MaxChain - 1)]
    BY <1>1, <1>4, <2>1 DEF Types, TypeOK, Goto, Pcs
  <2> QED BY <1>1, <1>4, <2>2, ProbeTypes DEF Types, TypeOK, Slots, Content
<1> QED BY <1>2, <1>3, <1>4 DEF Match

LEMMA BeginTypes ==
  ASSUME Basic, NEW w \in Workers, Begin(w)
  PROVE  Types'
<1>1. Types /\ MaxChain \in Nat /\ MaxChain >= 2
  BY HashSetAssumption DEF Basic, HashSetAssumption
<1>2. known' \in [Workers -> BOOLEAN] /\ probe' \in [Workers -> 0..(MaxChain - 1)]
  BY <1>1 DEF Begin, Types, TypeOK
<1>3. wasnew' \in [Workers -> BOOLEAN] /\ pc' \in [Workers -> Pcs]
  BY <1>1 DEF Begin, Goto, Types, TypeOK, Pcs
<1> QED BY <1>1, <1>2, <1>3 DEF Begin, Types, TypeOK, tableVars, moveVars

LEMMA GrowTypes ==
  ASSUME Basic, NEW w \in Workers, Grow(w)
  PROVE  Types'
<1>1. Types /\ linked \in 1..Len(Sizes) /\ Len(Sizes) \in Nat /\ linked \in Tables
  <2>1. Types /\ linked \in Tables
    BY DEF Basic, Types, TypeOK
  <2> QED BY <2>1, TableSizes DEF Tables
<1>2. pc' \in [Workers -> Pcs] /\ role' \in [Workers -> {"user", "helper", "grower"}]
  BY <1>1 DEF Grow, Goto, Types, TypeOK, Pcs
<1>3. segment_count(linked) \in Nat
  BY <1>1, TableSizes
<1>4. linked' \in Tables /\ linked <= linked' /\ toRehash' \in [Tables -> Int]
  <2>1. CASE linked = table[w]
    <3>1. /\ linked + 1 \in Tables /\ linked' = linked + 1
          /\ toRehash' = [toRehash EXCEPT ![linked + 1] = 0 - segment_count(linked) - 1]
      BY <1>1, <2>1 DEF Grow, Tables
    <3>2. 0 - segment_count(linked) - 1 \in Int
      BY <1>3
    <3> QED BY <1>1, <3>1, <3>2 DEF Types, TypeOK
  <2>2. CASE linked # table[w]
    BY <1>1, <2>2 DEF Grow, Types, TypeOK
  <2> QED BY <2>1, <2>2
<1>5. table' \in [Workers -> 1..linked']
  BY <1>1, <1>4 DEF Grow, Types, TypeOK, Tables
<1> QED BY <1>1, <1>2, <1>4, <1>5 DEF Grow, Types, TypeOK, lookVars, history

LEMMA ReturnTypes ==
  ASSUME Basic, NEW w \in Workers, Return(w), call[w] < Len(Program[w])
  PROVE  /\ call' \in [Workers -> Nat] /\ \A v \in Workers : call'[v] \in 0..Len(Program[v])
         /\ done' \subseteq Classes /\ done \subseteq done'
         /\ news' \in [Classes -> Nat] /\ owned' \in [Classes -> Nat]
         /\ missed' \in BOOLEAN /\ pc' \in [Workers -> Pcs]
<1>1. Types
  BY DEF Basic
<1>2. Class[Call(w).x] \in Classes /\ call[w] + 1 \in 0..Len(Program[w])
  BY <1>1, CallInProgram, ClassHash
<1>3. call' = [call EXCEPT ![w] = @ + 1] /\ pc' = [pc EXCEPT ![w] = "idle"]
  BY DEF Return, Goto
<1>4. call' \in [Workers -> Nat] /\ \A v \in Workers : call'[v] \in 0..Len(Program[v])
  BY <1>1, <1>2, <1>3 DEF Types, TypeOK
<1>5. pc' \in [Workers -> Pcs]
  BY <1>1, <1>3 DEF Types, TypeOK, Pcs
<1>6. /\ done \subseteq Classes /\ missed \in BOOLEAN
      /\ news \in [Classes -> Nat] /\ owned \in [Classes -> Nat]
  BY <1>1 DEF Types, TypeOK
<1>7. CASE ReturnInsert(w)
  <2> DEFINE c == Class[Call(w).x]
             n == IF wasnew[w] \/ outcome[w] = "new" THEN 1 ELSE 0
             m == IF value[w] = Call(w).x THEN 1 ELSE 0
  <2>1. /\ done' = done \cup {c} /\ missed' = missed
        /\ news' = [news EXCEPT ![c] = @ + n] /\ owned' = [owned EXCEPT ![c] = @ + m]
    BY <1>7 DEF ReturnInsert
  <2>2. n \in Nat /\ m \in Nat /\ c \in Classes
    BY <1>2
  <2> HIDE DEF c, n, m
  <2>3. news' \in [Classes -> Nat] /\ owned' \in [Classes -> Nat]
    BY <1>6, <2>1, <2>2
  <2> QED BY <1>4, <1>5, <1>6, <2>1, <2>2, <2>3
<1>8. CASE ReturnFind(w)
  <2>1. /\ missed' = (missed \/ (known[w] /\ outcome[w] # "found"))
        /\ done' = done /\ news' = news /\ owned' = owned
    BY <1>8 DEF ReturnFind
  <2>2. missed' \in BOOLEAN
    BY <2>1
  <2> QED BY <1>4, <1>5, <1>6, <2>1, <2>2
<1> QED BY <1>7, <1>8 DEF Return

\* What a restart of the call sets.
LEMMA RestartTypes ==
  ASSUME Types, NEW w \in Workers, Restart(w)
  PROVE  /\ probe' \in [Workers -> 0..(MaxChain - 1)] /\ wasnew' \in [Workers -> BOOLEAN]
         /\ role' \in [Workers -> {"user", "helper", "grower"}] /\ pc' \in [Workers -> Pcs]
<1>1. MaxChain \in Nat /\ MaxChain >= 2
  BY HashSetAssumption DEF HashSetAssumption
<1>2. probe' \in [Workers -> 0..(MaxChain - 1)] /\ wasnew' \in [Workers -> BOOLEAN]
  BY <1>1 DEF Restart, Types, TypeOK
<1> QED BY <1>2 DEF Restart, Goto, Types, TypeOK, Pcs

LEMMA CheckOutdatedTypes ==
  ASSUME Basic, NEW w \in Workers, CheckOutdated(w)
  PROVE  Types'
<1>1. Types /\ call[w] < Len(Program[w])
  BY DEF Basic, Where, CheckOutdated, At
<1>2. UNCHANGED <<linked, cell, toRehash, table, outcome, value, seg, pos, carry, threw>>
  BY DEF CheckOutdated, tableVars
<1>3. CASE Return(w) /\ UNCHANGED <<probe, wasnew, role, known>>
  BY <1>1, <1>2, <1>3, ReturnTypes DEF Types, TypeOK
<1>4. CASE Restart(w) /\ UNCHANGED <<call, history>>
  BY <1>1, <1>2, <1>4, RestartTypes DEF Types, TypeOK, history
<1>5. CASE /\ role' = [role EXCEPT ![w] = "helper"] /\ Goto(w, "claim")
           /\ UNCHANGED <<call, probe, wasnew, history>>
  <2>1. pc' \in [Workers -> Pcs] /\ role' \in [Workers -> {"user", "helper", "grower"}]
    BY <1>1, <1>5 DEF Goto, Types, TypeOK, Pcs
  <2> QED BY <1>1, <1>2, <1>5, <2>1 DEF Types, TypeOK, history
<1> QED BY <1>3, <1>4, <1>5 DEF CheckOutdated

\* A claimed segment exists; to_rehash of a table that is being left is not negative.
LEMMA ClaimTypes ==
  ASSUME Basic, NEW w \in Workers, Claim(w)
  PROVE  /\ Types' /\ table[w] \in Tables /\ table[w] < linked
         /\ toRehash[table[w]] \in Nat
<1>1. Types /\ table[w] < linked /\ toRehash[table[w]] >= 0
  BY DEF Basic, Where, Claim, At
<1>2. table[w] \in 1..linked /\ linked \in 1..Len(Sizes) /\ Len(Sizes) \in Nat
  <2>1. table[w] \in 1..linked /\ linked \in Tables
    BY <1>1 DEF Types, TypeOK
  <2> QED BY <2>1, TableSizes DEF Tables
<1>3. table[w] \in Tables /\ toRehash[table[w]] \in Nat /\ table[w] + 1 \in 1..linked /\ Segment \in Nat
  BY <1>1, <1>2, TableSizes DEF Types, TypeOK, Tables
<1>4. UNCHANGED <<linked, cell, call, probe, outcome, value, wasnew, role, carry, threw, history>>
  BY DEF Claim, lookVars
<1>5. CASE toRehash[table[w]] = 0
  <2>1. /\ table' = [table EXCEPT ![w] = @ + 1]
        /\ pc' = [pc EXCEPT ![w] = AfterRehash(w)]
        /\ UNCHANGED <<toRehash, seg, pos>>
    BY <1>5 DEF Claim, Goto
  <2>2. table' \in [Workers -> 1..linked]
    BY <1>1, <1>3, <2>1 DEF Types, TypeOK
  <2>3. pc' \in [Workers -> Pcs]
    BY <1>1, <2>1 DEF Types, TypeOK, Pcs, AfterRehash
  <2> QED BY <1>1, <1>3, <1>4, <2>1, <2>2, <2>3 DEF Types, TypeOK, history
<1>6. CASE toRehash[table[w]] # 0
  <2> DEFINE r == toRehash[table[w]] - 1
  <2>1. /\ toRehash' = [toRehash EXCEPT ![table[w]] = r]
        /\ seg' = [seg EXCEPT ![w] = r] /\ pos' = [pos EXCEPT ![w] = 0]
        /\ pc' = [pc EXCEPT ![w] = "move"] /\ table' = table
    BY <1>6 DEF Claim, Goto
  <2>2. r \in Nat
    BY <1>3, <1>6
  <2> HIDE DEF r
  <2>3. toRehash' \in [Tables -> Int] /\ seg' \in [Workers -> Nat] /\ pos' \in [Workers -> 0..Segment]
    BY <1>1, <1>3, <2>1, <2>2 DEF Types, TypeOK
  <2>4. pc' \in [Workers -> Pcs]
    BY <1>1, <2>1 DEF Types, TypeOK, Pcs
  <2> QED BY <1>1, <1>3, <1>4, <2>1, <2>3, <2>4 DEF Types, TypeOK, history
<1> QED BY <1>1, <1>3, <1>5, <1>6

\* The cell that a thread invalidates.
LEMMA InvalidateCell ==
  ASSUME Basic, NEW w \in Workers, Invalidate(w)
  PROVE  /\ table[w] \in Tables /\ table[w] < linked /\ ~Moving(w)
         /\ seg[w] \in Nat /\ pos[w] \in Nat /\ pos[w] < Segment /\ Segment \in Nat
         /\ seg[w] * Segment + pos[w] \in Nat
         /\ cell' = [cell EXCEPT ![table[w]][seg[w] * Segment + pos[w]] = Invalid]
<1>1. Types /\ table[w] < linked /\ ~Moving(w)
  BY DEF Basic, Where, Invalidate, At
<1>2. seg[w] \in Nat /\ pos[w] \in Nat /\ pos[w] < Segment /\ table[w] \in 1..linked /\ linked \in Tables
  BY <1>1 DEF Types, TypeOK, Invalidate
<1>3. table[w] \in Tables /\ Segment \in Nat
  BY <1>2, TableSizes DEF Tables
<1>4. seg[w] * Segment + pos[w] \in Nat
  <2>1. seg[w] * Segment \in Nat
    BY <1>2, <1>3
  <2> QED BY <1>2, <2>1
<1> QED BY <1>1, <1>2, <1>3, <1>4 DEF Invalidate

LEMMA InvalidateTypes ==
  ASSUME Basic, NEW w \in Workers, Invalidate(w)
  PROVE  /\ Types'
         /\ LET i == seg[w] * Segment + pos[w]
            IN  /\ i \in Slots(table[w]) => Wrote(table[w], i, Invalid)
                /\ i \notin Slots(table[w]) => cell' = cell
<1> DEFINE i == seg[w] * Segment + pos[w]
           old == cell[table[w]][i]
<1>1. Types /\ MaxChain \in Nat /\ MaxChain >= 2
  BY HashSetAssumption DEF Basic, HashSetAssumption
<1>2. /\ table[w] \in Tables /\ cell' = [cell EXCEPT ![table[w]][i] = Invalid]
      /\ pos[w] \in Nat /\ pos[w] < Segment /\ Segment \in Nat
  BY InvalidateCell
<1>3. cell \in [Tables -> CellMaps] /\ \A u \in Tables : cell[u] \in [Slots(u) -> Content]
  BY <1>1 DEF Types, TypeOK, Slots, Content
<1>4. i \in Slots(table[w]) => Wrote(table[w], i, Invalid)
  BY <1>1, <1>2, CellWrite DEF Content
<1>5. i \notin Slots(table[w]) => cell' = cell
  BY <1>2, <1>3
<1>6. cell' \in [Tables -> CellMaps] /\ \A u \in Tables : cell'[u] \in [Slots(u) -> Content]
  BY <1>3, <1>4, <1>5 DEF Wrote
<1>7. /\ UNCHANGED <<linked, toRehash, table, call, outcome, value, wasnew, role, seg, threw, history>>
      /\ IF old \in Values
         THEN /\ carry' = [carry EXCEPT ![w] = old]
              /\ probe' = [probe EXCEPT ![w] = 0]
              /\ Goto(w, "look")
              /\ UNCHANGED pos
         ELSE pos' = [pos EXCEPT ![w] = @ + 1] /\ UNCHANGED <<pc, carry, probe>>
  BY DEF Invalidate
<1> HIDE DEF old, i
<1>8. CASE old \in Values
  <2>1. carry' \in [Workers -> Values \cup {NoValue}] /\ probe' \in [Workers -> 0..(MaxChain - 1)]
    <3>1. carry \in [Workers -> Values \cup {NoValue}] /\ probe \in [Workers -> 0..(MaxChain - 1)]
      BY <1>1 DEF Types, TypeOK
    <3>2. carry' = [carry EXCEPT ![w] = old] /\ probe' = [probe EXCEPT ![w] = 0]
      BY <1>7, <1>8
    <3>3. carry' \in [Workers -> Values \cup {NoValue}]
      BY <1>8, <3>1, <3>2
    <3>4. 0 \in 0..(MaxChain - 1)
      BY <1>1
    <3> QED BY <3>1, <3>2, <3>3, <3>4
  <2>2. pc' \in [Workers -> Pcs]
    BY <1>1, <1>7, <1>8 DEF Types, TypeOK, Pcs, Goto
  <2>3. Types'
    BY <1>1, <1>6, <1>7, <1>8, <2>1, <2>2 DEF Types, TypeOK, history, Slots, Content
  <2> QED BY <1>4, <1>5, <2>3 DEF i
<1>9. CASE old \notin Values
  <2>1. pos[w] + 1 \in 0..Segment
    BY <1>2
  <2>2. pos' \in [Workers -> 0..Segment]
    BY <1>1, <1>7, <1>9, <2>1 DEF Types, TypeOK
  <2>3. Types'
    BY <1>1, <1>6, <1>7, <1>9, <2>2 DEF Types, TypeOK, history, Slots, Content
  <2> QED BY <1>4, <1>5, <2>3 DEF i
<1> QED BY <1>8, <1>9

LEMMA SegmentDoneTypes ==
  ASSUME Basic, NEW w \in Workers, SegmentDone(w)
  PROVE  Types' /\ table[w] \in Tables /\ table[w] + 1 \in Tables /\ table[w] < linked /\ ~Moving(w)
<1>1. Types /\ table[w] < linked /\ ~Moving(w)
  BY DEF Basic, Where, SegmentDone, At
<1>2. table[w] \in 1..linked /\ linked \in 1..Len(Sizes) /\ Len(Sizes) \in Nat
  <2>1. table[w] \in 1..linked /\ linked \in Tables
    BY <1>1 DEF Types, TypeOK
  <2> QED BY <2>1, TableSizes DEF Tables
<1>3. table[w] \in Tables /\ table[w] + 1 \in Tables /\ table[w] + 1 \in 1..linked
  BY <1>1, <1>2 DEF Tables
<1>4. toRehash' \in [Tables -> Int]
  BY <1>1, <1>3 DEF SegmentDone, Types, TypeOK
<1>5. table' \in [Workers -> 1..linked]
  BY <1>1, <1>3 DEF SegmentDone, Types, TypeOK
<1>6. pc' \in [Workers -> Pcs]
  BY <1>1 DEF SegmentDone, Goto, AfterRehash, Types, TypeOK, Pcs
<1>7. Types'
  BY <1>1, <1>4, <1>5, <1>6 DEF SegmentDone, Types, TypeOK, lookVars, moveVars, history
<1> QED BY <1>1, <1>3, <1>7

LEMMA WaitTypes ==
  ASSUME Basic, NEW w \in Workers, Await(w) \/ SeeMoved(w)
  PROVE  Types'
<1>1. Types
  BY DEF Basic
<1>2. pc' \in [Workers -> Pcs]
  BY <1>1 DEF Await, SeeMoved, Goto, Types, TypeOK, Pcs
<1>3. UNCHANGED <<tableVars, table, call, lookVars, moveVars, threw, history>>
  BY DEF Await, SeeMoved
<1> QED BY <1>1, <1>2, <1>3 DEF Types, TypeOK, tableVars, lookVars, moveVars, history

LEMMA OpenTableTypes ==
  ASSUME Basic, NEW w \in Workers, OpenTable(w)
  PROVE  /\ Types' /\ table[w] \in Tables /\ segment_count(table[w]) \in Nat
<1>1. Types
  BY DEF Basic
<1>2. table[w] \in 1..linked /\ linked \in Tables
  BY <1>1 DEF Types, TypeOK
<1>3. table[w] \in Tables /\ segment_count(table[w]) \in Nat
  BY <1>2, TableSizes DEF Tables
<1>4. toRehash' \in [Tables -> Int]
  BY <1>1, <1>3 DEF OpenTable, Types, TypeOK
<1>5. Types'
  BY <1>1, <1>4, RestartTypes DEF OpenTable, Types, TypeOK, history
<1> QED BY <1>3, <1>5

\* Everything a thread may do, but for waiting.
Steps(w) ==
  \/ Begin(w) \/ Look(w) \/ FindNothing(w) \/ TryStore(w) \/ Match(w) \/ Grow(w)
  \/ CheckOutdated(w) \/ Claim(w) \/ Invalidate(w) \/ SegmentDone(w) \/ Await(w) \/ SeeMoved(w) \/ OpenTable(w)

LEMMA StepTypes ==
  ASSUME Basic, NEW w \in Workers, Steps(w)
  PROVE  Types'
BY BeginTypes, LookTypes, TryStoreTypes, MatchTypes, GrowTypes, CheckOutdatedTypes, ClaimTypes,
   InvalidateTypes, SegmentDoneTypes, WaitTypes, OpenTableTypes DEF Steps
-----------------------------------------------------------------------------
(* What a step changes *)

\* Only the state of the thread that takes the step changes.
Others(w) ==
  \A v \in Workers \ {w} :
    /\ pc'[v] = pc[v] /\ table'[v] = table[v] /\ call'[v] = call[v] /\ probe'[v] = probe[v]
    /\ outcome'[v] = outcome[v] /\ role'[v] = role[v] /\ seg'[v] = seg[v] /\ pos'[v] = pos[v]
    /\ carry'[v] = carry[v] /\ known'[v] = known[v]

\* The four ways a turn of the probing loop may end.
Goes(w) ==
  /\ Probing(w)' /\ pos' = pos /\ carry' = carry /\ toRehash' = toRehash /\ threw' = threw

Delivers(w) ==
  /\ Moving(w) /\ carry'[w] = NoValue /\ pc'[w] = "move" /\ pos'[w] = pos[w] + 1
  /\ toRehash' = toRehash /\ threw' = threw

Fails(w) ==
  /\ Moving(w) /\ carry'[w] = NoValue /\ pc'[w] = "thrown" /\ pos' = pos /\ threw' = threw \cup {w}
  /\ toRehash' = [toRehash EXCEPT ![Target(w)] = 0]

Answers(w) ==
  /\ ~Moving(w) /\ carry' = carry /\ pc'[w] \in {"grow", "outdated"} /\ pos' = pos
  /\ toRehash' = toRehash /\ threw' = threw

ProbeStep(w) == Look(w) \/ FindNothing(w) \/ TryStore(w) \/ Match(w)

LEMMA EndLoopEffect ==
  ASSUME Basic, NEW w \in Workers, NEW o, EndLoop(w, o)
  PROVE  /\ Delivers(w) \/ Fails(w) \/ Answers(w)
         /\ \A v \in Workers \ {w} : /\ pc'[v] = pc[v] /\ outcome'[v] = outcome[v]
                                     /\ pos'[v] = pos[v] /\ carry'[v] = carry[v]
         /\ probe' = probe
<1>1. /\ pc \in [Workers -> Pcs] /\ carry \in [Workers -> Values \cup {NoValue}]
      /\ pos \in [Workers -> 0..Segment] /\ Segment \in Nat
      /\ outcome \in [Workers -> {"none", "new", "found", "full", "invalid"}]
  BY TableSizes, HashSetAssumption DEF Basic, Types, TypeOK
<1>2. probe' = probe
  BY DEF EndLoop
<1>3. CASE Moving(w)
  <2>1. Moved(w, o)
    BY <1>3 DEF EndLoop
  <2>2. carry' = [carry EXCEPT ![w] = NoValue] /\ outcome' = outcome
    BY <2>1 DEF Moved
  <2>3. CASE o \in {"new", "found"}
    <3>1. /\ pos' = [pos EXCEPT ![w] = @ + 1] /\ pc' = [pc EXCEPT ![w] = "move"]
          /\ toRehash' = toRehash /\ threw' = threw
      BY <2>1, <2>3 DEF Moved, Goto
    <3>2. Delivers(w)
      BY <1>1, <1>3, <2>2, <3>1 DEF Delivers
    <3> QED BY <1>1, <1>2, <2>2, <3>1, <3>2
  <2>4. CASE o \notin {"new", "found"}
    <3>1. /\ pos' = pos /\ pc' = [pc EXCEPT ![w] = "thrown"] /\ threw' = threw \cup {w}
          /\ toRehash' = [toRehash EXCEPT ![Target(w)] = 0]
      BY <2>1, <2>4 DEF Moved, Goto
    <3>2. Fails(w)
      BY <1>1, <1>3, <2>2, <3>1 DEF Fails
    <3> QED BY <1>1, <1>2, <2>2, <3>1, <3>2
  <2> QED BY <2>3, <2>4
<1>4. CASE ~Moving(w)
  <2>1. Answer(w, o)
    BY <1>4 DEF EndLoop
  <2>2. /\ outcome' = [outcome EXCEPT ![w] = o]
        /\ pc' = [pc EXCEPT ![w] = IF o = "full" /\ Inserts(w) THEN "grow" ELSE "outdated"]
        /\ UNCHANGED <<toRehash, pos, carry, threw>>
    BY <2>1 DEF Answer, Goto
  <2>3. Answers(w)
    BY <1>1, <1>4, <2>2 DEF Answers
  <2> QED BY <1>1, <1>2, <2>2, <2>3
<1> QED BY <1>3, <1>4

LEMMA ProbeEffect ==
  ASSUME Basic, NEW w \in Workers, ProbeStep(w)
  PROVE  /\ Probing(w) /\ Others(w)
         /\ Goes(w) \/ Delivers(w) \/ Fails(w) \/ Answers(w)
         /\ UNCHANGED <<linked, table, call, wasnew, role, seg, history>>
<1>1. pc \in [Workers -> Pcs] /\ probe \in [Workers -> 0..(MaxChain - 1)]
  BY DEF Basic, Types, TypeOK
<1>2. Probing(w) /\ UNCHANGED <<linked, table, call, wasnew, role, seg, history>>
  BY DEF ProbeStep, Look, FindNothing, TryStore, Match, At, Probing
<1>3. ASSUME NEW o, EndLoop(w, o)
      PROVE  Others(w) /\ (Delivers(w) \/ Fails(w) \/ Answers(w))
  BY <1>2, <1>3, EndLoopEffect DEF Others, history
<1>4. CASE /\ Goto(w, "store") \/ Goto(w, "match")
           /\ UNCHANGED <<toRehash, probe, outcome, value, pos, carry, threw>>
  BY <1>1, <1>2, <1>4 DEF Others, history, Goto, Goes, Probing
<1>5. CASE /\ probe' = [probe EXCEPT ![w] = @ + 1] /\ Goto(w, "look")
           /\ UNCHANGED <<toRehash, outcome, value, pos, carry, threw>>
  BY <1>1, <1>2, <1>5 DEF Others, history, Goto, Goes, Probing
<1>6. \/ \E o \in {"new", "found", "full", "invalid"} : EndLoop(w, o)
      \/ /\ Goto(w, "store") \/ Goto(w, "match")
         /\ UNCHANGED <<toRehash, probe, outcome, value, pos, carry, threw>>
      \/ /\ probe' = [probe EXCEPT ![w] = @ + 1] /\ Goto(w, "look")
         /\ UNCHANGED <<toRehash, outcome, value, pos, carry, threw>>
  <2>1. CASE Look(w)
    BY <2>1 DEF Look
  <2>2. CASE FindNothing(w)
    BY <2>2 DEF FindNothing
  <2>3. CASE TryStore(w)
    BY <2>3 DEF TryStore
  <2>4. CASE Match(w)
    BY <2>4 DEF Match
  <2> QED BY <2>1, <2>2, <2>3, <2>4 DEF ProbeStep
<1> QED BY <1>2, <1>3, <1>4, <1>5, <1>6

LEMMA StepOthers ==
  ASSUME Basic, NEW w \in Workers, Steps(w)
  PROVE  Others(w)
<1>1. /\ pc \in [Workers -> Pcs] /\ table \in [Workers -> 1..linked] /\ call \in [Workers -> Nat]
      /\ probe \in [Workers -> 0..(MaxChain - 1)]
      /\ outcome \in [Workers -> {"none", "new", "found", "full", "invalid"}]
      /\ role \in [Workers -> {"user", "helper", "grower"}]
      /\ seg \in [Workers -> Nat] /\ pos \in [Workers -> 0..Segment]
      /\ carry \in [Workers -> Values \cup {NoValue}] /\ known \in [Workers -> BOOLEAN]
  BY DEF Basic, Types, TypeOK
<1>2. CASE Begin(w)
  BY <1>1, <1>2 DEF Begin, Goto, Others, moveVars
<1>3. CASE ProbeStep(w)
  BY <1>3, ProbeEffect
<1>4. CASE Grow(w)
  <2>1. \E r : role' = [role EXCEPT ![w] = r]
    BY <1>4 DEF Grow
  <2> QED BY <1>1, <1>4, <2>1 DEF Grow, Goto, Others, lookVars, history
<1>5. CASE CheckOutdated(w)
  <2>1. UNCHANGED <<table, outcome, seg, pos, carry>>
    BY <1>5 DEF CheckOutdated
  <2>2. CASE Return(w) /\ UNCHANGED <<probe, wasnew, role, known>>
    BY <1>1, <2>1, <2>2 DEF Return, Goto, Others
  <2>3. CASE Restart(w) /\ UNCHANGED <<call, history>>
    BY <1>1, <2>1, <2>3 DEF Restart, Goto, Others, history
  <2>4. CASE /\ role' = [role EXCEPT ![w] = "helper"] /\ Goto(w, "claim")
             /\ UNCHANGED <<call, probe, wasnew, history>>
    BY <1>1, <2>1, <2>4 DEF Goto, Others, history
  <2> QED BY <1>5, <2>2, <2>3, <2>4 DEF CheckOutdated
<1>6. CASE Claim(w)
  <2>1. UNCHANGED <<call, probe, outcome, role, carry, known>>
    BY <1>6 DEF Claim, lookVars, history
  <2>2. /\ table' = table \/ \E x : table' = [table EXCEPT ![w] = x]
        /\ \E x : pc' = [pc EXCEPT ![w] = x]
        /\ seg' = seg \/ \E x : seg' = [seg EXCEPT ![w] = x]
        /\ pos' = pos \/ \E x : pos' = [pos EXCEPT ![w] = x]
    BY <1>6 DEF Claim, Goto
  <2> QED BY <1>1, <2>1, <2>2 DEF Others
<1>7. CASE Invalidate(w)
  <2>1. UNCHANGED <<table, call, outcome, role, seg, known>>
    BY <1>7 DEF Invalidate, history
  <2>2. /\ carry' = carry \/ \E x : carry' = [carry EXCEPT ![w] = x]
        /\ probe' = probe \/ \E x : probe' = [probe EXCEPT ![w] = x]
        /\ pc' = pc \/ \E x : pc' = [pc EXCEPT ![w] = x]
        /\ pos' = pos \/ \E x : pos' = [pos EXCEPT ![w] = x]
    BY <1>7 DEF Invalidate, Goto
  <2> QED BY <1>1, <2>1, <2>2 DEF Others
<1>8. CASE SegmentDone(w)
  <2>1. UNCHANGED <<call, probe, outcome, role, seg, pos, carry, known>>
    BY <1>8 DEF SegmentDone, lookVars, moveVars, history
  <2>2. /\ table' = table \/ \E x : table' = [table EXCEPT ![w] = x]
        /\ \E x : pc' = [pc EXCEPT ![w] = x]
    BY <1>8 DEF SegmentDone, Goto
  <2> QED BY <1>1, <2>1, <2>2 DEF Others
<1>9. CASE Await(w) \/ SeeMoved(w)
  BY <1>1, <1>9 DEF Await, SeeMoved, Goto, Others, lookVars, moveVars, history
<1>10. CASE OpenTable(w)
  BY <1>1, <1>10 DEF OpenTable, Restart, Goto, Others, history
<1> QED BY <1>2, <1>3, <1>4, <1>5, <1>6, <1>7, <1>8, <1>9, <1>10 DEF Steps, ProbeStep

\* An open table stays open: its counter never becomes negative again.
Monotone ==
  /\ linked <= linked'
  /\ \A t \in Tables : t <= linked /\ toRehash[t] >= 0 => toRehash'[t] >= 0

LEMMA StepMonotone ==
  ASSUME Basic, NEW w \in Workers, Steps(w)
  PROVE  Monotone /\ Signs'
<1>1. /\ linked \in Tables /\ linked \in Nat /\ Tables \subseteq Nat /\ toRehash \in [Tables -> Int] /\ Signs
      /\ Len(Sizes) \in Nat
  <2>1. linked \in Tables /\ toRehash \in [Tables -> Int]
    BY DEF Basic, Types, TypeOK
  <2> QED BY <2>1, TableSizes DEF Tables, Basic
<1>2. CASE linked' = linked /\ toRehash' = toRehash
  BY <1>1, <1>2 DEF Monotone, Signs
<1>3. ASSUME NEW t \in Tables, t <= linked, linked' = linked, NEW n \in Int,
             toRehash' = [toRehash EXCEPT ![t] = n], n >= 0 \/ toRehash[t] < 0
      PROVE  Monotone /\ Signs'
  <2>1. \A u \in Tables : toRehash'[u] = IF u = t THEN n ELSE toRehash[u]
    BY <1>1, <1>3
  <2>2. Monotone
    BY <1>1, <1>3, <2>1 DEF Monotone
  <2>3. ASSUME NEW u \in Tables
        PROVE  (u < linked' => toRehash'[u] >= 0) /\ (u > linked' => toRehash'[u] = 0)
    BY <1>1, <1>3, <2>1, <2>3 DEF Signs
  <2> QED BY <2>2, <2>3 DEF Signs
<1>4. CASE Begin(w)
  BY <1>2, <1>4 DEF Begin, tableVars
<1>5. CASE ProbeStep(w)
  <2>1. linked' = linked /\ (toRehash' = toRehash \/ toRehash' = [toRehash EXCEPT ![Target(w)] = 0])
    BY <1>5, ProbeEffect DEF Goes, Delivers, Fails, Answers
  <2>2. Target(w) \in Tables /\ Target(w) <= linked
    BY <1>1, <1>5, ProbeEffect, KeyFacts
  <2> QED BY <1>2, <1>3, <2>1, <2>2
<1>6. CASE Grow(w)
  <2>1. CASE linked # table[w]
    BY <1>2, <1>6, <2>1 DEF Grow
  <2>2. CASE linked = table[w]
    <3>1. /\ linked' = linked + 1 /\ linked + 1 \in Tables
          /\ toRehash' = [toRehash EXCEPT ![linked + 1] = 0 - segment_count(linked) - 1]
          /\ toRehash[linked] >= 0
      BY <1>1, <1>6, <2>2 DEF Grow, Tables, Basic, Where, At
    <3>2. \A u \in Tables : u # linked + 1 => toRehash'[u] = toRehash[u]
      BY <1>1, <3>1
    <3>3. Monotone
      BY <1>1, <3>1, <3>2 DEF Monotone
    <3>4. ASSUME NEW u \in Tables
          PROVE  (u < linked' => toRehash'[u] >= 0) /\ (u > linked' => toRehash'[u] = 0)
      BY <1>1, <3>1, <3>2, <3>4 DEF Signs
    <3> QED BY <3>3, <3>4 DEF Signs
  <2> QED BY <2>1, <2>2
<1>7. CASE CheckOutdated(w)
  BY <1>2, <1>7 DEF CheckOutdated, tableVars
<1>8. CASE Claim(w)
  <2>1. table[w] \in Tables /\ table[w] < linked /\ toRehash[table[w]] \in Nat /\ linked' = linked
    BY <1>8, ClaimTypes DEF Claim
  <2>2. CASE toRehash[table[w]] = 0
    BY <1>2, <1>8, <2>1, <2>2 DEF Claim
  <2>3. CASE toRehash[table[w]] # 0
    <3> DEFINE r == toRehash[table[w]] - 1
    <3>1. toRehash' = [toRehash EXCEPT ![table[w]] = r]
      BY <1>8, <2>3 DEF Claim
    <3>2. r \in Int /\ r >= 0 /\ table[w] <= linked
      <4>1. table[w] \in Nat /\ linked \in Nat
        BY <1>1, <2>1
      <4> QED BY <2>1, <2>3, <4>1
    <3> HIDE DEF r
    <3> QED BY <1>3, <2>1, <3>1, <3>2
  <2> QED BY <2>2, <2>3
<1>9. CASE Invalidate(w)
  BY <1>2, <1>9 DEF Invalidate
<1>10. CASE SegmentDone(w)
  <2> DEFINE r == toRehash[table[w] + 1] + 1
  <2>1. table[w] \in Tables /\ table[w] + 1 \in Tables /\ table[w] < linked /\ linked' = linked
    BY <1>10, SegmentDoneTypes DEF SegmentDone
  <2>2. toRehash' = [toRehash EXCEPT ![table[w] + 1] = r]
    BY <1>10 DEF SegmentDone
  <2>3. r \in Int /\ (r >= 0 \/ toRehash[table[w] + 1] < 0) /\ table[w] + 1 <= linked
    <3>1. table[w] \in Nat /\ linked \in Nat /\ toRehash[table[w] + 1] \in Int
      BY <1>1, <2>1
    <3> QED BY <2>1, <3>1
  <2> HIDE DEF r
  <2> QED BY <1>3, <2>1, <2>2, <2>3
<1>11. CASE Await(w) \/ SeeMoved(w)
  BY <1>2, <1>11 DEF Await, SeeMoved, tableVars
<1>12. CASE OpenTable(w)
  <2>1. table[w] \in Tables /\ segment_count(table[w]) \in Nat /\ linked' = linked
    BY <1>12, OpenTableTypes DEF OpenTable
  <2>2. table[w] <= linked
    BY <1>1 DEF Basic, Types, TypeOK
  <2>3. toRehash' = [toRehash EXCEPT ![table[w]] = segment_count(table[w])]
    BY <1>12 DEF OpenTable
  <2>4. segment_count(table[w]) \in Int /\ segment_count(table[w]) >= 0
    BY <2>1
  <2> QED BY <1>3, <2>1, <2>2, <2>3, <2>4
<1> QED BY <1>4, <1>5, <1>6, <1>7, <1>8, <1>9, <1>10, <1>11, <1>12 DEF Steps, ProbeStep

LEMMA OthersWhere ==
  ASSUME Basic, NEW w \in Workers, Others(w), Monotone, Types', NEW v \in Workers \ {w}
  PROVE  Where(v)'
<1>1. Where(v) /\ table[v] \in 1..linked /\ linked \in Tables /\ linked' \in Tables /\ linked <= linked'
      /\ toRehash \in [Tables -> Int] /\ linked \in Nat /\ linked' \in Nat
  <2>1. Where(v) /\ table[v] \in 1..linked /\ linked \in Tables /\ linked' \in Tables /\ linked <= linked'
        /\ toRehash \in [Tables -> Int]
    BY DEF Basic, Types, TypeOK, Monotone
  <2> QED BY <2>1, TableSizes DEF Tables
<1>2. table[v] \in Tables /\ table[v] <= linked
  BY <1>1, TableSizes DEF Tables
<1>3. toRehash[table[v]] >= 0 => toRehash'[table[v]] >= 0
  BY <1>2 DEF Monotone
<1>4. /\ pc'[v] = pc[v] /\ table'[v] = table[v] /\ call'[v] = call[v] /\ pos'[v] = pos[v]
      /\ carry'[v] = carry[v]
  BY DEF Others
<1> QED BY <1>1, <1>2, <1>3, <1>4 DEF Where, Moving

LEMMA StepWhere ==
  ASSUME Basic, NEW w \in Workers, Steps(w)
  PROVE  Where(w)'
<1>1. /\ linked \in Tables /\ linked \in Nat /\ toRehash \in [Tables -> Int] /\ Where(w)
      /\ pc \in [Workers -> Pcs] /\ carry \in [Workers -> Values \cup {NoValue}]
      /\ table[w] \in Nat /\ table[w] \in Tables /\ table[w] <= linked /\ Segment \in Nat
      /\ table \in [Workers -> 1..linked]
  <2>1. /\ linked \in Tables /\ toRehash \in [Tables -> Int] /\ Where(w)
        /\ pc \in [Workers -> Pcs] /\ carry \in [Workers -> Values \cup {NoValue}]
        /\ table \in [Workers -> 1..linked]
    BY DEF Basic, Types, TypeOK
  <2>2. linked \in 1..Len(Sizes) /\ Len(Sizes) \in Nat /\ Segment \in Nat
    BY <2>1, TableSizes DEF Tables
  <2>3. table[w] \in 1..linked
    BY <2>1
  <2> QED BY <2>1, <2>2, <2>3 DEF Tables
<1>2. /\ Monotone /\ linked' \in Nat
      /\ toRehash[table[w]] >= 0 => toRehash'[table[w]] >= 0
  <2>1. Monotone /\ Types'
    BY StepMonotone, StepTypes
  <2>2. linked' \in Tables
    BY <2>1 DEF Types, TypeOK
  <2> QED BY <1>1, <2>1, <2>2, TableSizes DEF Monotone, Tables
<1>3. CASE Begin(w)
  <2>1. /\ pc'[w] = "look" /\ carry' = carry /\ pos' = pos /\ call' = call /\ table' = table
        /\ pc[w] = "idle" /\ call[w] < Len(Program[w])
    BY <1>1, <1>3 DEF Begin, Goto, At, moveVars
  <2> QED BY <1>1, <1>2, <2>1 DEF Where, Moving
<1>4. CASE ProbeStep(w)
  <2>1. /\ Probing(w) /\ linked' = linked /\ table' = table /\ call' = call
        /\ Goes(w) \/ Delivers(w) \/ Fails(w) \/ Answers(w)
    BY <1>4, ProbeEffect
  <2> QED BY <1>1, <1>2, <2>1 DEF Where, Moving, Probing, Goes, Delivers, Fails, Answers
<1>5. CASE Grow(w)
  <2>1. pc'[w] = "claim" /\ UNCHANGED <<table, call, pos, carry>> /\ pc[w] = "grow"
    BY <1>1, <1>5 DEF Grow, Goto, At
  <2>2. table[w] < linked'
    BY <1>1, <1>5 DEF Grow
  <2> QED BY <1>1, <1>2, <2>1, <2>2 DEF Where, Moving
<1>6. CASE CheckOutdated(w)
  <2>1. UNCHANGED <<linked, table, pos, carry>> /\ pc[w] = "outdated"
    BY <1>6 DEF CheckOutdated, At, tableVars
  <2>2. \/ pc'[w] = "idle"
        \/ pc'[w] = "look" /\ call' = call
        \/ pc'[w] = "claim" /\ call' = call /\ linked # table[w]
    BY <1>1, <1>6 DEF CheckOutdated, Return, Restart, Goto
  <2> QED BY <1>1, <1>2, <2>1, <2>2 DEF Where, Moving
<1>7. CASE Claim(w)
  <2>1. UNCHANGED <<linked, call, carry>> /\ pc[w] = "claim" /\ carry[w] = NoValue
    BY <1>1, <1>7 DEF Claim, At, lookVars, Where, Moving
  <2>2. \/ pc'[w] \in {"spin", "await"}
        \/ pc'[w] = "move" /\ table' = table
    BY <1>1, <1>7 DEF Claim, Goto, AfterRehash
  <2> QED BY <1>1, <1>2, <2>1, <2>2 DEF Where, Moving
<1>8. CASE Invalidate(w)
  <2>1. UNCHANGED <<linked, toRehash, table, call>> /\ pc[w] = "move" /\ pos[w] < Segment /\ carry[w] = NoValue
    BY <1>1, <1>8 DEF Invalidate, At, Where, Moving
  <2>2. \/ pc'[w] = "look" /\ pos' = pos
        \/ pc' = pc /\ carry' = carry
    BY <1>1, <1>8 DEF Invalidate, Goto
  <2> QED BY <1>1, <1>2, <2>1, <2>2 DEF Where, Moving
<1>9. CASE SegmentDone(w)
  <2>1. UNCHANGED <<linked, call, carry>> /\ pc[w] = "move" /\ carry[w] = NoValue
    BY <1>1, <1>9 DEF SegmentDone, At, lookVars, moveVars, Where, Moving
  <2>2. \/ pc'[w] \in {"spin", "await"}
        \/ pc'[w] = "claim" /\ table' = table
    BY <1>1, <1>9 DEF SegmentDone, Goto, AfterRehash
  <2> QED BY <1>1, <1>2, <2>1, <2>2 DEF Where, Moving
<1>10. CASE Await(w)
  <2>1. UNCHANGED <<linked, toRehash, table, call, carry, pos>> /\ pc[w] = "await"
        /\ pc'[w] = "outdated" /\ toRehash[table[w]] >= 0
    BY <1>1, <1>10 DEF Await, At, Goto, tableVars, moveVars
  <2> QED BY <1>1, <2>1 DEF Where, Moving
<1>11. CASE SeeMoved(w)
  <2>1. UNCHANGED <<linked, toRehash, table, call, carry, pos>> /\ pc[w] = "spin" /\ pc'[w] = "open"
    BY <1>1, <1>11 DEF SeeMoved, At, Goto, tableVars, moveVars
  <2> QED BY <1>1, <2>1 DEF Where, Moving
<1>12. CASE OpenTable(w)
  <2>1. UNCHANGED <<linked, table, call, carry, pos>> /\ pc[w] = "open" /\ pc'[w] = "look"
        /\ toRehash'[table[w]] = segment_count(table[w])
    BY <1>1, <1>12 DEF OpenTable, Restart, At, Goto
  <2>2. segment_count(table[w]) >= 0
    BY <1>12, OpenTableTypes
  <2> QED BY <1>1, <2>1, <2>2 DEF Where, Moving
<1> QED BY <1>3, <1>4, <1>5, <1>6, <1>7, <1>8, <1>9, <1>10, <1>11, <1>12 DEF Steps, ProbeStep

LEMMA StepBasic ==
  ASSUME Basic, NEW w \in Workers, Steps(w)
  PROVE  Basic'
<1>1. Types' /\ Signs' /\ Monotone /\ Others(w) /\ Where(w)'
  BY StepTypes, StepMonotone, StepOthers, StepWhere
<1>2. \A v \in Workers \ {w} : Where(v)'
  BY <1>1, OthersWhere
<1>3. \A v \in Workers : Where(v)'
  BY <1>1, <1>2
<1> QED BY <1>1, <1>3 DEF Basic
-----------------------------------------------------------------------------
(* The roles and the counters *)

LEMMA NotThrown ==
  ASSUME Basic, NEW w \in Workers, Steps(w), threw' = {}
  PROVE  threw = {} /\ ~Fails(w)
<1>1. CASE ProbeStep(w)
  BY <1>1, ProbeEffect DEF Goes, Delivers, Fails, Answers
<1>2. CASE ~ProbeStep(w)
  <2>1. threw' = threw
    BY <1>2 DEF Steps, ProbeStep, Begin, Grow, CheckOutdated, Claim, Invalidate, SegmentDone, Await,
                SeeMoved, OpenTable
  <2> QED BY <2>1 DEF Fails
<1> QED BY <1>1, <1>2

LEMMA Numbers ==
  ASSUME Basic
  PROVE  /\ linked \in Tables /\ linked \in Nat /\ linked >= 1 /\ Tables \subseteq Nat
         /\ \A t \in Tables : toRehash[t] \in Int /\ (t < linked => t + 1 \in Tables /\ t + 1 <= linked)
         /\ \A w \in Workers : table[w] \in Tables /\ table[w] \in Nat /\ table[w] <= linked
<1>1. linked \in Tables /\ toRehash \in [Tables -> Int] /\ table \in [Workers -> 1..linked]
  BY DEF Basic, Types, TypeOK
<1>2. Tables = 1..Len(Sizes) /\ Len(Sizes) \in Nat
  BY <1>1, TableSizes DEF Tables
<1> QED BY <1>1, <1>2

LEMMA RehashingFinite ==
  ASSUME NEW t
  PROVE  IsFiniteSet(Rehashing(t)) /\ Cardinality(Rehashing(t)) \in Nat
         /\ (Cardinality(Rehashing(t)) = 0 <=> Rehashing(t) = {})
<1>1. IsFiniteSet(Rehashing(t))
  BY HashSetAssumption, FS_Subset DEF Rehashing, HashSetAssumption
<1> QED BY <1>1, FS_CardinalityType, FS_EmptySet

\* A thread that moves a segment moves it to the last table, which is not open yet.
LEMMA MoverFacts ==
  ASSUME Basic, Accounts, NEW w \in Workers, pc[w] = "move" \/ Moving(w)
  PROVE  /\ w \in Rehashing(table[w]) /\ table[w] + 1 = linked /\ table[w] < linked
         /\ toRehash[linked] < 0 - 1
         /\ 0 - 1 - toRehash[linked] = toRehash[table[w]] + Cardinality(Rehashing(table[w]))
<1>1. w \in Rehashing(table[w])
  BY DEF Rehashing, At
<1>2. table[w] < linked
  BY DEF Basic, Where
<1>3. table[w] \in Tables /\ table[w] + 1 \in Tables /\ table[w] + 1 <= linked /\ table[w] \in Nat /\ linked \in Nat
  BY <1>2, Numbers
<1>4. /\ toRehash[table[w] + 1] < 0
      /\ 0 - 1 - toRehash[table[w] + 1] = toRehash[table[w]] + Cardinality(Rehashing(table[w]))
  BY <1>1, <1>2, <1>3 DEF Accounts, Counts
<1>5. table[w] + 1 = linked
  <2>1. ~(table[w] + 1 < linked)
    <3>1. toRehash[table[w] + 1] \in Int
      BY <1>3, Numbers
    <3>2. table[w] + 1 < linked => toRehash[table[w] + 1] >= 0
      BY <1>3 DEF Basic, Signs
    <3> QED BY <1>4, <3>1, <3>2
  <2> QED BY <1>3, <2>1
<1>6. Cardinality(Rehashing(table[w])) \in Nat \ {0}
  BY <1>1, RehashingFinite
<1>7. toRehash[table[w]] \in Int /\ toRehash[table[w]] >= 0 /\ toRehash[linked] \in Int
  BY <1>2, <1>3, Numbers DEF Basic, Signs
<1>8. 0 - 1 - toRehash[linked] = toRehash[table[w]] + Cardinality(Rehashing(table[w]))
  BY <1>4, <1>5
<1>9. ASSUME NEW a \in Int, NEW b \in Int, b >= 0, NEW n \in Nat \ {0}, 0 - 1 - a = b + n
      PROVE  a < 0 - 1
  BY <1>9
<1>10. toRehash[linked] < 0 - 1
  BY <1>6, <1>7, <1>8, <1>9
<1> QED BY <1>1, <1>2, <1>5, <1>8, <1>10

\* While the last table is not open, only its opening ends the rehashing into it.
LEMMA LastCounter ==
  ASSUME Basic, Accounts, NEW w \in Workers, Steps(w), threw' = {}, ~OpenTable(w), toRehash[linked] < 0
  PROVE  /\ linked' = linked /\ toRehash'[linked] < 0
         /\ toRehash[linked] = -1 => toRehash'[linked] = -1
<1>1. /\ linked \in Tables /\ linked \in Nat /\ toRehash \in [Tables -> Int] /\ toRehash[linked] \in Int
      /\ table[w] \in Nat
  BY Numbers DEF Basic, Types, TypeOK
<1>2. CASE ProbeStep(w)
  BY <1>2, ProbeEffect, NotThrown DEF Goes, Delivers, Answers
<1>3. CASE Begin(w) \/ CheckOutdated(w) \/ Invalidate(w) \/ Await(w) \/ SeeMoved(w)
  BY <1>3 DEF Begin, CheckOutdated, Invalidate, Await, SeeMoved, tableVars
<1>4. CASE Grow(w)
  <2>1. linked # table[w]
    BY <1>1, <1>4 DEF Basic, Where, Grow, At
  <2> QED BY <1>4, <2>1 DEF Grow
<1>5. CASE Claim(w)
  <2>1. table[w] \in Tables /\ table[w] < linked
    BY <1>5, ClaimTypes
  <2>2. toRehash' = toRehash \/ toRehash' = [toRehash EXCEPT ![table[w]] = @ - 1]
    BY <1>5 DEF Claim
  <2>3. toRehash'[linked] = toRehash[linked]
    BY <1>1, <2>1, <2>2
  <2> QED BY <1>5, <2>3 DEF Claim
<1>6. CASE SegmentDone(w)
  <2>1. table[w] + 1 = linked /\ toRehash[linked] < 0 - 1
    BY <1>6, MoverFacts DEF SegmentDone, At
  <2>2. toRehash' = [toRehash EXCEPT ![table[w] + 1] = @ + 1] /\ linked' = linked
    BY <1>6 DEF SegmentDone
  <2>3. toRehash'[linked] = toRehash[linked] + 1
    BY <1>1, <2>1, <2>2
  <2> QED BY <1>1, <2>1, <2>2, <2>3
<1> QED BY <1>2, <1>3, <1>4, <1>5, <1>6 DEF Steps, ProbeStep

LEMMA OthersRole ==
  ASSUME Basic, Accounts, NEW w \in Workers, Steps(w), threw' = {}, NEW v \in Workers \ {w}
  PROVE  Role(v)'
<1>1. Role(v) /\ pc'[v] = pc[v] /\ table'[v] = table[v] /\ role'[v] = role[v] /\ carry'[v] = carry[v]
  BY StepOthers DEF Accounts, Others
<1>2. CASE role[v] # "grower"
  BY <1>1, <1>2 DEF Role, Moving
<1>3. CASE role[v] = "grower"
  <2>1. ~OpenTable(w)
    <3>1. SUFFICES ASSUME OpenTable(w) PROVE FALSE
      OBVIOUS
    <3>2. role[w] = "grower"
      BY <3>1 DEF OpenTable, At, Accounts, Role
    <3> QED BY <1>3, <3>2 DEF Accounts, OneGrower
  <2>2. toRehash[linked] < 0
    BY <1>1, <1>3 DEF Role
  <2>3. linked' = linked /\ toRehash'[linked] < 0 /\ (toRehash[linked] = -1 => toRehash'[linked] = -1)
    BY <2>1, <2>2, LastCounter
  <2> QED BY <1>1, <1>3, <2>3 DEF Role, Moving
<1> QED BY <1>2, <1>3

LEMMA StepRole ==
  ASSUME Basic, Accounts, NEW w \in Workers, Steps(w), threw' = {}
  PROVE  Role(w)' /\ (role'[w] = "grower" => role[w] = "grower" \/ \A v \in Workers : role[v] # "grower")
<1>1. /\ Role(w) /\ Where(w) /\ pc \in [Workers -> Pcs] /\ role \in [Workers -> {"user", "helper", "grower"}]
      /\ table \in [Workers -> 1..linked] /\ toRehash \in [Tables -> Int]
      /\ carry \in [Workers -> Values \cup {NoValue}]
  BY DEF Basic, Types, TypeOK, Accounts
<1>2. /\ linked \in Tables /\ linked \in Nat /\ toRehash[linked] \in Int
      /\ table[w] \in Nat /\ table[w] \in Tables /\ table[w] <= linked
  BY Numbers
<1>3. CASE Begin(w)
  <2>1. /\ pc'[w] = "look" /\ carry' = carry /\ role' = role /\ pc[w] = "idle"
    BY <1>1, <1>3 DEF Begin, Goto, At, moveVars
  <2> QED BY <1>1, <2>1 DEF Where, Moving, Role
<1>4. CASE ProbeStep(w)
  <2>1. /\ Probing(w) /\ linked' = linked /\ table' = table /\ role' = role
        /\ Goes(w) \/ Delivers(w) \/ Answers(w)
    BY <1>4, ProbeEffect, NotThrown
  <2> QED BY <1>1, <2>1 DEF Role, Moving, Probing, Goes, Delivers, Answers
<1>5. CASE Grow(w)
  <2>1. pc'[w] = "claim" /\ UNCHANGED <<table, carry>> /\ pc[w] = "grow" /\ carry[w] = NoValue
    BY <1>1, <1>5 DEF Grow, Goto, At, Where, Moving
  <2>2. CASE linked # table[w]
    <3>1. role'[w] = "helper"
      BY <1>1, <1>5, <2>2 DEF Grow
    <3> QED BY <2>1, <3>1 DEF Role, Moving
  <2>3. CASE linked = table[w]
    <3>1. /\ linked' = linked + 1 /\ linked + 1 \in Tables /\ role'[w] = "grower"
          /\ toRehash' = [toRehash EXCEPT ![linked + 1] = 0 - segment_count(linked) - 1]
      <4>1. linked + 1 \in Tables
        BY <1>2, <1>5, <2>3, TableSizes DEF Grow, Tables
      <4> QED BY <1>1, <1>5, <2>3, <4>1 DEF Grow
    <3>2. toRehash'[linked'] = 0 - segment_count(linked) - 1 /\ segment_count(linked) \in Nat
      BY <1>1, <1>2, <3>1, TableSizes
    <3>3. toRehash'[linked'] < 0
      BY <3>2
    <3>4. \A v \in Workers : role[v] # "grower"
      BY <1>1, <2>1, <2>3, <1>2 DEF Where, Accounts, Role
    <3>5. table'[w] = linked' - 1
      BY <1>2, <2>1, <2>3, <3>1
    <3> QED BY <2>1, <3>1, <3>3, <3>4, <3>5 DEF Role, Moving
  <2> QED BY <2>2, <2>3
<1>6. CASE CheckOutdated(w)
  <2>1. UNCHANGED <<linked, toRehash, table, carry>> /\ pc[w] = "outdated" /\ carry[w] = NoValue
    BY <1>1, <1>6 DEF CheckOutdated, At, tableVars, Where, Moving
  <2>2. \/ pc'[w] = "idle" /\ role'[w] = "user"
        \/ pc'[w] = "look" /\ role'[w] = "user"
        \/ pc'[w] = "claim" /\ role'[w] = "helper"
    BY <1>1, <1>6 DEF CheckOutdated, Return, Restart, Goto
  <2> QED BY <1>1, <2>1, <2>2 DEF Role, Moving
<1>7. CASE Claim(w)
  <2>1. UNCHANGED <<linked, role, carry>> /\ pc[w] = "claim" /\ carry[w] = NoValue /\ role[w] # "user"
        /\ table[w] < linked
    BY <1>1, <1>7 DEF Claim, At, lookVars, Where, Moving, Role
  <2>2. toRehash' = toRehash \/ toRehash' = [toRehash EXCEPT ![table[w]] = @ - 1]
    BY <1>7 DEF Claim
  <2>3. toRehash'[linked] = toRehash[linked]
    BY <1>1, <1>2, <2>1, <2>2
  <2>4. \/ pc'[w] = AfterRehash(w) /\ table'[w] = table[w] + 1
        \/ pc'[w] = "move" /\ table'[w] = table[w]
    BY <1>1, <1>7 DEF Claim, Goto
  <2>5. role[w] \in {"helper", "grower"} /\ linked - 1 + 1 = linked
    BY <1>1, <1>2, <2>1
  <2> QED BY <1>1, <2>1, <2>3, <2>4, <2>5 DEF Role, Moving, AfterRehash
<1>8. CASE Invalidate(w)
  <2>1. UNCHANGED <<linked, toRehash, table, role>> /\ pc[w] = "move" /\ carry[w] = NoValue
    BY <1>1, <1>8 DEF Invalidate, At, Where, Moving
  <2>2. \/ pc'[w] = "look" /\ Moving(w)'
        \/ pc' = pc /\ carry' = carry
    <3>1. CASE cell[table[w]][seg[w] * Segment + pos[w]] \in Values
      BY <1>1, <1>8, <3>1, HashSetAssumption DEF Invalidate, Goto, Moving, HashSetAssumption
    <3>2. CASE cell[table[w]][seg[w] * Segment + pos[w]] \notin Values
      BY <1>8, <3>2 DEF Invalidate
    <3> QED BY <3>1, <3>2
  <2> QED BY <1>1, <2>1, <2>2 DEF Role, Moving
<1>9. CASE SegmentDone(w)
  <2>1. UNCHANGED <<linked, role, carry>> /\ pc[w] = "move" /\ carry[w] = NoValue /\ role[w] # "user"
    BY <1>1, <1>9 DEF SegmentDone, At, lookVars, moveVars, Where, Moving, Role
  <2>2. toRehash'[linked] < 0
    <3>1. toRehash[linked] < 0
      BY <1>2, <2>1, MoverFacts
    <3>2. ~OpenTable(w)
      BY <2>1 DEF OpenTable, At
    <3> QED BY <3>1, <3>2, LastCounter
  <2>3. \/ pc'[w] = AfterRehash(w) /\ table'[w] = table[w] + 1
        \/ pc'[w] = "claim" /\ table'[w] = table[w]
    BY <1>1, <1>9 DEF SegmentDone, Goto
  <2>4. role[w] \in {"helper", "grower"} /\ linked - 1 + 1 = linked
    BY <1>1, <1>2, <2>1
  <2> QED BY <1>1, <2>1, <2>2, <2>3, <2>4 DEF Role, Moving, AfterRehash
<1>10. CASE Await(w)
  <2>1. UNCHANGED <<linked, toRehash, table, carry, role>> /\ pc[w] = "await" /\ pc'[w] = "outdated"
        /\ carry[w] = NoValue
    BY <1>1, <1>10 DEF Await, At, Goto, tableVars, moveVars, Where, Moving
  <2> QED BY <1>1, <2>1 DEF Role, Moving
<1>11. CASE SeeMoved(w)
  <2>1. UNCHANGED <<linked, toRehash, table, carry, role>> /\ pc[w] = "spin" /\ pc'[w] = "open"
        /\ toRehash[table[w]] = -1 /\ carry[w] = NoValue
    BY <1>1, <1>11 DEF SeeMoved, At, Goto, tableVars, moveVars, Where, Moving
  <2> QED BY <1>1, <2>1 DEF Role, Moving
<1>12. CASE OpenTable(w)
  <2>1. carry' = carry /\ pc[w] = "open" /\ pc'[w] = "look" /\ role'[w] = "user" /\ carry[w] = NoValue
    BY <1>1, <1>12 DEF OpenTable, Restart, At, Goto, Where, Moving
  <2> QED BY <2>1 DEF Role, Moving
<1> QED BY <1>3, <1>4, <1>5, <1>6, <1>7, <1>8, <1>9, <1>10, <1>11, <1>12 DEF Steps, ProbeStep

LEMMA StepRoles ==
  ASSUME Basic, Accounts, NEW w \in Workers, Steps(w), threw' = {}
  PROVE  (\A v \in Workers : Role(v)') /\ OneGrower'
<1>1. \A v \in Workers : Role(v)'
  BY OthersRole, StepRole
<1>2. \A v \in Workers \ {w} : role'[v] = role[v]
  BY StepOthers DEF Others
<1>3. role'[w] = "grower" => role[w] = "grower" \/ \A v \in Workers : role[v] # "grower"
  BY StepRole
<1>4. OneGrower'
  BY <1>2, <1>3 DEF OneGrower, Accounts
<1> QED BY <1>1, <1>4

\* w joins or leaves the threads that move segments of t, or the step does not matter to them.
Busy(w) == pc[w] = "move" \/ Moving(w)

LEMMA SameMovers ==
  ASSUME NEW w \in Workers, Others(w), Busy(w)' <=> Busy(w), Busy(w) => table'[w] = table[w]
  PROVE  \A t : Rehashing(t)' = Rehashing(t)
<1>1. \A t : \A v \in Workers : (v \in Rehashing(t))' <=> v \in Rehashing(t)
  BY DEF Rehashing, At, Busy, Moving, Others
<1>2. \A t : Rehashing(t) \subseteq Workers /\ Rehashing(t)' \subseteq Workers
  BY DEF Rehashing
<1> QED BY <1>1, <1>2

\* Neither the counters nor the threads at work change.
Quiet(w) == linked' = linked /\ toRehash' = toRehash /\ (Busy(w)' <=> Busy(w)) /\ (Busy(w) => table'[w] = table[w])

LEMMA QuietSteps ==
  ASSUME Basic, Accounts, NEW w \in Workers, threw' = {},
         \/ Begin(w) \/ ProbeStep(w) \/ CheckOutdated(w) \/ Invalidate(w) \/ Await(w) \/ SeeMoved(w)
         \/ Grow(w) /\ linked # table[w]
         \/ Claim(w) /\ toRehash[table[w]] = 0
  PROVE  Quiet(w)
<1>1. /\ Where(w) /\ pc \in [Workers -> Pcs] /\ carry \in [Workers -> Values \cup {NoValue}]
      /\ table \in [Workers -> 1..linked]
  BY DEF Basic, Types, TypeOK
<1>2. CASE Begin(w)
  <2>1. UNCHANGED <<linked, toRehash, table, carry>> /\ pc[w] = "idle" /\ pc'[w] = "look"
    BY <1>1, <1>2 DEF Begin, Goto, At, moveVars, tableVars
  <2> QED BY <2>1 DEF Quiet, Busy, Moving
<1>3. CASE ProbeStep(w)
  <2>1. Steps(w)
    BY <1>3 DEF ProbeStep, Steps
  <2>2. /\ Probing(w) /\ linked' = linked /\ table' = table
        /\ Goes(w) \/ Delivers(w) \/ Answers(w)
    BY <1>3, <2>1, ProbeEffect, NotThrown
  <2> QED BY <2>2 DEF Quiet, Busy, Moving, Probing, Goes, Delivers, Answers
<1>4. CASE CheckOutdated(w)
  <2>1. UNCHANGED <<linked, toRehash, table, carry>> /\ pc[w] = "outdated"
    BY <1>4 DEF CheckOutdated, At, tableVars
  <2>2. pc'[w] \in {"idle", "look", "claim"}
    BY <1>1, <1>4 DEF CheckOutdated, Return, Restart, Goto
  <2> QED BY <2>1, <2>2 DEF Quiet, Busy, Moving
<1>5. CASE Invalidate(w)
  <2>1. UNCHANGED <<linked, toRehash, table>> /\ pc[w] = "move"
    BY <1>5 DEF Invalidate, At
  <2>2. Moving(w)' \/ pc' = pc
    <3>1. CASE cell[table[w]][seg[w] * Segment + pos[w]] \in Values
      BY <1>1, <1>5, <3>1, HashSetAssumption DEF Invalidate, Moving, HashSetAssumption
    <3>2. CASE cell[table[w]][seg[w] * Segment + pos[w]] \notin Values
      BY <1>5, <3>2 DEF Invalidate
    <3> QED BY <3>1, <3>2
  <2> QED BY <2>1, <2>2 DEF Quiet, Busy
<1>6. CASE Await(w) \/ SeeMoved(w)
  <2>1. UNCHANGED <<linked, toRehash, table, carry>> /\ pc[w] # "move" /\ pc'[w] # "move"
    BY <1>1, <1>6 DEF Await, SeeMoved, At, Goto, tableVars, moveVars
  <2> QED BY <2>1 DEF Quiet, Busy, Moving
<1>7. CASE Grow(w) /\ linked # table[w]
  <2>1. UNCHANGED <<linked, toRehash, table, carry>> /\ pc[w] # "move" /\ pc'[w] # "move"
    BY <1>1, <1>7 DEF Grow, At, Goto
  <2> QED BY <2>1 DEF Quiet, Busy, Moving
<1>8. CASE Claim(w) /\ toRehash[table[w]] = 0
  <2>1. UNCHANGED <<linked, toRehash, carry>> /\ pc[w] = "claim" /\ pc'[w] # "move"
    BY <1>1, <1>8 DEF Claim, At, Goto, AfterRehash
  <2>2. ~Busy(w) /\ ~Busy(w)'
    BY <1>1, <2>1 DEF Busy, Moving, Where
  <2> QED BY <2>1, <2>2 DEF Quiet
<1> QED BY <1>2, <1>3, <1>4, <1>5, <1>6, <1>7, <1>8

\* The steps that count.
Links(w) == Grow(w) /\ linked = table[w]
Claims(w) == Claim(w) /\ toRehash[table[w]] # 0

LEMMA StepKinds ==
  ASSUME Basic, Accounts, NEW w \in Workers, Steps(w), threw' = {}
  PROVE  Quiet(w) \/ Links(w) \/ Claims(w) \/ SegmentDone(w) \/ OpenTable(w)
BY QuietSteps DEF Steps, ProbeStep, Links, Claims

LEMMA LinksEffect ==
  ASSUME Basic, Accounts, NEW w \in Workers, Links(w)
  PROVE  /\ linked + 1 \in Tables /\ linked' = linked + 1
         /\ toRehash'[linked + 1] = 0 - segment_count(linked) - 1 /\ segment_count(linked) \in Nat
         /\ toRehash[linked] = segment_count(linked) /\ Rehashing(linked) = {}
         /\ \A t \in Tables : t # linked + 1 => toRehash'[t] = toRehash[t]
         /\ \A t : Rehashing(t)' = Rehashing(t)
<1>1. /\ linked \in Tables /\ linked \in Nat /\ table[w] = linked /\ toRehash \in [Tables -> Int]
      /\ pc \in [Workers -> Pcs] /\ carry \in [Workers -> Values \cup {NoValue}] /\ Where(w)
  BY Numbers DEF Basic, Types, TypeOK, Links
<1>2. linked + 1 \in Tables
  BY <1>1, TableSizes DEF Links, Grow, Tables
<1>3. /\ linked' = linked + 1 /\ toRehash' = [toRehash EXCEPT ![linked + 1] = 0 - segment_count(linked) - 1]
      /\ table' = table /\ carry' = carry /\ pc[w] = "grow" /\ pc'[w] = "claim" /\ carry[w] = NoValue
  BY <1>1 DEF Links, Grow, Goto, At, Where, Moving
<1>4. toRehash[linked] = segment_count(linked)
  BY <1>1, <1>3 DEF Where, Accounts, LastOpen
<1>5. Rehashing(linked) = {}
  BY <1>1 DEF Rehashing, At, Basic, Where
<1>6. \A t : Rehashing(t)' = Rehashing(t)
  <2>1. Others(w)
    BY StepOthers DEF Links, Steps
  <2> QED BY <1>3, <2>1, SameMovers DEF Busy, Moving
<1> QED BY <1>1, <1>2, <1>3, <1>4, <1>5, <1>6, TableSizes

LEMMA ClaimsEffect ==
  ASSUME Basic, Accounts, NEW w \in Workers, Claims(w)
  PROVE  /\ table[w] + 1 = linked /\ table[w] \in Tables /\ linked' = linked
         /\ toRehash[table[w]] \in Nat \ {0} /\ toRehash[linked] < 0
         /\ toRehash'[table[w]] = toRehash[table[w]] - 1
         /\ \A t \in Tables : t # table[w] => toRehash'[t] = toRehash[t]
         /\ \A t : t # table[w] => Rehashing(t)' = Rehashing(t)
         /\ w \notin Rehashing(table[w]) /\ Rehashing(table[w])' = Rehashing(table[w]) \cup {w}
         /\ seg'[w] = toRehash[table[w]] - 1 /\ pos'[w] = 0 /\ ~Moving(w)' /\ cell' = cell
<1>1. /\ table[w] \in Tables /\ table[w] < linked /\ toRehash[table[w]] \in Nat \ {0}
      /\ toRehash \in [Tables -> Int] /\ pc \in [Workers -> Pcs] /\ Where(w)
      /\ seg \in [Workers -> Nat] /\ pos \in [Workers -> 0..Segment]
  BY ClaimTypes DEF Claims, Basic, Types, TypeOK
<1>2. /\ toRehash' = [toRehash EXCEPT ![table[w]] = toRehash[table[w]] - 1] /\ linked' = linked
      /\ seg' = [seg EXCEPT ![w] = toRehash[table[w]] - 1] /\ pos' = [pos EXCEPT ![w] = 0]
      /\ table' = table /\ carry' = carry /\ cell' = cell
      /\ pc[w] = "claim" /\ pc'[w] = "move" /\ carry[w] = NoValue
  BY <1>1 DEF Claims, Claim, Goto, At, Where, Moving
<1>3. table[w] + 1 = linked /\ toRehash[linked] < 0
  <2>1. toRehash[table[w] + 1] < 0
    BY <1>1 DEF Accounts, Counts
  <2>2. table[w] + 1 \in Tables /\ table[w] + 1 <= linked /\ table[w] + 1 \in Nat /\ linked \in Nat
        /\ toRehash[table[w] + 1] \in Int
    BY <1>1, Numbers
  <2>3. ~(table[w] + 1 < linked)
    <3>1. table[w] + 1 < linked => toRehash[table[w] + 1] >= 0
      BY <2>2 DEF Basic, Signs
    <3> QED BY <2>1, <2>2, <3>1
  <2>4. table[w] + 1 = linked
    BY <2>2, <2>3
  <2> QED BY <2>1, <2>4
<1>4. Others(w)
  BY StepOthers DEF Claims, Steps
<1>5. \A t : \A v \in Workers \ {w} : (v \in Rehashing(t))' <=> v \in Rehashing(t)
  BY <1>4 DEF Others, Rehashing, At, Moving
<1>6. \A t : w \notin Rehashing(t) /\ ((w \in Rehashing(t))' <=> t = table[w])
  BY <1>2 DEF Rehashing, At, Moving
<1>7. \A t : Rehashing(t) \subseteq Workers /\ Rehashing(t)' \subseteq Workers
  BY DEF Rehashing
<1>8. \A t : t # table[w] => Rehashing(t)' = Rehashing(t)
  BY <1>5, <1>6, <1>7
<1>9. Rehashing(table[w])' = Rehashing(table[w]) \cup {w}
  <2> DEFINE u == table[w]
  <2>1. \A v \in Workers : (v \in Rehashing(u) \/ v = w) <=> v \in Rehashing(table[w])'
    BY <1>2, <1>5, <1>6, <1>4 DEF Rehashing, At, Moving, Others
  <2> QED BY <1>7, <2>1
<1>10. /\ toRehash'[table[w]] = toRehash[table[w]] - 1
       /\ \A t \in Tables : t # table[w] => toRehash'[t] = toRehash[t]
       /\ seg'[w] = toRehash[table[w]] - 1 /\ pos'[w] = 0 /\ ~Moving(w)'
  BY <1>1, <1>2 DEF Moving
<1> QED BY <1>1, <1>2, <1>3, <1>6, <1>8, <1>9, <1>10

LEMMA SegmentDoneEffect ==
  ASSUME Basic, Accounts, NEW w \in Workers, SegmentDone(w)
  PROVE  /\ table[w] + 1 = linked /\ table[w] \in Tables /\ linked' = linked
         /\ toRehash[linked] < 0 - 1 /\ toRehash'[linked] = toRehash[linked] + 1
         /\ \A t \in Tables : t # linked => toRehash'[t] = toRehash[t]
         /\ \A t : t # linked - 1 => Rehashing(t)' = Rehashing(t)
         /\ w \in Rehashing(linked - 1) /\ Rehashing(linked - 1)' = Rehashing(linked - 1) \ {w}
         /\ pos[w] = Segment /\ ~Moving(w) /\ cell' = cell
<1>1. /\ pc[w] = "move" /\ pos[w] = Segment /\ pc \in [Workers -> Pcs] /\ toRehash \in [Tables -> Int]
      /\ ~Moving(w)
  BY DEF SegmentDone, At, Basic, Types, TypeOK, Where
<1>2. /\ table[w] + 1 = linked /\ toRehash[linked] < 0 - 1 /\ w \in Rehashing(table[w])
  BY <1>1, MoverFacts
<1>3. /\ table[w] \in Tables /\ linked \in Tables /\ table[w] \in Nat /\ linked \in Nat
  BY Numbers
<1>4. table[w] = linked - 1
  BY <1>2, <1>3
<1>5. /\ toRehash' = [toRehash EXCEPT ![linked] = @ + 1] /\ linked' = linked /\ cell' = cell /\ carry' = carry
      /\ pc'[w] \in {"claim", "spin", "await"}
  BY <1>1, <1>2 DEF SegmentDone, Goto, AfterRehash, moveVars
<1>6. toRehash'[linked] = toRehash[linked] + 1 /\ \A t \in Tables : t # linked => toRehash'[t] = toRehash[t]
  BY <1>1, <1>3, <1>5
<1>7. Others(w)
  BY StepOthers DEF Steps
<1>8. \A t : \A v \in Workers \ {w} : (v \in Rehashing(t))' <=> v \in Rehashing(t)
  BY <1>7 DEF Others, Rehashing, At, Moving
<1>9. \A t : (w \notin Rehashing(t))' /\ (w \in Rehashing(t) <=> t = table[w])
  BY <1>1, <1>5 DEF Rehashing, At, Moving
<1>10. \A t : Rehashing(t) \subseteq Workers /\ Rehashing(t)' \subseteq Workers
  BY DEF Rehashing
<1>11. \A t : t # linked - 1 => Rehashing(t)' = Rehashing(t)
  BY <1>4, <1>8, <1>9, <1>10
<1>12. Rehashing(linked - 1)' = Rehashing(linked - 1) \ {w}
  <2>1. \A v \in Workers : (v \in Rehashing(linked - 1) /\ v # w) <=> v \in Rehashing(linked - 1)'
    BY <1>5, <1>7, <1>9 DEF Rehashing, At, Moving, Others
  <2> QED BY <1>10, <2>1
<1> QED BY <1>1, <1>2, <1>3, <1>4, <1>5, <1>6, <1>11, <1>12

LEMMA OpenTableEffect ==
  ASSUME Basic, Accounts, NEW w \in Workers, OpenTable(w)
  PROVE  /\ table[w] = linked /\ toRehash[linked] = -1 /\ linked' = linked
         /\ toRehash'[linked] = segment_count(linked) /\ segment_count(linked) \in Nat
         /\ \A t \in Tables : t # linked => toRehash'[t] = toRehash[t]
         /\ \A t : Rehashing(t)' = Rehashing(t)
         /\ cell' = cell
<1>1. /\ pc[w] = "open" /\ pc \in [Workers -> Pcs] /\ toRehash \in [Tables -> Int] /\ Role(w) /\ ~Moving(w)
  BY DEF OpenTable, At, Basic, Types, TypeOK, Where, Accounts
<1>2. table[w] = linked /\ toRehash[linked] = -1 /\ linked \in Tables
  BY <1>1, Numbers DEF Role
<1>3. /\ toRehash' = [toRehash EXCEPT ![linked] = segment_count(linked)] /\ linked' = linked
      /\ cell' = cell /\ carry' = carry /\ table' = table /\ pc'[w] = "look"
  BY <1>1, <1>2 DEF OpenTable, Restart, Goto
<1>4. /\ toRehash'[linked] = segment_count(linked) /\ segment_count(linked) \in Nat
      /\ \A t \in Tables : t # linked => toRehash'[t] = toRehash[t]
  BY <1>1, <1>2, <1>3, TableSizes
<1>5. \A t : Rehashing(t)' = Rehashing(t)
  <2>1. Others(w)
    BY StepOthers DEF Steps
  <2> QED BY <1>1, <1>3, <2>1, SameMovers DEF Busy, Moving
<1> QED BY <1>2, <1>3, <1>4, <1>5

LEMMA StepCounts ==
  ASSUME Basic, Accounts, NEW w \in Workers, Steps(w), threw' = {}
  PROVE  Counts' /\ LastOpen'
<1>1. /\ linked \in Tables /\ linked \in Nat /\ linked >= 1 /\ Tables \subseteq Nat
      /\ \A t \in Tables : toRehash[t] \in Int /\ (t < linked => t + 1 \in Tables /\ t + 1 <= linked)
      /\ Counts /\ LastOpen /\ Signs
  BY Numbers DEF Accounts, Basic
<1>2. CASE Quiet(w)
  <2>1. linked' = linked /\ toRehash' = toRehash
    BY <1>2 DEF Quiet
  <2>2. \A t : Rehashing(t)' = Rehashing(t)
    BY <1>2, StepOthers, SameMovers DEF Quiet
  <2> QED BY <1>1, <2>1, <2>2 DEF Counts, LastOpen
<1>3. CASE Links(w)
  <2> DEFINE n == segment_count(linked)
  <2>1. /\ linked + 1 \in Tables /\ linked' = linked + 1
        /\ toRehash'[linked + 1] = 0 - n - 1 /\ n \in Nat
        /\ toRehash[linked] = n /\ Rehashing(linked) = {}
        /\ \A t \in Tables : t # linked + 1 => toRehash'[t] = toRehash[t]
        /\ \A t : Rehashing(t)' = Rehashing(t)
    BY <1>3, LinksEffect
  <2> HIDE DEF n
  <2>2. LastOpen'
    BY <2>1 DEF LastOpen
  <2>3. ASSUME NEW t \in Tables, t < linked'
        PROVE  IF toRehash'[t + 1] < 0
               THEN 0 - 1 - toRehash'[t + 1] = toRehash'[t] + Cardinality(Rehashing(t)')
               ELSE toRehash'[t] = 0 /\ Rehashing(t)' = {}
    <3>1. t \in Nat /\ Rehashing(t)' = Rehashing(t) /\ toRehash'[t] = toRehash[t]
      <4>1. t \in Nat
        BY <1>1
      <4> QED BY <1>1, <2>1, <2>3, <4>1
    <3>2. CASE t = linked
      <4>1. Rehashing(t)' = {} /\ toRehash'[t] = n /\ toRehash'[t + 1] = 0 - n - 1
        BY <2>1, <3>1, <3>2
      <4>2. Cardinality(Rehashing(t)') = 0
        BY <4>1, FS_EmptySet
      <4> QED BY <2>1, <4>1, <4>2
    <3>3. CASE t < linked
      <4>1. t + 1 # linked + 1 /\ t + 1 \in Tables
        BY <1>1, <3>1, <3>3
      <4>2. toRehash'[t + 1] = toRehash[t + 1]
        BY <2>1, <4>1
      <4> QED BY <1>1, <3>1, <3>3, <4>2 DEF Counts
    <3> QED BY <1>1, <2>1, <2>3, <3>1, <3>2, <3>3
  <2>4. Counts'
    BY <2>3 DEF Counts
  <2> QED BY <2>2, <2>4
<1>4. CASE Claims(w)
  <2> DEFINE u == table[w]
  <2>1. /\ u + 1 = linked /\ u \in Tables /\ linked' = linked /\ u \in Nat
        /\ toRehash[u] \in Nat \ {0} /\ toRehash[linked] < 0
        /\ toRehash'[u] = toRehash[u] - 1
        /\ \A t \in Tables : t # u => toRehash'[t] = toRehash[t]
        /\ \A t : t # u => Rehashing(t)' = Rehashing(t)
        /\ w \notin Rehashing(u)
    BY <1>4, ClaimsEffect, Numbers
  <2>2. Rehashing(table[w])' = Rehashing(table[w]) \cup {w} /\ table' = table
    BY <1>4, ClaimsEffect DEF Claims, Claim
  <2> DEFINE n == Cardinality(Rehashing(u))
             m == Cardinality(Rehashing(table[w]))'
  <2>3. m = n + 1 /\ n \in Nat
    BY <2>1, <2>2, RehashingFinite, FS_AddElement
  <2>4. 0 - 1 - toRehash[linked] = toRehash[u] + n
    <3>1. u < linked
      BY <1>1, <2>1
    <3> QED BY <1>1, <2>1, <3>1 DEF Counts
  <2>5. toRehash'[linked] = toRehash[linked]
    BY <1>1, <2>1
  <2>6. 0 - 1 - toRehash'[linked] = toRehash'[u] + m
    BY <2>1, <2>3, <2>4, <2>5
  <2>7. LastOpen'
    BY <1>1, <2>1, <2>5 DEF LastOpen
  <2>8. ASSUME NEW t \in Tables, t < linked'
        PROVE  (IF toRehash[t + 1] < 0
                THEN 0 - 1 - toRehash[t + 1] = toRehash[t] + Cardinality(Rehashing(t))
                ELSE toRehash[t] = 0 /\ Rehashing(t) = {})'
    <3>1. t \in Nat
      BY <1>1
    <3>2. CASE t = u
      <4>1. Cardinality(Rehashing(t))' = m
        BY <2>2, <3>2 DEF Rehashing, At, Moving
      <4> QED BY <1>1, <2>1, <2>5, <2>6, <3>2, <4>1
    <3>3. CASE t # u /\ t + 1 = u
      <4>1. ~(toRehash[u] < 0) /\ ~(toRehash'[u] < 0)
        BY <2>1
      <4>2. toRehash[t] = 0 /\ Rehashing(t) = {}
        BY <1>1, <2>1, <2>8, <3>3, <4>1 DEF Counts
      <4> QED BY <2>1, <3>3, <4>1, <4>2
    <3>4. CASE t # u /\ t + 1 # u
      <4>1. t + 1 \in Tables /\ t < linked
        BY <1>1, <2>1, <2>8
      <4>2. toRehash'[t + 1] = toRehash[t + 1] /\ toRehash'[t] = toRehash[t] /\ Rehashing(t)' = Rehashing(t)
        BY <2>1, <3>4, <4>1
      <4> QED BY <1>1, <4>1, <4>2 DEF Counts
    <3> QED BY <3>2, <3>3, <3>4
  <2>9. Counts'
    BY <2>8 DEF Counts
  <2> QED BY <2>7, <2>9
<1>5. CASE SegmentDone(w)
  <2> DEFINE u == linked - 1
  <2>1. /\ u + 1 = linked /\ u \in Tables /\ linked' = linked /\ u \in Nat
        /\ toRehash[linked] < 0 - 1 /\ toRehash'[linked] = toRehash[linked] + 1
        /\ \A t \in Tables : t # linked => toRehash'[t] = toRehash[t]
        /\ \A t : t # u => Rehashing(t)' = Rehashing(t)
        /\ w \in Rehashing(u) /\ Rehashing(u)' = Rehashing(u) \ {w}
    <3>1. table[w] + 1 = linked /\ table[w] \in Tables /\ table[w] \in Nat /\ linked \in Nat
      BY <1>5, SegmentDoneEffect, Numbers
    <3>2. u = table[w]
      BY <3>1
    <3> QED BY <1>5, <3>1, <3>2, SegmentDoneEffect
  <2> DEFINE n == Cardinality(Rehashing(u))
             m == Cardinality(Rehashing(u)')
  <2>2. m = n - 1 /\ n \in Nat
    BY <2>1, RehashingFinite, FS_RemoveElement
  <2>3. toRehash'[linked] < 0 /\ ~(toRehash'[linked] >= 0)
    BY <1>1, <2>1
  <2>4. LastOpen'
    BY <2>1, <2>3 DEF LastOpen
  <2>5. 0 - 1 - toRehash[linked] = toRehash[u] + n
    <3>1. u < linked /\ toRehash[linked] < 0
      BY <1>1, <2>1
    <3> QED BY <1>1, <2>1, <3>1 DEF Counts
  <2>6. toRehash'[u] = toRehash[u]
    BY <1>1, <2>1
  <2>7. 0 - 1 - toRehash'[linked] = toRehash'[u] + m
    BY <1>1, <2>1, <2>2, <2>5, <2>6
  <2>8. ASSUME NEW t \in Tables, t < linked'
        PROVE  (IF toRehash[t + 1] < 0
                THEN 0 - 1 - toRehash[t + 1] = toRehash[t] + Cardinality(Rehashing(t))
                ELSE toRehash[t] = 0 /\ Rehashing(t) = {})'
    <3>1. t \in Nat /\ t < linked /\ t # linked
      BY <1>1, <2>1, <2>8
    <3>2. CASE t = u
      <4>1. Cardinality(Rehashing(t))' = m
        BY <2>1, <3>2
      <4> QED BY <1>1, <2>1, <2>3, <2>7, <3>2, <4>1
    <3>3. CASE t # u
      <4>1. t + 1 # linked /\ t + 1 \in Tables
        BY <1>1, <2>1, <3>1, <3>3
      <4>2. toRehash'[t + 1] = toRehash[t + 1] /\ toRehash'[t] = toRehash[t] /\ Rehashing(t)' = Rehashing(t)
        BY <2>1, <3>1, <3>3, <4>1
      <4> QED BY <1>1, <3>1, <4>2 DEF Counts
    <3> QED BY <3>2, <3>3
  <2>9. Counts'
    BY <2>8 DEF Counts
  <2> QED BY <2>4, <2>9
<1>6. CASE OpenTable(w)
  <2>1. /\ table[w] = linked /\ toRehash[linked] = -1 /\ linked' = linked
        /\ toRehash'[linked] = segment_count(linked) /\ segment_count(linked) \in Nat
        /\ \A t \in Tables : t # linked => toRehash'[t] = toRehash[t]
        /\ \A t : Rehashing(t)' = Rehashing(t)
    BY <1>6, OpenTableEffect
  <2>2. LastOpen'
    BY <2>1 DEF LastOpen, segment_count
  <2>3. ASSUME NEW t \in Tables, t < linked'
        PROVE  (IF toRehash[t + 1] < 0
                THEN 0 - 1 - toRehash[t + 1] = toRehash[t] + Cardinality(Rehashing(t))
                ELSE toRehash[t] = 0 /\ Rehashing(t) = {})'
    <3>1. t \in Nat /\ t < linked /\ t # linked /\ toRehash'[t] = toRehash[t] /\ Rehashing(t)' = Rehashing(t)
      <4>1. t \in Nat
        BY <1>1
      <4> QED BY <1>1, <2>1, <2>3, <4>1
    <3>2. CASE t + 1 = linked
      <4>1. 0 = toRehash[t] + Cardinality(Rehashing(t))
        BY <1>1, <2>1, <3>1, <3>2 DEF Counts
      <4>2. toRehash[t] \in Int /\ toRehash[t] >= 0 /\ Cardinality(Rehashing(t)) \in Nat
        BY <1>1, <3>1, RehashingFinite DEF Signs
      <4>3. toRehash[t] = 0 /\ Cardinality(Rehashing(t)) = 0
        BY <4>1, <4>2
      <4>4. Rehashing(t) = {}
        BY <4>3, RehashingFinite
      <4>5. ~(toRehash'[t + 1] < 0)
        BY <2>1, <3>2
      <4> QED BY <3>1, <4>3, <4>4, <4>5
    <3>3. CASE t + 1 # linked
      <4>1. toRehash'[t + 1] = toRehash[t + 1]
        BY <1>1, <2>1, <3>1, <3>3
      <4> QED BY <1>1, <3>1, <4>1 DEF Counts
    <3> QED BY <3>2, <3>3
  <2>4. Counts'
    BY <2>3 DEF Counts
  <2> QED BY <2>2, <2>4
<1> QED BY <1>2, <1>3, <1>4, <1>5, <1>6, StepKinds
-----------------------------------------------------------------------------
(* The cells that are left behind *)

\* What a step does to a cell: it may fill an empty one or invalidate one.
LEMMA StepCells ==
  ASSUME Basic, NEW w \in Workers, Steps(w), NEW t \in Tables, NEW i \in Slots(t)
  PROVE  \/ cell'[t][i] = cell[t][i]
         \/ /\ TryStore(w) /\ Seen(w) = Empty /\ t = Target(w) /\ i = Slot(w)
            /\ cell[t][i] = Empty /\ cell'[t][i] = Key(w)
         \/ /\ Invalidate(w) /\ t = table[w] /\ i = seg[w] * Segment + pos[w]
            /\ cell'[t][i] = Invalid
<1>1. CASE TryStore(w)
  <2>1. Probing(w)
    BY <1>1 DEF TryStore, At, Probing
  <2>2. CASE Seen(w) = Empty
    <3>1. Wrote(Target(w), Slot(w), Key(w))
      BY <1>1, <2>2, TryStoreTypes
    <3>2. Seen(w) = cell[Target(w)][Slot(w)]
      BY <2>1, KeyFacts
    <3> QED BY <1>1, <2>2, <3>1, <3>2 DEF Wrote
  <2>3. CASE Seen(w) # Empty
    BY <1>1, <2>3 DEF TryStore
  <2> QED BY <2>2, <2>3
<1>2. CASE Invalidate(w)
  <2> DEFINE k == seg[w] * Segment + pos[w]
  <2>1. CASE k \in Slots(table[w])
    <3>1. Wrote(table[w], k, Invalid)
      BY <1>2, <2>1, InvalidateTypes
    <3> HIDE DEF k
    <3>2. CASE t = table[w] /\ i = k
      BY <1>2, <3>1, <3>2 DEF Wrote, k
    <3>3. CASE t # table[w] \/ i # k
      BY <3>1, <3>3 DEF Wrote
    <3> QED BY <3>2, <3>3
  <2>2. CASE k \notin Slots(table[w])
    BY <1>2, <2>2, InvalidateTypes
  <2> QED BY <2>1, <2>2
<1>3. CASE ~TryStore(w) /\ ~Invalidate(w)
  <2>1. cell' = cell
    BY <1>3 DEF Steps, Begin, Look, FindNothing, Match, Grow, CheckOutdated, Claim, SegmentDone, Await,
                SeeMoved, OpenTable, tableVars
  <2> QED BY <2>1
<1> QED BY <1>1, <1>2, <1>3

\* An invalid cell stays invalid.
LEMMA InvalidStays ==
  ASSUME Basic, NEW w \in Workers, Steps(w), NEW t \in Tables, NEW i \in Slots(t), cell[t][i] = Invalid
  PROVE  cell'[t][i] = Invalid
BY StepCells, HashSetAssumption DEF HashSetAssumption

LEMMA StepLastValid ==
  ASSUME Basic, Accounts, NEW w \in Workers, Steps(w)
  PROVE  LastValid'
<1>1. ASSUME NEW t \in Tables, NEW i \in Slots(t), t >= linked'
      PROVE  cell'[t][i] # Invalid
  <2>1. t >= linked
    <3>1. linked <= linked' /\ linked \in Nat /\ linked' \in Nat /\ t \in Nat
      <4>1. Basic'
        BY StepBasic
      <4>2. linked' \in Tables
        BY <4>1 DEF Basic, Types, TypeOK
      <4> QED BY <4>2, Numbers, StepMonotone DEF Monotone
    <3> QED BY <1>1, <3>1
  <2>2. cell[t][i] # Invalid
    BY <2>1 DEF Accounts, LastValid
  <2>3. TryStore(w) => Key(w) # Invalid
    BY KeyFacts, HashSetAssumption DEF TryStore, At, Probing, HashSetAssumption
  <2>4. Invalidate(w) => t # table[w]
    <3>1. SUFFICES ASSUME Invalidate(w), t = table[w] PROVE FALSE
      OBVIOUS
    <3>2. table[w] < linked /\ table[w] \in Nat /\ linked \in Nat
      BY <3>1, InvalidateCell, Numbers
    <3> QED BY <2>1, <3>1, <3>2
  <2> QED BY <2>2, <2>3, <2>4, StepCells
<1> QED BY <1>1 DEF LastValid, Slots

\* What lies ahead of the other threads does not change.
LEMMA OthersAhead ==
  ASSUME NEW w \in Workers, Others(w), NEW v \in Workers \ {w}
  PROVE  Ahead(v)' = Ahead(v)
BY DEF Others, Ahead, Moving

\* Nothing but what a step invalidates gets behind the thread that takes it.
LEMMA QuietAhead ==
  ASSUME Basic, Accounts, NEW w \in Workers, Steps(w), threw' = {}, Quiet(w), Busy(w),
         NEW i \in Ahead(w)
  PROVE  \/ i \in Ahead(w)'
         \/ Invalidate(w) /\ i = seg[w] * Segment + pos[w]
<1>1. /\ Where(w) /\ pc \in [Workers -> Pcs] /\ carry \in [Workers -> Values \cup {NoValue}]
      /\ pos \in [Workers -> 0..Segment] /\ seg[w] \in Nat
  BY DEF Basic, Types, TypeOK
<1>2. Segment \in Nat /\ pos[w] \in Nat
  BY <1>1, Numbers, TableSizes
<1>3. seg[w] * Segment \in Nat
  BY <1>1, <1>2
<1>4. CASE ProbeStep(w)
  <2>1. seg' = seg /\ Probing(w) /\ (Goes(w) \/ Delivers(w) \/ Answers(w))
    BY <1>4, ProbeEffect, NotThrown
  <2>2. Moving(w)
    BY <2>1 DEF Busy, Probing
  <2>3. CASE Goes(w)
    BY <2>1, <2>3 DEF Ahead, Moving, Goes
  <2>4. CASE Delivers(w)
    <3>1. pos'[w] = pos[w] + 1 /\ ~Moving(w)'
      BY <2>4 DEF Delivers, Moving
    <3> QED BY <1>2, <1>3, <2>1, <2>2, <3>1 DEF Ahead
  <2> QED BY <2>1, <2>2, <2>3, <2>4 DEF Answers
<1>5. CASE Invalidate(w)
  <2> DEFINE b == seg[w] * Segment
  <2>1. seg' = seg /\ ~Moving(w)
    BY <1>5, InvalidateCell DEF Invalidate
  <2>2. i \in Nat /\ b + pos[w] <= i /\ i < b + Segment
    BY <1>2, <1>3, <2>1 DEF Ahead
  <2>3. \/ pos' = pos
        \/ ~Moving(w)' /\ pos'[w] = pos[w] + 1
    BY <1>1, <1>5, <2>1 DEF Invalidate, Moving
  <2>4. seg'[w] * Segment = b /\ b \in Nat
    BY <1>3, <2>1
  <2> HIDE DEF b
  <2>5. CASE i = b + pos[w]
    BY <1>5, <2>5 DEF b
  <2>6. CASE i # b + pos[w]
    <3>1. b + pos[w] + 1 <= i
      BY <1>2, <2>2, <2>4, <2>6
    <3>2. b + pos'[w] + (IF Moving(w)' THEN 1 ELSE 0) <= i
      BY <1>2, <2>2, <2>3, <2>4, <3>1
    <3> QED BY <2>2, <2>4, <3>2 DEF Ahead
  <2> QED BY <2>5, <2>6
<1>6. CASE ~ProbeStep(w) /\ ~Invalidate(w)
  <2>1. pc[w] \notin {"look", "store", "match"} => ~Moving(w)
    BY <1>1 DEF Where
  <2>2. ~Busy(w) \/ SegmentDone(w)
    BY <1>6, <2>1 DEF Steps, ProbeStep, Begin, Grow, CheckOutdated, Claim, Await, SeeMoved, OpenTable,
                      At, Busy
  <2>3. ~SegmentDone(w)
    <3>1. SUFFICES ASSUME SegmentDone(w) PROVE FALSE
      OBVIOUS
    <3>2. toRehash'[linked] = toRehash[linked] + 1 /\ toRehash' = toRehash /\ toRehash[linked] \in Int
      BY <3>1, SegmentDoneEffect, Numbers DEF Quiet
    <3> QED BY <3>2
  <2> QED BY <2>2, <2>3
<1> QED BY <1>4, <1>5, <1>6

Behind(t, i) == cell[t][i] = Invalid \/ \E v \in Rehashing(t) : i \in Ahead(v)

LEMMA QuietBehind ==
  ASSUME Basic, Accounts, NEW w \in Workers, Steps(w), threw' = {}, Quiet(w),
         NEW t \in Tables, NEW i \in Slots(t), Behind(t, i)
  PROVE  Behind(t, i)'
<1>1. Others(w)
  BY StepOthers
<1>2. \A u : Rehashing(u)' = Rehashing(u)
  BY <1>1, SameMovers DEF Quiet
<1>3. CASE cell[t][i] = Invalid
  BY <1>3, InvalidStays DEF Behind
<1>4. ASSUME NEW v \in Rehashing(t), i \in Ahead(v), v # w
      PROVE  Behind(t, i)'
  <2>1. v \in Workers \ {w}
    BY <1>4 DEF Rehashing
  <2>2. Ahead(v)' = Ahead(v)
    BY <1>1, <2>1, OthersAhead
  <2>3. v \in Rehashing(t)'
    BY <1>2, <1>4
  <2>4. i \in Ahead(v)'
    BY <1>4, <2>2
  <2> QED BY <2>3, <2>4 DEF Behind
<1>5. ASSUME w \in Rehashing(t), i \in Ahead(w)
      PROVE  Behind(t, i)'
  <2>1. Busy(w) /\ table[w] = t
    BY <1>5 DEF Rehashing, Busy, At
  <2>2. \/ i \in Ahead(w)'
        \/ Invalidate(w) /\ i = seg[w] * Segment + pos[w]
    BY <1>5, <2>1, QuietAhead
  <2>3. CASE i \in Ahead(w)'
    <3>1. w \in Rehashing(t)'
      BY <1>2, <1>5
    <3> QED BY <2>3, <3>1 DEF Behind
  <2>4. CASE Invalidate(w) /\ i = seg[w] * Segment + pos[w]
    <3>1. Wrote(t, i, Invalid)
      BY <2>1, <2>4, InvalidateTypes
    <3> QED BY <3>1 DEF Wrote, Behind
  <2> QED BY <2>2, <2>3, <2>4
<1> QED BY <1>3, <1>4, <1>5 DEF Behind

LEMMA StepCovered ==
  ASSUME Basic, Accounts, NEW w \in Workers, Steps(w), threw' = {}
  PROVE  Covered'
<1>1. /\ linked \in Tables /\ linked \in Nat /\ Tables \subseteq Nat
      /\ \A t \in Tables : toRehash[t] \in Int
      /\ \A t \in Tables : \A i \in Slots(t) : t < linked /\ i >= toRehash[t] * Segment => Behind(t, i)
  BY Numbers DEF Accounts, Covered, Behind
<1>2. Others(w)
  BY StepOthers
<1>3. SUFFICES ASSUME NEW t \in Tables, NEW i \in Slots(t), t < linked', i >= toRehash'[t] * Segment
               PROVE  Behind(t, i)'
  BY DEF Covered, Behind, Slots
<1>4. /\ t \in Nat /\ i \in Nat /\ Segment \in Nat \ {0} /\ Sizes[t] \in Nat \ {0} /\ i < Sizes[t]
      /\ segment_count(t) * Segment = Sizes[t]
  BY <1>1, TableSizes DEF Slots
<1>5. CASE Quiet(w)
  <2>1. Behind(t, i)
    BY <1>1, <1>3, <1>5 DEF Quiet
  <2> QED BY <1>5, <2>1, QuietBehind
<1>6. ASSUME cell' = cell, \A v \in Rehashing(t) : v \in Rehashing(t)' /\ v # w, Behind(t, i)
      PROVE  Behind(t, i)'
  <2>1. CASE cell[t][i] = Invalid
    BY <1>6, <2>1 DEF Behind
  <2>2. ASSUME NEW v \in Rehashing(t), i \in Ahead(v)
        PROVE  Behind(t, i)'
    <3>1. v \in Workers \ {w} /\ v \in Rehashing(t)'
      BY <1>6, <2>2 DEF Rehashing
    <3>2. Ahead(v)' = Ahead(v)
      BY <1>2, <3>1, OthersAhead
    <3>3. i \in Ahead(v)'
      BY <2>2, <3>2
    <3> QED BY <3>1, <3>3 DEF Behind
  <2> QED BY <1>6, <2>1, <2>2 DEF Behind
<1>7. CASE Links(w)
  <2>1. /\ linked' = linked + 1 /\ toRehash[linked] = segment_count(linked)
        /\ \A u \in Tables : u # linked + 1 => toRehash'[u] = toRehash[u]
        /\ \A u : Rehashing(u)' = Rehashing(u)
    BY <1>7, LinksEffect
  <2>2. toRehash'[t] = toRehash[t]
    BY <1>1, <1>3, <1>4, <2>1
  <2>3. t # linked
    <3>1. SUFFICES ASSUME t = linked PROVE FALSE
      OBVIOUS
    <3>2. toRehash'[t] * Segment = Sizes[t]
      BY <1>4, <2>1, <2>2, <3>1
    <3> QED BY <1>3, <1>4, <3>2
  <2>4. t < linked
    BY <1>1, <1>3, <1>4, <2>1, <2>3
  <2>5. Behind(t, i)
    BY <1>1, <1>3, <2>2, <2>4
  <2>6. cell' = cell
    BY <1>7 DEF Links, Grow
  <2>7. w \notin Rehashing(t)
    <3>1. pc[w] = "grow" /\ ~Moving(w)
      BY <1>7 DEF Links, Grow, At, Basic, Where
    <3> QED BY <3>1 DEF Rehashing, At
  <2>8. \A v \in Rehashing(t) : v \in Rehashing(t)' /\ v # w
    BY <2>1, <2>7
  <2> QED BY <1>6, <2>5, <2>6, <2>8
<1>8. CASE Claims(w)
  <2> DEFINE u == table[w]
  <2>1. /\ u + 1 = linked /\ u \in Tables /\ linked' = linked
        /\ toRehash[u] \in Nat \ {0} /\ toRehash'[u] = toRehash[u] - 1
        /\ \A s \in Tables : s # u => toRehash'[s] = toRehash[s]
        /\ \A s : s # u => Rehashing(s)' = Rehashing(s)
        /\ w \notin Rehashing(u) /\ Rehashing(table[w])' = Rehashing(table[w]) \cup {w}
        /\ seg'[w] = toRehash[u] - 1 /\ pos'[w] = 0 /\ ~Moving(w)' /\ cell' = cell
    BY <1>8, ClaimsEffect
  <2>2. t < linked
    BY <1>3, <2>1
  <2>3. table' = table
    BY <1>8 DEF Claims, Claim
  <2>4. \A v \in Rehashing(t) : v \in Rehashing(t)' /\ v # w
    <3>1. w \notin Rehashing(t)
      BY <2>1 DEF Rehashing, At, Moving
    <3>2. CASE t = u
      BY <2>1, <2>3, <3>1, <3>2 DEF Rehashing, At, Moving
    <3>3. CASE t # u
      BY <2>1, <3>1, <3>3
    <3> QED BY <3>2, <3>3
  <2>5. CASE i >= toRehash[t] * Segment
    BY <1>1, <1>6, <2>1, <2>2, <2>4, <2>5
  <2>6. CASE ~(i >= toRehash[t] * Segment)
    <3>1. t = u
      BY <1>3, <2>1, <2>6
    <3> DEFINE r == toRehash[u]
               b == (r - 1) * Segment
    <3>2. r \in Nat /\ r - 1 \in Nat /\ b \in Nat /\ b + Segment = r * Segment
      <4>1. r \in Nat /\ r - 1 \in Nat
        BY <2>1
      <4>2. ASSUME NEW a \in Nat, a - 1 \in Nat
            PROVE  (a - 1) * Segment \in Nat /\ (a - 1) * Segment + Segment = a * Segment
        BY <1>4, <4>2
      <4> QED BY <4>1, <4>2
    <3>3. b <= i
      BY <1>3, <2>1, <3>1
    <3>4. r * Segment \in Nat /\ i < r * Segment
      BY <1>4, <2>6, <3>1, <3>2
    <3>5. i < b + Segment
      BY <3>2, <3>4
    <3>6. seg'[w] * Segment = b
      BY <2>1
    <3> HIDE DEF b, r
    <3>7. i \in Ahead(w)'
      BY <1>4, <2>1, <3>2, <3>3, <3>5, <3>6 DEF Ahead
    <3>8. w \in Rehashing(t)'
      BY <2>1, <2>3, <3>1 DEF Rehashing, At, Moving
    <3> QED BY <3>7, <3>8 DEF Behind
  <2> QED BY <2>5, <2>6
<1>9. CASE SegmentDone(w)
  <2>1. /\ table[w] + 1 = linked /\ table[w] \in Tables /\ linked' = linked
        /\ \A s \in Tables : s # linked => toRehash'[s] = toRehash[s]
        /\ \A s : s # linked - 1 => Rehashing(s)' = Rehashing(s)
        /\ Rehashing(linked - 1)' = Rehashing(linked - 1) \ {w}
        /\ pos[w] = Segment /\ ~Moving(w) /\ cell' = cell
    BY <1>9, SegmentDoneEffect
  <2>2. t < linked /\ toRehash'[t] = toRehash[t]
    BY <1>3, <1>4, <2>1, <1>1
  <2>3. Behind(t, i)
    BY <1>1, <1>3, <2>2
  <2>4. i \notin Ahead(w)
    <3>1. seg[w] \in Nat
      BY DEF Basic, Types, TypeOK
    <3>2. seg[w] * Segment \in Nat
      BY <1>4, <3>1
    <3> QED BY <1>4, <2>1, <3>2 DEF Ahead
  <2>5. \A v \in Rehashing(t) : v # w => v \in Rehashing(t)'
    <3>1. CASE t = linked - 1
      BY <2>1, <3>1 DEF Rehashing, At, Moving
    <3>2. CASE t # linked - 1
      BY <2>1, <3>2
    <3> QED BY <3>1, <3>2
  <2>6. CASE cell[t][i] = Invalid
    BY <2>1, <2>6 DEF Behind
  <2>7. ASSUME NEW v \in Rehashing(t), i \in Ahead(v)
        PROVE  Behind(t, i)'
    <3>1. v # w
      BY <2>4, <2>7
    <3>2. v \in Workers \ {w} /\ v \in Rehashing(t)'
      BY <2>5, <2>7, <3>1 DEF Rehashing
    <3>3. Ahead(v)' = Ahead(v)
      BY <1>2, <3>2, OthersAhead
    <3>4. i \in Ahead(v)'
      BY <2>7, <3>3
    <3> QED BY <3>2, <3>4 DEF Behind
  <2> QED BY <2>3, <2>6, <2>7 DEF Behind
<1>10. CASE OpenTable(w)
  <2>1. /\ linked' = linked /\ cell' = cell
        /\ \A s \in Tables : s # linked => toRehash'[s] = toRehash[s]
        /\ \A s : Rehashing(s)' = Rehashing(s)
    BY <1>10, OpenTableEffect
  <2>2. t < linked /\ toRehash'[t] = toRehash[t]
    BY <1>1, <1>3, <1>4, <2>1
  <2>3. Behind(t, i)
    BY <1>1, <1>3, <2>2
  <2>4. w \notin Rehashing(t)
    BY <1>10 DEF OpenTable, At, Basic, Where, Rehashing
  <2>5. \A v \in Rehashing(t) : v \in Rehashing(t)' /\ v # w
    BY <2>1, <2>4
  <2> QED BY <1>6, <2>1, <2>3, <2>5
<1> QED BY <1>5, <1>7, <1>8, <1>9, <1>10, StepKinds

LEMMA StepAccounts ==
  ASSUME Basic, Accounts, NEW w \in Workers, Steps(w), threw' = {}
  PROVE  Accounts'
<1>1. (\A v \in Workers : Role(v))' /\ OneGrower'
  BY StepRoles
<1> QED BY <1>1, StepCounts, StepCovered, StepLastValid DEF Accounts

\* Nothing is left in a table whose successor has been opened, or may be opened.
LEMMA LeftBehind ==
  ASSUME Basic, Accounts, NEW t \in Tables, t < linked, toRehash[t + 1] >= -1, NEW i \in Slots(t)
  PROVE  cell[t][i] = Invalid /\ Rehashing(t) = {}
<1>1. toRehash[t] \in Int /\ toRehash[t] >= 0 /\ toRehash[t + 1] \in Int /\ Cardinality(Rehashing(t)) \in Nat
  BY Numbers, RehashingFinite DEF Basic, Signs
<1>2. toRehash[t] = 0 /\ Rehashing(t) = {}
  <2>1. CASE toRehash[t + 1] < 0
    <3>1. 0 - 1 - toRehash[t + 1] = toRehash[t] + Cardinality(Rehashing(t))
      BY <2>1 DEF Accounts, Counts
    <3>2. toRehash[t] = 0 /\ Cardinality(Rehashing(t)) = 0
      BY <1>1, <2>1, <3>1
    <3> QED BY <3>2, RehashingFinite
  <2>2. CASE ~(toRehash[t + 1] < 0)
    BY <2>2 DEF Accounts, Counts
  <2> QED BY <2>1, <2>2
<1>3. i >= toRehash[t] * Segment
  <2>1. Segment \in Nat /\ i \in Nat
    BY TableSizes DEF Slots
  <2> QED BY <1>2, <2>1
<1> QED BY <1>2, <1>3 DEF Accounts, Covered
-----------------------------------------------------------------------------
(* What was inserted stays *)

LEMMA FullStays ==
  ASSUME Basic, NEW w \in Workers, Steps(w), NEW t \in Tables, NEW i \in Slots(t), cell[t][i] # Empty
  PROVE  cell'[t][i] # Empty
<1>1. TryStore(w) => Key(w) \in Values
  BY KeyFacts DEF TryStore, At, Probing
<1> QED BY <1>1, StepCells, HashSetAssumption DEF HashSetAssumption

LEMMA ReachesStays ==
  ASSUME Basic, NEW w \in Workers, Steps(w), NEW h \in Nat, NEW t \in Tables, NEW n, Reaches(h, t, n)
  PROVE  Reaches(h, t, n)'
<1>1. ASSUME NEW k \in Nat, k < n
      PROVE  cell'[t][index(h, k, t)] # Empty
  BY <1>1, FullStays, IndexSlot DEF Reaches
<1> QED BY <1>1 DEF Reaches

\* A value leaves its place only to be carried to the next table.
LEMMA PlacedStays ==
  ASSUME Basic, NEW w \in Workers, Steps(w), NEW c \in Classes, NEW t \in Tables, NEW n \in Nat,
         Placed(c, t, n)
  PROVE  \/ Placed(c, t, n)'
         \/ Invalidate(w) /\ t = table[w] /\ Moving(w)' /\ Class[carry'[w]] = c
<1>1. Hash[c] \in Nat
  BY HashSetAssumption DEF HashSetAssumption
<1>2. PICK j \in Nat : /\ n <= j /\ j < MaxChain
                       /\ Reaches(Hash[c], t, j)
                       /\ cell[t][index(Hash[c], j, t)] \in Values
                       /\ Class[cell[t][index(Hash[c], j, t)]] = c
  BY DEF Placed
<1> DEFINE i == index(Hash[c], j, t)
<1>3. i \in Slots(t)
  BY <1>1, IndexSlot
<1>4. Reaches(Hash[c], t, j)'
  BY <1>1, <1>2, ReachesStays
<1>5. CASE cell'[t][i] = cell[t][i]
  BY <1>2, <1>4, <1>5 DEF Placed
<1>6. CASE cell'[t][i] # cell[t][i]
  <2> DEFINE v == cell[t][i]
  <2>1. v \in Values /\ Class[v] = c /\ v # Empty
    BY <1>2, HashSetAssumption DEF HashSetAssumption
  <2>2. Invalidate(w) /\ t = table[w] /\ i = seg[w] * Segment + pos[w]
    <3> HIDE DEF i
    <3>1. cell[t][i] # Empty
      BY <2>1 DEF i
    <3> QED BY <1>3, <1>6, <3>1, StepCells
  <2>3. v = cell[table[w]][seg[w] * Segment + pos[w]]
    BY <2>2
  <2> HIDE DEF v, i
  <2>4. carry' = [carry EXCEPT ![w] = v]
    BY <2>1, <2>2, <2>3 DEF Invalidate
  <2>5. carry'[w] = v
    BY <2>4 DEF Basic, Types, TypeOK
  <2> QED BY <2>1, <2>2, <2>5, HashSetAssumption DEF Moving, HashSetAssumption
<1> QED BY <1>5, <1>6

LEMMA LastPlacedStays ==
  ASSUME Basic, NEW w \in Workers, Steps(w), NEW c \in Classes, NEW n \in Nat, Placed(c, linked, n),
         linked' = linked
  PROVE  Placed(c, linked, n)'
<1> DEFINE t == linked
<1>1. t \in Tables /\ t \in Nat
  BY Numbers
<1>2. Invalidate(w) => t # table[w]
  <2>1. Invalidate(w) => table[w] < linked
    BY InvalidateCell
  <2>2. table[w] \in Nat
    BY Numbers
  <2> QED BY <1>1, <2>1, <2>2
<1>3. \E l \in Tables : l = t
  BY <1>1
<1>4. ASSUME NEW l \in Tables, l = linked, Placed(c, l, n)
      PROVE  Placed(c, l, n)'
  BY <1>2, <1>4, PlacedStays
<1>5. PICK l \in Tables : l = linked
  BY <1>3
<1>6. Placed(c, l, n)'
  BY <1>4, <1>5
<1> QED BY <1>5, <1>6 DEF Placed, Reaches

\* When the last table is open, or is about to be opened, it holds all that was inserted.
LEMMA LastHolds ==
  ASSUME Basic, Accounts, Kept, toRehash[linked] >= -1, NEW c \in done
  PROVE  Placed(c, linked, 0)
<1>1. c \in Classes /\ Hash[c] \in Nat
  BY HashSetAssumption DEF HashSetAssumption, Basic, Types, TypeOK
<1>2. /\ linked \in Tables /\ linked \in Nat /\ Tables \subseteq Nat
      /\ \A t \in Tables : toRehash[t] \in Int /\ (t < linked => t + 1 \in Tables /\ t + 1 <= linked)
  BY Numbers
<1>3. ASSUME NEW w \in Workers, Moving(w)
      PROVE  FALSE
  <2>1. toRehash[linked] < 0 - 1
    BY <1>3, MoverFacts
  <2> QED BY <1>2, <2>1
<1>4. PICK t \in 1..linked : Placed(c, t, 0)
  BY <1>3 DEF Kept
<1>5. t \in Tables /\ t \in Nat /\ t <= linked
  <2>1. linked \in 1..Len(Sizes) /\ Len(Sizes) \in Nat
    BY <1>2, TableSizes DEF Tables
  <2> QED BY <2>1 DEF Tables
<1>6. CASE t = linked
  BY <1>4, <1>6
<1>7. CASE t < linked
  <2>1. toRehash[t + 1] >= -1
    <3>1. t + 1 \in Tables /\ t + 1 <= linked /\ t + 1 \in Nat /\ toRehash[t + 1] \in Int
      BY <1>2, <1>5, <1>7
    <3>2. CASE t + 1 = linked
      BY <3>2
    <3>3. CASE t + 1 < linked
      BY <3>1, <3>3 DEF Basic, Signs
    <3> QED BY <1>2, <3>1, <3>2, <3>3
  <2>2. PICK j \in Nat : cell[t][index(Hash[c], j, t)] \in Values
    BY <1>4 DEF Placed
  <2>3. index(Hash[c], j, t) \in Slots(t)
    BY <1>1, <1>5, IndexSlot
  <2>4. cell[t][index(Hash[c], j, t)] = Invalid
    BY <1>5, <1>7, <2>1, <2>3, LeftBehind
  <2> QED BY <2>2, <2>4, HashSetAssumption DEF HashSetAssumption
<1> QED BY <1>2, <1>5, <1>6, <1>7

\* A turn that stores the value or finds it leaves it in its place.
LEMMA EndPlaced ==
  ASSUME Basic, NEW w \in Workers, Looks(w),
         (TryStore(w) /\ Seen(w) = Empty) \/ (Match(w) /\ Matches(w)),
         NEW c \in Classes, NEW t \in Tables, c = Class[Key(w)], t = Target(w)
  PROVE  Placed(c, t, 0)'
<1>1. Probing(w) /\ Steps(w)
  BY DEF TryStore, Match, At, Probing, Steps
<1>2. PICK j \in Nat : j = probe[w]
  BY <1>1, KeyFacts
<1>3. PICK i \in Slots(t) : i = Slot(w)
  BY <1>1, KeyFacts
<1>4. /\ j < MaxChain /\ i = index(Hash[c], j, t) /\ Hash[c] \in Nat
      /\ Key(w) \in Values /\ Seen(w) = cell[t][i]
  <2>1. MaxChain \in Nat /\ probe[w] \in 0..(MaxChain - 1)
    BY <1>1, KeyFacts, HashSetAssumption DEF HashSetAssumption
  <2>2. j < MaxChain
    BY <1>2, <2>1
  <2> QED BY <1>1, <1>2, <1>3, <2>2, KeyFacts
<1>5. Reaches(Hash[c], t, j)
  BY <1>1, <1>2 DEF Looks, Probing
<1>6. Reaches(Hash[c], t, j)'
  BY <1>1, <1>4, <1>5, ReachesStays
<1>7. cell'[t][i] \in Values /\ Class[cell'[t][i]] = c
  <2>1. CASE TryStore(w) /\ Seen(w) = Empty
    <3>1. Wrote(Target(w), Slot(w), Key(w))
      BY <2>1, TryStoreTypes
    <3>2. cell'[t][i] = Key(w)
      BY <1>3, <3>1 DEF Wrote
    <3> QED BY <1>4, <3>2
  <2>2. CASE Match(w) /\ Matches(w)
    <3>1. cell' = cell
      BY <2>2 DEF Match
    <3>2. Seen(w) \in Values /\ Class[Seen(w)] = Class[Key(w)]
      BY <2>2 DEF Matches
    <3> QED BY <1>4, <3>1, <3>2
  <2> QED BY <2>1, <2>2
<1> QED BY <1>4, <1>6, <1>7 DEF Placed
-----------------------------------------------------------------------------
(* What the threads know *)

LEMMA EndAnswer ==
  ASSUME Basic, NEW w \in Workers, NEW o, EndLoop(w, o), ~Moving(w)
  PROVE  /\ outcome'[w] = o /\ carry' = carry
         /\ pc'[w] = IF o = "full" /\ Inserts(w) THEN "grow" ELSE "outdated"
<1>1. Answer(w, o)
  BY DEF EndLoop
<1>2. /\ outcome' = [outcome EXCEPT ![w] = o] /\ carry' = carry
      /\ pc' = [pc EXCEPT ![w] = IF o = "full" /\ Inserts(w) THEN "grow" ELSE "outdated"]
  BY <1>1 DEF Answer, Goto
<1> QED BY <1>2 DEF Basic, Types, TypeOK

LEMMA EndMoved ==
  ASSUME Basic, NEW w \in Workers, NEW o, EndLoop(w, o), Moving(w), threw' = {}
  PROVE  o \in {"new", "found"} /\ Delivers(w)
<1>1. Moved(w, o)
  BY DEF EndLoop
<1>2. o \in {"new", "found"}
  BY <1>1 DEF Moved
<1>3. Delivers(w)
  BY EndLoopEffect DEF Fails, Answers
<1> QED BY <1>2, <1>3

\* A thread that stays where it is in its loop knows what it knew.
LEMMA SameProbe ==
  ASSUME Basic, NEW w \in Workers, Steps(w), NEW v \in Workers, Probing(v), Looks(v),
         Key(v)' = Key(v), Target(v)' = Target(v), probe'[v] = probe[v]
  PROVE  /\ Reaches(Hash[Class[Key(v)]], Target(v), probe[v])'
         /\ Seen(v) # Empty => Seen(v)' # Empty
<1>1. PICK h \in Nat : h = Hash[Class[Key(v)]]
  BY KeyFacts
<1>2. PICK t \in Tables : t = Target(v)
  BY KeyFacts
<1>3. PICK n \in Nat : n = probe[v]
  BY KeyFacts, HashSetAssumption DEF HashSetAssumption
<1>4. Reaches(h, t, n)
  BY <1>1, <1>2, <1>3 DEF Looks, Probing
<1>5. Reaches(h, t, n)'
  BY <1>4, ReachesStays
<1>6. Reaches(Hash[Class[Key(v)]], Target(v), probe[v])'
  BY <1>1, <1>2, <1>3, <1>5 DEF Reaches
<1>7. PICK i \in Slots(t) : i = Slot(v)
  BY <1>2, KeyFacts
<1>8. Slot(v)' = Slot(v)
  BY DEF Slot, index
<1>9. Seen(v) = cell[t][i] /\ Seen(v)' = cell'[t][i]
  BY <1>2, <1>7, <1>8 DEF Seen
<1>10. Seen(v) # Empty => Seen(v)' # Empty
  BY <1>9, FullStays
<1> QED BY <1>6, <1>10

LEMMA WantedClass ==
  ASSUME Basic, NEW v \in Workers, pc[v] \notin {"idle", "thrown"}
  PROVE  Wanted(v) \in Classes
<1>1. call[v] < Len(Program[v]) /\ Types
  BY DEF Basic, Where
<1> QED BY <1>1, CallInProgram, ClassHash DEF Wanted

LEMMA OthersLooks ==
  ASSUME Basic, Accounts, NEW w \in Workers, Steps(w), done \subseteq done',
         NEW v \in Workers \ {w}, Looks(v)
  PROVE  Looks(v)'
<1>1. /\ pc'[v] = pc[v] /\ table'[v] = table[v] /\ call'[v] = call[v] /\ probe'[v] = probe[v]
      /\ outcome'[v] = outcome[v] /\ role'[v] = role[v] /\ carry'[v] = carry[v] /\ known'[v] = known[v]
  BY StepOthers DEF Others
<1>2. /\ Key(v)' = Key(v) /\ Target(v)' = Target(v) /\ (Moving(v)' <=> Moving(v))
      /\ (Inserts(v)' <=> Inserts(v)) /\ Wanted(v)' = Wanted(v)
  BY <1>1 DEF Key, Target, Moving, Inserts, Wanted, Call
<1>3. Probing(v) => /\ Reaches(Hash[Class[Key(v)]], Target(v), probe[v])'
                    /\ Seen(v) # Empty => Seen(v)' # Empty
  BY <1>1, <1>2, SameProbe
<1>4. table[v] = linked' => linked' = linked
  <2>1. linked <= linked' /\ table[v] <= linked /\ table[v] \in Nat /\ linked \in Nat /\ linked' \in Nat
    <3>1. linked' \in Tables
      BY StepBasic DEF Basic, Types, TypeOK
    <3> QED BY <3>1, StepMonotone, Numbers DEF Monotone
  <2> QED BY <2>1
<1>5. ASSUME pc[v] \notin {"idle", "thrown"}, NEW n \in Nat, linked' = linked, Placed(Wanted(v), linked, n)
      PROVE  Placed(Wanted(v), linked, n)'
  <2>1. PICK c \in Classes : c = Wanted(v)
    BY <1>5, WantedClass
  <2>2. Placed(c, linked, n)'
    BY <1>5, <2>1, LastPlacedStays
  <2> QED BY <1>2, <2>1, <2>2
<1>6. ASSUME pc'[v] \in {"look", "match"}, ~Moving(v)', ~Inserts(v)', known'[v], table'[v] = linked'
      PROVE  Placed(Wanted(v), linked, probe[v])'
  <2>1. PICK n \in Nat : n = probe[v]
    BY <1>1, <1>6, KeyFacts, HashSetAssumption DEF Probing, HashSetAssumption
  <2>2. linked' = linked /\ Placed(Wanted(v), linked, n)
    BY <1>1, <1>2, <1>4, <1>6, <2>1 DEF Looks
  <2>3. Placed(Wanted(v), linked, n)'
    BY <1>1, <1>5, <1>6, <2>2
  <2> QED BY <1>1, <2>1, <2>3
<1>7. ASSUME pc'[v] = "outdated", role'[v] = "user", table'[v] = linked'
      PROVE  IF Inserts(v)' THEN Placed(Wanted(v), linked, 0)' ELSE known'[v] => outcome'[v] = "found"
  <2>1. linked' = linked
    BY <1>1, <1>4, <1>7
  <2>2. IF Inserts(v) THEN Placed(Wanted(v), linked, 0) ELSE known[v] => outcome[v] = "found"
    BY <1>1, <1>7, <2>1 DEF Looks
  <2>3. Placed(Wanted(v), linked, 0) => Placed(Wanted(v), linked, 0)'
    BY <1>1, <1>5, <1>7, <2>1
  <2> QED BY <1>1, <1>2, <2>2, <2>3
<1>8. /\ pc'[v] = "match" => Seen(v)' # Empty
      /\ pc'[v] = "store" /\ ~Moving(v)' => Inserts(v)'
      /\ pc'[v] # "idle" /\ known'[v] => Wanted(v)' \in done'
  BY <1>1, <1>2, <1>3 DEF Looks, Probing
<1> QED BY <1>1, <1>3, <1>6, <1>7, <1>8 DEF Looks, Probing

LEMMA DoneGrows ==
  ASSUME Basic, NEW w \in Workers, Steps(w)
  PROVE  done \subseteq done'
<1>1. CASE ProbeStep(w)
  BY <1>1, ProbeEffect DEF history
<1>2. CASE CheckOutdated(w)
  BY <1>2 DEF CheckOutdated, Return, ReturnInsert, ReturnFind, history
<1>3. CASE ~ProbeStep(w) /\ ~CheckOutdated(w)
  BY <1>3 DEF Steps, ProbeStep, Begin, Grow, Claim, Invalidate, SegmentDone, Await, SeeMoved, OpenTable,
              history
<1> QED BY <1>1, <1>2, <1>3

\* At the start of its loop a thread knows only what the open table holds.
LEMMA RestartLooks ==
  ASSUME Basic, Accounts, Kept, NEW w \in Workers, Steps(w),
         pc'[w] = "look", probe'[w] = 0, call'[w] = call[w], linked' = linked, cell' = cell,
         pc[w] \notin {"thrown"}, call[w] < Len(Program[w]),
         known'[w] => Wanted(w) \in done, done \subseteq done',
         Moving(w)' \/ (table'[w] = linked => toRehash[linked] >= -1)
  PROVE  Looks(w)'
<1>1. Wanted(w)' = Wanted(w) /\ (Inserts(w)' <=> Inserts(w))
  BY DEF Wanted, Call, Inserts
<1>2. Reaches(Hash[Class[Key(w)]], Target(w), probe[w])'
  BY DEF Reaches
<1>3. ASSUME ~Moving(w)', known'[w], table'[w] = linked
      PROVE  Placed(Wanted(w), linked, probe[w])'
  <2>1. PICK c \in done : c = Wanted(w)
    BY <1>3
  <2>2. Placed(c, linked, 0)
    BY <1>3, LastHolds
  <2>3. Placed(c, linked, 0)'
    BY <2>2 DEF Placed, Reaches
  <2> QED BY <1>1, <2>1, <2>3
<1> QED BY <1>1, <1>2, <1>3 DEF Looks

\* Out of its loop, and not about to return, it knows only what was inserted before its call.
LEMMA ElsewhereLooks ==
  ASSUME NEW w \in Workers, Looks(w), pc[w] # "idle",
         pc'[w] \in {"thrown", "move", "claim", "grow", "await", "spin", "open"},
         call'[w] = call[w], known'[w] = known[w], done \subseteq done'
  PROVE  Looks(w)'
<1>1. Wanted(w)' = Wanted(w)
  BY DEF Wanted, Call
<1> QED BY <1>1 DEF Looks

LEMMA LookLooks ==
  ASSUME Basic, Accounts, NEW w \in Workers, Look(w), threw' = {}, Looks(w)
  PROVE  Looks(w)'
<1>1. /\ pc[w] = "look" /\ Probing(w) /\ Steps(w) /\ ProbeStep(w) /\ cell' = cell
      /\ UNCHANGED <<linked, table, call, known, done, role>> /\ pc \in [Workers -> Pcs]
  BY DEF Look, At, Probing, Steps, ProbeStep, Basic, Types, TypeOK, history
<1>2. Wanted(w)' = Wanted(w) /\ (Inserts(w)' <=> Inserts(w))
  BY <1>1 DEF Wanted, Call, Inserts
<1>3. CASE Seen(w) = Invalid /\ EndLoop(w, "invalid")
  <2>1. ~Moving(w)
    BY <1>3, EndMoved
  <2>2. pc'[w] = "outdated"
    BY <1>3, <2>1, EndAnswer
  <2>3. table[w] # linked
    <3>1. Seen(w) = cell[table[w]][Slot(w)] /\ Slot(w) \in Slots(table[w]) /\ table[w] \in Tables
      BY <1>1, <2>1, KeyFacts
    <3> QED BY <1>3, <3>1, Numbers DEF Accounts, LastValid
  <2> QED BY <1>1, <1>2, <2>2, <2>3 DEF Looks
<1>4. ASSUME UNCHANGED <<toRehash, probe, outcome, value, pos, carry, threw>>
      PROVE  /\ Key(w)' = Key(w) /\ Target(w)' = Target(w) /\ (Moving(w)' <=> Moving(w))
             /\ Reaches(Hash[Class[Key(w)]], Target(w), probe[w])'
             /\ Seen(w) # Empty => Seen(w)' # Empty
  <2>1. Key(w)' = Key(w) /\ Target(w)' = Target(w) /\ (Moving(w)' <=> Moving(w)) /\ probe'[w] = probe[w]
    BY <1>1, <1>4 DEF Key, Target, Moving, Call
  <2> QED BY <1>1, <2>1, SameProbe
<1>5. CASE /\ Seen(w) = Empty /\ (Moving(w) \/ Inserts(w)) /\ Goto(w, "store")
           /\ UNCHANGED <<toRehash, probe, outcome, value, pos, carry, threw>>
  <2>1. pc'[w] = "store"
    BY <1>1, <1>5 DEF Goto
  <2> QED BY <1>1, <1>2, <1>4, <1>5, <2>1 DEF Looks
<1>6. CASE /\ Seen(w) \in Values /\ Goto(w, "match")
           /\ UNCHANGED <<toRehash, probe, outcome, value, pos, carry, threw>>
  <2>1. pc'[w] = "match" /\ Seen(w) # Empty
    BY <1>1, <1>6, HashSetAssumption DEF Goto, HashSetAssumption
  <2>2. ASSUME ~Moving(w), ~Inserts(w), known[w], table[w] = linked
        PROVE  Placed(Wanted(w), linked, probe[w])'
    <3>1. Placed(Wanted(w), linked, probe[w])
      BY <1>1, <2>2 DEF Looks
    <3> QED BY <1>1, <1>2, <1>6, <3>1 DEF Placed, Reaches
  <2> QED BY <1>1, <1>2, <1>4, <1>6, <2>1, <2>2 DEF Looks
<1> QED BY <1>3, <1>5, <1>6 DEF Look

\* The probing sequence of what is looked for does not end before it.
LEMMA PlacedHere ==
  ASSUME Basic, NEW w \in Workers, Probing(w), ~Moving(w), table[w] = linked,
         Placed(Wanted(w), linked, probe[w])
  PROVE  /\ Seen(w) # Empty
         /\ ~Matches(w) => probe[w] + 1 < MaxChain /\ Placed(Wanted(w), linked, probe[w] + 1)
<1> DEFINE c == Wanted(w)
           p == probe[w]
<1>1. PICK j \in Nat : /\ p <= j /\ j < MaxChain
                       /\ Reaches(Hash[c], linked, j)
                       /\ cell[linked][index(Hash[c], j, linked)] \in Values
                       /\ Class[cell[linked][index(Hash[c], j, linked)]] = c
  BY DEF Placed
<1>2. Class[Key(w)] = c /\ Target(w) = linked
  BY DEF Key, Target, Wanted
<1>3. p \in Nat /\ Seen(w) = cell[linked][index(Hash[c], p, linked)] /\ MaxChain \in Nat
  BY <1>2, KeyFacts, HashSetAssumption DEF HashSetAssumption
<1> HIDE DEF c, p
<1>4. CASE j = p
  <2>1. Seen(w) \in Values /\ Class[Seen(w)] = c
    BY <1>1, <1>3, <1>4
  <2>2. Matches(w) /\ Seen(w) # Empty
    BY <1>2, <2>1, HashSetAssumption DEF Matches, HashSetAssumption
  <2> QED BY <2>2
<1>5. CASE j # p
  <2>1. p < j /\ p + 1 <= j /\ p + 1 < MaxChain
    BY <1>1, <1>3, <1>5
  <2>2. Seen(w) # Empty
    BY <1>1, <1>3, <2>1 DEF Reaches
  <2>3. Placed(c, linked, p + 1)
    BY <1>1, <2>1 DEF Placed
  <2> QED BY <2>1, <2>2, <2>3 DEF c, p
<1> QED BY <1>4, <1>5

LEMMA FindNothingLooks ==
  ASSUME Basic, Accounts, NEW w \in Workers, FindNothing(w), threw' = {}, Looks(w)
  PROVE  Looks(w)'
<1>1. /\ pc[w] = "look" /\ Probing(w) /\ ~Moving(w) /\ ~Inserts(w) /\ Seen(w) = Empty /\ EndLoop(w, "full")
      /\ UNCHANGED <<linked, table, call, known, done, role>>
  BY DEF FindNothing, At, Probing, history
<1>2. Wanted(w)' = Wanted(w) /\ (Inserts(w)' <=> Inserts(w))
  BY <1>1 DEF Wanted, Call, Inserts
<1>3. pc'[w] = "outdated"
  BY <1>1, EndAnswer
<1>4. ~(known[w] /\ table[w] = linked)
  <2>1. SUFFICES ASSUME known[w], table[w] = linked PROVE FALSE
    OBVIOUS
  <2>2. Placed(Wanted(w), linked, probe[w])
    BY <1>1, <2>1 DEF Looks
  <2> QED BY <1>1, <2>1, <2>2, PlacedHere
<1> QED BY <1>1, <1>2, <1>3, <1>4 DEF Looks

LEMMA TryStoreLooks ==
  ASSUME Basic, Accounts, NEW w \in Workers, TryStore(w), threw' = {}, Looks(w)
  PROVE  Looks(w)'
<1>1. /\ pc[w] = "store" /\ Probing(w) /\ Steps(w) /\ ProbeStep(w)
      /\ UNCHANGED <<linked, table, call, known, done, role>> /\ pc \in [Workers -> Pcs]
  BY DEF TryStore, At, Probing, Steps, ProbeStep, Basic, Types, TypeOK, history
<1>2. Wanted(w)' = Wanted(w) /\ (Inserts(w)' <=> Inserts(w))
  BY <1>1 DEF Wanted, Call, Inserts
<1>3. CASE Seen(w) = Empty
  <2>1. EndLoop(w, "new")
    BY <1>3 DEF TryStore
  <2>2. CASE Moving(w)
    <3>1. pc'[w] = "move"
      BY <2>1, <2>2, EndMoved DEF Delivers
    <3> QED BY <1>1, <3>1, ElsewhereLooks
  <2>3. CASE ~Moving(w)
    <3>1. pc'[w] = "outdated" /\ Inserts(w)
      BY <1>1, <2>1, <2>3, EndAnswer DEF Looks
    <3>2. PICK c \in Classes : c = Class[Key(w)]
      BY <1>1, KeyFacts
    <3>3. PICK t \in Tables : t = Target(w)
      BY <1>1, KeyFacts
    <3>4. Placed(c, t, 0)'
      BY <1>3, <3>2, <3>3, EndPlaced
    <3>5. c = Wanted(w) /\ t = table[w]
      BY <2>3, <3>2, <3>3 DEF Key, Target, Wanted
    <3>6. table'[w] = linked' => Placed(Wanted(w), linked, 0)'
      BY <1>1, <1>2, <3>4, <3>5 DEF Placed, Reaches
    <3> QED BY <1>1, <1>2, <3>1, <3>6 DEF Looks
  <2> QED BY <2>2, <2>3
<1>4. CASE Seen(w) # Empty
  <2>1. pc'[w] = "match" /\ UNCHANGED <<cell, carry, probe>>
    BY <1>1, <1>4 DEF TryStore, Goto
  <2>2. Key(w)' = Key(w) /\ Target(w)' = Target(w) /\ (Moving(w)' <=> Moving(w)) /\ probe'[w] = probe[w]
    BY <1>1, <2>1 DEF Key, Target, Moving, Call
  <2>3. Reaches(Hash[Class[Key(w)]], Target(w), probe[w])' /\ Seen(w)' # Empty
    BY <1>1, <1>4, <2>2, SameProbe
  <2>4. Moving(w) \/ Inserts(w)
    BY <1>1 DEF Looks
  <2> QED BY <1>1, <1>2, <2>1, <2>2, <2>3, <2>4 DEF Looks
<1> QED BY <1>3, <1>4

LEMMA MatchLooks ==
  ASSUME Basic, Accounts, NEW w \in Workers, Match(w), threw' = {}, Looks(w)
  PROVE  Looks(w)'
<1>1. /\ pc[w] = "match" /\ Probing(w) /\ Steps(w) /\ cell' = cell
      /\ UNCHANGED <<linked, table, call, known, done, role>> /\ pc \in [Workers -> Pcs]
      /\ probe \in [Workers -> 0..(MaxChain - 1)]
  BY DEF Match, At, Probing, Steps, Basic, Types, TypeOK, history
<1>2. Wanted(w)' = Wanted(w) /\ (Inserts(w)' <=> Inserts(w))
  BY <1>1 DEF Wanted, Call, Inserts
<1>3. CASE Matches(w) /\ EndLoop(w, "found")
  <2>1. CASE Moving(w)
    <3>1. pc'[w] = "move"
      BY <1>3, <2>1, EndMoved DEF Delivers
    <3> QED BY <1>1, <3>1, ElsewhereLooks
  <2>2. CASE ~Moving(w)
    <3>1. pc'[w] = "outdated" /\ outcome'[w] = "found"
      BY <1>3, <2>2, EndAnswer
    <3>2. PICK c \in Classes : c = Class[Key(w)]
      BY <1>1, KeyFacts
    <3>3. PICK t \in Tables : t = Target(w)
      BY <1>1, KeyFacts
    <3>4. Placed(c, t, 0)'
      BY <1>3, <3>2, <3>3, EndPlaced
    <3>5. c = Wanted(w) /\ t = table[w]
      BY <2>2, <3>2, <3>3 DEF Key, Target, Wanted
    <3>6. table'[w] = linked' => Placed(Wanted(w), linked, 0)'
      BY <1>1, <1>2, <3>4, <3>5 DEF Placed, Reaches
    <3> QED BY <1>1, <1>2, <3>1, <3>6 DEF Looks
  <2> QED BY <2>1, <2>2
<1>4. CASE ~Matches(w) /\ probe[w] + 1 >= Chain(w) /\ EndLoop(w, "full")
  <2>1. ~Moving(w)
    BY <1>4, EndMoved
  <2>2. CASE Inserts(w)
    <3>1. pc'[w] = "grow"
      BY <1>4, <2>1, <2>2, EndAnswer
    <3> QED BY <1>1, <3>1, ElsewhereLooks
  <2>3. CASE ~Inserts(w)
    <3>1. pc'[w] = "outdated"
      BY <1>4, <2>1, <2>3, EndAnswer
    <3>2. ~(known[w] /\ table[w] = linked)
      <4>1. SUFFICES ASSUME known[w], table[w] = linked PROVE FALSE
        OBVIOUS
      <4>2. Placed(Wanted(w), linked, probe[w])
        BY <1>1, <2>1, <2>3, <4>1 DEF Looks
      <4>3. probe[w] + 1 < MaxChain
        BY <1>1, <1>4, <2>1, <4>1, <4>2, PlacedHere
      <4>4. Chain(w) = MaxChain /\ MaxChain \in Nat /\ probe[w] \in 0..(MaxChain - 1)
        BY <1>1, <2>1, HashSetAssumption DEF Chain, HashSetAssumption
      <4> QED BY <1>4, <4>3, <4>4
    <3> QED BY <1>1, <1>2, <2>3, <3>1, <3>2 DEF Looks
  <2> QED BY <2>2, <2>3
<1>5. CASE /\ ~Matches(w) /\ probe[w] + 1 < Chain(w)
           /\ probe' = [probe EXCEPT ![w] = @ + 1]
           /\ Goto(w, "look")
           /\ UNCHANGED <<toRehash, outcome, value, pos, carry, threw>>
  <2>1. probe'[w] = probe[w] + 1 /\ pc'[w] = "look" /\ carry' = carry
    BY <1>1, <1>5 DEF Goto
  <2>2. Key(w)' = Key(w) /\ Target(w)' = Target(w) /\ (Moving(w)' <=> Moving(w))
    BY <1>1, <2>1 DEF Key, Target, Moving, Call
  <2>3. probe[w] \in Nat
    BY <1>1, KeyFacts, HashSetAssumption DEF HashSetAssumption
  <2> DEFINE h == Hash[Class[Key(w)]]
             t == Target(w)
  <2>4. Reaches(h, t, probe[w]) /\ cell[t][index(h, probe[w], t)] # Empty
    <3>1. Seen(w) # Empty /\ Reaches(h, t, probe[w])
      BY <1>1 DEF Looks
    <3> QED BY <1>1, <3>1, KeyFacts
  <2>5. \A k \in Nat : k < probe[w] + 1 => k < probe[w] \/ k = probe[w]
    BY <2>3
  <2>6. \A k \in Nat : k < probe[w] + 1 => cell[t][index(h, k, t)] # Empty
    BY <2>4, <2>5 DEF Reaches
  <2>7. Reaches(Hash[Class[Key(w)]], Target(w), probe[w])'
    BY <1>1, <2>1, <2>2, <2>6 DEF Reaches, index
  <2>8. ASSUME ~Moving(w), ~Inserts(w), known[w], table[w] = linked
        PROVE  Placed(Wanted(w), linked, probe[w])'
    <3>1. Placed(Wanted(w), linked, probe[w])
      BY <1>1, <2>8 DEF Looks
    <3>2. Placed(Wanted(w), linked, probe[w] + 1)
      BY <1>1, <1>5, <2>8, <3>1, PlacedHere
    <3> QED BY <1>1, <1>2, <2>1, <3>2 DEF Placed, Reaches
  <2> QED BY <1>1, <1>2, <2>1, <2>2, <2>7, <2>8 DEF Looks
<1> QED BY <1>3, <1>4, <1>5 DEF Match

LEMMA StepLooks ==
  ASSUME Basic, Accounts, Kept, NEW w \in Workers, Steps(w), threw' = {}, Looks(w)
  PROVE  Looks(w)'
<1>1. /\ pc \in [Workers -> Pcs] /\ probe \in [Workers -> 0..(MaxChain - 1)]
      /\ known \in [Workers -> BOOLEAN] /\ call \in [Workers -> Nat]
      /\ carry \in [Workers -> Values \cup {NoValue}] /\ role \in [Workers -> {"user", "helper", "grower"}]
      /\ Where(w) /\ Role(w) /\ done \subseteq done'
      /\ toRehash[linked] \in Int
  BY DoneGrows, Numbers DEF Basic, Types, TypeOK, Accounts
<1>2. CASE Look(w) \/ FindNothing(w) \/ TryStore(w) \/ Match(w)
  BY <1>2, LookLooks, FindNothingLooks, TryStoreLooks, MatchLooks
<1>3. CASE Begin(w)
  <2>1. /\ pc[w] = "idle" /\ pc'[w] = "look" /\ probe'[w] = 0 /\ call[w] < Len(Program[w])
        /\ known'[w] = (Wanted(w) \in done)
        /\ UNCHANGED <<linked, cell, table, call, done>>
    BY <1>1, <1>3 DEF Begin, At, Goto, Wanted, tableVars
  <2>2. table'[w] = linked => toRehash[linked] >= -1
    BY <1>1, <2>1 DEF Where
  <2> QED BY <1>1, <2>1, <2>2, RestartLooks
<1>4. CASE Grow(w)
  <2>1. pc[w] = "grow" /\ pc'[w] = "claim" /\ UNCHANGED <<call, known>>
    BY <1>1, <1>4 DEF Grow, At, Goto, history
  <2> QED BY <1>1, <2>1, ElsewhereLooks
<1>5. CASE CheckOutdated(w)
  <2>1. pc[w] = "outdated" /\ UNCHANGED <<linked, cell, toRehash, table>>
    BY <1>5 DEF CheckOutdated, At, tableVars
  <2>2. CASE Return(w)
    <3>1. pc'[w] = "idle"
      BY <1>1, <2>2 DEF Return, Goto
    <3> QED BY <3>1 DEF Looks
  <2>3. CASE Restart(w) /\ UNCHANGED <<call, history>>
    <3>1. pc'[w] = "look" /\ probe'[w] = 0 /\ known' = known /\ call' = call
      BY <1>1, <2>3 DEF Restart, Goto, history
    <3>2. known[w] => Wanted(w) \in done
      BY <2>1 DEF Looks
    <3>3. table'[w] = linked => toRehash[linked] >= -1
      BY <1>1, <2>1 DEF Where
    <3> QED BY <1>1, <2>1, <3>1, <3>2, <3>3, RestartLooks DEF Where
  <2>4. CASE Goto(w, "claim") /\ UNCHANGED <<call, history>>
    <3>1. pc'[w] = "claim" /\ UNCHANGED <<call, known>>
      BY <1>1, <2>4 DEF Goto, history
    <3> QED BY <1>1, <2>1, <3>1, ElsewhereLooks
  <2> QED BY <1>5, <2>2, <2>3, <2>4 DEF CheckOutdated
<1>6. CASE Claim(w)
  <2>1. pc[w] = "claim" /\ pc'[w] \in {"move", "spin", "await"} /\ UNCHANGED <<call, known>>
    BY <1>1, <1>6 DEF Claim, At, Goto, AfterRehash, lookVars, history
  <2> QED BY <1>1, <2>1, ElsewhereLooks
<1>7. CASE Invalidate(w)
  <2> DEFINE old == cell[table[w]][seg[w] * Segment + pos[w]]
  <2>1. pc[w] = "move" /\ UNCHANGED <<linked, toRehash, table, call, known, done>>
    BY <1>7 DEF Invalidate, At, history
  <2>2. CASE old \in Values
    <3>1. carry' = [carry EXCEPT ![w] = old] /\ probe' = [probe EXCEPT ![w] = 0] /\ pc' = [pc EXCEPT ![w] = "look"]
      BY <1>7, <2>2 DEF Invalidate, Goto
    <3>2. pc'[w] = "look" /\ probe'[w] = 0 /\ Moving(w)'
      BY <1>1, <2>2, <3>1, HashSetAssumption DEF Moving, HashSetAssumption
    <3>3. Wanted(w)' = Wanted(w)
      BY <2>1 DEF Wanted, Call
    <3>4. Reaches(Hash[Class[Key(w)]], Target(w), probe[w])'
      BY <3>2 DEF Reaches
    <3> QED BY <1>1, <2>1, <3>2, <3>3, <3>4 DEF Looks
  <2>3. CASE old \notin Values
    <3>1. pc' = pc
      BY <1>7, <2>3 DEF Invalidate
    <3> QED BY <1>1, <2>1, <3>1, ElsewhereLooks
  <2> QED BY <2>2, <2>3
<1>8. CASE SegmentDone(w)
  <2>1. pc[w] = "move" /\ pc'[w] \in {"claim", "spin", "await"} /\ UNCHANGED <<call, known>>
    BY <1>1, <1>8 DEF SegmentDone, At, Goto, AfterRehash, history
  <2> QED BY <1>1, <2>1, ElsewhereLooks
<1>9. CASE Await(w)
  <2>1. pc[w] = "await" /\ pc'[w] = "outdated" /\ role'[w] = "helper" /\ UNCHANGED <<call, known>>
    BY <1>1, <1>9 DEF Await, At, Goto, moveVars, history, Role
  <2>2. Wanted(w)' = Wanted(w)
    BY <2>1 DEF Wanted, Call
  <2> QED BY <1>1, <2>1, <2>2 DEF Looks
<1>10. CASE SeeMoved(w)
  <2>1. pc[w] = "spin" /\ pc'[w] = "open" /\ UNCHANGED <<call, known>>
    BY <1>1, <1>10 DEF SeeMoved, At, Goto, history
  <2> QED BY <1>1, <2>1, ElsewhereLooks
<1>11. CASE OpenTable(w)
  <2>1. /\ pc[w] = "open" /\ pc'[w] = "look" /\ probe'[w] = 0 /\ known' = known /\ call' = call
        /\ UNCHANGED <<linked, cell, table>> /\ toRehash[linked] = -1
    BY <1>1, <1>11, OpenTableEffect DEF OpenTable, At, Restart, Goto, history
  <2>2. known[w] => Wanted(w) \in done
    BY <2>1 DEF Looks
  <2>3. toRehash[linked] >= -1
    BY <2>1
  <2> QED BY <1>1, <2>1, <2>2, <2>3, RestartLooks DEF Where
<1> QED BY <1>2, <1>3, <1>4, <1>5, <1>6, <1>7, <1>8, <1>9, <1>10, <1>11 DEF Steps

\* A value that was carried has arrived, or its thread goes on carrying it.
LEMMA CarriedStays ==
  ASSUME Basic, NEW w \in Workers, Steps(w), threw' = {}, NEW v \in Workers, Looks(v), Moving(v),
         NEW c \in Classes, c = Class[carry[v]]
  PROVE  \/ \E t \in 1..linked' : Placed(c, t, 0)'
         \/ Moving(v)' /\ Class[carry'[v]] = c
<1>1. CASE v # w
  <2>1. carry'[v] = carry[v]
    BY <1>1, StepOthers DEF Others
  <2> QED BY <2>1 DEF Moving
<1>2. CASE v = w
  <2>1. Probing(w)
    BY <1>2 DEF Basic, Where, Probing
  <2>2. ProbeStep(w)
    BY <2>1 DEF Steps, ProbeStep, Probing, Begin, Grow, CheckOutdated, Claim, Invalidate, SegmentDone,
                Await, SeeMoved, OpenTable, At
  <2>3. CASE Goes(w)
    BY <1>2, <2>3 DEF Goes, Moving
  <2>4. CASE ~Goes(w)
    <3>1. linked' = linked
      BY <2>2, ProbeEffect
    <3>2. Delivers(w)
      BY <1>2, <2>2, <2>4, ProbeEffect, NotThrown DEF Answers
    <3>3. pc'[w] = "move"
      BY <3>2 DEF Delivers
    <3>4. (TryStore(w) /\ Seen(w) = Empty) \/ (Match(w) /\ Matches(w))
      <4>1. pc \in [Workers -> Pcs]
        BY DEF Basic, Types, TypeOK
      <4>2. CASE Look(w)
        <5>1. EndLoop(w, "invalid")
          BY <3>3, <4>1, <4>2 DEF Look, Goto
        <5> QED BY <1>2, <5>1, EndMoved
      <4>3. CASE FindNothing(w)
        BY <1>2, <4>3 DEF FindNothing
      <4>4. CASE TryStore(w)
        BY <3>3, <4>1, <4>4 DEF TryStore, Goto
      <4>5. CASE Match(w)
        <5>1. Matches(w) \/ EndLoop(w, "full")
          BY <3>3, <4>1, <4>5 DEF Match, Goto
        <5>2. ~EndLoop(w, "full")
          BY <1>2, EndMoved
        <5> QED BY <4>5, <5>1, <5>2
      <4> QED BY <2>2, <4>2, <4>3, <4>4, <4>5 DEF ProbeStep
    <3>5. PICK t \in Tables : t = Target(w)
      BY <2>1, KeyFacts
    <3>6. c = Class[Key(w)]
      BY <1>2 DEF Key
    <3>7. Placed(c, t, 0)'
      BY <1>2, <3>4, <3>5, <3>6, EndPlaced
    <3>8. t \in 1..linked'
      BY <2>1, <3>1, <3>5, KeyFacts
    <3> QED BY <3>7, <3>8
  <2> QED BY <2>3, <2>4
<1> QED BY <1>1, <1>2

LEMMA StepKept ==
  ASSUME Basic, Accounts, Contents, NEW w \in Workers, Steps(w), threw' = {}
  PROVE  Kept'
<1>1. /\ done' \subseteq Classes /\ done \subseteq Classes /\ linked \in Nat /\ linked' \in Nat
      /\ linked <= linked' /\ 1..linked \subseteq Tables /\ linked \in 1..linked
  <2>1. linked \in Tables /\ linked' \in Tables /\ done \subseteq Classes /\ done' \subseteq Classes
    BY StepBasic DEF Basic, Types, TypeOK
  <2>2. linked \in 1..Len(Sizes) /\ linked' \in 1..Len(Sizes) /\ Len(Sizes) \in Nat
    BY <2>1, TableSizes DEF Tables
  <2>3. linked <= linked'
    BY StepMonotone DEF Monotone
  <2> QED BY <2>1, <2>2, <2>3 DEF Tables
<1>2. SUFFICES ASSUME NEW c \in Classes, c \in done'
               PROVE  \/ \E t \in 1..linked' : Placed(c, t, 0)'
                      \/ \E v \in Workers : Moving(v)' /\ Class[carry'[v]] = c
  BY <1>1 DEF Kept
<1>3. CASE c \in done
  <2>1. \/ \E t \in 1..linked : Placed(c, t, 0)
        \/ \E v \in Workers : Moving(v) /\ Class[carry[v]] = c
    BY <1>3 DEF Contents, Kept
  <2>2. ASSUME NEW t \in 1..linked, Placed(c, t, 0)
        PROVE  Placed(c, t, 0)' \/ (Moving(w)' /\ Class[carry'[w]] = c)
    <3>1. t \in Tables
      BY <1>1
    <3> QED BY <2>2, <3>1, PlacedStays
  <2>3. 1..linked \subseteq 1..linked'
    BY <1>1
  <2>4. ASSUME NEW v \in Workers, Moving(v), Class[carry[v]] = c
        PROVE  \/ \E t \in 1..linked' : Placed(c, t, 0)'
               \/ Moving(v)' /\ Class[carry'[v]] = c
    BY <2>4, CarriedStays DEF Contents
  <2> QED BY <2>1, <2>2, <2>3, <2>4
<1>4. CASE c \notin done
  <2>1. CheckOutdated(w) /\ Return(w) /\ ReturnInsert(w)
    <3>1. ~(done' = done)
      BY <1>2, <1>4
    <3>2. CASE ProbeStep(w)
      BY <3>1, <3>2, ProbeEffect DEF history
    <3>3. CASE CheckOutdated(w)
      BY <3>1, <3>3 DEF CheckOutdated, Return, ReturnFind, history
    <3>4. CASE ~ProbeStep(w) /\ ~CheckOutdated(w)
      BY <3>1, <3>4 DEF Steps, ProbeStep, Begin, Grow, Claim, Invalidate, SegmentDone, Await, SeeMoved,
                        OpenTable, history
    <3> QED BY <3>2, <3>3, <3>4
  <2>2. /\ pc[w] = "outdated" /\ linked = table[w] /\ role[w] = "user" /\ Inserts(w)
        /\ done' = done \cup {Wanted(w)} /\ cell' = cell /\ linked' = linked
    <3>1. linked = table[w] /\ role[w] = "user"
      <4>1. pc \in [Workers -> Pcs]
        BY DEF Basic, Types, TypeOK
      <4>2. pc'[w] = "idle"
        BY <2>1, <4>1 DEF Return, Goto
      <4> QED BY <2>1, <4>1, <4>2 DEF CheckOutdated, Restart, Goto
    <3> QED BY <2>1, <3>1 DEF CheckOutdated, At, tableVars, ReturnInsert, Wanted
  <2>3. c = Wanted(w)
    BY <1>2, <1>4, <2>2
  <2>4. Placed(c, linked, 0)
    BY <2>2, <2>3 DEF Contents, Looks
  <2>5. Placed(c, linked, 0)'
    BY <2>2, <2>4, LastPlacedStays
  <2>6. PICK t \in 1..linked' : t = linked'
    BY <1>1, <2>2
  <2>7. Placed(c, t, 0)'
    BY <2>5, <2>6 DEF Placed, Reaches
  <2> QED BY <2>7
<1> QED BY <1>3, <1>4

LEMMA StepSeen ==
  ASSUME Basic, Contents, NEW w \in Workers, Steps(w)
  PROVE  ~missed'
<1>1. ~missed
  BY DEF Contents
<1>2. CASE CheckOutdated(w)
  <2>1. CASE linked = table[w] /\ role[w] = "user" /\ Return(w)
    <3>1. CASE ReturnInsert(w)
      BY <1>1, <3>1 DEF ReturnInsert
    <3>2. CASE ReturnFind(w)
      <4>1. known[w] => outcome[w] = "found"
        BY <1>2, <2>1, <3>2 DEF CheckOutdated, At, ReturnFind, Contents, Looks
      <4> QED BY <1>1, <3>2, <4>1 DEF ReturnFind
    <3> QED BY <2>1, <3>1, <3>2 DEF Return
  <2>2. CASE missed' = missed
    BY <1>1, <2>2
  <2> QED BY <1>2, <2>1, <2>2 DEF CheckOutdated, history
<1>3. CASE ProbeStep(w)
  BY <1>1, <1>3, ProbeEffect DEF history
<1>4. CASE ~ProbeStep(w) /\ ~CheckOutdated(w)
  BY <1>1, <1>4 DEF Steps, ProbeStep, Begin, Grow, Claim, Invalidate, SegmentDone, Await, SeeMoved,
                    OpenTable, history
<1> QED BY <1>2, <1>3, <1>4

LEMMA StepContents ==
  ASSUME Basic, Accounts, Contents, NEW w \in Workers, Steps(w), threw' = {}
  PROVE  Contents'
<1>1. Kept' /\ ~missed'
  BY StepKept, StepSeen
<1>2. Looks(w)'
  BY StepLooks DEF Contents
<1>3. \A v \in Workers \ {w} : Looks(v)'
  BY DoneGrows, OthersLooks DEF Contents
<1>4. \A v \in Workers : Looks(v)'
  BY <1>2, <1>3
<1> QED BY <1>1, <1>4 DEF Contents
-----------------------------------------------------------------------------
(* The theorems *)

LEMMA InitInv ==
  ASSUME Init
  PROVE  Inv
<1>1. 1 \in Tables /\ Sizes # <<>> /\ Len(Sizes) \in Nat /\ Tables \subseteq Nat
  <2>1. Len(Sizes) \in Nat /\ Len(Sizes) # 0
    BY HashSetAssumption DEF HashSetAssumption
  <2> QED BY <2>1, HashSetAssumption DEF Tables, HashSetAssumption
<1>2. /\ MaxChain \in Nat /\ MaxChain >= 2 /\ Segment \in Nat \ {0} /\ segment_count(1) \in Nat
      /\ \A w \in Workers : Len(Program[w]) \in Nat
  BY <1>1, TableSizes, HashSetAssumption DEF HashSetAssumption
<1>3. /\ linked = 1 /\ threw = {} /\ done = {} /\ ~missed
      /\ \A w \in Workers : /\ pc[w] = "idle" /\ table[w] = 1 /\ carry[w] = NoValue /\ role[w] = "user"
                            /\ ~known[w] /\ call[w] = 0
      /\ \A t \in Tables : toRehash[t] = IF t = 1 THEN segment_count(1) ELSE 0
      /\ \A t \in Tables : cell[t] = [i \in Slots(t) |-> Empty]
  BY DEF Init, Slots
<1>4. Types
  <2>1. cell \in [Tables -> CellMaps] /\ \A t \in Tables : cell[t] \in [0..(Sizes[t] - 1) -> Values \cup {Empty, Invalid}]
    <3>1. \A t \in Tables : [i \in Slots(t) |-> Empty] \in [Slots(t) -> Content]
      BY DEF Content
    <3>2. \A t \in Tables : [i \in Slots(t) |-> Empty] \in CellMaps
      BY <3>1 DEF CellMaps
    <3>3. cell = [t \in Tables |-> [i \in Slots(t) |-> Empty]]
      BY DEF Init, Slots
    <3> QED BY <3>1, <3>2, <3>3 DEF Slots, Content
  <2>2. toRehash \in [Tables -> Int]
    BY <1>2 DEF Init
  <2>3. probe \in [Workers -> 0..(MaxChain - 1)] /\ pos \in [Workers -> 0..Segment] /\ table \in [Workers -> 1..linked]
    BY <1>2 DEF Init
  <2>4. call \in [Workers -> Nat] /\ \A w \in Workers : call[w] \in 0..Len(Program[w])
    BY <1>2 DEF Init
  <2>5. /\ linked \in Tables /\ pc \in [Workers -> Pcs] /\ seg \in [Workers -> Nat]
        /\ outcome \in [Workers -> {"none", "new", "found", "full", "invalid"}]
        /\ value \in [Workers -> Values \cup {NoValue}] /\ carry \in [Workers -> Values \cup {NoValue}]
        /\ wasnew \in [Workers -> BOOLEAN] /\ known \in [Workers -> BOOLEAN]
        /\ role \in [Workers -> {"user", "helper", "grower"}]
    BY <1>1 DEF Init, Pcs
  <2>6. /\ threw \subseteq Workers /\ done \subseteq Classes /\ missed \in BOOLEAN
        /\ news \in [Classes -> Nat] /\ owned \in [Classes -> Nat]
    BY DEF Init
  <2> QED BY <2>1, <2>2, <2>3, <2>4, <2>5, <2>6 DEF Types, TypeOK
<1>5. Basic
  <2>1. \A w \in Workers : Where(w)
    BY <1>1, <1>2, <1>3 DEF Where, Moving
  <2>2. Signs
    BY <1>1, <1>2, <1>3 DEF Signs
  <2> QED BY <1>4, <2>1, <2>2 DEF Basic
<1>6. Accounts
  <2>1. (\A w \in Workers : Role(w)) /\ OneGrower
    BY <1>3 DEF Role, Moving, OneGrower
  <2>2. Counts /\ Covered
    <3>1. \A t \in Tables : ~(t < linked)
      BY <1>1, <1>3 DEF Tables
    <3> QED BY <3>1 DEF Counts, Covered
  <2>3. LastOpen
    <3>1. toRehash[1] = segment_count(1)
      BY <1>1, <1>3
    <3>2. toRehash[linked] = segment_count(linked)
      BY <1>3, <3>1
    <3> QED BY <3>2 DEF LastOpen
  <2>4. LastValid
    <3>1. ASSUME NEW t \in Tables, NEW i \in Slots(t)
          PROVE  cell[t][i] = Empty
      <4>1. cell[t] = [k \in Slots(t) |-> Empty]
        BY <1>3
      <4> QED BY <4>1
    <3>2. Empty # Invalid
      BY HashSetAssumption DEF HashSetAssumption
    <3> QED BY <3>1, <3>2 DEF LastValid
  <2> QED BY <2>1, <2>2, <2>3, <2>4 DEF Accounts
<1>7. Contents
  BY <1>3 DEF Contents, Kept, Looks
<1> QED BY <1>5, <1>6, <1>7 DEF Inv

LEMMA StepInv ==
  ASSUME Inv, NEW w \in Workers, Steps(w)
  PROVE  Inv'
<1>1. Basic'
  BY StepBasic DEF Inv
<1>2. threw' = {} => threw = {}
  BY NotThrown DEF Inv
<1>3. threw' = {} => Accounts' /\ Contents'
  BY <1>2, StepAccounts, StepContents DEF Inv
<1> QED BY <1>1, <1>3 DEF Inv

LEMMA StutterInv ==
  ASSUME Inv, UNCHANGED vars
  PROVE  Inv'
<1>1. /\ linked' = linked /\ cell' = cell /\ toRehash' = toRehash /\ pc' = pc /\ table' = table
      /\ call' = call /\ probe' = probe /\ outcome' = outcome /\ value' = value /\ wasnew' = wasnew
      /\ role' = role /\ seg' = seg /\ pos' = pos /\ carry' = carry /\ threw' = threw
      /\ done' = done /\ known' = known /\ news' = news /\ owned' = owned /\ missed' = missed
  BY DEF vars, tableVars, lookVars, moveVars, history
<1>2. Basic'
  BY <1>1 DEF Inv, Basic, Types, TypeOK, Where, Signs, Moving
<1>3. Accounts => Accounts'
  <2>1. \A t : Rehashing(t)' = Rehashing(t)
    BY <1>1 DEF Rehashing, At, Moving
  <2>2. \A w \in Workers : (Role(w) => Role(w)') /\ Ahead(w)' = Ahead(w)
    BY <1>1 DEF Role, Moving, Ahead
  <2>3. (OneGrower => OneGrower') /\ (LastOpen => LastOpen') /\ (LastValid => LastValid')
    BY <1>1 DEF OneGrower, LastOpen, LastValid
  <2>4. Counts => Counts'
    BY <1>1, <2>1 DEF Counts
  <2>5. Covered => Covered'
    <3>1. \A t : Rehashing(t) \subseteq Workers
      BY DEF Rehashing
    <3> QED BY <1>1, <2>1, <2>2, <3>1 DEF Covered
  <2> QED BY <2>2, <2>3, <2>4, <2>5 DEF Accounts
<1>4. Contents => Contents'
  <2>1. Kept => Kept'
    BY <1>1 DEF Kept, Placed, Reaches, Moving
  <2>2. ASSUME NEW w \in Workers, Looks(w)
        PROVE  Looks(w)'
    <3>1. /\ Key(w)' = Key(w) /\ Target(w)' = Target(w) /\ Seen(w)' = Seen(w) /\ Wanted(w)' = Wanted(w)
          /\ (Moving(w)' <=> Moving(w)) /\ (Inserts(w)' <=> Inserts(w))
      BY <1>1 DEF Key, Target, Seen, Slot, Wanted, Moving, Inserts, Call, index
    <3> QED BY <1>1, <2>2, <3>1 DEF Looks, Placed, Reaches
  <2> QED BY <1>1, <2>1, <2>2 DEF Contents
<1> QED BY <1>1, <1>2, <1>3, <1>4 DEF Inv

\* The invariant holds as long as no rehash fails; its first part holds always.
THEOREM Invariance == Spec => []Inv
<1>1. Inv /\ [Next]_vars => Inv'
  <2>1. SUFFICES ASSUME Inv, [Next]_vars PROVE Inv'
    OBVIOUS
  <2>2. CASE UNCHANGED vars
    BY <2>1, <2>2, StutterInv
  <2>3. ASSUME NEW w \in Workers, Thread(w)
        PROVE  Inv'
    <3>1. Steps(w) \/ UNCHANGED vars
      BY <2>3 DEF Thread, Steps, Spin
    <3> QED BY <2>1, <3>1, StepInv, StutterInv
  <2> QED BY <2>1, <2>2, <2>3 DEF Next, Finished
<1> QED BY <1>1, InitInv, PTL DEF Spec

\* The counter of the table that is being filled says how many segments are not yet moved.
THEOREM RehashIsExact == Spec => []RehashExact
<1>1. Inv => RehashExact
  BY DEF Inv, Accounts, Counts, RehashExact
<1> QED BY <1>1, Invariance, PTL

\* No store ends up in a table that everything has been moved out of.
THEOREM LeftTablesAreSealed == Spec => []Sealed
<1>1. Inv => Sealed
  <2>1. SUFFICES ASSUME Inv, NEW t \in Tables, t < linked, threw = {}, toRehash[t + 1] >= -1,
                        NEW i \in DOMAIN cell[t]
                 PROVE  cell[t][i] = Invalid
    BY DEF Sealed
  <2>2. i \in Slots(t)
    BY <2>1 DEF Inv, Basic, Types, TypeOK, Slots
  <2> QED BY <2>1, <2>2, LeftBehind DEF Inv
<1> QED BY <1>1, Invariance, PTL

\* A find that begins after an insert of the value has returned finds it, through any
\* number of growths and whatever is being moved meanwhile, as long as no rehash fails.
THEOREM InsertedIsFound == Spec => []FindSees
<1>1. Inv => FindSees
  BY DEF Inv, Contents, FindSees
<1> QED BY <1>1, Invariance, PTL

\* Every variable keeps its type, also after a rehash has failed: a claimed segment has a
\* number, and a position in a chain or in a segment stays within its bounds.
THEOREM TypesHold == Spec => []TypeOK
<1>1. Inv => TypeOK
  BY DEF Inv, Basic, Types
<1> QED BY <1>1, Invariance, PTL
-----------------------------------------------------------------------------
(* Who is told that a value is new *)

\* A claimed segment is a part of its table.
InTable(w) == pc[w] = "move" \/ Moving(w) => seg[w] < segment_count(table[w])
Bounds ==
  /\ \A t \in Tables : toRehash[t] <= segment_count(t)
  /\ \A w \in Workers : InTable(w)

\* A value of t lies on its probing sequence, and no other value of t has its class.
Sound(t) ==
  \A c \in Classes : \A i \in Slots(t) :
    cell[t][i] \in Values /\ Class[cell[t][i]] = c =>
      /\ t <= linked
      /\ \E j \in Nat : i = index(Hash[c], j, t) /\ Reaches(Hash[c], t, j)
      /\ \A k \in Slots(t) : cell[t][k] \in Values /\ Class[cell[t][k]] = c => k = i

\* The cells of the last table that a thread has passed are of other classes.
Passed(w) ==
  Probing(w) /\ Target(w) >= linked =>
    \A k \in Nat : k < probe[w] =>
      LET v == cell[Target(w)][index(Hash[Class[Key(w)]], k, Target(w))]
      IN  v \in Values => Class[v] # Class[Key(w)]

\* The value that insert is about to return is in the last table.
Says(w) ==
  pc[w] = "outdated" /\ role[w] = "user" /\ table[w] = linked /\ Inserts(w) =>
    /\ value[w] \in Values /\ Class[value[w]] = Wanted(w)
    /\ \E i \in Slots(linked) : cell[linked][i] = value[w]

Once == (\A t \in Tables : t >= linked => Sound(t)) /\ (\A w \in Workers : Passed(w) /\ Says(w))

\* A value that is in a table or carried to one is of an insert that still runs, unless
\* some insert of its class has already returned its own value.
Alive(y) ==
  \/ \E t \in Tables : \E i \in Slots(t) : cell[t][i] = y
  \/ \E w \in Workers : carry[w] = y

Within(w) == pc[w] \notin {"idle", "thrown"} /\ Inserts(w)
Owner(y) == owned[Class[y]] >= 1 \/ \E w \in Workers : Within(w) /\ Call(w).x = y
Owners == \A y \in Values : Alive(y) => Owner(y)

\* The same of wasnew, in the first growth: w will say that class c was new.
Reporter(w, c) ==
  /\ Within(w) /\ Wanted(w) = c
  /\ wasnew[w] \/ (outcome[w] = "new" /\ (~Probing(w) \/ Moving(w)))
Reports ==
  linked <= 2 => \A y \in Values : Alive(y) => news[Class[y]] >= 1 \/ \E w \in Workers : Reporter(w, Class[y])

\* A thread that looks for itself does not rehash.
User(w) == pc[w] \in {"idle", "grow"} \/ (Probing(w) /\ ~Moving(w)) => role[w] = "user"

\* A call that has started over is in the second table.
Second(w) ==
  /\ pc[w] \in {"await", "spin", "open"} \/ (pc[w] = "outdated" /\ role[w] = "helper") => table[w] >= 2
  /\ linked <= 2 /\ pc[w] # "idle" /\ wasnew[w] => table[w] = 2 /\ role[w] = "user"

Told == Bounds /\ Once /\ Owners /\ Reports /\ (\A w \in Workers : User(w) /\ Second(w))

LEMMA StepRest ==
  ASSUME Basic, NEW w \in Workers, Steps(w)
  PROVE  \A v \in Workers \ {w} : wasnew'[v] = wasnew[v] /\ value'[v] = value[v]
<1>1. wasnew \in [Workers -> BOOLEAN] /\ value \in [Workers -> Values \cup {NoValue}]
  BY DEF Basic, Types, TypeOK
<1>2. ASSUME NEW o, EndLoop(w, o)
      PROVE  \A v \in Workers \ {w} : value'[v] = value[v]
  <2>1. Moved(w, o) \/ Answer(w, o)
    BY <1>2 DEF EndLoop
  <2>2. value' = value \/ \E a : value' = [value EXCEPT ![w] = a]
    BY <2>1 DEF Moved, Answer
  <2> QED BY <1>1, <2>2
<1>3. CASE ProbeStep(w)
  <2>1. wasnew' = wasnew
    BY <1>3, ProbeEffect
  <2>2. value' = value \/ \E o : EndLoop(w, o)
    BY <1>3 DEF ProbeStep, Look, FindNothing, TryStore, Match
  <2> QED BY <1>2, <2>1, <2>2
<1>4. CASE ~ProbeStep(w)
  <2>1. value' = value /\ (wasnew' = wasnew \/ \E b : wasnew' = [wasnew EXCEPT ![w] = b])
    BY <1>4 DEF Steps, ProbeStep, Begin, Grow, CheckOutdated, Restart, Claim, Invalidate, SegmentDone, Await,
                SeeMoved, OpenTable, lookVars
  <2> QED BY <1>1, <2>1
<1> QED BY <1>3, <1>4

LEMMA StepBounds ==
  ASSUME Basic, Accounts, Bounds, NEW w \in Workers, Steps(w), threw' = {}
  PROVE  Bounds'
<1>1. /\ pc \in [Workers -> Pcs] /\ seg \in [Workers -> Nat] /\ table \in [Workers -> 1..linked]
      /\ toRehash \in [Tables -> Int] /\ table[w] \in Tables /\ table[w] \in Nat /\ Where(w)
      /\ \A t \in Tables : segment_count(t) \in Nat
  BY Numbers, TableSizes DEF Basic, Types, TypeOK
<1>2. \A v \in Workers \ {w} : InTable(v)'
  BY StepOthers DEF Others, Bounds, InTable, Moving
<1>3. CASE ProbeStep(w)
  <2>1. UNCHANGED <<table, seg>> /\ (Goes(w) \/ Delivers(w) \/ Answers(w))
    BY <1>3, ProbeEffect, NotThrown
  <2>2. toRehash' = toRehash /\ InTable(w)'
    BY <2>1 DEF Goes, Delivers, Answers, Bounds, InTable, Moving, Probing
  <2> QED BY <1>2, <2>2 DEF Bounds
<1>4. CASE Claim(w)
  <2>1. carry' = carry /\ ~Moving(w)
    BY <1>1, <1>4 DEF Claim, At, Where
  <2>2. CASE toRehash[table[w]] = 0
    <3>1. toRehash' = toRehash /\ pc'[w] # "move"
      BY <1>1, <1>4, <2>2 DEF Claim, Goto, AfterRehash
    <3> QED BY <1>2, <2>1, <3>1 DEF Bounds, InTable, Moving
  <2>3. CASE toRehash[table[w]] # 0
    <3>1. /\ toRehash' = [toRehash EXCEPT ![table[w]] = @ - 1] /\ table' = table
          /\ seg' = [seg EXCEPT ![w] = toRehash[table[w]] - 1]
      BY <1>4, <2>3 DEF Claim
    <3>2. seg'[w] < segment_count(table[w])
      BY <1>1, <3>1 DEF Bounds
    <3>3. \A t \in Tables : toRehash'[t] <= segment_count(t)
      BY <1>1, <3>1 DEF Bounds
    <3> QED BY <1>2, <3>1, <3>2, <3>3 DEF Bounds, InTable
  <2> QED BY <2>2, <2>3
<1>5. CASE Grow(w)
  <2>1. pc'[w] = "claim" /\ carry' = carry /\ ~Moving(w)
    BY <1>1, <1>5 DEF Grow, At, Goto, Where
  <2>2. \A t \in Tables : toRehash'[t] <= segment_count(t)
    <3>1. CASE linked = table[w]
      <4>1. /\ toRehash'[linked + 1] = 0 - segment_count(linked) - 1 /\ linked \in Tables
            /\ \A t \in Tables : t # linked + 1 => toRehash'[t] = toRehash[t]
        BY <1>5, <3>1, LinksEffect, Numbers DEF Links
      <4> QED BY <1>1, <4>1 DEF Bounds
    <3>2. CASE linked # table[w]
      BY <1>5, <3>2 DEF Grow, Bounds
    <3> QED BY <3>1, <3>2
  <2> QED BY <1>2, <2>1, <2>2 DEF Bounds, InTable, Moving
<1>6. CASE SegmentDone(w)
  <2>1. pc'[w] # "move" /\ carry' = carry /\ ~Moving(w)
    BY <1>1, <1>6 DEF SegmentDone, At, Goto, Where, AfterRehash, moveVars
  <2>2. \A t \in Tables : toRehash'[t] <= segment_count(t)
    <3>1. toRehash' = [toRehash EXCEPT ![linked] = @ + 1] /\ toRehash[linked] < 0 - 1 /\ linked \in Tables
      BY <1>6, MoverFacts, Numbers DEF SegmentDone, At
    <3>2. toRehash[linked] \in Int
      BY <1>1, <3>1
    <3>3. \A t \in Tables : toRehash'[t] = IF t = linked THEN toRehash[linked] + 1 ELSE toRehash[t]
      BY <1>1, <3>1
    <3> QED BY <1>1, <3>1, <3>2, <3>3 DEF Bounds
  <2> QED BY <1>2, <2>1, <2>2 DEF Bounds, InTable, Moving
<1>7. CASE OpenTable(w)
  <2>1. pc'[w] = "look" /\ carry' = carry /\ ~Moving(w)
    BY <1>1, <1>7 DEF OpenTable, Restart, At, Goto, Where
  <2>2. \A t \in Tables : toRehash'[t] <= segment_count(t)
    BY <1>1, <1>7 DEF OpenTable, Bounds
  <2> QED BY <1>2, <2>1, <2>2 DEF Bounds, InTable, Moving
<1>8. CASE Invalidate(w)
  BY <1>2, <1>8 DEF Invalidate, At, Bounds, InTable
<1>9. CASE Begin(w) \/ CheckOutdated(w) \/ Await(w) \/ SeeMoved(w)
  <2>1. ~Moving(w) /\ carry' = carry /\ toRehash' = toRehash
    BY <1>1, <1>9 DEF Begin, CheckOutdated, Await, SeeMoved, At, Where, tableVars, moveVars
  <2>2. pc'[w] # "move"
    BY <1>1, <1>9 DEF Begin, CheckOutdated, Return, Restart, Await, SeeMoved, Goto
  <2> QED BY <1>2, <2>1, <2>2 DEF Bounds, InTable, Moving
<1> QED BY <1>3, <1>4, <1>5, <1>6, <1>7, <1>8, <1>9 DEF Steps, ProbeStep

\* The cell that a thread invalidates is one of its table.
LEMMA MovedSlot ==
  ASSUME Basic, Bounds, NEW w \in Workers, Invalidate(w)
  PROVE  seg[w] * Segment + pos[w] \in Slots(table[w])
<1>1. /\ table[w] \in Tables /\ seg[w] \in Nat /\ pos[w] \in Nat /\ pos[w] < Segment /\ Segment \in Nat
      /\ seg[w] * Segment + pos[w] \in Nat
  BY InvalidateCell
<1>2. /\ segment_count(table[w]) \in Nat /\ Sizes[table[w]] \in Nat
      /\ segment_count(table[w]) * Segment = Sizes[table[w]]
  BY <1>1, TableSizes
<1>3. seg[w] < segment_count(table[w])
  BY DEF Bounds, InTable, Invalidate, At
<1>4. ASSUME NEW a \in Nat, NEW n \in Nat, NEW b \in Nat, NEW z \in Nat, a < n, b < z
      PROVE  a * z + b < n * z
  <2>1. PICK k \in Nat : n = a + 1 + k
    <3>1. n - a - 1 \in Nat /\ n = a + 1 + (n - a - 1)
      BY <1>4
    <3> QED BY <3>1
  <2>2. n * z = a * z + z + k * z /\ k * z >= 0 /\ a * z \in Nat /\ k * z \in Nat
    BY <2>1
  <2>3. ASSUME NEW p \in Nat, NEW q \in Nat, n * z = p + z + q PROVE p + b < n * z
    BY <1>4, <2>3
  <2> QED BY <2>2, <2>3
<1>5. seg[w] * Segment + pos[w] < Sizes[table[w]]
  BY <1>1, <1>2, <1>3, <1>4
<1>6. ASSUME NEW i \in Nat, NEW n \in Nat, i < n PROVE i \in 0..(n - 1)
  BY <1>6
<1> QED BY <1>1, <1>2, <1>5, <1>6 DEF Slots

LEMMA StepCarry ==
  ASSUME Basic, Bounds, NEW w \in Workers, Steps(w), NEW v \in Workers, NEW y \in Values, carry'[v] = y
  PROVE  \/ carry[v] = y
         \/ \E t \in Tables : \E i \in Slots(t) : cell[t][i] = y
<1>1. carry \in [Workers -> Values \cup {NoValue}] /\ y # NoValue
  BY HashSetAssumption DEF Basic, Types, TypeOK, HashSetAssumption
<1>2. CASE v # w
  BY <1>2, StepOthers DEF Others
<1>3. CASE v = w /\ ProbeStep(w)
  BY <1>1, <1>3, ProbeEffect DEF Goes, Delivers, Fails, Answers
<1>4. CASE v = w /\ Invalidate(w)
  <2> DEFINE i == seg[w] * Segment + pos[w]
  <2>1. table[w] \in Tables /\ i \in Nat
    BY <1>4, InvalidateCell
  <2>2. carry' = carry \/ (cell[table[w]][i] \in Values /\ carry' = [carry EXCEPT ![w] = cell[table[w]][i]])
    BY <1>4 DEF Invalidate
  <2>3. carry[v] = y \/ (cell[table[w]][i] = y)
    BY <1>1, <1>4, <2>2
  <2>4. i \in Slots(table[w])
    BY <1>4, MovedSlot
  <2> QED BY <2>1, <2>3, <2>4
<1>5. CASE ~ProbeStep(w) /\ ~Invalidate(w)
  <2>1. carry' = carry
    BY <1>5 DEF Steps, ProbeStep, Begin, Grow, CheckOutdated, Claim, SegmentDone, Await,
                SeeMoved, OpenTable, moveVars
  <2> QED BY <2>1
<1> QED BY <1>2, <1>3, <1>4, <1>5

\* Nothing becomes alive but the value of a call of insert.
LEMMA StepAlive ==
  ASSUME Basic, Bounds, NEW w \in Workers, Steps(w), NEW y \in Values, Alive(y)'
  PROVE  Alive(y) \/ (TryStore(w) /\ Seen(w) = Empty /\ ~Moving(w) /\ y = Call(w).x)
<1>1. CASE \E t \in Tables : \E i \in Slots(t) : cell'[t][i] = y
  <2>1. PICK t \in Tables : \E i \in Slots(t) : cell'[t][i] = y
    BY <1>1
  <2>2. PICK i \in Slots(t) : cell'[t][i] = y
    BY <2>1
  <2>3. CASE cell'[t][i] = cell[t][i]
    BY <2>2, <2>3 DEF Alive
  <2>4. CASE TryStore(w) /\ Seen(w) = Empty /\ cell'[t][i] = Key(w)
    BY <2>2, <2>4 DEF Key, Alive
  <2>5. CASE cell'[t][i] = Invalid
    BY <2>2, <2>5, HashSetAssumption DEF HashSetAssumption
  <2> QED BY <2>3, <2>4, <2>5, StepCells
<1>2. CASE \E v \in Workers : carry'[v] = y
  BY <1>2, StepCarry DEF Alive
<1> QED BY <1>1, <1>2 DEF Alive, Slots

\* In the last table, and in those to come, a value stays where it is.
LEMMA LastStays ==
  ASSUME Basic, NEW w \in Workers, Steps(w), NEW t \in Tables, t >= linked, NEW i \in Slots(t),
         cell[t][i] # Empty
  PROVE  cell'[t][i] = cell[t][i]
<1>1. SUFFICES ASSUME Invalidate(w), t = table[w] PROVE FALSE
  BY StepCells
<1>2. table[w] < linked /\ table[w] \in Nat /\ linked \in Nat
  BY <1>1, InvalidateCell, Numbers
<1> QED BY <1>1, <1>2

\* A free cell is the end of the search: no value of the class is in the table.
LEMMA StoreNew ==
  ASSUME Basic, NEW w \in Workers, TryStore(w), Looks(w), Passed(w),
         NEW t \in Tables, t = Target(w), t >= linked, Sound(t), cell[t][Slot(w)] = Empty,
         NEW i \in Slots(t), cell[t][i] \in Values, Class[cell[t][i]] = Class[Key(w)]
  PROVE  FALSE
<1>1. Probing(w)
  BY DEF TryStore, At, Probing
<1> DEFINE h == Hash[Class[Key(w)]]
<1>2. /\ probe[w] \in Nat /\ Slot(w) = index(h, probe[w], t)
  BY <1>1, KeyFacts, HashSetAssumption DEF HashSetAssumption
<1>3. PICK j \in Nat : i = index(h, j, t) /\ Reaches(h, t, j)
  BY <1>1, KeyFacts DEF Sound
<1>4. CASE j < probe[w]
  BY <1>1, <1>3, <1>4 DEF Passed
<1>5. CASE j = probe[w]
  BY <1>2, <1>3, <1>5, HashSetAssumption DEF HashSetAssumption
<1>6. CASE probe[w] < j
  BY <1>2, <1>3, <1>6 DEF Reaches
<1> QED BY <1>2, <1>3, <1>4, <1>5, <1>6

LEMMA StepSound ==
  ASSUME Basic, Contents, Once, NEW w \in Workers, Steps(w), NEW t \in Tables, t >= linked'
  PROVE  Sound(t)'
<1>1. linked \in Nat /\ linked' \in Nat /\ t \in Nat /\ linked <= linked'
  <2>1. linked' \in Tables
    BY StepBasic DEF Basic, Types, TypeOK
  <2> QED BY <2>1, Numbers, StepMonotone DEF Monotone
<1>2. t >= linked /\ Sound(t)
  BY <1>1 DEF Once
<1>3. \A i \in Slots(t) : cell[t][i] # Empty => cell'[t][i] = cell[t][i]
  BY <1>2, LastStays
<1>4. ASSUME NEW c \in Classes, NEW i \in Slots(t), cell[t][i] \in Values, Class[cell[t][i]] = c
      PROVE  /\ t <= linked' /\ cell'[t][i] = cell[t][i]
             /\ \E j \in Nat : i = index(Hash[c], j, t) /\ Reaches(Hash[c], t, j)'
             /\ \A k \in Slots(t) : cell[t][k] \in Values /\ Class[cell[t][k]] = c => k = i
  <2>1. cell'[t][i] = cell[t][i]
    BY <1>3, <1>4, HashSetAssumption DEF HashSetAssumption
  <2>2. Hash[c] \in Nat
    BY HashSetAssumption DEF HashSetAssumption
  <2>3. PICK j \in Nat : i = index(Hash[c], j, t) /\ Reaches(Hash[c], t, j)
    BY <1>2, <1>4 DEF Sound
  <2>4. Reaches(Hash[c], t, j)'
    BY <2>2, <2>3, ReachesStays
  <2>5. t <= linked /\ \A k \in Slots(t) : cell[t][k] \in Values /\ Class[cell[t][k]] = c => k = i
    BY <1>2, <1>4 DEF Sound
  <2> QED BY <1>1, <2>1, <2>3, <2>4, <2>5
<1>5. CASE \A i \in Slots(t) : cell'[t][i] \in Values => cell[t][i] \in Values
  <2>1. \A i \in Slots(t) : cell'[t][i] \in Values => cell'[t][i] = cell[t][i]
    BY <1>3, <1>5, HashSetAssumption DEF HashSetAssumption
  <2>2. ASSUME NEW c \in Classes, NEW i \in Slots(t), cell'[t][i] \in Values, Class[cell'[t][i]] = c
        PROVE  /\ t <= linked'
               /\ \E j \in Nat : i = index(Hash[c], j, t) /\ Reaches(Hash[c], t, j)'
               /\ \A k \in Slots(t) : cell'[t][k] \in Values /\ Class[cell'[t][k]] = c => k = i
    <3>1. cell[t][i] \in Values /\ Class[cell[t][i]] = c
      BY <1>5, <2>1, <2>2
    <3>2. /\ t <= linked'
          /\ \E j \in Nat : i = index(Hash[c], j, t) /\ Reaches(Hash[c], t, j)'
          /\ \A k \in Slots(t) : cell[t][k] \in Values /\ Class[cell[t][k]] = c => k = i
      BY <1>4, <3>1
    <3> QED BY <1>5, <2>1, <3>2
  <2> QED BY <2>2 DEF Sound, Slots, index
<1>6. CASE \E i \in Slots(t) : cell'[t][i] \in Values /\ cell[t][i] \notin Values
  <2>1. PICK i \in Slots(t) : cell'[t][i] \in Values /\ cell[t][i] \notin Values
    BY <1>6
  <2>2. /\ TryStore(w) /\ Seen(w) = Empty /\ t = Target(w) /\ i = Slot(w)
        /\ cell[t][i] = Empty /\ cell'[t][i] = Key(w)
    BY <2>1, StepCells, HashSetAssumption DEF HashSetAssumption
  <2>3. PICK p \in Nat : p = probe[w]
    BY <2>2, KeyFacts, HashSetAssumption DEF HashSetAssumption, TryStore, At, Probing
  <2>4. PICK d \in Classes : d = Class[Key(w)] /\ Hash[d] \in Nat
    BY <2>2, KeyFacts DEF TryStore, At, Probing
  <2>5. /\ t <= linked /\ i = index(Hash[d], p, t) /\ Key(w) \in Values
    <3>1. Target(w) \in 1..linked /\ i = index(Hash[d], p, t) /\ Key(w) \in Values
      BY <2>2, <2>3, <2>4, KeyFacts DEF TryStore, At, Probing
    <3> QED BY <1>1, <2>2, <3>1
  <2>6. \A k \in Slots(t) : k # i => cell'[t][k] = cell[t][k]
    BY <2>2, StepCells DEF TryStore, Invalidate, At
  <2>7. \A k \in Slots(t) : cell[t][k] \in Values => Class[cell[t][k]] # d
    BY <1>2, <2>2, <2>4, StoreNew DEF Contents, Once
  <2>8. Reaches(Hash[d], t, p)'
    <3>1. Reaches(Hash[d], t, p)
      BY <2>2, <2>3, <2>4 DEF Contents, Looks, TryStore, At
    <3> QED BY <2>4, <3>1, ReachesStays
  <2>9. ASSUME NEW c \in Classes, NEW m \in Slots(t), cell'[t][m] \in Values, Class[cell'[t][m]] = c
        PROVE  /\ t <= linked'
               /\ \E j \in Nat : m = index(Hash[c], j, t) /\ Reaches(Hash[c], t, j)'
               /\ \A k \in Slots(t) : cell'[t][k] \in Values /\ Class[cell'[t][k]] = c => k = m
    <3>1. CASE m = i
      <4>1. c = d
        BY <2>2, <2>4, <2>9, <3>1
      <4>2. \A k \in Slots(t) : cell'[t][k] \in Values /\ Class[cell'[t][k]] = c => k = m
        BY <2>6, <2>7, <3>1, <4>1
      <4> QED BY <1>1, <2>3, <2>5, <2>8, <3>1, <4>1, <4>2
    <3>2. CASE m # i
      <4>1. cell'[t][m] = cell[t][m] /\ cell[t][m] \in Values
        BY <2>6, <2>9, <3>2
      <4>2. c # d
        BY <2>7, <2>9, <4>1
      <4>3. /\ t <= linked'
            /\ \E j \in Nat : m = index(Hash[c], j, t) /\ Reaches(Hash[c], t, j)'
            /\ \A k \in Slots(t) : cell[t][k] \in Values /\ Class[cell[t][k]] = c => k = m
        BY <1>4, <2>9, <4>1
      <4>4. \A k \in Slots(t) : cell'[t][k] \in Values /\ Class[cell'[t][k]] = c => k = m
        BY <2>2, <2>4, <2>6, <4>2, <4>3
      <4> QED BY <4>3, <4>4
    <3> QED BY <3>1, <3>2
  <2> QED BY <2>9 DEF Sound, Slots, index
<1> QED BY <1>5, <1>6

\* A thread that stays at its place in the loop has passed what it had passed.
LEMMA SamePassed ==
  ASSUME Basic, NEW w \in Workers, Steps(w), NEW v \in Workers, Probing(v), Looks(v), Passed(v),
         Key(v)' = Key(v), Target(v)' = Target(v), probe'[v] = probe[v]
  PROVE  Passed(v)'
<1>1. linked <= linked' /\ linked \in Nat /\ linked' \in Nat /\ Target(v) \in Nat
  <2>1. linked' \in Tables
    BY StepBasic DEF Basic, Types, TypeOK
  <2> QED BY <2>1, Numbers, StepMonotone, KeyFacts DEF Monotone
<1>2. PICK t \in Tables : t = Target(v) /\ t \in Nat
  BY KeyFacts
<1>3. PICK h \in Nat : h = Hash[Class[Key(v)]]
  BY KeyFacts
<1>4. ASSUME t >= linked', NEW k \in Nat, k < probe[v], cell'[t][index(h, k, t)] \in Values
      PROVE  Class[cell'[t][index(h, k, t)]] # Class[Key(v)]
  <2>1. t >= linked /\ index(h, k, t) \in Slots(t)
    BY <1>1, <1>2, <1>4, IndexSlot
  <2>2. cell[t][index(h, k, t)] # Empty
    BY <1>2, <1>3, <1>4 DEF Looks, Reaches, Probing
  <2>3. cell'[t][index(h, k, t)] = cell[t][index(h, k, t)]
    BY <2>1, <2>2, LastStays
  <2> QED BY <1>2, <1>3, <1>4, <2>1, <2>3 DEF Passed
<1> QED BY <1>2, <1>3, <1>4 DEF Passed, index

LEMMA StepPassed ==
  ASSUME Basic, Accounts, Contents, Once, NEW w \in Workers, Steps(w), threw' = {}, NEW v \in Workers
  PROVE  Passed(v)'
<1>1. /\ pc \in [Workers -> Pcs] /\ probe \in [Workers -> 0..(MaxChain - 1)] /\ Where(w)
      /\ Passed(v) /\ Looks(v)
  BY DEF Basic, Types, TypeOK, Once, Contents
<1>2. CASE v # w
  <2>1. /\ pc'[v] = pc[v] /\ table'[v] = table[v] /\ call'[v] = call[v] /\ probe'[v] = probe[v]
        /\ carry'[v] = carry[v]
    BY <1>2, StepOthers DEF Others
  <2>2. Key(v)' = Key(v) /\ Target(v)' = Target(v)
    BY <2>1 DEF Key, Target, Moving, Call
  <2>3. Probing(v)' <=> Probing(v)
    BY <2>1 DEF Probing
  <2> QED BY <1>1, <2>1, <2>2, <2>3, SamePassed DEF Passed
<1>3. CASE v = w /\ ProbeStep(w)
  <2>1. Probing(w) /\ UNCHANGED <<linked, table, call>> /\ (Goes(w) \/ ~Probing(w)')
    BY <1>3, ProbeEffect, NotThrown DEF Goes, Delivers, Fails, Answers, Probing
  <2>2. CASE Goes(w)
    <3>1. Key(w)' = Key(w) /\ Target(w)' = Target(w)
      BY <2>1, <2>2 DEF Goes, Key, Target, Moving, Call
    <3>2. CASE probe' = probe
      BY <1>1, <1>3, <2>1, <3>1, <3>2, SamePassed
    <3>3. CASE probe' # probe
      <4>1. /\ Match(w) /\ ~Matches(w) /\ probe' = [probe EXCEPT ![w] = @ + 1] /\ cell' = cell
        BY <1>3, <3>3 DEF ProbeStep, Look, FindNothing, TryStore, Match, EndLoop
      <4>2. probe'[w] = probe[w] + 1 /\ probe[w] \in Nat
        BY <1>1, <4>1, HashSetAssumption DEF HashSetAssumption
      <4> DEFINE h == Hash[Class[Key(w)]]
                 t == Target(w)
      <4>3. Seen(w) = cell[t][index(h, probe[w], t)] /\ (Seen(w) \in Values => Class[Seen(w)] # Class[Key(w)])
        BY <2>1, <4>1, KeyFacts DEF Matches
      <4>4. ASSUME t >= linked, NEW k \in Nat, k < probe[w] + 1, cell[t][index(h, k, t)] \in Values
            PROVE  Class[cell[t][index(h, k, t)]] # Class[Key(w)]
        <5>1. CASE k < probe[w]
          BY <1>1, <1>3, <2>1, <4>4, <5>1 DEF Passed
        <5>2. CASE k = probe[w]
          BY <4>3, <4>4, <5>2
        <5> QED BY <4>2, <4>4, <5>1, <5>2
      <4> QED BY <1>3, <2>1, <3>1, <4>1, <4>2, <4>4 DEF Passed, index
    <3> QED BY <3>2, <3>3
  <2> QED BY <1>3, <2>1, <2>2 DEF Passed
<1>4. CASE v = w /\ ~ProbeStep(w)
  <2>1. ~Probing(w)' \/ probe'[w] = 0
    <3>1. CASE Begin(w) \/ CheckOutdated(w) \/ Invalidate(w) \/ OpenTable(w)
      BY <1>1, <3>1 DEF Begin, CheckOutdated, Return, Restart, Invalidate, OpenTable, Goto, Probing, At
    <3>2. CASE Grow(w) \/ Claim(w) \/ SegmentDone(w) \/ Await(w) \/ SeeMoved(w)
      BY <1>1, <3>2 DEF Grow, Claim, SegmentDone, Await, SeeMoved, Goto, AfterRehash, Probing
    <3> QED BY <1>4, <3>1, <3>2 DEF Steps, ProbeStep
  <2> QED BY <1>4, <2>1 DEF Passed
<1> QED BY <1>2, <1>3, <1>4

\* What a turn of the loop that ends in the last table says of it.
LEMMA AnswerSays ==
  ASSUME Basic, Accounts, Contents, NEW w \in Workers, ProbeStep(w), ~Moving(w), pc'[w] = "outdated",
         table[w] = linked, Inserts(w)
  PROVE  /\ value'[w] \in Values /\ Class[value'[w]] = Wanted(w)
         /\ \E i \in Slots(linked) : cell'[linked][i] = value'[w]
<1>1. /\ Probing(w) /\ value \in [Workers -> Values \cup {NoValue}] /\ pc \in [Workers -> Pcs]
      /\ linked \in Tables
  BY ProbeEffect, Numbers DEF Basic, Types, TypeOK
<1>2. /\ Key(w) = Call(w).x /\ Class[Key(w)] = Wanted(w) /\ Key(w) \in Values
      /\ Target(w) = linked /\ Slot(w) \in Slots(linked) /\ Seen(w) = cell[linked][Slot(w)]
  BY <1>1, KeyFacts DEF Key, Target, Wanted
<1>3. ASSUME NEW o, EndLoop(w, o)
      PROVE  /\ o = "full" => pc'[w] = "grow"
             /\ o = "new" => value'[w] = Key(w)
             /\ o = "found" => value'[w] = Seen(w)
  <2>1. Answer(w, o)
    BY <1>3 DEF EndLoop
  <2>2. o = "full" => pc'[w] = "grow"
    BY <1>3, EndAnswer
  <2>3. o = "new" => value'[w] = Key(w)
    BY <1>1, <2>1 DEF Answer
  <2>4. o = "found" => value'[w] = Seen(w)
    BY <1>1, <2>1 DEF Answer
  <2> QED BY <2>2, <2>3, <2>4
<1>4. CASE Look(w)
  <2>1. Seen(w) = Invalid
    BY <1>1, <1>4 DEF Look, Goto
  <2> QED BY <1>1, <1>2, <2>1, Numbers DEF Accounts, LastValid
<1>5. CASE FindNothing(w)
  BY <1>5 DEF FindNothing
<1>6. CASE TryStore(w)
  <2>1. Seen(w) = Empty /\ EndLoop(w, "new")
    BY <1>1, <1>6 DEF TryStore, Goto
  <2>2. Wrote(Target(w), Slot(w), Key(w))
    BY <1>6, <2>1, TryStoreTypes
  <2>3. cell'[linked][Slot(w)] = Key(w)
    BY <1>2, <2>2 DEF Wrote
  <2>4. value'[w] = Key(w)
    BY <1>3, <2>1
  <2> QED BY <1>2, <2>3, <2>4
<1>7. CASE Match(w)
  <2>1. Matches(w) /\ EndLoop(w, "found") /\ cell' = cell
    <3>1. ~EndLoop(w, "full")
      BY <1>3
    <3> QED BY <1>1, <1>7, <3>1 DEF Match, Goto
  <2>2. value'[w] = Seen(w)
    BY <1>3, <2>1
  <2> QED BY <1>2, <2>1, <2>2 DEF Matches
<1> QED BY <1>4, <1>5, <1>6, <1>7 DEF ProbeStep

LEMMA StepSays ==
  ASSUME Basic, Accounts, Contents, Once, NEW w \in Workers, Steps(w), threw' = {}, NEW v \in Workers
  PROVE  Says(v)'
<1>1. /\ pc \in [Workers -> Pcs] /\ linked \in Tables /\ linked \in Nat /\ linked' \in Nat /\ linked <= linked'
      /\ table[v] \in Nat /\ table[v] <= linked /\ Says(v) /\ Role(w)
      /\ role \in [Workers -> {"user", "helper", "grower"}]
  <2>1. linked' \in Tables
    BY StepBasic DEF Basic, Types, TypeOK
  <2> QED BY <2>1, Numbers, StepMonotone DEF Monotone, Basic, Types, TypeOK, Once, Accounts
<1>2. CASE v # w
  <2>1. SUFFICES ASSUME pc'[v] = "outdated", role'[v] = "user", table'[v] = linked', Inserts(v)'
                 PROVE  /\ value'[v] \in Values /\ Class[value'[v]] = Wanted(v)'
                        /\ \E i \in Slots(linked') : cell'[linked'][i] = value'[v]
    BY DEF Says, Slots
  <2>2. /\ pc'[v] = pc[v] /\ table'[v] = table[v] /\ call'[v] = call[v] /\ role'[v] = role[v]
        /\ value'[v] = value[v]
    BY <1>2, StepOthers, StepRest DEF Others
  <2>3. linked' = linked /\ Inserts(v) /\ Wanted(v)' = Wanted(v)
    BY <1>1, <2>1, <2>2 DEF Inserts, Wanted, Call
  <2>4. PICK i \in Slots(linked) : cell[linked][i] = value[v] /\ value[v] \in Values /\ Class[value[v]] = Wanted(v)
    BY <1>1, <2>1, <2>2, <2>3 DEF Says
  <2>5. cell'[linked][i] = cell[linked][i]
    BY <1>1, <2>4, LastStays, HashSetAssumption DEF HashSetAssumption
  <2> QED BY <2>2, <2>3, <2>4, <2>5
<1>3. CASE v = w /\ ProbeStep(w)
  <2>1. UNCHANGED <<linked, table, call, role>> /\ (Goes(w) \/ Delivers(w) \/ Answers(w))
    BY <1>3, ProbeEffect, NotThrown
  <2>2. pc'[w] = "outdated" => ~Moving(w)
    BY <2>1 DEF Goes, Delivers, Answers, Probing
  <2>3. (Inserts(w)' <=> Inserts(w)) /\ Wanted(w)' = Wanted(w)
    BY <2>1 DEF Inserts, Wanted, Call
  <2> QED BY <1>3, <2>1, <2>2, <2>3, AnswerSays DEF Says, Slots
<1>4. CASE v = w /\ Await(w)
  BY <1>1, <1>4 DEF Await, At, Role, Says, moveVars
<1>5. CASE v = w /\ ~ProbeStep(w) /\ ~Await(w)
  <2>1. pc'[w] # "outdated"
    <3>1. CASE Begin(w) \/ CheckOutdated(w) \/ Invalidate(w) \/ OpenTable(w)
      BY <1>1, <3>1 DEF Begin, CheckOutdated, Return, Restart, Invalidate, OpenTable, Goto, At
    <3>2. CASE Grow(w) \/ Claim(w) \/ SegmentDone(w) \/ SeeMoved(w)
      BY <1>1, <3>2 DEF Grow, Claim, SegmentDone, SeeMoved, Goto, AfterRehash
    <3> QED BY <1>5, <3>1, <3>2 DEF Steps, ProbeStep
  <2> QED BY <1>5, <2>1 DEF Says
<1> QED BY <1>2, <1>3, <1>4, <1>5

\* Whoever returns a value that is not its own has left its own nowhere.
LEMMA Loses ==
  ASSUME Basic, Accounts, Once, NEW w \in Workers, pc[w] = "outdated", role[w] = "user", table[w] = linked,
         Inserts(w), NEW y \in Values, y = Call(w).x, value[w] # y, Alive(y)
  PROVE  FALSE
<1>1. /\ linked \in Tables /\ linked \in Nat /\ Tables \subseteq Nat /\ toRehash[linked] \in Int
      /\ toRehash[linked] >= 0
  BY Numbers DEF Basic, Where
<1>2. ASSUME NEW v \in Workers, carry[v] = y
      PROVE  FALSE
  <2>1. Moving(v)
    BY <1>2, HashSetAssumption DEF Moving, HashSetAssumption
  <2>2. toRehash[linked] < 0 - 1
    BY <2>1, MoverFacts
  <2> QED BY <1>1, <2>2
<1>3. PICK t \in Tables : \E i \in Slots(t) : cell[t][i] = y
  BY <1>2 DEF Alive
<1>4. PICK i \in Slots(t) : cell[t][i] = y
  BY <1>3
<1>5. Class[y] \in Classes /\ Class[y] = Wanted(w)
  BY ClassHash DEF Wanted
<1>6. CASE t < linked
  <2>1. t + 1 \in Tables /\ t + 1 <= linked /\ t + 1 \in Nat /\ toRehash[t + 1] \in Int
    BY <1>1, <1>6, Numbers
  <2>2. toRehash[t + 1] >= -1
    <3>1. CASE t + 1 = linked
      BY <1>1, <3>1
    <3>2. CASE t + 1 < linked
      BY <2>1, <3>2 DEF Basic, Signs
    <3> QED BY <1>1, <2>1, <3>1, <3>2
  <2>3. cell[t][i] = Invalid
    BY <1>6, <2>2, LeftBehind
  <2> QED BY <1>4, <2>3, HashSetAssumption DEF HashSetAssumption
<1>7. CASE t = linked
  <2>1. PICK k \in Slots(linked) : cell[linked][k] = value[w] /\ value[w] \in Values /\ Class[value[w]] = Wanted(w)
    BY DEF Once, Says
  <2>2. Sound(linked)
    BY <1>1 DEF Once
  <2>3. k = i
    BY <1>4, <1>5, <1>7, <2>1, <2>2 DEF Sound
  <2> QED BY <1>4, <1>7, <2>1, <2>3
<1>8. CASE t > linked
  <2>1. Sound(t)
    BY <1>1, <1>8 DEF Once
  <2>2. t <= linked
    BY <1>4, <1>5, <2>1 DEF Sound
  <2> QED BY <1>1, <1>8, <2>2
<1> QED BY <1>1, <1>6, <1>7, <1>8

\* An insert is in its call until it returns.
LEMMA StaysWithin ==
  ASSUME Basic, NEW w \in Workers, Steps(w), threw' = {}, NEW v \in Workers, Within(v)
  PROVE  \/ Within(v)' /\ Call(v)' = Call(v)
         \/ /\ v = w /\ CheckOutdated(w) /\ linked = table[w] /\ role[w] = "user" /\ Return(w)
<1>1. pc \in [Workers -> Pcs] /\ pc[v] \notin {"idle", "thrown"}
  BY DEF Basic, Types, TypeOK, Within
<1>2. CASE v # w
  <2>1. pc'[v] = pc[v] /\ call'[v] = call[v]
    BY <1>2, StepOthers DEF Others
  <2> QED BY <2>1 DEF Within, Inserts, Call
<1>3. CASE v = w /\ ProbeStep(w)
  <2>1. pc'[w] \notin {"idle", "thrown"} /\ call' = call
    BY <1>3, ProbeEffect, NotThrown DEF Goes, Delivers, Answers, Probing
  <2> QED BY <1>3, <2>1 DEF Within, Inserts, Call
<1>4. CASE v = w /\ ~ProbeStep(w)
  <2>1. \/ pc'[w] \notin {"idle", "thrown"} /\ call' = call
        \/ CheckOutdated(w) /\ linked = table[w] /\ role[w] = "user" /\ Return(w)
    <3>1. CASE Begin(w) \/ Invalidate(w) \/ OpenTable(w)
      BY <1>1, <1>4, <3>1 DEF Begin, Restart, Invalidate, OpenTable, Goto, At
    <3>2. CASE Grow(w) \/ Claim(w) \/ SegmentDone(w) \/ SeeMoved(w) \/ Await(w)
      BY <1>1, <1>4, <3>2 DEF Grow, Claim, SegmentDone, SeeMoved, Await, Goto, AfterRehash
    <3>3. CASE CheckOutdated(w)
      BY <1>1, <1>4, <3>3 DEF CheckOutdated, Restart, Goto
    <3> QED BY <1>4, <3>1, <3>2, <3>3 DEF Steps, ProbeStep
  <2> QED BY <1>4, <2>1 DEF Within, Inserts, Call
<1> QED BY <1>2, <1>3, <1>4

\* Only returns change the two counts, and they do not make them smaller.
LEMMA TallyGrows ==
  ASSUME Basic, NEW w \in Workers, Steps(w), NEW c \in Classes
  PROVE  /\ owned'[c] >= owned[c] /\ owned[c] \in Nat /\ owned'[c] \in Nat
         /\ news'[c] >= news[c] /\ news[c] \in Nat /\ news'[c] \in Nat
<1>1. owned \in [Classes -> Nat] /\ news \in [Classes -> Nat]
  BY DEF Basic, Types, TypeOK
<1>2. owned' \in [Classes -> Nat] /\ news' \in [Classes -> Nat]
  BY StepBasic DEF Basic, Types, TypeOK
<1>3. CASE ReturnInsert(w) /\ CheckOutdated(w)
  <2>1. /\ owned' = [owned EXCEPT ![Class[Call(w).x]] = @ + IF value[w] = Call(w).x THEN 1 ELSE 0]
        /\ news' = [news EXCEPT ![Class[Call(w).x]] = @ + IF wasnew[w] \/ outcome[w] = "new" THEN 1 ELSE 0]
    BY <1>3 DEF ReturnInsert
  <2> QED BY <1>1, <1>2, <2>1
<1>4. CASE UNCHANGED <<owned, news>>
  BY <1>1, <1>4
<1>5. ProbeStep(w) => UNCHANGED <<owned, news>>
  BY ProbeEffect DEF history
<1>6. ~ProbeStep(w) => UNCHANGED <<owned, news>> \/ (ReturnInsert(w) /\ CheckOutdated(w))
  BY DEF Steps, ProbeStep, Begin, Grow, CheckOutdated, Return, ReturnFind, Claim, Invalidate, SegmentDone,
         Await, SeeMoved, OpenTable, history
<1> QED BY <1>3, <1>4, <1>5, <1>6

LEMMA StepOwners ==
  ASSUME Basic, Accounts, Contents, Bounds, Once, Owners, NEW w \in Workers, Steps(w), threw' = {}
  PROVE  Owners'
<1>1. ASSUME NEW y \in Values, Alive(y)'
      PROVE  Owner(y)'
  <2>1. Class[y] \in Classes
    BY ClassHash
  <2>2. ASSUME NEW v \in Workers, Within(v)', Call(v)'.x = y
        PROVE  Owner(y)'
    BY <2>2 DEF Owner
  <2>3. CASE TryStore(w) /\ Seen(w) = Empty /\ ~Moving(w) /\ y = Call(w).x
    <3>1. Within(w) /\ ~CheckOutdated(w)
      BY <2>3 DEF Within, Contents, Looks, TryStore, CheckOutdated, At
    <3>2. Within(w)' /\ Call(w)' = Call(w)
      BY <3>1, StaysWithin
    <3> QED BY <2>2, <2>3, <3>2
  <2>4. CASE Alive(y) /\ owned[Class[y]] >= 1
    <3>1. owned'[Class[y]] >= owned[Class[y]] /\ owned[Class[y]] \in Nat /\ owned'[Class[y]] \in Nat
      BY <2>1, TallyGrows
    <3>2. owned'[Class[y]] >= 1
      BY <2>4, <3>1
    <3> QED BY <3>2 DEF Owner
  <2>5. ASSUME Alive(y), NEW v \in Workers, Within(v), Call(v).x = y
        PROVE  Owner(y)'
    <3>1. CASE Within(v)' /\ Call(v)' = Call(v)
      BY <2>2, <2>5, <3>1
    <3>2. CASE v = w /\ CheckOutdated(w) /\ linked = table[w] /\ role[w] = "user" /\ Return(w)
      <4>1. pc[w] = "outdated" /\ Inserts(w)
        BY <2>5, <3>2 DEF CheckOutdated, At, Within
      <4>2. value[w] = y
        BY <2>5, <3>2, <4>1, Loses
      <4>3. owned' = [owned EXCEPT ![Class[y]] = @ + 1]
        BY <2>5, <3>2, <4>1, <4>2 DEF Return, ReturnInsert, ReturnFind
      <4>4. owned'[Class[y]] = owned[Class[y]] + 1 /\ owned[Class[y]] \in Nat
        BY <2>1, <4>3 DEF Basic, Types, TypeOK
      <4>5. owned'[Class[y]] >= 1
        BY <4>4
      <4> QED BY <4>5 DEF Owner
    <3> QED BY <2>5, <3>1, <3>2, StaysWithin
  <2>6. Alive(y) => owned[Class[y]] >= 1 \/ \E v \in Workers : Within(v) /\ Call(v).x = y
    BY DEF Owners, Owner
  <2> QED BY <1>1, <2>3, <2>4, <2>5, <2>6, StepAlive
<1> QED BY <1>1 DEF Owners

LEMMA StepUser ==
  ASSUME Basic, (\A u \in Workers : User(u)), NEW w \in Workers, Steps(w), threw' = {}, NEW v \in Workers
  PROVE  User(v)'
<1>1. /\ pc \in [Workers -> Pcs] /\ role \in [Workers -> {"user", "helper", "grower"}]
      /\ carry \in [Workers -> Values \cup {NoValue}] /\ User(v) /\ User(w) /\ Where(w)
  BY DEF Basic, Types, TypeOK
<1>2. CASE v # w
  <2>1. pc'[v] = pc[v] /\ role'[v] = role[v] /\ carry'[v] = carry[v]
    BY <1>2, StepOthers DEF Others
  <2> QED BY <1>1, <2>1 DEF User, Probing, Moving
<1>3. CASE v = w /\ ProbeStep(w)
  <2>1. role' = role /\ Probing(w) /\ (Goes(w) \/ Delivers(w) \/ Answers(w))
    BY <1>3, ProbeEffect, NotThrown
  <2> QED BY <1>1, <1>3, <2>1 DEF Goes, Delivers, Answers, User, Moving, Probing
<1>4. CASE v = w /\ Begin(w)
  BY <1>1, <1>4 DEF Begin, At, moveVars, User
<1>5. CASE v = w /\ CheckOutdated(w)
  <2>1. CASE Return(w) /\ role[w] = "user" /\ role' = role
    BY <1>5, <2>1 DEF User
  <2>2. CASE Restart(w)
    BY <1>1, <1>5, <2>2 DEF Restart, User
  <2>3. CASE Goto(w, "claim")
    BY <1>1, <1>5, <2>3 DEF Goto, User, Probing
  <2> QED BY <1>5, <2>1, <2>2, <2>3 DEF CheckOutdated
<1>6. CASE v = w /\ OpenTable(w)
  BY <1>1, <1>6 DEF OpenTable, Restart, User
<1>7. CASE v = w /\ Invalidate(w)
  <2>1. pc[w] = "move" /\ (pc' = pc \/ Moving(w)')
    <3>1. CASE cell[table[w]][seg[w] * Segment + pos[w]] \in Values
      BY <1>1, <1>7, <3>1, HashSetAssumption DEF Invalidate, At, Moving, HashSetAssumption
    <3>2. CASE cell[table[w]][seg[w] * Segment + pos[w]] \notin Values
      BY <1>7, <3>2 DEF Invalidate, At
    <3> QED BY <3>1, <3>2
  <2>2. pc'[w] \notin {"idle", "grow"}
    BY <1>1, <1>7, <2>1 DEF Invalidate, Goto
  <2> QED BY <1>7, <2>1, <2>2 DEF User, Probing
<1>8. CASE v = w /\ (Grow(w) \/ Claim(w) \/ SegmentDone(w) \/ Await(w) \/ SeeMoved(w))
  <2>1. pc'[w] \in {"claim", "move", "await", "spin", "outdated", "open"}
    BY <1>1, <1>8 DEF Grow, Claim, SegmentDone, Await, SeeMoved, Goto, AfterRehash
  <2> QED BY <1>8, <2>1 DEF User, Probing
<1> QED BY <1>2, <1>3, <1>4, <1>5, <1>6, <1>7, <1>8 DEF Steps, ProbeStep

LEMMA StepSecond ==
  ASSUME Basic, Accounts, (\A u \in Workers : User(u) /\ Second(u)), NEW w \in Workers, Steps(w), threw' = {},
         NEW v \in Workers
  PROVE  Second(v)'
<1>1. /\ pc \in [Workers -> Pcs] /\ linked \in Nat /\ linked' \in Nat /\ linked <= linked'
      /\ table[w] \in Nat /\ table[w] <= linked /\ table[w] >= 1
      /\ Second(v) /\ Second(w) /\ User(w) /\ Role(w) /\ Where(w)
      /\ role \in [Workers -> {"user", "helper", "grower"}] /\ wasnew \in [Workers -> BOOLEAN]
      /\ table \in [Workers -> 1..linked]
  <2>1. linked' \in Tables
    BY StepBasic DEF Basic, Types, TypeOK
  <2>2. table \in [Workers -> 1..linked] /\ linked \in Nat
    BY Numbers DEF Basic, Types, TypeOK
  <2>3. table[w] \in Nat /\ table[w] <= linked /\ table[w] >= 1
    BY <2>2
  <2> QED BY <2>1, <2>2, <2>3, Numbers, StepMonotone DEF Monotone, Basic, Types, TypeOK, Accounts
<1>2. CASE v # w
  <2>1. /\ pc'[v] = pc[v] /\ table'[v] = table[v] /\ role'[v] = role[v] /\ wasnew'[v] = wasnew[v]
    BY <1>2, StepOthers, StepRest DEF Others
  <2> QED BY <1>1, <2>1 DEF Second
<1>3. CASE v = w /\ ProbeStep(w)
  <2>1. UNCHANGED <<linked, table, role, wasnew>> /\ (Goes(w) \/ Delivers(w) \/ Answers(w)) /\ Probing(w)
    BY <1>3, ProbeEffect, NotThrown
  <2>2. pc'[w] \notin {"await", "spin", "open", "idle"}
    BY <2>1 DEF Goes, Delivers, Answers, Probing
  <2>3. pc'[w] = "outdated" => role[w] # "helper" \/ table[w] >= 2
    <3>1. pc'[w] = "outdated" => ~Moving(w)
      BY <2>1 DEF Goes, Delivers, Answers, Probing
    <3> QED BY <1>1, <2>1, <3>1 DEF User
  <2> QED BY <1>1, <1>3, <2>1, <2>2, <2>3 DEF Second, Probing
<1>4. CASE v = w /\ Begin(w)
  BY <1>1, <1>4 DEF Begin, Goto, Second
<1>5. CASE v = w /\ Grow(w)
  <2>1. pc'[w] = "claim" /\ table' = table /\ wasnew' = wasnew /\ pc[w] = "grow"
    BY <1>1, <1>5 DEF Grow, Goto, At, lookVars
  <2>2. CASE linked = table[w]
    <3>1. linked' = linked + 1
      BY <1>5, <2>2 DEF Grow
    <3> QED BY <1>1, <1>5, <2>1, <2>2, <3>1 DEF Second
  <2>3. CASE linked # table[w]
    <3>1. linked' = linked /\ ~(linked <= 2 /\ wasnew[w])
      BY <1>1, <1>5, <2>1, <2>3 DEF Grow, Second
    <3> QED BY <1>1, <1>5, <2>1, <3>1 DEF Second
  <2> QED BY <2>2, <2>3
<1>6. CASE v = w /\ CheckOutdated(w)
  <2>1. CASE Return(w)
    BY <1>1, <1>6, <2>1 DEF CheckOutdated, Return, Goto, Second
  <2>2. CASE linked = table[w] /\ role[w] = "helper" /\ Restart(w)
    <3>1. /\ pc'[w] = "look" /\ role'[w] = "user" /\ table' = table /\ linked' = linked /\ pc[w] = "outdated"
      BY <1>1, <1>6, <2>2 DEF CheckOutdated, Restart, Goto, At, tableVars
    <3>2. table[w] >= 2
      BY <1>1, <2>2, <3>1 DEF Second
    <3> QED BY <1>1, <1>6, <2>2, <3>1, <3>2 DEF Second
  <2>3. CASE linked # table[w] /\ Goto(w, "claim")
    <3>1. /\ pc'[w] = "claim" /\ wasnew' = wasnew /\ table' = table /\ linked' = linked /\ pc[w] = "outdated"
      BY <1>1, <1>6, <2>3 DEF CheckOutdated, Goto, At, tableVars
    <3>2. ~(linked <= 2 /\ wasnew[w])
      BY <1>1, <2>3, <3>1 DEF Second
    <3> QED BY <1>1, <1>6, <3>1, <3>2 DEF Second
  <2> QED BY <1>6, <2>1, <2>2, <2>3 DEF CheckOutdated
<1>7. CASE v = w /\ (Claim(w) \/ SegmentDone(w))
  <2>1. /\ wasnew' = wasnew /\ linked' = linked /\ role' = role /\ pc[w] \in {"claim", "move"}
        /\ \/ pc'[w] \in {"claim", "move"} /\ table' = table
           \/ pc'[w] \in {"await", "spin"} /\ table' = [table EXCEPT ![w] = @ + 1]
    BY <1>1, <1>7 DEF Claim, SegmentDone, Goto, At, AfterRehash, lookVars, moveVars
  <2>2. role[w] # "user"
    BY <1>1, <2>1 DEF Role
  <2>3. ~(linked <= 2 /\ wasnew[w])
    BY <1>1, <2>1, <2>2 DEF Second
  <2>4. pc'[w] \in {"await", "spin"} => table'[w] >= 2
    BY <1>1, <2>1
  <2> QED BY <1>7, <2>1, <2>3, <2>4 DEF Second
<1>8. CASE v = w /\ Invalidate(w)
  BY <1>1, <1>8 DEF Invalidate, At, Goto, Second
<1>9. CASE v = w /\ (Await(w) \/ SeeMoved(w))
  <2>1. /\ UNCHANGED <<linked, table, role, wasnew>> /\ pc[w] \in {"await", "spin"} /\ pc'[w] \in {"outdated", "open"}
    BY <1>1, <1>9 DEF Await, SeeMoved, At, Goto, tableVars, lookVars, moveVars
  <2> QED BY <1>1, <1>9, <2>1 DEF Second
<1>10. CASE v = w /\ OpenTable(w)
  <2>1. /\ pc'[w] = "look" /\ role'[w] = "user" /\ table' = table /\ linked' = linked /\ pc[w] = "open"
    BY <1>1, <1>10 DEF OpenTable, Restart, At, Goto
  <2>2. table[w] >= 2
    BY <1>1, <2>1 DEF Second
  <2> QED BY <1>1, <1>10, <2>1, <2>2 DEF Second
<1> QED BY <1>2, <1>3, <1>4, <1>5, <1>6, <1>7, <1>8, <1>9, <1>10 DEF Steps, ProbeStep

\* What a thread knows of its own store outlives the growth.
LEMMA Remembers ==
  ASSUME Basic, Accounts, NEW w \in Workers, User(w), Second(w), Steps(w), threw' = {}, linked <= 2,
         Within(w), Within(w)',
         wasnew[w] \/ (outcome[w] = "new" /\ (~Probing(w) \/ Moving(w)))
  PROVE  wasnew'[w] \/ (outcome'[w] = "new" /\ (~Probing(w)' \/ Moving(w)'))
<1>1. /\ pc \in [Workers -> Pcs] /\ role \in [Workers -> {"user", "helper", "grower"}]
      /\ wasnew \in [Workers -> BOOLEAN] /\ carry \in [Workers -> Values \cup {NoValue}]
      /\ Role(w) /\ Where(w) /\ pc[w] \notin {"idle", "thrown"} /\ pc'[w] # "idle"
  BY DEF Basic, Types, TypeOK, Accounts, Within
<1>2. CASE ProbeStep(w)
  <2>1. wasnew' = wasnew /\ Probing(w) /\ (Goes(w) \/ Delivers(w) \/ Answers(w))
    BY <1>2, ProbeEffect, NotThrown
  <2>2. CASE wasnew[w]
    BY <2>1, <2>2
  <2>3. CASE outcome[w] = "new" /\ Moving(w)
    <3>1. outcome' = outcome
      BY <1>2, <2>3 DEF ProbeStep, Look, FindNothing, TryStore, Match, EndLoop, Moved
    <3>2. ~Probing(w)' \/ Moving(w)'
      BY <2>1, <2>3 DEF Goes, Delivers, Answers, Moving, Probing
    <3> QED BY <2>3, <3>1, <3>2
  <2> QED BY <2>1, <2>2, <2>3
<1>3. CASE CheckOutdated(w)
  <2>1. CASE Return(w)
    BY <1>1, <2>1 DEF Return, Goto
  <2>2. CASE role[w] = "helper" /\ Restart(w)
    <3>1. outcome[w] = "new"
      BY <1>1, <2>2 DEF Second
    <3>2. wasnew'[w]
      BY <1>1, <2>2, <3>1 DEF Restart
    <3> QED BY <3>2
  <2>3. CASE Goto(w, "claim") /\ wasnew' = wasnew /\ outcome' = outcome
    BY <1>1, <2>3 DEF Goto, Probing
  <2> QED BY <1>3, <2>1, <2>2, <2>3 DEF CheckOutdated
<1>4. CASE OpenTable(w)
  <2>1. role[w] = "grower"
    BY <1>1, <1>4 DEF OpenTable, At, Role
  <2>2. outcome[w] = "new"
    BY <1>1, <2>1 DEF Second
  <2>3. wasnew'[w]
    BY <1>1, <1>4, <2>2 DEF OpenTable, Restart
  <2> QED BY <2>3
<1>5. CASE Begin(w)
  BY <1>1, <1>5 DEF Begin, At
<1>6. CASE Invalidate(w)
  <2>1. pc[w] = "move" /\ outcome' = outcome /\ wasnew' = wasnew
    BY <1>6 DEF Invalidate, At
  <2>2. pc' = pc \/ Moving(w)'
    <3>1. CASE cell[table[w]][seg[w] * Segment + pos[w]] \in Values
      BY <1>1, <1>6, <3>1, HashSetAssumption DEF Invalidate, Moving, HashSetAssumption
    <3>2. CASE cell[table[w]][seg[w] * Segment + pos[w]] \notin Values
      BY <1>6, <3>2 DEF Invalidate
    <3> QED BY <3>1, <3>2
  <2>3. ~Probing(w)' \/ Moving(w)'
    BY <2>1, <2>2 DEF Probing
  <2> QED BY <2>1, <2>3
<1>7. CASE Grow(w) \/ Claim(w) \/ SegmentDone(w) \/ Await(w) \/ SeeMoved(w)
  <2>1. /\ outcome' = outcome /\ wasnew' = wasnew
        /\ pc'[w] \in {"claim", "move", "await", "spin", "outdated", "open"}
    BY <1>1, <1>7 DEF Grow, Claim, SegmentDone, Await, SeeMoved, Goto, AfterRehash, lookVars
  <2> QED BY <2>1 DEF Probing
<1> QED BY <1>2, <1>3, <1>4, <1>5, <1>6, <1>7 DEF Steps, ProbeStep

LEMMA StepReports ==
  ASSUME Basic, Accounts, Contents, Bounds, Reports, (\A u \in Workers : User(u) /\ Second(u)),
         NEW w \in Workers, Steps(w), threw' = {}
  PROVE  Reports'
<1>1. SUFFICES ASSUME linked' <= 2, NEW y \in Values, Alive(y)'
               PROVE  news'[Class[y]] >= 1 \/ \E v \in Workers : Reporter(v, Class[y])'
  BY DEF Reports
<1>2. linked <= 2
  <2>1. linked' \in Tables
    BY StepBasic DEF Basic, Types, TypeOK
  <2>2. linked' \in Nat /\ linked \in Nat /\ linked <= linked'
    BY <2>1, Numbers, StepMonotone DEF Monotone
  <2> QED BY <1>1, <2>2
<1>3. PICK c \in Classes : c = Class[y]
  BY ClassHash
<1>4. SUFFICES news'[c] >= 1 \/ \E v \in Workers : Reporter(v, c)'
  BY <1>3
<1>5. CASE TryStore(w) /\ Seen(w) = Empty /\ ~Moving(w) /\ y = Call(w).x
  <2>1. EndLoop(w, "new") /\ Within(w) /\ ~CheckOutdated(w)
    BY <1>5 DEF Within, Contents, Looks, TryStore, CheckOutdated, At
  <2>2. outcome'[w] = "new" /\ pc'[w] = "outdated"
    BY <1>5, <2>1, EndAnswer
  <2>3. Within(w)' /\ Call(w)' = Call(w)
    BY <2>1, StaysWithin
  <2>4. Reporter(w, c)'
    BY <1>3, <1>5, <2>2, <2>3 DEF Reporter, Wanted, Probing
  <2> QED BY <2>4
<1>6. CASE Alive(y) /\ news[c] >= 1
  <2>1. news'[c] >= news[c] /\ news[c] \in Nat /\ news'[c] \in Nat
    BY TallyGrows
  <2>2. news'[c] >= 1
    BY <1>6, <2>1
  <2> QED BY <2>2
<1>7. ASSUME Alive(y), NEW v \in Workers, Reporter(v, c)
      PROVE  news'[c] >= 1 \/ Reporter(v, c)'
  <2>1. Within(v) /\ Wanted(v) = c /\ (wasnew[v] \/ (outcome[v] = "new" /\ (~Probing(v) \/ Moving(v))))
    BY <1>7 DEF Reporter
  <2>2. CASE Within(v)' /\ Call(v)' = Call(v)
    <3>1. Wanted(v)' = c
      BY <2>1, <2>2 DEF Wanted
    <3>2. wasnew'[v] \/ (outcome'[v] = "new" /\ (~Probing(v)' \/ Moving(v)'))
      <4>1. CASE v = w
        BY <1>2, <2>1, <2>2, <4>1, Remembers
      <4>2. CASE v # w
        <5>1. /\ pc'[v] = pc[v] /\ outcome'[v] = outcome[v] /\ carry'[v] = carry[v] /\ wasnew'[v] = wasnew[v]
          BY <4>2, StepOthers, StepRest DEF Others
        <5> QED BY <2>1, <5>1 DEF Probing, Moving
      <4> QED BY <4>1, <4>2
    <3> QED BY <2>2, <3>1, <3>2 DEF Reporter
  <2>3. CASE v = w /\ CheckOutdated(w) /\ linked = table[w] /\ role[w] = "user" /\ Return(w)
    <3>1. Inserts(w) /\ (wasnew[w] \/ outcome[w] = "new")
      BY <2>1, <2>3 DEF Within
    <3>2. news' = [news EXCEPT ![c] = @ + 1]
      BY <2>1, <2>3, <3>1 DEF Return, ReturnInsert, ReturnFind, Wanted
    <3>3. news'[c] = news[c] + 1 /\ news[c] \in Nat
      BY <3>2 DEF Basic, Types, TypeOK
    <3>4. news'[c] >= 1
      BY <3>3
    <3> QED BY <3>4
  <2> QED BY <2>1, <2>2, <2>3, StaysWithin
<1>8. Alive(y) => news[c] >= 1 \/ \E v \in Workers : Reporter(v, c)
  BY <1>2, <1>3 DEF Reports
<1> QED BY <1>1, <1>5, <1>6, <1>7, <1>8, StepAlive

\* What was inserted is somewhere.
LEMMA KeptAlive ==
  ASSUME Basic, Kept, NEW c \in done
  PROVE  \E y \in Values : Alive(y) /\ Class[y] = c
<1>1. /\ c \in Classes /\ Hash[c] \in Nat /\ linked \in Tables
      /\ carry \in [Workers -> Values \cup {NoValue}]
  BY Numbers, HashSetAssumption DEF Basic, Types, TypeOK, HashSetAssumption
<1>2. CASE \E w \in Workers : Moving(w) /\ Class[carry[w]] = c
  BY <1>1, <1>2 DEF Alive, Moving
<1>3. ASSUME NEW t \in 1..linked, Placed(c, t, 0)
      PROVE  \E y \in Values : Alive(y) /\ Class[y] = c
  <2>1. t \in Tables
    <3>1. linked \in 1..Len(Sizes) /\ Len(Sizes) \in Nat
      BY <1>1, TableSizes DEF Tables
    <3> QED BY <3>1 DEF Tables
  <2>2. PICK j \in Nat : /\ cell[t][index(Hash[c], j, t)] \in Values
                         /\ Class[cell[t][index(Hash[c], j, t)]] = c
    BY <1>3 DEF Placed
  <2>3. index(Hash[c], j, t) \in Slots(t)
    BY <1>1, <2>1, IndexSlot
  <2> QED BY <2>1, <2>2, <2>3 DEF Alive
<1> QED BY <1>2, <1>3 DEF Kept

LEMMA InitTold ==
  ASSUME Init
  PROVE  Told
<1>1. /\ 1 \in Tables /\ Tables \subseteq Nat /\ linked = 1 /\ threw = {}
      /\ \A t \in Tables : segment_count(t) \in Nat
  <2>1. Sizes # <<>> /\ Len(Sizes) \in Nat /\ Len(Sizes) # 0
    BY HashSetAssumption DEF HashSetAssumption
  <2>2. 1 \in Tables /\ Tables \subseteq Nat
    BY <2>1 DEF Tables
  <2> QED BY <2>2, TableSizes DEF Init
<1>2. \A w \in Workers : /\ pc[w] = "idle" /\ carry[w] = NoValue /\ role[w] = "user" /\ ~wasnew[w]
  BY DEF Init
<1>3. \A t \in Tables : \A i \in Slots(t) : cell[t][i] = Empty
  BY DEF Init, Slots
<1>4. Bounds
  <2>1. \A t \in Tables : toRehash[t] <= segment_count(t)
    BY <1>1 DEF Init
  <2> QED BY <1>2, <2>1 DEF Bounds, InTable, Moving
<1>5. Once
  <2>1. \A t \in Tables : Sound(t)
    BY <1>3, HashSetAssumption DEF Sound, HashSetAssumption
  <2> QED BY <1>2, <2>1 DEF Once, Passed, Says, Probing
<1>6. \A y \in Values : ~Alive(y)
  BY <1>2, <1>3, HashSetAssumption DEF Alive, HashSetAssumption
<1>7. \A w \in Workers : User(w) /\ Second(w)
  BY <1>2 DEF User, Second
<1> QED BY <1>4, <1>5, <1>6, <1>7 DEF Told, Owners, Reports

LEMMA StutterTold ==
  ASSUME Told, UNCHANGED vars
  PROVE  Told'
<1>1. UNCHANGED <<linked, cell, toRehash, pc, table, call, probe, outcome, value, wasnew, role, seg, pos,
                  carry, threw, done, known, news, owned, missed>>
  BY DEF vars, tableVars, lookVars, moveVars, history
<1>2. ASSUME NEW w \in Workers
      PROVE  /\ Call(w)' = Call(w) /\ (Moving(w)' <=> Moving(w)) /\ (Inserts(w)' <=> Inserts(w))
             /\ Key(w)' = Key(w) /\ Target(w)' = Target(w) /\ (Probing(w)' <=> Probing(w)) /\ Wanted(w)' = Wanted(w)
             /\ (Within(w)' <=> Within(w))
  BY <1>1 DEF Call, Moving, Inserts, Key, Target, Probing, Wanted, Within
<1>3. Bounds'
  BY <1>1 DEF Told, Bounds, InTable, Moving
<1>4. (\A t \in Tables : t >= linked => Sound(t))'
  BY <1>1 DEF Told, Once, Sound, Reaches
<1>5. ASSUME NEW w \in Workers
      PROVE  Passed(w)' /\ Says(w)' /\ User(w)' /\ Second(w)'
  <2>1. Passed(w) /\ Says(w) /\ User(w) /\ Second(w)
    BY DEF Told, Once
  <2>2. Passed(w)'
    BY <1>1, <1>2, <2>1 DEF Passed, index
  <2>3. Says(w)'
    BY <1>1, <1>2, <2>1 DEF Says
  <2> QED BY <1>1, <1>2, <2>1, <2>2, <2>3 DEF User, Second
<1>6. \A y \in Values : (Alive(y)' <=> Alive(y)) /\ (Owner(y)' <=> Owner(y))
  BY <1>1, <1>2 DEF Alive, Owner
<1>7. \A w \in Workers : \A c : Reporter(w, c)' <=> Reporter(w, c)
  BY <1>1, <1>2 DEF Reporter
<1>8. Owners' /\ Reports'
  BY <1>1, <1>6, <1>7 DEF Told, Owners, Reports
<1> QED BY <1>3, <1>4, <1>5, <1>8 DEF Told, Once

LEMMA StepTold ==
  ASSUME Inv, threw = {} => Told, NEW w \in Workers, Steps(w), threw' = {}
  PROVE  Told'
<1>1. Basic /\ Accounts /\ Contents /\ Told
  BY NotThrown DEF Inv
<1>2. Bounds' /\ Owners' /\ Reports'
  BY <1>1, StepBounds, StepOwners, StepReports DEF Told
<1>3. \A v \in Workers : Passed(v)' /\ Says(v)' /\ User(v)' /\ Second(v)'
  BY <1>1, StepPassed, StepSays, StepUser, StepSecond DEF Told
<1>4. \A t \in Tables : t >= linked' => Sound(t)'
  BY <1>1, StepSound DEF Told
<1> QED BY <1>2, <1>3, <1>4 DEF Told, Once

\* A thread whose rehash has failed takes no further step.
Thrown == \A w \in threw : pc[w] = "thrown"

LEMMA StepThrown ==
  ASSUME Basic, Thrown, NEW w \in Workers, Steps(w)
  PROVE  Thrown'
<1>1. pc[w] # "thrown" /\ threw \subseteq Workers
  BY DEF Basic, Types, TypeOK, Steps, Begin, Look, FindNothing, TryStore, Match, Grow, CheckOutdated, Claim,
         Invalidate, SegmentDone, Await, SeeMoved, OpenTable, At
<1>2. \A v \in threw : v # w /\ pc'[v] = "thrown"
  BY <1>1, StepOthers DEF Thrown, Others
<1>3. CASE ProbeStep(w)
  BY <1>2, <1>3, ProbeEffect DEF Goes, Delivers, Fails, Answers, Thrown
<1>4. CASE ~ProbeStep(w)
  <2>1. threw' = threw
    BY <1>4 DEF Steps, ProbeStep, Begin, Grow, CheckOutdated, Claim, Invalidate, SegmentDone, Await,
                SeeMoved, OpenTable
  <2> QED BY <1>2, <2>1 DEF Thrown
<1> QED BY <1>3, <1>4

\* A thread that threw does not go on, so that threw = {} once all calls have returned.
THEOREM ThrownStay == Spec => []Thrown
<1>1. Init => Thrown
  BY DEF Init, Thrown
<1>2. Inv /\ Thrown /\ [Next]_vars => Thrown'
  <2>1. SUFFICES ASSUME Inv, Thrown, [Next]_vars PROVE Thrown'
    OBVIOUS
  <2>2. CASE UNCHANGED vars
    BY <2>1, <2>2 DEF Thrown, vars
  <2>3. ASSUME NEW w \in Workers, Thread(w)
        PROVE  Thrown'
    <3>1. Steps(w) \/ UNCHANGED vars
      BY <2>3 DEF Thread, Steps, Spin
    <3> QED BY <2>1, <2>2, <3>1, StepThrown DEF Inv
  <2> QED BY <2>1, <2>2, <2>3 DEF Next, Finished
<1> QED BY <1>1, <1>2, Invariance, PTL DEF Spec

\* As long as no rehash fails: every value is in the last table once, and the one who will
\* be told that it is new, or who has been told so, exists.
THEOREM ToldInvariance == Spec => [](threw = {} => Told)
<1>1. Init => (threw = {} => Told)
  BY InitTold
<1>2. Inv /\ (threw = {} => Told) /\ [Next]_vars => (threw = {} => Told)'
  <2>1. SUFFICES ASSUME Inv, threw = {} => Told, [Next]_vars, threw' = {} PROVE Told'
    OBVIOUS
  <2>2. CASE UNCHANGED vars
    BY <2>1, <2>2, StutterTold DEF vars
  <2>3. ASSUME NEW w \in Workers, Thread(w)
        PROVE  Told'
    <3>1. Steps(w) \/ UNCHANGED vars
      BY <2>3 DEF Thread, Steps, Spin
    <3> QED BY <2>1, <2>2, <3>1, StepTold
  <2> QED BY <2>1, <2>2, <2>3 DEF Next, Finished
<1> QED BY <1>1, <1>2, Invariance, PTL DEF Spec

\* When all calls have returned, some insert of each class that was inserted has got its
\* own value back: no sequence of growths makes every thread believe that another one has
\* the state.
THEOREM SomebodyOwns == Spec => []Claimed
<1>1. Inv /\ Thrown /\ (threw = {} => Told) => Claimed
  <2>1. SUFFICES ASSUME Inv, Thrown, threw = {} => Told, AllDone, NEW c \in done PROVE owned[c] >= 1
    BY DEF Claimed
  <2>2. \A w \in Workers : pc[w] = "idle"
    BY <2>1 DEF AllDone, Returned, At
  <2>3. threw = {}
    BY <2>1, <2>2 DEF Thrown, Inv, Basic, Types, TypeOK
  <2>4. Basic /\ Accounts /\ Contents /\ Told
    BY <2>1, <2>3 DEF Inv
  <2>5. c \in Classes /\ Hash[c] \in Nat
    BY <2>4, HashSetAssumption DEF Basic, Types, TypeOK, HashSetAssumption
  <2>6. \E y \in Values : Alive(y) /\ Class[y] = c
    BY <2>4, KeptAlive DEF Contents
  <2>7. PICK y \in Values : Alive(y) /\ Class[y] = c
    BY <2>6
  <2> QED BY <2>2, <2>4, <2>7 DEF Told, Owners, Owner, Within
<1> QED BY <1>1, ToldInvariance, ThrownStay, Invariance, PTL

\* In the first growth isnew() is not lost: when an insert of a class has returned, one of
\* them has said that the value was new, or one that still runs has stored it.
THEOREM NewIsReported == Spec => []NewReported
<1>1. Inv /\ (threw = {} => Told) => NewReported
  <2>1. SUFFICES ASSUME Inv, Told, threw = {}, linked <= 2, NEW c \in done
                 PROVE  news[c] >= 1 \/ Inserting(c)
    BY DEF NewReported
  <2>2. \E y \in Values : Alive(y) /\ Class[y] = c
    BY <2>1, KeptAlive DEF Inv, Contents
  <2>3. PICK y \in Values : Alive(y) /\ Class[y] = c
    BY <2>2
  <2> QED BY <2>1, <2>3 DEF Told, Reports, Reporter, Within, Wanted, Inserting
<1> QED BY <1>1, ToldInvariance, Invariance, PTL
=============================================================================
