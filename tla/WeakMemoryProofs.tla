-------------------------- MODULE WeakMemoryProofs --------------------------
(***************************************************************************)
(* The store buffers of WeakMemory, for any threads, locations and         *)
(* programs: what is committed stays in front of what is delayed.          *)
(***************************************************************************)
EXTENDS WeakMemory, Integers, FiniteSetTheorems, TLAPS

Line == [addr : Addresses, val : Nat, committed : BOOLEAN]
Buffers == Seq(Line)

\* Committed lines come before delayed ones.
Ordered(b) == \A m, n \in DOMAIN b : m < n /\ b[n].committed => b[m].committed

\* What the runtime keeps, between two calls and within one.
Keeps == [mem : [Addresses -> Nat], buf : [Threads -> Buffers]]
Sound == {s \in Keeps : \A t \in Threads : Ordered(s.buf[t])}

\* A line that a thread puts into its buffer.
Stores(i) == i.addr \in Addresses /\ i.val \in Nat

Inv == prog \in Programs /\ Runtime \in Sound
-----------------------------------------------------------------------------
(* Numbers and recursive functions *)

\* A set of natural numbers that is not empty has a least element.
LEMMA Smallest ==
  ASSUME NEW T \in SUBSET Nat, T # {}
  PROVE  \E x \in T : \A y \in T : x <= y
<1> DEFINE Below == {0..(x - 1) : x \in T}
<1>1. Below \subseteq FiniteSubsetsOf(Nat)
  <2> SUFFICES ASSUME NEW x \in T PROVE 0..(x - 1) \in FiniteSubsetsOf(Nat)
    OBVIOUS
  <2>1. IsFiniteSet(0..(x - 1)) /\ 0..(x - 1) \subseteq Nat
    BY FS_Interval
  <2> QED BY <2>1 DEF FiniteSubsetsOf
<1>2. Below # {}
  OBVIOUS
<1> HIDE DEF Below
<1>3. PICK X \in Below : \A Y \in Below : ~ (<<Y, X>> \in StrictSubsetOrdering(Nat))
  BY <1>1, <1>2, FS_StrictSubsetOrderingWellFounded, WFMin
<1>4. PICK x \in T : X = 0..(x - 1)
  BY <1>3 DEF Below
<1>5. ASSUME NEW y \in T, y < x PROVE FALSE
  <2>1. 0..(y - 1) \in Below
    BY DEF Below
  <2>2. 0..(y - 1) \subseteq 0..(x - 1) /\ 0..(y - 1) # 0..(x - 1)
    <3>1. y \in 0..(x - 1) /\ y \notin 0..(y - 1)
      BY <1>5
    <3> QED BY <3>1, <1>5
  <2>3. <<0..(y - 1), X>> \in StrictSubsetOrdering(Nat)
    BY <2>2, <1>4 DEF StrictSubsetOrdering
  <2> QED BY <2>1, <2>3, <1>3
<1> QED BY <1>5

\* What holds at 0 and is handed on from each number to the next holds up to N.
LEMMA Climb ==
  ASSUME NEW N \in Nat, NEW D, NEW v, v[0] \in D, \A n \in 1..N : v[n - 1] \in D => v[n] \in D
  PROVE  \A n \in 0..N : v[n] \in D
<1> DEFINE T == {n \in 0..N : v[n] \notin D}
<1>1. ASSUME T # {} PROVE FALSE
  <2>1. PICK x \in T : \A y \in T : x <= y
    BY <1>1, Smallest, T \in SUBSET Nat
  <2>2. x \in 0..N /\ v[x] \notin D /\ x # 0
    OBVIOUS
  <2>3. x - 1 \in 0..N /\ x - 1 \notin T /\ x \in 1..N
    BY <2>1, <2>2
  <2> QED BY <2>2, <2>3
<1> QED BY <1>1

\* A function on 0..N can be defined by recursion.
Recurs(N, D, a, step) == \E g \in [0..N -> D] : g[0] = a /\ \A n \in 1..N : g[n] = step[n][g[n - 1]]

LEMMA Recursion ==
  ASSUME NEW N \in Nat, NEW D, NEW a \in D, NEW step \in [1..N -> [D -> D]]
  PROVE  Recurs(N, D, a, step)
<1> DEFINE Chain(m) == {g \in [0..m -> D] : g[0] = a /\ \A n \in 1..m : g[n] = step[n][g[n - 1]]}
           T == {m \in 0..N : Chain(m) = {}}
<1>1. ASSUME T # {} PROVE FALSE
  <2>1. PICK x \in T : \A y \in T : x <= y
    BY <1>1, Smallest, T \in SUBSET Nat
  <2>2. x \in 0..N /\ Chain(x) = {}
    OBVIOUS
  <2>3. CASE x = 0
    <3> DEFINE g == [k \in 0..0 |-> a]
    <3>1. g \in [0..0 -> D] /\ g[0] = a /\ \A n \in 1..0 : g[n] = step[n][g[n - 1]]
      OBVIOUS
    <3> HIDE DEF g
    <3> QED BY <2>2, <2>3, <3>1
  <2>4. CASE x # 0
    <3>1. x - 1 \in 0..N /\ x \in 1..N /\ ~(x <= x - 1)
      BY <2>2, <2>4
    <3>2. Chain(x - 1) # {}
      <4>1. x - 1 \notin T
        BY <2>1, <3>1
      <4> QED BY <3>1, <4>1
    <3>3. PICK g \in [0..(x - 1) -> D] : g[0] = a /\ \A n \in 1..(x - 1) : g[n] = step[n][g[n - 1]]
      BY <3>2
    <3> DEFINE h == [k \in 0..x |-> IF k = x THEN step[x][g[x - 1]] ELSE g[k]]
    <3>4. g[x - 1] \in D /\ step[x] \in [D -> D]
      BY <3>1, <3>3
    <3>5. h \in [0..x -> D]
      <4>1. \A k \in 0..x : k # x => k \in 0..(x - 1)
        BY <2>2
      <4> QED BY <3>3, <3>4, <4>1
    <3>6. h[0] = a
      BY <2>2, <2>4, <3>3
    <3>7. ASSUME NEW n \in 1..x
          PROVE  h[n] = step[n][h[n - 1]]
      <4>1. n \in 0..x /\ n - 1 \in 0..x /\ n - 1 # x
        BY <2>2
      <4>2. h[n - 1] = g[n - 1]
        BY <4>1
      <4>3. CASE n = x
        BY <4>1, <4>2, <4>3
      <4>4. CASE n # x
        <5>1. n \in 1..(x - 1)
          BY <2>2, <4>4
        <5> QED BY <3>3, <4>1, <4>2, <4>4, <5>1
      <4> QED BY <4>3, <4>4
    <3> HIDE DEF h
    <3> QED BY <2>2, <3>5, <3>6, <3>7
  <2> QED BY <2>3, <2>4
<1>2. N \notin T
  BY <1>1
<1> QED BY <1>2 DEF Recurs

\* A finite set of numbers that is not empty has a largest element.
LEMMA Largest ==
  ASSUME NEW S \in SUBSET Nat, IsFiniteSet(S), S # {}
  PROVE  Max(S) \in S
<1> DEFINE Higher(x) == {y \in S : y > x}
           Above == {Higher(x) : x \in S}
<1>1. Above \subseteq FiniteSubsetsOf(Nat)
  <2> SUFFICES ASSUME NEW x \in S PROVE Higher(x) \in FiniteSubsetsOf(Nat)
    OBVIOUS
  <2>1. IsFiniteSet(Higher(x)) /\ Higher(x) \subseteq Nat
    BY FS_Subset
  <2> QED BY <2>1 DEF FiniteSubsetsOf
<1>2. Above # {}
  OBVIOUS
<1> HIDE DEF Above
<1>3. PICK X \in Above : \A Y \in Above : ~ (<<Y, X>> \in StrictSubsetOrdering(Nat))
  BY <1>1, <1>2, FS_StrictSubsetOrderingWellFounded, WFMin
<1>4. PICK x \in S : X = Higher(x)
  BY <1>3 DEF Above
<1>5. ASSUME NEW y \in S, y > x PROVE FALSE
  <2>1. Higher(y) \in Above
    BY DEF Above
  <2>2. Higher(y) \subseteq Higher(x) /\ Higher(y) # Higher(x)
    <3>1. y \in Higher(x) /\ y \notin Higher(y)
      BY <1>5
    <3>2. \A z \in S : z > y => z > x
      <4>1. x \in Nat /\ y \in Nat /\ S \subseteq Nat
        OBVIOUS
      <4> QED BY <1>5, <4>1
    <3>3. Higher(y) \subseteq Higher(x)
      BY <3>2
    <3> HIDE DEF Higher
    <3> QED BY <3>1, <3>3
  <2>3. <<Higher(y), X>> \in StrictSubsetOrdering(Nat)
    BY <2>2, <1>4 DEF StrictSubsetOrdering
  <2> QED BY <2>1, <2>3, <1>3
<1>6. \A y \in S : x >= y
  BY <1>5
<1> QED BY <1>6 DEF Max
-----------------------------------------------------------------------------
(* The flush of one buffer *)

LEMMA KeptLines ==
  ASSUME NEW b \in Buffers, NEW a, NEW n \in 0..Len(b)
  PROVE  Kept(b, a)[n] \in Seq({l \in Line : l.committed})
<1> DEFINE N == Len(b)
           D == Seq({l \in Line : l.committed})
           Turn(k, d) == IF b[k].addr = a THEN d ELSE Append(d, [b[k] EXCEPT !.committed = TRUE])
           step == [k \in 1..N |-> [d \in D |-> Turn(k, d)]]
           P(g) == g = [k \in 0..N |-> IF k = 0 THEN <<>> ELSE Turn(k, g[k - 1])]
           v == Kept(b, a)
<1>1. N \in Nat /\ <<>> \in D
  BY DEF Buffers
<1>2. ASSUME NEW k \in 1..N, NEW d \in D
      PROVE  Turn(k, d) \in D
  <2>1. b[k] \in Line
    BY DEF Buffers
  <2>2. [b[k] EXCEPT !.committed = TRUE] \in Line /\ [b[k] EXCEPT !.committed = TRUE].committed
    BY <2>1 DEF Line
  <2> DEFINE l == [b[k] EXCEPT !.committed = TRUE]
  <2>3. l \in {m \in Line : m.committed}
    BY <2>2
  <2> HIDE DEF l
  <2>4. Append(d, l) \in D
    BY <2>3
  <2> QED BY <2>4 DEF l
<1>3. step \in [1..N -> [D -> D]]
  BY <1>2
<1>4. \A k \in 1..N : \A d \in D : step[k][d] = Turn(k, d)
  OBVIOUS
<1>5. v = CHOOSE g : P(g)
  BY DEF Kept
<1> HIDE DEF D, step, Turn, v
<1>6. PICK g \in [0..N -> D] : g[0] = <<>> /\ \A k \in 1..N : g[k] = step[k][g[k - 1]]
  <2> DEFINE none == <<>>
  <2> HIDE DEF N
  <2>1. none \in D
    BY <1>1
  <2> HIDE DEF none
  <2>2. Recurs(N, D, none, step)
    BY <1>1, <1>3, <2>1, Recursion
  <2> QED BY <2>2 DEF none, Recurs
<1>7. P(g)
  <2>1. ASSUME NEW k \in 0..N
        PROVE  g[k] = IF k = 0 THEN <<>> ELSE Turn(k, g[k - 1])
    <3>1. CASE k # 0
      <4>1. k \in 1..N /\ k - 1 \in 0..N
        BY <1>1, <3>1
      <4> QED BY <1>4, <1>6, <3>1, <4>1
    <3> QED BY <1>6, <3>1
  <2> QED BY <1>6, <2>1
<1>8. P(v)
  <2> HIDE DEF P
  <2> QED BY <1>5, <1>7
<1>9. v[0] = <<>> /\ \A k \in 1..N : v[k] = Turn(k, v[k - 1])
  BY <1>1, <1>8
<1>10. \A k \in 0..N : v[k] \in D
  <2>1. v[0] \in D /\ \A k \in 1..N : v[k - 1] \in D => v[k] \in D
    BY <1>1, <1>2, <1>9
  <2> HIDE DEF N, P
  <2> QED BY <1>1, <2>1, Climb
<1> QED BY <1>10 DEF D, v

\* A flush marks what it keeps, and nothing behind the line where it ends.
LEMMA FlushOrdered ==
  ASSUME NEW b \in Buffers, Ordered(b), NEW a, NEW last \in 1..Len(b)
  PROVE  Flush(b, last, a) \in Buffers /\ Ordered(Flush(b, last, a))
<1> DEFINE kept == Kept(b, a)[last]
           rest == SubSeq(b, last + 1, Len(b))
           f == Flush(b, last, a)
<1>1. kept \in Seq({l \in Line : l.committed}) /\ Len(kept) \in Nat
  <2>1. last \in 0..Len(b)
    OBVIOUS
  <2> QED BY <2>1, KeptLines
<1>2. kept \in Seq(Line) /\ \A n \in 1..Len(kept) : kept[n].committed
  BY <1>1
<1>3. /\ rest \in Seq(Line) /\ Len(rest) = Len(b) - last
      /\ \A n \in 1..Len(rest) : rest[n] = b[last + n]
  BY DEF Buffers
<1>4. Len(b) \in Nat
  BY DEF Buffers
<1>5. f = kept \o rest
  BY DEF Flush
<1> HIDE DEF kept, rest, f
<1>6. f \in Seq(Line) /\ Len(f) = Len(kept) + Len(rest) /\ DOMAIN f = 1..Len(f)
  <2>1. kept \in Seq(Line) /\ rest \in Seq(Line)
    BY <1>2, <1>3
  <2> QED BY <1>5, <2>1
<1>7. \A n \in 1..Len(f) : f[n] = IF n <= Len(kept) THEN kept[n] ELSE rest[n - Len(kept)]
  <2>1. kept \in Seq(Line) /\ rest \in Seq(Line)
    BY <1>2, <1>3
  <2> QED BY <1>5, <1>6, <2>1
<1>8. ASSUME NEW m \in 1..Len(f), NEW n \in 1..Len(f), m < n, f[n].committed
      PROVE  f[m].committed
  <2>1. CASE m <= Len(kept)
    <3>1. m \in 1..Len(kept)
      BY <1>1, <2>1
    <3> QED BY <1>2, <1>7, <2>1, <3>1
  <2>2. CASE m > Len(kept)
    <3>1. m - Len(kept) \in 1..Len(rest) /\ n - Len(kept) \in 1..Len(rest) /\ n > Len(kept)
      BY <1>1, <1>3, <1>4, <1>6, <1>8, <2>2
    <3>2. f[m] = b[last + (m - Len(kept))] /\ f[n] = b[last + (n - Len(kept))]
      <4>1. f[m] = rest[m - Len(kept)] /\ f[n] = rest[n - Len(kept)]
        BY <1>1, <1>7, <2>2, <3>1
      <4> QED BY <1>3, <3>1, <4>1
    <3>3. /\ last + (m - Len(kept)) \in DOMAIN b /\ last + (n - Len(kept)) \in DOMAIN b
          /\ last + (m - Len(kept)) < last + (n - Len(kept))
      <4>1. DOMAIN b = 1..Len(b)
        BY DEF Buffers
      <4> QED BY <1>1, <1>3, <1>4, <1>8, <3>1, <4>1
    <3> QED BY <1>8, <3>2, <3>3 DEF Ordered
  <2> QED BY <1>1, <2>1, <2>2
<1>9. f \in Buffers /\ Ordered(f)
  BY <1>6, <1>8 DEF Buffers, Ordered
<1> QED BY <1>9 DEF f

LEMMA LastLineIn ==
  ASSUME NEW b \in Buffers, NEW a, NEW idx, Matching(b, a) # {}
  PROVE  LastLine(b, idx, a) \in 1..Len(b)
<1>1. Matching(b, a) \subseteq 1..Len(b) /\ Len(b) \in Nat
  BY DEF Matching, Buffers
<1>2. Matching(b, a) \in SUBSET Nat /\ IsFiniteSet(Matching(b, a))
  <2>1. IsFiniteSet(1..Len(b)) /\ 1..Len(b) \subseteq Nat
    BY <1>1, FS_Interval
  <2> QED BY <1>1, <2>1, FS_Subset
<1>3. Max(Matching(b, a)) \in Matching(b, a)
  BY <1>2, Largest
<1> QED BY <1>1, <1>3 DEF LastLine
-----------------------------------------------------------------------------
(* What tso_load does *)

LEMMA SoundFacts ==
  ASSUME NEW s \in Sound
  PROVE  /\ s.mem \in [Addresses -> Nat] /\ s.buf \in [Threads -> Buffers]
         /\ s = [mem |-> s.mem, buf |-> s.buf]
         /\ \A t \in Threads : s.buf[t] \in Buffers /\ Ordered(s.buf[t])
BY DEF Sound, Keeps

LEMMA MakeSound ==
  ASSUME NEW m \in [Addresses -> Nat], NEW b \in [Threads -> Buffers],
         \A t \in Threads : Ordered(b[t])
  PROVE  [mem |-> m, buf |-> b] \in Sound
BY DEF Sound, Keeps

\* A flush of several buffers keeps all of them ordered, and does not touch the others.
LEMMA FlushBuffersSound ==
  ASSUME NEW s \in Sound, NEW chosen \in SUBSET Threads, NEW p \in chosen, NEW todo, NEW a \in Addresses,
         \A q \in chosen : Matching(s.buf[q], a) # {}
  PROVE  /\ FlushBuffers(s, chosen, p, todo, a) \in Sound
         /\ \A q \in Threads \ chosen : FlushBuffers(s, chosen, p, todo, a).buf[q] = s.buf[q]
<1> DEFINE last == [q \in chosen |-> LastLine(s.buf[q], todo[q], a)]
           m == [s.mem EXCEPT ![a] = s.buf[p][last[p]].val]
           b == [q \in Threads |-> IF q \in chosen THEN Flush(s.buf[q], last[q], a) ELSE s.buf[q]]
<1>1. \A q \in chosen : s.buf[q] \in Buffers /\ Ordered(s.buf[q]) /\ last[q] \in 1..Len(s.buf[q])
  BY SoundFacts, LastLineIn
<1>2. FlushBuffers(s, chosen, p, todo, a) = [mem |-> m, buf |-> b]
  BY DEF FlushBuffers
<1> HIDE DEF last
<1>3. m \in [Addresses -> Nat]
  <2>1. s.buf[p] \in Seq(Line) /\ last[p] \in 1..Len(s.buf[p])
    BY <1>1 DEF Buffers
  <2>2. s.buf[p][last[p]] \in Line
    BY <2>1
  <2>3. s.buf[p][last[p]].val \in Nat
    BY <2>2 DEF Line
  <2> QED BY <2>3, SoundFacts
<1>4. \A q \in Threads : b[q] \in Buffers /\ Ordered(b[q])
  BY <1>1, SoundFacts, FlushOrdered
<1>5. b \in [Threads -> Buffers]
  BY <1>4
<1>6. \A q \in Threads \ chosen : b[q] = s.buf[q]
  OBVIOUS
<1> HIDE DEF m, b
<1> QED BY <1>2, <1>3, <1>4, <1>5, <1>6, MakeSound

\* Who is eligible has a line to a; who flushes a buffer of its own does so elsewhere.
LEMMA EligibleMatch ==
  ASSUME NEW s \in Sound, NEW skip \in BOOLEAN, NEW a, NEW t \in Threads,
         NEW todo \in Todos(s, skip, a, t), NEW p \in Threads,
         todo[p] > 0 \/ p \in Must(s, skip, a)
  PROVE  Matching(s.buf[p], a) # {} /\ ~(skip /\ p = t)
<1> DEFINE Lines(q) == IF skip THEN Matching(s.buf[q], a)
                       ELSE Matching(s.buf[q], a) \ Committed(s.buf[q], a)
           most == [q \in Threads |-> IF skip /\ q = t THEN 0 ELSE Cardinality(Lines(q))]
<1>1. ASSUME NEW q \in Threads
      PROVE  IsFiniteSet(Lines(q)) /\ most[q] \in Nat
  <2>1. s.buf[q] \in Seq(Line)
    BY SoundFacts DEF Buffers
  <2>2. Matching(s.buf[q], a) \subseteq 1..Len(s.buf[q]) /\ Len(s.buf[q]) \in Nat
    BY <2>1 DEF Matching
  <2>3. IsFiniteSet(1..Len(s.buf[q]))
    BY <2>2, FS_Interval
  <2>4. Lines(q) \subseteq 1..Len(s.buf[q])
    BY <2>2
  <2>5. IsFiniteSet(Lines(q)) /\ Cardinality(Lines(q)) \in Nat
    BY <2>3, <2>4, FS_Subset, FS_CardinalityType
  <2> QED BY <2>5
<1>2. CASE p \in Must(s, skip, a)
  BY <1>2 DEF Must, Committed
<1>3. CASE todo[p] > 0
  <2>1. todo \in [Threads -> 0..Max(Range(most))] /\ todo[p] <= most[p]
    BY DEF Todos
  <2>2. Max(Range(most)) \in Nat
    <3>1. Range(most) = {most[q] : q \in Threads}
      BY DEF Range
    <3>2. IsFiniteSet(Range(most)) /\ Range(most) \subseteq Nat /\ Range(most) # {}
      <4>1. most \in [Threads -> Range(most)]
        BY <3>1
      <4>2. Threads # {} /\ IsFiniteSet(Threads)
        BY WeakMemoryAssumption DEF WeakMemoryAssumption
      <4> HIDE DEF most
      <4>3. most \in Surjection(Threads, Range(most))
        BY <3>1, <4>1 DEF Surjection
      <4>4. IsFiniteSet(Range(most))
        BY <4>2, <4>3, FS_Surjection
      <4> QED BY <1>1, <3>1, <4>2, <4>4
    <3> QED BY <3>2, Largest
  <2>3. todo[p] \in Nat /\ most[p] > 0
    <3> DEFINE top == Max(Range(most))
    <3>1. todo \in [Threads -> 0..top] /\ top \in Nat
      BY <2>1, <2>2
    <3> HIDE DEF top
    <3>2. todo[p] \in 0..top
      BY <3>1
    <3>3. todo[p] \in Nat
      BY <3>1, <3>2
    <3> DEFINE n == todo[p]
               k == most[p]
    <3>4. n \in Nat /\ k \in Nat /\ n > 0 /\ n <= k
      BY <1>1, <1>3, <2>1, <3>3
    <3> HIDE DEF n, k, most
    <3>5. k > 0
      BY <3>4
    <3> QED BY <3>3, <3>5 DEF k
  <2>4. ~(skip /\ p = t) /\ Cardinality(Lines(p)) > 0
    BY <2>3
  <2>5. Lines(p) # {}
    <3> HIDE DEF Lines
    <3> QED BY <2>4, FS_EmptySet
  <2> QED BY <2>4, <2>5
<1> QED BY <1>2, <1>3

\* A load keeps all buffers ordered; for a flush, it does not touch the flushed one.
LEMMA TsoLoadSound ==
  ASSUME NEW s \in Sound, NEW skip \in BOOLEAN, NEW a \in Addresses, NEW t \in Threads,
         NEW r \in TsoLoad(s, skip, a, t)
  PROVE  r \in Sound /\ (skip => r.buf[t] = s.buf[t])
<1>1. CASE r = s
  BY <1>1
<1>2. ASSUME NEW todo \in Todos(s, skip, a, t), NEW eligible,
             eligible = {p \in Threads : todo[p] > 0} \cup Must(s, skip, a), eligible # {},
             r \in FlushEligible(s, eligible, todo, a)
      PROVE  r \in Sound /\ (skip => r.buf[t] = s.buf[t])
  <2>1. \A p \in eligible : Matching(s.buf[p], a) # {} /\ ~(skip /\ p = t)
    BY <1>2, EligibleMatch DEF Must
  <2>2. eligible \subseteq Threads
    BY <1>2 DEF Must
  <2>3. Max(eligible) \in eligible
    <3>1. eligible \in SUBSET Nat /\ IsFiniteSet(eligible)
      BY <2>2, WeakMemoryAssumption, FS_Subset DEF WeakMemoryAssumption
    <3> QED BY <1>2, <3>1, Largest
  <2>4. PICK n \in 0..(Cardinality(eligible) - 1) :
          r = FlushBuffers(s, First(eligible, n) \cup {Max(eligible)}, Max(eligible), todo, a)
    BY <1>2 DEF FlushEligible
  <2> DEFINE chosen == First(eligible, n) \cup {Max(eligible)}
  <2>5. chosen \subseteq eligible
    BY <2>3 DEF First
  <2>6. r = FlushBuffers(s, chosen, Max(eligible), todo, a) /\ Max(eligible) \in chosen
    BY <2>4
  <2> HIDE DEF chosen
  <2>7. chosen \in SUBSET Threads /\ \A q \in chosen : Matching(s.buf[q], a) # {}
    BY <2>1, <2>2, <2>5
  <2>8. r \in Sound /\ \A q \in Threads \ chosen : r.buf[q] = s.buf[q]
    BY <2>6, <2>7, FlushBuffersSound
  <2>9. skip => t \notin chosen
    BY <2>1, <2>5
  <2> QED BY <2>8, <2>9
<1>3. r = s \/ \E todo \in Todos(s, skip, a, t) : \E eligible :
        /\ eligible = {p \in Threads : todo[p] > 0} \cup Must(s, skip, a)
        /\ r \in IF eligible = {} THEN {s} ELSE FlushEligible(s, eligible, todo, a)
  BY DEF TsoLoad
<1> QED BY <1>1, <1>2, <1>3
-----------------------------------------------------------------------------
(* Stores and fences *)

LEMMA StoreSound ==
  ASSUME NEW s \in Sound, NEW l, Stores([addr |-> l.addr, val |-> l.val])
  PROVE  Store(s, l) \in Sound /\ Store(s, l).buf = s.buf
<1> DEFINE m == [s.mem EXCEPT ![l.addr] = l.val]
<1>1. m \in [Addresses -> Nat] /\ s.buf \in [Threads -> Buffers] /\ \A t \in Threads : Ordered(s.buf[t])
  BY SoundFacts DEF Stores
<1>2. Store(s, l) = [mem |-> m, buf |-> s.buf]
  BY SoundFacts DEF Store
<1> HIDE DEF m
<1> QED BY <1>1, <1>2, MakeSound

\* One buffer is replaced.
LEMMA SetBuffer ==
  ASSUME NEW s \in Sound, NEW t \in Threads, NEW b \in Buffers, Ordered(b)
  PROVE  [s EXCEPT !.buf[t] = b] \in Sound /\ [s EXCEPT !.buf[t] = b].buf[t] = b
<1> DEFINE bs == [s.buf EXCEPT ![t] = b]
<1>1. bs \in [Threads -> Buffers] /\ (\A u \in Threads : Ordered(bs[u])) /\ bs[t] = b
  BY SoundFacts
<1>2. [s EXCEPT !.buf[t] = b] = [mem |-> s.mem, buf |-> bs] /\ s.mem \in [Addresses -> Nat]
  BY SoundFacts
<1> HIDE DEF bs
<1> QED BY <1>1, <1>2, MakeSound

LEMMA StoreLineSound ==
  ASSUME NEW S \in SUBSET Sound, NEW l \in Line, NEW t \in Threads
  PROVE  StoreLine(S, l, t) \in SUBSET Sound
<1>1. l.addr \in Addresses /\ Stores([addr |-> l.addr, val |-> l.val])
  BY DEF Line, Stores
<1>2. \A q \in S : \A r \in TsoLoad(q, TRUE, l.addr, t) : Store(r, l) \in Sound
  BY <1>1, TsoLoadSound, StoreSound
<1> QED BY <1>2 DEF StoreLine

LEMMA FlushAllSound ==
  ASSUME NEW s \in Sound, NEW t \in Threads, NEW r \in FlushAll(s, t)
  PROVE  r \in Sound
<1> DEFINE b == s.buf[t]
           N == Len(b)
           D == SUBSET Sound
           step == [n \in 1..N |-> [S \in D |-> StoreLine(S, b[n], t)]]
           P(g) == g = [n \in 0..N |-> IF n = 0 THEN {s} ELSE StoreLine(g[n - 1], b[n], t)]
           v == CHOOSE g : P(g)
<1>1. N \in Nat /\ \A n \in 1..N : b[n] \in Line
  <2>1. b \in Seq(Line)
    BY SoundFacts DEF Buffers
  <2> HIDE DEF b
  <2> QED BY <2>1
<1>2. PICK q \in v[N] : r = [q EXCEPT !.buf[t] = <<>>]
  BY DEF FlushAll
<1> DEFINE start == {s}
<1>3. start \in D
  OBVIOUS
<1>4. \A n \in 1..N : \A S \in D : step[n][S] = StoreLine(S, b[n], t) /\ StoreLine(S, b[n], t) \in D
  BY <1>1, StoreLineSound
<1>5. step \in [1..N -> [D -> D]]
  BY <1>4
<1>6. v = CHOOSE g : P(g)
  OBVIOUS
<1> HIDE DEF b, D, step, v, start
<1>7. PICK g \in [0..N -> D] : g[0] = start /\ \A n \in 1..N : g[n] = step[n][g[n - 1]]
  <2> HIDE DEF N
  <2>1. Recurs(N, D, start, step)
    BY <1>1, <1>3, <1>5, Recursion
  <2> QED BY <2>1 DEF Recurs
<1>8. P(g)
  <2>1. ASSUME NEW n \in 0..N
        PROVE  g[n] = IF n = 0 THEN {s} ELSE StoreLine(g[n - 1], b[n], t)
    <3>1. CASE n # 0
      <4>1. n \in 1..N /\ n - 1 \in 0..N
        BY <1>1, <3>1
      <4>2. g[n] = step[n][g[n - 1]] /\ g[n - 1] \in D
        BY <1>7, <4>1
      <4> QED BY <1>4, <3>1, <4>1, <4>2
    <3>2. CASE n = 0
      BY <1>7, <3>2 DEF start
    <3> QED BY <3>1, <3>2
  <2> QED BY <1>7, <2>1
<1>9. P(v)
  <2> HIDE DEF P
  <2> QED BY <1>6, <1>8
<1>10. v[0] = start /\ \A n \in 1..N : v[n] = StoreLine(v[n - 1], b[n], t)
  <2>1. \A n \in 0..N : v[n] = IF n = 0 THEN {s} ELSE StoreLine(v[n - 1], b[n], t)
    <3> HIDE DEF N
    <3> QED BY <1>9
  <2>2. 0 \in 0..N /\ \A n \in 1..N : n \in 0..N /\ n # 0
    BY <1>1
  <2> HIDE DEF N, P
  <2> QED BY <2>1, <2>2 DEF start
<1>11. \A n \in 0..N : v[n] \in D
  <2>1. v[0] \in D /\ \A n \in 1..N : v[n - 1] \in D => v[n] \in D
    BY <1>3, <1>4, <1>10
  <2> HIDE DEF N, P
  <2> QED BY <1>1, <2>1, Climb
<1>12. q \in Sound
  <2>1. N \in 0..N
    BY <1>1
  <2> QED BY <1>2, <1>11, <2>1 DEF D
<1>13. <<>> \in Buffers /\ Ordered(<<>>)
  BY DEF Buffers, Ordered
<1> QED BY <1>2, <1>12, <1>13, SetBuffer

\* A new line is delayed and comes last; the line that it pushes out is the oldest one.
LEMMA PushTsoSound ==
  ASSUME NEW s \in Sound, NEW t \in Threads, NEW i, Stores(i), NEW r \in PushTso(s, t, i)
  PROVE  r \in Sound
<1> DEFINE l == [addr |-> i.addr, val |-> i.val, committed |-> FALSE]
           b == Append(s.buf[t], l)
           pushed == [s EXCEPT !.buf[t] = Append(@, l)]
<1>1. l \in Line /\ ~l.committed
  BY DEF Line, Stores
<1> HIDE DEF l
<1>2. s.buf[t] \in Seq(Line) /\ Ordered(s.buf[t])
  BY SoundFacts DEF Buffers
<1>3. b \in Seq(Line) /\ Len(b) = Len(s.buf[t]) + 1 /\ b # <<>> /\ Len(s.buf[t]) \in Nat
  BY <1>1, <1>2
<1>4. Ordered(b)
  <2>1. SUFFICES ASSUME NEW m \in 1..Len(b), NEW n \in 1..Len(b), m < n, b[n].committed PROVE b[m].committed
    <3>1. DOMAIN b = 1..Len(b)
      BY <1>3
    <3> HIDE DEF b
    <3> QED BY <3>1 DEF Ordered
  <2>2. b[Len(b)] = l /\ \A k \in 1..Len(s.buf[t]) : b[k] = s.buf[t][k]
    BY <1>1, <1>2, <1>3
  <2>3. n # Len(b)
    BY <1>1, <2>1, <2>2
  <2>4. m \in 1..Len(s.buf[t]) /\ n \in 1..Len(s.buf[t])
    BY <1>3, <2>1, <2>3
  <2>5. DOMAIN s.buf[t] = 1..Len(s.buf[t])
    BY <1>2
  <2> QED BY <1>2, <2>1, <2>2, <2>4, <2>5 DEF Ordered
<1>5. pushed = [s EXCEPT !.buf[t] = b]
  BY SoundFacts
<1>6. pushed \in Sound /\ pushed.buf[t] = b
  <2> HIDE DEF b, pushed
  <2> QED BY <1>3, <1>4, <1>5, SetBuffer DEF Buffers
<1> DEFINE oldest == Head(pushed.buf[t])
<1>7. CASE r = pushed
  BY <1>6, <1>7
<1>8. ASSUME NEW q \in TsoLoad(pushed, TRUE, oldest.addr, t), r = [Store(q, oldest) EXCEPT !.buf[t] = Tail(@)]
      PROVE  r \in Sound
  <2>1. oldest \in Line
    <3> HIDE DEF b, pushed
    <3> QED BY <1>3, <1>6
  <2>2. oldest.addr \in Addresses /\ Stores([addr |-> oldest.addr, val |-> oldest.val])
    <3> HIDE DEF oldest
    <3> QED BY <2>1 DEF Line, Stores
  <2> HIDE DEF pushed, oldest
  <2>3. q \in Sound /\ q.buf[t] = b
    BY <1>6, <1>8, <2>2, TsoLoadSound
  <2> DEFINE w == Store(q, oldest)
  <2>4. w \in Sound /\ w.buf[t] = b
    BY <2>2, <2>3, StoreSound
  <2> HIDE DEF w, b
  <2>5. r = [w EXCEPT !.buf[t] = Tail(b)]
    BY <1>8, <2>4, SoundFacts DEF w
  <2>6. Tail(b) \in Seq(Line) /\ Ordered(Tail(b))
    <3>1. Tail(b) \in Seq(Line) /\ Len(Tail(b)) = Len(b) - 1 /\ \A k \in 1..Len(Tail(b)) : Tail(b)[k] = b[k + 1]
      BY <1>3
    <3>2. \A k \in 1..Len(Tail(b)) : k + 1 \in DOMAIN b
      BY <1>3, <3>1
    <3>3. DOMAIN Tail(b) = 1..Len(Tail(b))
      BY <3>1
    <3> QED BY <1>4, <3>1, <3>2, <3>3 DEF Ordered
  <2> QED BY <2>4, <2>5, <2>6, SetBuffer DEF Buffers
<1>9. r = pushed \/ \E q \in TsoLoad(pushed, TRUE, oldest.addr, t) :
                      r = [Store(q, oldest) EXCEPT !.buf[t] = Tail(@)]
  BY DEF PushTso, l
<1> QED BY <1>7, <1>8, <1>9

LEMMA StoreNowSound ==
  ASSUME NEW s \in Sound, NEW t \in Threads, NEW i, Stores(i), NEW r \in StoreNow(s, t, i)
  PROVE  r \in Sound
<1>1. PICK q \in FlushAll(s, t) : r = Store(q, i)
  BY DEF StoreNow
<1>2. q \in Sound
  BY FlushAllSound
<1>3. Stores([addr |-> i.addr, val |-> i.val])
  BY DEF Stores
<1> QED BY <1>1, <1>2, <1>3, StoreSound
-----------------------------------------------------------------------------
(* The operations *)

Operation(t, i) ==
  \/ WeakStore(t, i) \/ StrongStore(t, i) \/ Fence(t, i) \/ Load(t, i)
  \/ ReadModifyWrite(t, i) \/ CasFails(t, i) \/ CasSucceeds(t, i)

LEMMA Instruction ==
  ASSUME Inv, NEW t \in Threads, NEW i \in Range(prog.code[t])
  PROVE  /\ i.op \in {"load", "swap", "cas", "weakcas"} => i.addr \in Addresses
         /\ i.op \in {"store", "scstore", "swap", "cas", "weakcas"} => Stores(i)
BY WeakMemoryAssumption DEF WeakMemoryAssumption, Inv, Stores

LEMMA ReturnSound ==
  ASSUME Inv, NEW t, NEW r \in Sound, NEW result, Return(t, r, result)
  PROVE  Inv'
<1>1. Runtime' = r
  BY SoundFacts DEF Return, Runtime
<1> QED BY <1>1 DEF Return, Inv

\* Every operation moves the runtime through loads, stores and flushes.
LEMMA OperationSound ==
  ASSUME Inv, NEW t \in Threads, NEW i \in Range(prog.code[t]), Operation(t, i)
  PROVE  Inv'
<1>1. Runtime \in Sound
  BY DEF Inv
<1>2. ASSUME i.op \in {"load", "swap", "cas", "weakcas"}, NEW q \in TsoLoad(Runtime, FALSE, i.addr, t)
      PROVE  q \in Sound
  BY <1>1, <1>2, Instruction, TsoLoadSound
<1>3. SUFFICES \E r \in Sound : \E result : Return(t, r, result)
  BY ReturnSound
<1>4. CASE WeakStore(t, i)
  <2>1. Stores(i)
    BY <1>4, Instruction DEF WeakStore, At
  <2> QED BY <1>1, <1>4, <2>1, PushTsoSound DEF WeakStore
<1>5. CASE StrongStore(t, i)
  <2>1. Stores(i)
    BY <1>5, Instruction DEF StrongStore, At
  <2> QED BY <1>1, <1>5, <2>1, StoreNowSound DEF StrongStore
<1>6. CASE Fence(t, i)
  BY <1>1, <1>6, FlushAllSound DEF Fence
<1>7. CASE Load(t, i)
  <2>1. i.op = "load"
    BY <1>7 DEF Load, At
  <2> QED BY <1>2, <1>7, <2>1 DEF Load
<1>8. CASE ReadModifyWrite(t, i)
  <2>1. i.op = "swap" /\ Stores(i)
    BY <1>8, Instruction DEF ReadModifyWrite, At
  <2> QED BY <1>2, <1>8, <2>1, StoreNowSound DEF ReadModifyWrite
<1>9. CASE CasFails(t, i)
  <2>1. i.op \in {"cas", "weakcas"}
    BY <1>9 DEF CasFails, At
  <2> QED BY <1>2, <1>9, <2>1 DEF CasFails
<1>10. CASE CasSucceeds(t, i)
  <2>1. i.op \in {"cas", "weakcas"} /\ Stores(i)
    BY <1>10, Instruction DEF CasSucceeds, At
  <2> QED BY <1>2, <1>10, <2>1, StoreNowSound DEF CasSucceeds
<1> QED BY <1>4, <1>5, <1>6, <1>7, <1>8, <1>9, <1>10 DEF Operation

LEMMA InitSound ==
  ASSUME Init
  PROVE  Inv
<1>1. mem \in [Addresses -> Nat] /\ buf = [t \in Threads |-> <<>>] /\ prog \in Programs
  BY DEF Init
<1>2. <<>> \in Buffers /\ Ordered(<<>>)
  BY DEF Buffers, Ordered
<1>3. buf \in [Threads -> Buffers] /\ \A t \in Threads : Ordered(buf[t])
  BY <1>1, <1>2
<1> QED BY <1>1, <1>3, MakeSound DEF Inv, Runtime

\* Every operation of the runtime leaves memory and buffers of the right types, and all
\* buffers ordered, whatever its choices are.
THEOREM Invariance == Spec => []Inv
<1>1. Inv /\ [Next]_vars => Inv'
  <2>1. CASE UNCHANGED vars
    BY <2>1 DEF vars, Inv, Runtime
  <2>2. CASE Next
    BY <2>2, OperationSound DEF Next, Operation
  <2> QED BY <2>1, <2>2
<1> QED BY <1>1, InitSound, PTL DEF Spec

\* The committed lines of a buffer are its oldest ones: a store that some load has ordered
\* before what it saw is never behind one that memory may still wait for.
THEOREM CommittedAreOldest == Spec => []CommittedFirst
<1>1. Inv => CommittedFirst
  BY DEF Inv, Sound, Runtime, Ordered, CommittedFirst
<1> QED BY <1>1, Invariance, PTL
=============================================================================
