--------------------------- MODULE CowHeapProofs ---------------------------
(***************************************************************************)
(* The reference counts of CowHeap, for any number of workers, objects and *)
(* contents.  A counter is exact as long as no counter gets to its limit,  *)
(* or there is one worker, whose check for the limit no other one can make *)
(* stale.                                                                  *)
(***************************************************************************)
EXTENDS CowHeap, FiniteSetTheorems, FunctionTheorems, SequenceTheorems, TLAPS

Alone == \A w, v \in Workers : w = v
Below == \A o \in Objects \ freed : count[o] < inst.limit

Labels == {"run", "insert", "tableget", "tableinc", "get", "inc", "taken", "put", "erase", "bury"}

Types ==
  /\ inst \in Instances
  /\ content \in [Objects -> Contents \cup {None}]
  /\ count \in [Objects -> 0..inst.limit]
  /\ freed \subseteq Objects /\ live \subseteq Objects /\ tombs \subseteq Objects
  /\ stored \in [Contents -> Objects \cup {None}]
  /\ mine \in [Workers -> Seq(Objects)]
  /\ base \in [Workers -> Objects]
  /\ own \in [Workers -> Objects \cup {None}]
  /\ pc \in [Workers -> Labels]
  /\ obj \in [Workers -> Objects \cup {None}]

\* What a worker has where it is.
Placed ==
  \A w \in Workers :
    /\ pc[w] \notin {"run", "insert"} => obj[w] \in Objects
    /\ pc[w] = "insert" => own[w] \in Objects
    /\ Len(mine[w]) <= MaxHeld
    /\ pc[w] \notin {"run", "put", "erase", "bury"} => Len(mine[w]) < MaxHeld

\* Nothing refers to the object.
Unknown(o) ==
  /\ o \notin live \cup tombs \cup freed /\ count[o] = 0
  /\ \A c \in Contents : stored[c] # o
  /\ \A w \in Workers : obj[w] # o /\ base[w] # o /\ \A n \in DOMAIN mine[w] : mine[w][n] # o

\* An object that is not allocated yet, or that a worker writes, is known to no other.
Private ==
  /\ \A o \in Objects : content[o] = None => Unknown(o)
  /\ \A w \in Workers, o \in Objects : own[w] = o =>
       /\ Unknown(o) /\ content[o] # None
       /\ \A v \in Workers : own[v] = o => v = w

\* The worker has put the object in the table and not counted that.
Counting(w) == pc[w] \in {"tableget", "tableinc"}
OneCounts == \A w, v \in Workers : Counting(w) /\ Counting(v) /\ obj[w] = obj[v] => w = v

\* The result of the check in RefPool::get, where it can be relied on.
Checked ==
  \A w \in Workers :
    /\ pc[w] \in {"tableinc", "inc"} /\ Alone => count[obj[w]] < inst.limit
    /\ pc[w] = "taken" => obj[w] \in freed \/ (Alone /\ count[obj[w]] = inst.limit)

Exact(o) == count[o] + One(Uncounted(o)) = Cardinality(Holders(o)) + One(InTable(o))
Exactly == \A o \in Objects \ freed : Exact(o) \/ (Alone /\ count[o] = inst.limit)

\* A counter that is 0 has never been anything else, or the object is back in the pool.
Untouched ==
  \A o \in Objects \ freed :
    count[o] = 0 =>
      /\ Holders(o) = {} /\ o \notin tombs
      /\ \A w \in Workers : ~(pc[w] \in {"erase", "bury"} /\ obj[w] = o)

\* A cell is a tombstone or not.
Cells == live \cap tombs = {}

\* An object whose counter is 0 is in the pool, forgotten, or its owner or the table has it.
Accounted ==
  \A o \in Allocated \ (freed \cup lost) :
    count[o] = 0 => (\E w \in Workers : own[w] = o) \/ o \in live

Inv == Types /\ Placed /\ Private /\ Cells /\ OneCounts /\ Checked /\ Exactly /\ Untouched /\ Accounted

Fits == Alone \/ Below
-----------------------------------------------------------------------------
(* Sequences and numbers *)

\* RemoveAt drops one element of a sequence, and those behind it move up.
LEMMA RemoveLen ==
  ASSUME NEW S, NEW s \in Seq(S), NEW n \in DOMAIN s
  PROVE  /\ RemoveAt(s, n) \in Seq(S)
         /\ Len(RemoveAt(s, n)) = Len(s) - 1
         /\ \A k \in 1..(Len(s) - 1) : RemoveAt(s, n)[k] = IF k < n THEN s[k] ELSE s[k + 1]
<1>1. n \in 1..Len(s) /\ Len(s) \in Nat
  OBVIOUS
<1>2. /\ SubSeq(s, 1, n-1) \in Seq(S) /\ Len(SubSeq(s, 1, n-1)) = n - 1
      /\ \A k \in 1..(n-1) : SubSeq(s, 1, n-1)[k] = s[k]
  BY <1>1, SubSeqProperties
<1>3. /\ SubSeq(s, n+1, Len(s)) \in Seq(S) /\ Len(SubSeq(s, n+1, Len(s))) = Len(s) - n
      /\ \A k \in 1..(Len(s)-n) : SubSeq(s, n+1, Len(s))[k] = s[n + k]
  BY <1>1, SubSeqProperties
<1> DEFINE A == SubSeq(s, 1, n-1)
           B == SubSeq(s, n+1, Len(s))
<1>4. RemoveAt(s, n) = A \o B
  BY DEF RemoveAt
<1> HIDE DEF A, B
<1>2a. /\ A \in Seq(S) /\ Len(A) = n - 1 /\ \A k \in 1..(n-1) : A[k] = s[k]
  BY <1>2 DEF A
<1>3a. /\ B \in Seq(S) /\ Len(B) = Len(s) - n /\ \A k \in 1..(Len(s)-n) : B[k] = s[n + k]
  BY <1>3 DEF B
<1>5. /\ A \o B \in Seq(S) /\ Len(A \o B) = Len(s) - 1
      /\ \A k \in 1..(Len(s) - 1) : (A \o B)[k] = IF k <= n - 1 THEN A[k] ELSE B[k - (n - 1)]
  <2>1. /\ A \o B \in Seq(S) /\ Len(A \o B) = Len(A) + Len(B)
        /\ \A k \in 1..(Len(A) + Len(B)) : (A \o B)[k] = IF k <= Len(A) THEN A[k] ELSE B[k - Len(A)]
    BY <1>2a, <1>3a, ConcatProperties
  <2>2. Len(A) + Len(B) = Len(s) - 1 /\ Len(A) = n - 1
    BY <1>1, <1>2a, <1>3a
  <2> QED BY <2>1, <2>2
<1>6. ASSUME NEW k \in 1..(Len(s) - 1)
      PROVE  (A \o B)[k] = IF k < n THEN s[k] ELSE s[k + 1]
  <2>1. CASE k < n
    BY <1>1, <1>2a, <1>5, <2>1
  <2>2. CASE ~(k < n)
    <3>1. k - (n - 1) \in 1..(Len(s) - n) /\ n + (k - (n - 1)) = k + 1
      BY <1>1, <2>2
    <3>2. (A \o B)[k] = B[k - (n - 1)]
      BY <1>1, <1>5, <2>2
    <3> QED BY <1>3a, <2>2, <3>1, <3>2
  <2> QED BY <2>1, <2>2
<1> QED BY <1>4, <1>5, <1>6

\* The counter is atomic and wraps; a decrement of a positive one is a subtraction.
LEMMA Mod ==
  ASSUME NEW L \in Nat, NEW c \in 1..L
  PROVE  (c + L) % (L + 1) = c - 1
<1>1. c + L = (c - 1) + 1 * (L + 1)
  OBVIOUS
<1> QED BY <1>1
-----------------------------------------------------------------------------
(* The number of holders.  The private snapshots, the states and the puts  *)
(* are counted apart.                                                      *)

HeldIn(W, m, o) == {h \in W \X (1..MaxHeld) : h[2] \in DOMAIN m[h[1]] /\ m[h[1]][h[2]] = o}
Kept(o) == {c \in Contents : stored[c] = o}
Putting(o) == {w \in Workers : pc[w] = "put" /\ obj[w] = o}

\* A set has as many pairs with 0 as elements.
LEMMA Zeros ==
  ASSUME NEW S, IsFiniteSet(S)
  PROVE  LET T == {<<x, 0>> : x \in S}
         IN  IsFiniteSet(T) /\ Cardinality(T) = Cardinality(S)
<1> DEFINE T == {<<x, 0>> : x \in S}
           f == [x \in S |-> <<x, 0>>]
<1>1. f \in Bijection(S, T)
  <2>1. f \in [S -> T] /\ \A a, b \in S : f[a] = f[b] => a = b
    OBVIOUS
  <2>2. \A t \in T : \E x \in S : f[x] = t
    OBVIOUS
  <2> QED BY <2>1, <2>2, Fun_IsBij
<1>2. ExistsBijection(S, T)
  BY <1>1 DEF ExistsBijection
<1> QED BY <1>2, FS_Bijection

\* The private snapshots of a finite set of workers are finitely many.
LEMMA HeldFinite ==
  ASSUME NEW W, IsFiniteSet(W), NEW m, NEW o
  PROVE  IsFiniteSet(HeldIn(W, m, o)) /\ Cardinality(HeldIn(W, m, o)) <= Cardinality(W) * MaxHeld
<1>1. /\ IsFiniteSet(1..MaxHeld) /\ Cardinality(1..MaxHeld) = MaxHeld
  BY CowAssumption, FS_Interval DEF CowAssumption
<1>2. /\ IsFiniteSet(W \X (1..MaxHeld))
      /\ Cardinality(W \X (1..MaxHeld)) = Cardinality(W) * MaxHeld
  BY <1>1, FS_Product
<1>3. HeldIn(W, m, o) \in SUBSET (W \X (1..MaxHeld))
  BY DEF HeldIn
<1> QED BY <1>2, <1>3, FS_Subset

\* When a worker gives a snapshot away, the places of the others change, not their number.
OneLess(W, m, w, n, m2, o) ==
  /\ m[w][n] = o => Cardinality(HeldIn(W, m2, o)) = Cardinality(HeldIn(W, m, o)) - 1
  /\ m[w][n] # o => Cardinality(HeldIn(W, m2, o)) = Cardinality(HeldIn(W, m, o))

LEMMA HeldRemove ==
  ASSUME NEW W, IsFiniteSet(W), NEW m \in [W -> Seq(Objects)], NEW w \in W, NEW n \in DOMAIN m[w],
         \A v \in W : Len(m[v]) <= MaxHeld,
         NEW m2, m2 = [m EXCEPT ![w] = RemoveAt(m[w], n)], NEW o
  PROVE  OneLess(W, m, w, n, m2, o)
<1> DEFINE A == HeldIn(W, m, o) \ {<<w, n>>}
           B == HeldIn(W, m2, o)
           up(k) == IF k > n THEN k - 1 ELSE k
           f == [h \in A |-> IF h[1] = w THEN <<w, up(h[2])>> ELSE h]
<1>1. MaxHeld \in Nat
  BY CowAssumption DEF CowAssumption
<1>2. /\ m[w] \in Seq(Objects) /\ Len(m[w]) \in Nat /\ n \in 1..Len(m[w]) /\ DOMAIN m[w] = 1..Len(m[w])
      /\ Len(m[w]) <= MaxHeld
  OBVIOUS
<1>3. /\ m2[w] = RemoveAt(m[w], n) /\ m2[w] \in Seq(Objects) /\ Len(m2[w]) = Len(m[w]) - 1
      /\ DOMAIN m2[w] = 1..(Len(m[w]) - 1)
      /\ \A k \in 1..(Len(m[w]) - 1) : m2[w][k] = IF k < n THEN m[w][k] ELSE m[w][k + 1]
  <2> DEFINE r == RemoveAt(m[w], n)
  <2>1. /\ r \in Seq(Objects) /\ Len(r) = Len(m[w]) - 1
        /\ \A k \in 1..(Len(m[w]) - 1) : r[k] = IF k < n THEN m[w][k] ELSE m[w][k + 1]
    BY <1>2, RemoveLen
  <2>2. m2[w] = r
    OBVIOUS
  <2>3. DOMAIN r = 1..(Len(m[w]) - 1)
    BY <2>1
  <2> QED BY <2>1, <2>2, <2>3
<1>4. \A v \in W \ {w} : m2[v] = m[v]
  OBVIOUS
<1>5. ASSUME NEW h \in A
      PROVE  f[h] \in B
  <2>1. h \in W \X (1..MaxHeld) /\ h[2] \in DOMAIN m[h[1]] /\ m[h[1]][h[2]] = o /\ h # <<w, n>>
    BY DEF HeldIn
  <2>2. CASE h[1] = w
    <3>1. h[2] \in 1..Len(m[w]) /\ h[2] # n
      BY <1>2, <2>1, <2>2
    <3>2. up(h[2]) \in 1..(Len(m[w]) - 1) /\ up(h[2]) \in 1..MaxHeld
      BY <1>1, <1>2, <3>1
    <3>3. m2[w][up(h[2])] = o
      <4>1. CASE h[2] > n
        <5>1. ~(h[2] - 1 < n) /\ (h[2] - 1) + 1 = h[2] /\ up(h[2]) = h[2] - 1
          BY <1>2, <3>1, <4>1
        <5> QED BY <1>3, <2>1, <2>2, <3>2, <5>1
      <4>2. CASE ~(h[2] > n)
        <5>1. h[2] < n /\ up(h[2]) = h[2]
          BY <1>2, <3>1, <4>2
        <5> QED BY <1>3, <2>1, <2>2, <3>2, <5>1
      <4> QED BY <4>1, <4>2
    <3>4. <<w, up(h[2])>> \in B
      BY <1>3, <3>2, <3>3 DEF HeldIn
    <3> QED BY <2>2, <3>4
  <2>3. CASE h[1] # w
    <3>1. h \in B
      BY <1>4, <2>1, <2>3 DEF HeldIn
    <3> QED BY <2>3, <3>1
  <2> QED BY <2>2, <2>3
<1>6. ASSUME NEW g \in A, NEW h \in A, f[g] = f[h]
      PROVE  g = h
  <2>1. /\ g \in W \X (1..MaxHeld) /\ g # <<w, n>>
        /\ h \in W \X (1..MaxHeld) /\ h # <<w, n>>
    BY DEF HeldIn
  <2>2. CASE g[1] = w /\ h[1] = w
    <3>1. up(g[2]) = up(h[2]) /\ g[2] # n /\ h[2] # n
      BY <1>6, <2>1, <2>2
    <3>2. g[2] = h[2]
      BY <1>2, <2>1, <3>1
    <3> QED BY <2>1, <2>2, <3>2
  <2>3. CASE ~(g[1] = w /\ h[1] = w)
    BY <1>6, <2>1, <2>3
  <2> QED BY <2>2, <2>3
<1>7. ASSUME NEW h \in B
      PROVE  \E g \in A : f[g] = h
  <2>1. h \in W \X (1..MaxHeld) /\ h[2] \in DOMAIN m2[h[1]] /\ m2[h[1]][h[2]] = o
    BY DEF HeldIn
  <2>2. CASE h[1] = w
    <3> DEFINE k == IF h[2] < n THEN h[2] ELSE h[2] + 1
    <3>1. h[2] \in 1..(Len(m[w]) - 1)
      BY <1>3, <2>1, <2>2
    <3>2. /\ k \in 1..Len(m[w]) /\ k \in 1..MaxHeld /\ k # n /\ up(k) = h[2]
      BY <1>1, <1>2, <3>1
    <3>3. m[w][k] = o
      BY <1>3, <2>1, <2>2, <3>1
    <3> HIDE DEF k
    <3>4. <<w, k>> \in A
      BY <1>2, <3>2, <3>3 DEF HeldIn
    <3>5. f[<<w, k>>] = <<w, up(k)>>
      BY <3>4
    <3>6. <<w, up(k)>> = h
      BY <2>1, <2>2, <3>2
    <3> QED BY <3>4, <3>5, <3>6
  <2>3. CASE h[1] # w
    <3>1. h \in A
      BY <1>4, <2>1, <2>3 DEF HeldIn
    <3> QED BY <2>3, <3>1
  <2> QED BY <2>2, <2>3
<1>8. f \in Bijection(A, B)
  <2>1. f \in [A -> B]
    BY <1>5
  <2> QED BY <2>1, <1>6, <1>7, Fun_IsBij
<1>9. IsFiniteSet(HeldIn(W, m, o))
  BY HeldFinite
<1>10. /\ IsFiniteSet(A)
       /\ Cardinality(A) = IF <<w, n>> \in HeldIn(W, m, o) THEN Cardinality(HeldIn(W, m, o)) - 1
                                                          ELSE Cardinality(HeldIn(W, m, o))
  BY <1>9, FS_RemoveElement
<1>11. Cardinality(B) = Cardinality(A)
  <2>1. ExistsBijection(A, B)
    BY <1>8 DEF ExistsBijection
  <2> QED BY <1>10, <2>1, FS_Bijection
<1>12. <<w, n>> \in HeldIn(W, m, o) <=> m[w][n] = o
  <2>1. n \in 1..MaxHeld
    BY <1>1, <1>2
  <2> QED BY <2>1 DEF HeldIn
<1> QED BY <1>10, <1>11, <1>12 DEF OneLess

Parts(o) ==
  /\ IsFiniteSet(HeldIn(Workers, mine, o)) /\ IsFiniteSet(Kept(o)) /\ IsFiniteSet(Putting(o))
  /\ IsFiniteSet(Holders(o))
  /\ Cardinality(HeldIn(Workers, mine, o)) \in Nat
  /\ Cardinality(Kept(o)) \in Nat /\ Cardinality(Putting(o)) \in Nat
  /\ Cardinality(Holders(o))
       = Cardinality(HeldIn(Workers, mine, o)) + Cardinality(Kept(o)) + Cardinality(Putting(o))

\* Private snapshots, states and puts are different holders.
LEMMA HoldersSplit == inst \in Instances => \A o : Parts(o)
<1> SUFFICES ASSUME inst \in Instances, NEW o PROVE Parts(o)
  OBVIOUS
<1> DEFINE A == HeldIn(Workers, mine, o)
           B == {<<c, 0>> : c \in Kept(o)}
           C == {<<w, 0>> : w \in Putting(o)}
<1>1. /\ IsFiniteSet(Workers) /\ Workers \cap Contents = {} /\ IsFiniteSet(Contents)
  BY CowAssumption DEF CowAssumption, Workers
<1>2. IsFiniteSet(A)
  BY <1>1, HeldFinite
<1>3. IsFiniteSet(Kept(o)) /\ IsFiniteSet(Putting(o))
  <2>1. Kept(o) \in SUBSET Contents /\ Putting(o) \in SUBSET Workers
    BY DEF Kept, Putting
  <2> QED BY <1>1, <2>1, FS_Subset
<1>4. /\ IsFiniteSet(B) /\ Cardinality(B) = Cardinality(Kept(o))
      /\ IsFiniteSet(C) /\ Cardinality(C) = Cardinality(Putting(o))
  BY <1>3, Zeros
<1>5. /\ Cardinality(A) \in Nat /\ Cardinality(Kept(o)) \in Nat /\ Cardinality(Putting(o)) \in Nat
  BY <1>2, <1>3, FS_CardinalityType
<1>6. Holders(o) = (A \cup B) \cup C
  BY DEF Holders, HeldIn, Kept, Putting
<1>7. A \cap B = {} /\ (A \cup B) \cap C = {}
  <2>1. \A h \in A : h[2] \in 1..MaxHeld
    BY DEF HeldIn
  <2>2. MaxHeld \in Nat
    BY CowAssumption DEF CowAssumption
  <2>3. \A h \in B : h[2] = 0 /\ h[1] \in Contents
    BY DEF Kept
  <2>4. \A h \in C : h[2] = 0 /\ h[1] \in Workers
    BY DEF Putting
  <2> HIDE DEF A, B, C
  <2> QED BY <1>1, <2>1, <2>2, <2>3, <2>4
<1> HIDE DEF A, B, C
<1>8. IsFiniteSet(A \cup B) /\ Cardinality(A \cup B) = Cardinality(A) + Cardinality(B)
  <2>1. Cardinality(A \cap B) = 0
    BY <1>7, FS_EmptySet
  <2>2. /\ IsFiniteSet(A \cup B)
        /\ Cardinality(A \cup B) = Cardinality(A) + Cardinality(B) - Cardinality(A \cap B)
    BY <1>2, <1>4, FS_Union
  <2> QED BY <1>4, <1>5, <2>1, <2>2
<1>9. /\ IsFiniteSet((A \cup B) \cup C)
      /\ Cardinality((A \cup B) \cup C) = Cardinality(A \cup B) + Cardinality(C)
  <2> DEFINE D == A \cup B
  <2>1. Cardinality(D \cap C) = 0
    BY <1>7, FS_EmptySet
  <2>2. IsFiniteSet(D) /\ Cardinality(D) \in Nat
    BY <1>4, <1>5, <1>8
  <2> HIDE DEF D
  <2>3. /\ IsFiniteSet(D \cup C)
        /\ Cardinality(D \cup C) = Cardinality(D) + Cardinality(C) - Cardinality(D \cap C)
    BY <1>4, <2>2, FS_Union
  <2>4. IsFiniteSet(D \cup C) /\ Cardinality(D \cup C) = Cardinality(D) + Cardinality(C)
    BY <1>4, <1>5, <2>1, <2>2, <2>3
  <2> QED BY <2>4 DEF D
<1> QED BY <1>2, <1>3, <1>4, <1>5, <1>6, <1>8, <1>9 DEF Parts, A

\* The same in the next state.
LEMMA HoldersSplitNext == (inst \in Instances => \A o : Parts(o))'
BY HoldersSplit, PTL

-----------------------------------------------------------------------------
(* RefPool *)

\* The instance allows for the two references of the initial state.
LEMMA Limit == inst \in Instances => inst.limit \in Nat /\ inst.limit >= 2
BY CowAssumption DEF CowAssumption

\* Below the limit, an increment adds one; it touches one counter.
LEMMA IncrementStep ==
  ASSUME Types, NEW o \in Objects, Increment(o)
  PROVE  /\ count' \in [Objects -> 0..inst.limit]
         /\ \A p \in Objects : p # o => count'[p] = count[p]
         /\ count[o] < inst.limit => count'[o] = count[o] + 1
<1>1. inst.limit \in Nat /\ count \in [Objects -> 0..inst.limit] /\ count[o] \in 0..inst.limit
  BY Limit DEF Types
<1>2. (count[o] + 1) % (inst.limit + 1) \in 0..inst.limit
  BY <1>1
<1>3. count[o] < inst.limit => (count[o] + 1) % (inst.limit + 1) = count[o] + 1
  BY <1>1
<1>4. count' = [count EXCEPT ![o] = (count[o] + 1) % (inst.limit + 1)]
  BY DEF Increment
<1> QED BY <1>1, <1>2, <1>3, <1>4

\* A put subtracts one from a counter that is positive and not saturated, and returns the
\* object to the pool exactly when that leaves 0.
LEMMA PutStep ==
  ASSUME Types, NEW o \in Objects, Put(o)
  PROVE  /\ count' \in [Objects -> 0..inst.limit]
         /\ \A p \in Objects : p # o => count'[p] = count[p]
         /\ freed \subseteq freed' /\ freed' \subseteq freed \cup {o}
         /\ count[o] = inst.limit => count'[o] = count[o] /\ freed' = freed
         /\ count[o] # inst.limit /\ count[o] > 0 => count'[o] = count[o] - 1
         /\ o \notin freed => (o \in freed' <=> count[o] = 1)
<1>1. /\ inst.limit \in Nat /\ inst.limit >= 2
      /\ count \in [Objects -> 0..inst.limit] /\ count[o] \in 0..inst.limit
  BY Limit DEF Types
<1>2. CASE count[o] = inst.limit
  BY <1>1, <1>2 DEF Put
<1>3. CASE count[o] # inst.limit
  <2>1. (count[o] + inst.limit) % (inst.limit + 1) \in 0..inst.limit
    BY <1>1
  <2>2. count[o] > 0 => (count[o] + inst.limit) % (inst.limit + 1) = count[o] - 1
    BY <1>1, Mod
  <2>3. /\ count' = [count EXCEPT ![o] = (count[o] + inst.limit) % (inst.limit + 1)]
        /\ freed' = IF count[o] = 1 THEN freed \cup {o} ELSE freed
    BY <1>3 DEF Put
  <2> QED BY <1>1, <1>3, <2>1, <2>2, <2>3
<1> QED BY <1>2, <1>3

-----------------------------------------------------------------------------
(* Types and places *)

Step(w) ==
  \/ LoadState(w) \/ Write(w)
  \/ Snapshot(w) \/ Insert(w) \/ Drop(w) \/ GetCheck(w) \/ TableGet(w) \/ Taken(w)
  \/ Store(w) \/ Discard(w) \/ SnapPut(w) \/ EraseFind(w) \/ Bury(w)

LEMMA TypesStep ==
  ASSUME Types, Placed, Private, NEW w \in Workers, Step(w)
  PROVE  Types'
<1> USE DEF Types, table, pool, Workers
<1>1. CASE LoadState(w)
  BY <1>1 DEF LoadState, Load
<1>2. CASE Write(w)
  <2>1. PICK o \in Objects, c \in Contents :
          content' = [content EXCEPT ![o] = c] /\ own' = [own EXCEPT ![w] = o]
    BY <1>2 DEF Write
  <2> QED BY <1>2, <2>1 DEF Write
<1>3. CASE Snapshot(w)
  <2>1. pc' \in [Workers -> Labels] /\ obj' \in [Workers -> Objects \cup {None}]
    <3>1. \E l \in Labels : pc' = [pc EXCEPT ![w] = l]
      BY <1>3 DEF Snapshot, Goto, Labels
    <3>2. \E o \in Objects \cup {None} : obj' = [obj EXCEPT ![w] = o]
      <4>1. obj = [obj EXCEPT ![w] = obj[w]] /\ obj[w] \in Objects \cup {None} /\ base[w] \in Objects
        OBVIOUS
      <4> QED BY <1>3, <4>1 DEF Snapshot
    <3> QED BY <3>1, <3>2
  <2> QED BY <1>3, <2>1 DEF Snapshot
<1>4. CASE Insert(w)
  <2>1. own[w] \in Objects
    BY <1>4 DEF Insert, Placed
  <2>2. pc' \in [Workers -> Labels]
    <3>1. \E l \in Labels : pc' = [pc EXCEPT ![w] = l]
      BY <1>4 DEF Insert, Goto, Labels
    <3> QED BY <3>1
  <2>3. /\ live' \subseteq Objects /\ tombs' \subseteq Objects /\ freed' \subseteq Objects
        /\ obj' \in [Workers -> Objects \cup {None}]
    BY <1>4, <2>1 DEF Insert, Equal
  <2> QED BY <1>4, <2>2, <2>3 DEF Insert
<1>5. CASE Drop(w)
  <2>1. PICK o \in tombs : tombs' = tombs \ {o} /\ Put(o)
    BY <1>5 DEF Drop
  <2>2. o \in Objects
    OBVIOUS
  <2>3. count' \in [Objects -> 0..inst.limit] /\ freed' \subseteq Objects
    BY <2>1, <2>2, PutStep
  <2> QED BY <1>5, <2>1, <2>3 DEF Drop
<1>6. CASE GetCheck(w)
  BY <1>6 DEF GetCheck, Goto, Labels
<1>7. CASE TableGet(w)
  <2>1. obj[w] \in Objects
    BY <1>7 DEF TableGet, Placed
  <2>2. count' \in [Objects -> 0..inst.limit]
    BY <1>7, <2>1, IncrementStep DEF TableGet
  <2> QED BY <1>7, <2>2 DEF TableGet, Goto, Labels
<1>8. CASE Taken(w)
  <2>1. obj[w] \in Objects
    BY <1>8 DEF Taken, Placed
  <2>2. count' \in [Objects -> 0..inst.limit]
    BY <1>8, <2>1, IncrementStep DEF Taken
  <2>3. mine' \in [Workers -> Seq(Objects)] /\ base' \in [Workers -> Objects]
    BY <1>8, <2>1 DEF Taken
  <2>4. pc' \in [Workers -> Labels] /\ obj' \in [Workers -> Objects \cup {None}]
    BY <1>8 DEF Taken, Continue, Goto, Labels
  <2> QED BY <1>8, <2>2, <2>3, <2>4 DEF Taken
<1>9. CASE Store(w)
  <2>1. PICK n \in DOMAIN mine[w] :
          /\ stored' = [stored EXCEPT ![content[mine[w][n]]] = mine[w][n]]
          /\ mine' = [mine EXCEPT ![w] = RemoveAt(mine[w], n)]
    BY <1>9 DEF Store
  <2>2. mine[w] \in Seq(Objects) /\ mine[w][n] \in Objects
    OBVIOUS
  <2>3. RemoveAt(mine[w], n) \in Seq(Objects)
    BY <2>2, RemoveLen
  <2> QED BY <1>9, <2>1, <2>2, <2>3 DEF Store
<1>10. CASE Discard(w)
  <2>1. PICK n \in DOMAIN mine[w], c \in Contents :
          /\ stored[c] # None
          /\ obj' = [obj EXCEPT ![w] = mine[w][n]]
          /\ mine' = [mine EXCEPT ![w] = RemoveAt(mine[w], n)]
          /\ Load(w, stored[c])
    BY <1>10 DEF Discard
  <2>2. mine[w] \in Seq(Objects) /\ mine[w][n] \in Objects
    OBVIOUS
  <2>3. RemoveAt(mine[w], n) \in Seq(Objects)
    BY <2>2, RemoveLen
  <2> QED BY <1>10, <2>1, <2>2, <2>3 DEF Discard, Load, Goto, Labels
<1>11. CASE SnapPut(w)
  <2>1. obj[w] \in Objects
    BY <1>11 DEF SnapPut, Placed
  <2>2. count' \in [Objects -> 0..inst.limit] /\ freed' \subseteq Objects
    BY <1>11, <2>1, PutStep DEF SnapPut
  <2> QED BY <1>11, <2>2 DEF SnapPut, Continue, Goto, Labels
<1>12. CASE EraseFind(w)
  BY <1>12 DEF EraseFind, Continue, Goto, Labels
<1>13. CASE Bury(w)
  BY <1>13 DEF Bury, Continue, Goto, Labels, Placed
<1> QED
  BY <1>1, <1>2, <1>3, <1>4, <1>5, <1>6, <1>7, <1>8, <1>9, <1>10, <1>11, <1>12, <1>13 DEF Step

LEMMA PlacedStep ==
  ASSUME Types, Placed, Private, NEW w \in Workers, Step(w)
  PROVE  Placed'
<1>0. /\ inst' = inst /\ pc \in [Workers -> Labels] /\ obj \in [Workers -> Objects \cup {None}]
      /\ mine \in [Workers -> Seq(Objects)] /\ own \in [Workers -> Objects \cup {None}]
      /\ base \in [Workers -> Objects] /\ MaxHeld \in Nat
      /\ None \notin Objects
  BY CowAssumption DEF Types, Step, LoadState, Write, Snapshot, Insert, Drop, GetCheck, TableGet,
     Taken, Store, Discard, SnapPut, EraseFind, Bury, CowAssumption
<1> SUFFICES ASSUME NEW v \in Workers
             PROVE  /\ pc'[v] \notin {"run", "insert"} => obj'[v] \in Objects
                    /\ pc'[v] = "insert" => own'[v] \in Objects
                    /\ Len(mine'[v]) <= MaxHeld
                    /\ pc'[v] \notin {"run", "put", "erase", "bury"} => Len(mine'[v]) < MaxHeld
  BY <1>0 DEF Placed, Workers
<1>0a. /\ pc[v] \notin {"run", "insert"} => obj[v] \in Objects
       /\ pc[v] = "insert" => own[v] \in Objects
       /\ Len(mine[v]) <= MaxHeld
       /\ pc[v] \notin {"run", "put", "erase", "bury"} => Len(mine[v]) < MaxHeld
  BY DEF Placed
<1> USE <1>0, <1>0a
<1>1. CASE LoadState(w)
  BY <1>1 DEF LoadState, Load
<1>2. CASE Write(w)
  BY <1>2 DEF Write
<1>3. CASE Snapshot(w)
  BY <1>3 DEF Snapshot, Goto
<1>4. CASE Insert(w)
  BY <1>4 DEF Insert, Goto, Equal, Types
<1>5. CASE Drop(w)
  BY <1>5 DEF Drop
<1>6. CASE GetCheck(w)
  BY <1>6 DEF GetCheck, Goto
<1>7. CASE TableGet(w)
  BY <1>7 DEF TableGet, Goto
<1>8. CASE Taken(w)
  <2>1. Len(mine'[v]) <= MaxHeld /\ (v # w => mine'[v] = mine[v])
    <3>1. CASE v = w
      <4>1. mine'[w] = Append(mine[w], obj[w]) /\ Len(mine[w]) < MaxHeld
        BY <1>8, <3>1 DEF Taken
      <4>2. mine[w] \in Seq(Objects) /\ Len(Append(mine[w], obj[w])) = Len(mine[w]) + 1 /\ Len(mine[w]) \in Nat
        OBVIOUS
      <4> QED BY <3>1, <4>1, <4>2
    <3>2. CASE v # w
      BY <1>8, <3>2 DEF Taken
    <3> QED BY <3>1, <3>2
  <2> QED BY <1>8, <2>1 DEF Taken, Continue, Goto
<1>9. CASE Store(w)
  <2>1. PICK n \in DOMAIN mine[w] :
          /\ mine' = [mine EXCEPT ![w] = RemoveAt(mine[w], n)]
          /\ Discard(w) => obj' = [obj EXCEPT ![w] = mine[w][n]]
    BY <1>9 DEF Store, Discard
  <2>2. mine[w] \in Seq(Objects) /\ Len(mine[w]) \in Nat /\ mine[w][n] \in Objects
    OBVIOUS
  <2>3. Len(RemoveAt(mine[w], n)) = Len(mine[w]) - 1
    BY <2>2, RemoveLen
  <2>4. Len(mine'[v]) <= MaxHeld /\ (v # w => mine'[v] = mine[v])
    BY <2>1, <2>2, <2>3
  <2> QED BY <1>9, <2>1, <2>2, <2>4 DEF Store
<1>10. CASE Discard(w)
  <2>1. PICK n \in DOMAIN mine[w] :
          /\ mine' = [mine EXCEPT ![w] = RemoveAt(mine[w], n)]
          /\ Discard(w) => obj' = [obj EXCEPT ![w] = mine[w][n]]
    BY <1>10 DEF Store, Discard
  <2>2. mine[w] \in Seq(Objects) /\ Len(mine[w]) \in Nat /\ mine[w][n] \in Objects
    OBVIOUS
  <2>3. Len(RemoveAt(mine[w], n)) = Len(mine[w]) - 1
    BY <2>2, RemoveLen
  <2>4. Len(mine'[v]) <= MaxHeld /\ (v # w => mine'[v] = mine[v])
    BY <2>1, <2>2, <2>3
  <2> QED BY <1>10, <2>1, <2>2, <2>4 DEF Discard, Load, Goto
<1>11. CASE SnapPut(w)
  BY <1>11 DEF SnapPut, Continue, Goto
<1>12. CASE EraseFind(w)
  BY <1>12 DEF EraseFind, Continue, Goto
<1>13. CASE Bury(w)
  BY <1>13 DEF Bury, Continue, Goto
<1> QED
  BY <1>1, <1>2, <1>3, <1>4, <1>5, <1>6, <1>7, <1>8, <1>9, <1>10, <1>11, <1>12, <1>13 DEF Step

-----------------------------------------------------------------------------
(* Private objects *)

LEMMA Given ==
  ASSUME Types, NEW w \in Workers, Step(w)
  PROVE  inst' = inst /\ Workers' = Workers /\ None \notin Objects /\ None \notin Contents
BY CowAssumption DEF Types, Step, LoadState, Write, Snapshot, Insert, Drop, GetCheck, TableGet,
   Taken, Store, Discard, SnapPut, EraseFind, Bury, CowAssumption, Workers

\* After a snapshot is given away, a worker's snapshots are among those it had.
LEMMA RemoveHolds ==
  ASSUME NEW s \in Seq(Objects), NEW n \in DOMAIN s, NEW k \in DOMAIN RemoveAt(s, n)
  PROVE  \E i \in DOMAIN s : RemoveAt(s, n)[k] = s[i]
<1>0. Len(s) \in Nat /\ DOMAIN s = 1..Len(s)
  OBVIOUS
<1> DEFINE r == RemoveAt(s, n)
<1>1. /\ r \in Seq(Objects) /\ Len(r) = Len(s) - 1
      /\ \A j \in 1..(Len(s) - 1) : r[j] = IF j < n THEN s[j] ELSE s[j + 1]
  BY RemoveLen
<1>2. k \in DOMAIN r
  OBVIOUS
<1> HIDE DEF r
<1>3. k \in 1..(Len(s) - 1)
  BY <1>1, <1>2
<1>4. k \in 1..Len(s) /\ k + 1 \in 1..Len(s)
  BY <1>0, <1>3
<1>5. r[k] = s[k] \/ r[k] = s[k + 1]
  BY <1>1, <1>3
<1> QED BY <1>0, <1>4, <1>5 DEF r

\* An object that nothing refers to stays so unless its owner inserts it.
LEMMA UnknownStep ==
  ASSUME Types, Placed, NEW w \in Workers, Step(w),
         NEW o \in Objects, Unknown(o), ~(Insert(w) /\ own[w] = o)
  PROVE  Unknown(o)'
<1>0. /\ inst' = inst /\ Workers' = Workers /\ None \notin Objects
      /\ o \notin live \cup tombs \cup freed /\ count[o] = 0
      /\ \A c \in Contents : stored[c] # o
      /\ \A v \in Workers : obj[v] # o /\ base[v] # o /\ \A n \in DOMAIN mine[v] : mine[v][n] # o
  BY Given DEF Unknown
<1> SUFFICES /\ o \notin live' \cup tombs' \cup freed' /\ count'[o] = 0
             /\ \A c \in Contents : stored'[c] # o
             /\ \A v \in Workers : obj'[v] # o /\ base'[v] # o /\ \A n \in DOMAIN mine'[v] : mine'[v][n] # o
  BY <1>0 DEF Unknown
<1> USE <1>0 DEF table, pool
<1>1. CASE LoadState(w)
  BY <1>1 DEF LoadState, Load, Types
<1>2. CASE Write(w)
  BY <1>2 DEF Write
<1>3. CASE Snapshot(w)
  BY <1>3 DEF Snapshot, Types
<1>4. CASE Insert(w)
  BY <1>4 DEF Insert, Equal, Types
<1>5. CASE Drop(w)
  <2>1. PICK p \in tombs : tombs' = tombs \ {p} /\ Put(p)
    BY <1>5 DEF Drop
  <2>2. p \in Objects /\ p # o
    BY DEF Types
  <2>3. count'[o] = count[o] /\ freed' \subseteq freed \cup {p}
    BY <2>1, <2>2, PutStep
  <2> QED BY <1>5, <2>1, <2>2, <2>3 DEF Drop
<1>6. CASE GetCheck(w)
  BY <1>6 DEF GetCheck
<1>7. CASE TableGet(w)
  <2>1. obj[w] \in Objects
    BY <1>7 DEF TableGet, Placed
  <2>2. count'[o] = count[o]
    BY <1>7, <2>1, IncrementStep DEF TableGet
  <2> QED BY <1>7, <2>2 DEF TableGet
<1>8. CASE Taken(w)
  <2>1. obj[w] \in Objects
    BY <1>8 DEF Taken, Placed
  <2>2. count'[o] = count[o]
    BY <1>8, <2>1, IncrementStep DEF Taken
  <2>3. ASSUME NEW v \in Workers PROVE obj'[v] # o /\ base'[v] # o
    BY <1>8, <2>1 DEF Taken, Types, Continue
  <2>4. ASSUME NEW v \in Workers, NEW n \in DOMAIN mine'[v] PROVE mine'[v][n] # o
    <3>1. CASE v = w
      <4>1. mine'[w] = Append(mine[w], obj[w])
        BY <1>8 DEF Taken, Types
      <4>2. mine[w] \in Seq(Objects) /\ n \in DOMAIN Append(mine[w], obj[w])
        BY <2>4, <3>1, <4>1 DEF Types
      <4>3. Append(mine[w], obj[w])[n] = obj[w] \/ (n \in DOMAIN mine[w] /\ Append(mine[w], obj[w])[n] = mine[w][n])
        BY <4>2, <2>1
      <4> QED BY <3>1, <4>1, <4>3
    <3>2. CASE v # w
      BY <1>8, <2>4, <3>2 DEF Taken, Types
    <3> QED BY <3>1, <3>2
  <2> QED BY <1>8, <2>2, <2>3, <2>4 DEF Taken
<1>9. CASE Store(w)
  <2>1. PICK n \in DOMAIN mine[w] :
          /\ mine' = [mine EXCEPT ![w] = RemoveAt(mine[w], n)]
          /\ stored' = [stored EXCEPT ![content[mine[w][n]]] = mine[w][n]]
    BY <1>9 DEF Store
  <2>2. mine[w] \in Seq(Objects) /\ mine[w][n] # o
    BY DEF Types
  <2>3. ASSUME NEW v \in Workers, NEW k \in DOMAIN mine'[v] PROVE mine'[v][k] # o
    <3>1. CASE v = w
      <4>1. mine'[w] = RemoveAt(mine[w], n)
        BY <2>1 DEF Types
      <4> QED BY <2>2, <2>3, <3>1, <4>1, RemoveHolds
    <3>2. CASE v # w
      BY <2>1, <2>3, <3>2 DEF Types
    <3> QED BY <3>1, <3>2
  <2> QED BY <1>9, <2>1, <2>2, <2>3 DEF Store, Types
<1>10. CASE Discard(w)
  <2>1. PICK n \in DOMAIN mine[w] :
          /\ mine' = [mine EXCEPT ![w] = RemoveAt(mine[w], n)]
          /\ obj' = [obj EXCEPT ![w] = mine[w][n]]
    BY <1>10 DEF Discard
  <2>2. mine[w] \in Seq(Objects) /\ mine[w][n] # o
    BY DEF Types
  <2>3. ASSUME NEW v \in Workers, NEW k \in DOMAIN mine'[v] PROVE mine'[v][k] # o
    <3>1. CASE v = w
      <4>1. mine'[w] = RemoveAt(mine[w], n)
        BY <2>1 DEF Types
      <4> QED BY <2>2, <2>3, <3>1, <4>1, RemoveHolds
    <3>2. CASE v # w
      BY <2>1, <2>3, <3>2 DEF Types
    <3> QED BY <3>1, <3>2
  <2> QED BY <1>10, <2>1, <2>2, <2>3 DEF Discard, Load, Types
<1>11. CASE SnapPut(w)
  <2>1. obj[w] \in Objects
    BY <1>11 DEF SnapPut, Placed
  <2>2. count'[o] = count[o] /\ freed' \subseteq freed \cup {obj[w]}
    BY <1>11, <2>1, PutStep DEF SnapPut
  <2> QED BY <1>11, <2>2 DEF SnapPut, Continue, Types
<1>12. CASE EraseFind(w)
  BY <1>12 DEF EraseFind, Continue, Types
<1>13. CASE Bury(w)
  BY <1>13 DEF Bury, Continue, Types
<1> QED
  BY <1>1, <1>2, <1>3, <1>4, <1>5, <1>6, <1>7, <1>8, <1>9, <1>10, <1>11, <1>12, <1>13 DEF Step

\* Only Write gives an object a content, and only then.
LEMMA WriteStep ==
  ASSUME Types, NEW w \in Workers, Step(w)
  PROVE  \/ /\ content' = content
            /\ \A v \in Workers : own'[v] = own[v] \/ (v = w /\ own'[v] = None)
            /\ Insert(w) => own'[w] = None
         \/ \E o \in Objects, c \in Contents :
              /\ content[o] = None /\ content' = [content EXCEPT ![o] = c]
              /\ own' = [own EXCEPT ![w] = o] /\ Write(w) /\ pc[w] = "run"
<1> USE DEF Types, pool
<1>1. CASE Write(w)
  <2> DEFINE o == CHOOSE o \in Objects : content[o] = None
  <2>1. o \in Objects /\ content[o] = None
    BY <1>1 DEF Write
  <2>2. PICK c \in Contents : content' = [content EXCEPT ![o] = c]
    BY <1>1 DEF Write
  <2>3. own' = [own EXCEPT ![w] = o] /\ pc[w] = "run"
    BY <1>1 DEF Write
  <2> QED BY <1>1, <2>1, <2>2, <2>3
<1>2. CASE ~Write(w)
  <2>1. content' = content
    BY <1>2 DEF Step, LoadState, Snapshot, Insert, Drop, GetCheck, TableGet,
       Taken, Store, Discard, SnapPut, EraseFind, Bury
  <2>2. own' = own \/ own' = [own EXCEPT ![w] = None]
    BY <1>2 DEF Step, LoadState, Load, Snapshot, Insert, Drop, GetCheck, TableGet,
       Taken, Store, Discard, SnapPut, EraseFind, Bury
  <2>3. Insert(w) => own' = [own EXCEPT ![w] = None]
    BY DEF Insert
  <2> QED BY <2>1, <2>2, <2>3
<1> QED BY <1>1, <1>2

LEMMA PrivateStep ==
  ASSUME Types, Placed, Private, NEW w \in Workers, Step(w)
  PROVE  Private'
<1>0. /\ Workers' = Workers /\ None \notin Objects /\ None \notin Contents
      /\ own \in [Workers -> Objects \cup {None}] /\ content \in [Objects -> Contents \cup {None}]
  BY Given DEF Types
<1>1. ASSUME NEW o \in Objects, content'[o] = None
      PROVE  Unknown(o)'
  <2>1. content[o] = None
    BY <1>0, <1>1, WriteStep
  <2>2. Unknown(o) /\ own[w] # o
    BY <2>1 DEF Private
  <2> QED BY <2>2, UnknownStep
<1>2. ASSUME NEW v \in Workers, NEW o \in Objects, own'[v] = o
      PROVE  /\ Unknown(o)' /\ content'[o] # None
             /\ \A u \in Workers : own'[u] = o => u = v
  <2>1. CASE content' = content /\ \A u \in Workers : own'[u] = own[u] \/ (u = w /\ own'[u] = None)
    <3>1. own[v] = o
      BY <1>0, <1>2, <2>1
    <3>2. Unknown(o) /\ content[o] # None /\ \A u \in Workers : own[u] = o => u = v
      BY <3>1 DEF Private
    <3>3. ~(Insert(w) /\ own[w] = o)
      <4>1. SUFFICES ASSUME Insert(w), own[w] = o PROVE FALSE
        OBVIOUS
      <4>2. own'[w] = None
        BY <4>1 DEF Insert, Types
      <4>3. w = v
        BY <3>2, <4>1
      <4> QED BY <1>0, <1>2, <4>2, <4>3
    <3>4. Unknown(o)'
      BY <3>2, <3>3, UnknownStep
    <3>5. \A u \in Workers : own'[u] = o => u = v
      BY <1>0, <1>2, <2>1, <3>2
    <3> QED BY <3>2, <3>4, <3>5, <2>1
  <2>2. CASE \E p \in Objects, c \in Contents :
               /\ content[p] = None /\ content' = [content EXCEPT ![p] = c]
               /\ own' = [own EXCEPT ![w] = p] /\ Write(w) /\ pc[w] = "run"
    <3>1. PICK p \in Objects, c \in Contents :
               /\ content[p] = None /\ content' = [content EXCEPT ![p] = c]
               /\ own' = [own EXCEPT ![w] = p] /\ Write(w) /\ pc[w] = "run"
      BY <2>2
    <3>2. ~Insert(w)
      BY <3>1 DEF Insert
    <3>3. Unknown(p) /\ \A u \in Workers : own[u] # p
      BY <1>0, <3>1 DEF Private
    <3>4. CASE v = w
      <4>1. o = p /\ content'[o] = c
        BY <1>0, <1>2, <3>1, <3>4
      <4>2. Unknown(o)'
        BY <3>2, <3>3, <4>1, UnknownStep
      <4> QED BY <1>0, <3>1, <3>3, <3>4, <4>1, <4>2
    <3>5. CASE v # w
      <4>1. own[v] = o
        BY <1>0, <1>2, <3>1, <3>5
      <4>2. Unknown(o) /\ content[o] # None /\ \A u \in Workers : own[u] = o => u = v
        BY <4>1 DEF Private
      <4>3. Unknown(o)' /\ o # p
        BY <3>2, <3>3, <4>1, <4>2, UnknownStep
      <4> QED BY <1>0, <3>1, <3>5, <4>2, <4>3
    <3> QED BY <3>4, <3>5
  <2> QED BY <2>1, <2>2, WriteStep
<1> QED BY <1>0, <1>1, <1>2 DEF Private

-----------------------------------------------------------------------------
(* Which steps change the number of holders *)

\* The kinds of holders, in a state and in the next.
LEMMA Sums ==
  ASSUME Types, inst' = inst, NEW o
  PROVE  /\ IsFiniteSet(HeldIn(Workers, mine, o)) /\ Cardinality(HeldIn(Workers, mine, o)) \in Nat
         /\ IsFiniteSet(Kept(o)) /\ Cardinality(Kept(o)) \in Nat
         /\ IsFiniteSet(Putting(o)) /\ Cardinality(Putting(o)) \in Nat
         /\ IsFiniteSet(Holders(o)) /\ IsFiniteSet(Holders(o)')
         /\ Cardinality(Holders(o)) \in Nat /\ Cardinality(Holders(o)') \in Nat
         /\ Cardinality(Holders(o))
              = Cardinality(HeldIn(Workers, mine, o)) + Cardinality(Kept(o)) + Cardinality(Putting(o))
         /\ Cardinality(Holders(o)')
              = Cardinality(HeldIn(Workers, mine', o)) + Cardinality(Kept(o)') + Cardinality(Putting(o)')
<1>1. Parts(o)
  BY HoldersSplit DEF Types
<1>2. Parts(o)'
  BY HoldersSplitNext DEF Types
<1>3. Workers' = Workers
  BY DEF Workers
<1>4. /\ IsFiniteSet(Holders(o)')
      /\ Cardinality(Holders(o)')
           = Cardinality(HeldIn(Workers, mine', o)) + Cardinality(Kept(o)') + Cardinality(Putting(o)')
  BY <1>2, <1>3 DEF Parts
<1>5. Cardinality(Holders(o)) \in Nat /\ Cardinality(Holders(o)') \in Nat
  BY <1>1, <1>4, FS_CardinalityType DEF Parts
<1> QED BY <1>1, <1>4, <1>5 DEF Parts

\* A step of a worker that is not about to put a snapshot, before or after it, and leaves
\* the snapshots alone.
LEMMA HoldersSame ==
  ASSUME Types, NEW w \in Workers, inst' = inst, mine' = mine, stored' = stored,
         pc[w] # "put", pc'[w] # "put",
         \A v \in Workers : v # w => pc'[v] = pc[v] /\ obj'[v] = obj[v],
         NEW o
  PROVE  Holders(o)' = Holders(o)
<1>1. Workers' = Workers
  BY DEF Workers
<1>2. Putting(o)' = Putting(o)
  BY <1>1 DEF Putting
<1> QED BY <1>1, <1>2 DEF Holders, Putting

\* Taken adds a private snapshot.
LEMMA HoldersTaken ==
  ASSUME Types, Placed, NEW w \in Workers, Taken(w), NEW o \in Objects
  PROVE  Cardinality(Holders(o)') = Cardinality(Holders(o)) + One(obj[w] = o)
<1>0. /\ inst' = inst /\ stored' = stored /\ Workers' = Workers
      /\ obj[w] \in Objects /\ mine[w] \in Seq(Objects) /\ Len(mine[w]) < MaxHeld
      /\ Len(mine[w]) \in Nat /\ MaxHeld \in Nat
      /\ mine' = [mine EXCEPT ![w] = Append(mine[w], obj[w])]
  <2>1. pc[w] \in {"inc", "taken"}
    BY DEF Taken
  <2>2. obj[w] \in Objects /\ Len(mine[w]) < MaxHeld /\ mine[w] \in Seq(Objects)
    BY <2>1 DEF Placed, Types
  <2>3. Len(mine[w]) \in Nat
    BY <2>2
  <2>4. inst' = inst /\ stored' = stored /\ mine' = [mine EXCEPT ![w] = Append(mine[w], obj[w])]
    BY DEF Taken
  <2> QED BY CowAssumption, <2>2, <2>3, <2>4 DEF CowAssumption, Workers
<1>1. Kept(o)' = Kept(o)
  BY <1>0 DEF Kept
<1>2. Putting(o)' = Putting(o)
  BY <1>0 DEF Putting, Taken, Continue, Goto, Types
<1> DEFINE l == Len(mine[w]) + 1
           A == HeldIn(Workers, mine, o)
<1>3. /\ l \in 1..MaxHeld /\ l \notin DOMAIN mine[w]
      /\ mine'[w] = Append(mine[w], obj[w]) /\ \A v \in Workers : v # w => mine'[v] = mine[v]
      /\ DOMAIN mine'[w] = DOMAIN mine[w] \cup {l}
      /\ mine'[w][l] = obj[w] /\ \A k \in DOMAIN mine[w] : mine'[w][k] = mine[w][k]
  BY <1>0 DEF Types
<1>4. <<w, l>> \notin A
  BY <1>3 DEF HeldIn
<1> HIDE DEF l
<1>5. CASE obj[w] = o
  <2>1. HeldIn(Workers, mine', o) = A \cup {<<w, l>>}
    <3>1. ASSUME NEW h \in Workers \X (1..MaxHeld)
          PROVE  h \in HeldIn(Workers, mine', o) <=> h \in A \cup {<<w, l>>}
      <4>1. CASE h[1] = w
        BY <1>3, <1>5, <4>1 DEF HeldIn
      <4>2. CASE h[1] # w
        BY <1>3, <4>2 DEF HeldIn
      <4> QED BY <4>1, <4>2
    <3>2. <<w, l>> \in Workers \X (1..MaxHeld)
      BY <1>3
    <3>3. A \subseteq Workers \X (1..MaxHeld) /\ HeldIn(Workers, mine', o) \subseteq Workers \X (1..MaxHeld)
      BY DEF HeldIn
    <3> HIDE DEF A
    <3> QED BY <3>1, <3>2, <3>3
  <2>2. IsFiniteSet(A) /\ Cardinality(A) \in Nat
    BY <1>0, Sums
  <2>3. Cardinality(A \cup {<<w, l>>}) = Cardinality(A) + 1
    BY <1>4, <2>2, FS_AddElement
  <2> HIDE DEF A
  <2>4. Cardinality(HeldIn(Workers, mine', o)) = Cardinality(A) + 1
    BY <2>1, <2>3
  <2>5. /\ Cardinality(Holders(o)) = Cardinality(A) + Cardinality(Kept(o)) + Cardinality(Putting(o))
        /\ Cardinality(Holders(o)')
             = Cardinality(HeldIn(Workers, mine', o)) + Cardinality(Kept(o)') + Cardinality(Putting(o)')
        /\ Cardinality(Kept(o)) \in Nat /\ Cardinality(Putting(o)) \in Nat
    BY <1>0, Sums DEF A
  <2> QED BY <1>1, <1>2, <1>5, <2>2, <2>4, <2>5 DEF One
<1>6. CASE obj[w] # o
  <2>1. HeldIn(Workers, mine', o) = A
    <3>1. ASSUME NEW h \in Workers \X (1..MaxHeld)
          PROVE  h \in HeldIn(Workers, mine', o) <=> h \in A
      <4>1. CASE h[1] = w
        BY <1>3, <1>6, <4>1 DEF HeldIn
      <4>2. CASE h[1] # w
        BY <1>3, <4>2 DEF HeldIn
      <4> QED BY <4>1, <4>2
    <3>2. A \subseteq Workers \X (1..MaxHeld) /\ HeldIn(Workers, mine', o) \subseteq Workers \X (1..MaxHeld)
      BY DEF HeldIn
    <3> HIDE DEF A
    <3> QED BY <3>1, <3>2
  <2>5. /\ Cardinality(Holders(o)) = Cardinality(A) + Cardinality(Kept(o)) + Cardinality(Putting(o))
        /\ Cardinality(Holders(o)')
             = Cardinality(HeldIn(Workers, mine', o)) + Cardinality(Kept(o)') + Cardinality(Putting(o)')
        /\ Cardinality(Holders(o)) \in Nat
    BY <1>0, Sums
  <2> HIDE DEF A
  <2> QED BY <1>1, <1>2, <1>6, <2>1, <2>5 DEF One
<1> QED BY <1>5, <1>6

\* A snapshot that becomes a state is one before and after.
LEMMA HoldersStore ==
  ASSUME Types, Placed, Private, NEW w \in Workers, Store(w), NEW o \in Objects
  PROVE  Cardinality(Holders(o)') = Cardinality(Holders(o))
<1>1. PICK n \in DOMAIN mine[w] :
        /\ stored[content[mine[w][n]]] = None
        /\ stored' = [stored EXCEPT ![content[mine[w][n]]] = mine[w][n]]
        /\ mine' = [mine EXCEPT ![w] = RemoveAt(mine[w], n)]
  BY DEF Store
<1> DEFINE s == mine[w][n]
           A == HeldIn(Workers, mine, o)
<1>2. /\ inst' = inst /\ Workers' = Workers /\ pc' = pc /\ obj' = obj /\ s \in Objects
      /\ IsFiniteSet(Workers) /\ None \notin Objects
  BY CowAssumption DEF CowAssumption, Types, Store, Workers
<1>3. content[s] \in Contents
  BY <1>2 DEF Types, Private, Unknown
<1>4. \A v \in Workers : Len(mine[v]) <= MaxHeld
  BY DEF Placed
<1>5. /\ s = o => Cardinality(HeldIn(Workers, mine', o)) = Cardinality(A) - 1
      /\ s # o => Cardinality(HeldIn(Workers, mine', o)) = Cardinality(A)
  <2>1. mine \in [Workers -> Seq(Objects)]
    BY DEF Types
  <2>2. IsFiniteSet(Workers)
    BY <1>2
  <2>3. mine' = [mine EXCEPT ![w] = RemoveAt(mine[w], n)]
    BY <1>1
  <2>4. OneLess(Workers, mine, w, n, mine', o)
    BY <1>4, <2>1, <2>2, <2>3, HeldRemove
  <2> QED BY <2>4 DEF OneLess
<1>6. Putting(o)' = Putting(o)
  BY <1>2 DEF Putting
<1>7. CASE s = o
  <2>1. Kept(o)' = Kept(o) \cup {content[s]} /\ content[s] \notin Kept(o)
    BY <1>1, <1>2, <1>3, <1>7 DEF Kept, Types
  <2>2. Cardinality(Kept(o)') = Cardinality(Kept(o)) + 1
    <3>1. IsFiniteSet(Kept(o))
      BY <1>2, Sums
    <3> QED BY <2>1, <3>1, FS_AddElement
  <2> HIDE DEF s
  <2> QED BY <1>2, <1>5, <1>6, <1>7, <2>2, Sums
<1>8. CASE s # o
  <2>1. Kept(o)' = Kept(o)
    BY <1>1, <1>2, <1>3, <1>8 DEF Kept, Types
  <2> HIDE DEF s
  <2> QED BY <1>2, <1>5, <1>6, <1>8, <2>1, Sums
<1> QED BY <1>7, <1>8

\* So is one that is about to be put.
LEMMA HoldersDiscard ==
  ASSUME Types, Placed, NEW w \in Workers, Discard(w), NEW o \in Objects
  PROVE  Cardinality(Holders(o)') = Cardinality(Holders(o))
<1>1. PICK n \in DOMAIN mine[w] :
        /\ obj' = [obj EXCEPT ![w] = mine[w][n]]
        /\ mine' = [mine EXCEPT ![w] = RemoveAt(mine[w], n)]
  BY DEF Discard
<1> DEFINE s == mine[w][n]
           A == HeldIn(Workers, mine, o)
<1>2. /\ inst' = inst /\ Workers' = Workers /\ stored' = stored
      /\ pc[w] = "run" /\ pc' = [pc EXCEPT ![w] = "put"]
      /\ IsFiniteSet(Workers)
  BY CowAssumption DEF CowAssumption, Types, Discard, Workers, Goto
<1>4. \A v \in Workers : Len(mine[v]) <= MaxHeld
  BY DEF Placed
<1>5. /\ s = o => Cardinality(HeldIn(Workers, mine', o)) = Cardinality(A) - 1
      /\ s # o => Cardinality(HeldIn(Workers, mine', o)) = Cardinality(A)
  <2>1. mine \in [Workers -> Seq(Objects)]
    BY DEF Types
  <2>2. IsFiniteSet(Workers)
    BY <1>2
  <2>3. mine' = [mine EXCEPT ![w] = RemoveAt(mine[w], n)]
    BY <1>1
  <2>4. OneLess(Workers, mine, w, n, mine', o)
    BY <1>4, <2>1, <2>2, <2>3, HeldRemove
  <2> QED BY <2>4 DEF OneLess
<1>6. Kept(o)' = Kept(o)
  BY <1>2 DEF Kept
<1>7. CASE s = o
  <2>1. Putting(o)' = Putting(o) \cup {w} /\ w \notin Putting(o)
    BY <1>1, <1>2, <1>7 DEF Putting, Types
  <2>2. Cardinality(Putting(o)') = Cardinality(Putting(o)) + 1
    <3>1. IsFiniteSet(Putting(o))
      BY <1>2, Sums
    <3> QED BY <2>1, <3>1, FS_AddElement
  <2> HIDE DEF s
  <2> QED BY <1>2, <1>5, <1>6, <1>7, <2>2, Sums
<1>8. CASE s # o
  <2>1. Putting(o)' = Putting(o)
    BY <1>1, <1>2, <1>8 DEF Putting, Types
  <2> HIDE DEF s
  <2> QED BY <1>2, <1>5, <1>6, <1>8, <2>1, Sums
<1> QED BY <1>7, <1>8

\* A put that is counted is over.
LEMMA HoldersPut ==
  ASSUME Types, Placed, NEW w \in Workers, SnapPut(w), NEW o \in Objects
  PROVE  /\ Cardinality(Holders(o)') = Cardinality(Holders(o)) - One(obj[w] = o)
         /\ obj[w] = o => Cardinality(Holders(o)) >= 1
<1>1. /\ inst' = inst /\ Workers' = Workers /\ stored' = stored /\ mine' = mine
      /\ pc[w] = "put" /\ pc'[w] # "put" /\ obj[w] \in Objects
      /\ \A v \in Workers : v # w => pc'[v] = pc[v] /\ obj'[v] = obj[v]
  BY DEF Types, SnapPut, Workers, Continue, Goto, Placed
<1>2. Kept(o)' = Kept(o)
  BY <1>1 DEF Kept
<1>3. CASE obj[w] = o
  <2>1. Putting(o)' = Putting(o) \ {w} /\ w \in Putting(o)
    BY <1>1, <1>3 DEF Putting
  <2>2. IsFiniteSet(Putting(o))
    BY <1>1, Sums
  <2>3. Cardinality(Putting(o)') = Cardinality(Putting(o)) - 1
    BY <2>1, <2>2, FS_RemoveElement
  <2>4. Cardinality(Putting(o)) # 0
    BY <2>1, <2>2, FS_EmptySet
  <2> QED BY <1>1, <1>2, <1>3, <2>3, <2>4, Sums DEF One
<1>4. CASE obj[w] # o
  <2>1. Putting(o)' = Putting(o)
    BY <1>1, <1>4 DEF Putting
  <2> QED BY <1>1, <1>2, <1>4, <2>1, Sums DEF One
<1> QED BY <1>3, <1>4

-----------------------------------------------------------------------------
(* The references of the table *)

\* A step touches what its worker does, and nothing another worker does.
LEMMA OthersStay ==
  ASSUME Types, NEW w \in Workers, Step(w), NEW v \in Workers, v # w
  PROVE  pc'[v] = pc[v] /\ obj'[v] = obj[v]
<1>1. CASE LoadState(w)
  BY <1>1 DEF LoadState, Types
<1>2. CASE Write(w)
  BY <1>2 DEF Write, Types
<1>3. CASE Snapshot(w)
  BY <1>3 DEF Snapshot, Goto, Types
<1>4. CASE Insert(w)
  BY <1>4 DEF Insert, Goto, Types
<1>5. CASE Drop(w)
  BY <1>5 DEF Drop, Types
<1>6. CASE GetCheck(w)
  BY <1>6 DEF GetCheck, Goto, Types
<1>7. CASE TableGet(w)
  BY <1>7 DEF TableGet, Goto, Types
<1>8. CASE Taken(w)
  BY <1>8 DEF Taken, Continue, Goto, Types
<1>9. CASE Store(w)
  BY <1>9 DEF Store, Types
<1>10. CASE Discard(w)
  BY <1>10 DEF Discard, Goto, Types
<1>11. CASE SnapPut(w)
  BY <1>11 DEF SnapPut, Continue, Goto, Types
<1>12. CASE EraseFind(w)
  BY <1>12 DEF EraseFind, Continue, Goto, Types
<1>13. CASE Bury(w)
  BY <1>13 DEF Bury, Continue, Goto, Types
<1> QED
  BY <1>1, <1>2, <1>3, <1>4, <1>5, <1>6, <1>7, <1>8, <1>9, <1>10, <1>11, <1>12, <1>13 DEF Step

\* Objects never leave the pool; a worker begins to count where it inserts.
LEMMA CountingStep ==
  ASSUME Types, Placed, NEW w \in Workers, Step(w)
  PROVE  /\ freed \subseteq freed'
         /\ Counting(w)' => \/ Counting(w) /\ obj'[w] = obj[w]
                            \/ Insert(w) /\ pc[w] = "insert" /\ obj'[w] = own[w] /\ own[w] \in Objects
<1>1. freed \subseteq freed'
  <2>1. CASE Drop(w)
    <3>1. PICK p \in tombs : Put(p)
      BY <2>1 DEF Drop
    <3> QED BY <3>1, PutStep DEF Types
  <2>2. CASE SnapPut(w)
    BY <2>2, PutStep DEF SnapPut, Placed
  <2>3. CASE ~Drop(w) /\ ~SnapPut(w)
    BY <2>3 DEF Step, LoadState, Write, Snapshot, Insert, GetCheck, TableGet, Taken, Store, Discard,
       EraseFind, Bury, pool
  <2> QED BY <2>1, <2>2, <2>3
<1>2. ASSUME Counting(w)'
      PROVE  \/ Counting(w) /\ obj'[w] = obj[w]
             \/ Insert(w) /\ pc[w] = "insert" /\ obj'[w] = own[w] /\ own[w] \in Objects
  <2> USE DEF Counting, Types
  <2>1. CASE LoadState(w)
    BY <1>2, <2>1 DEF LoadState
  <2>2. CASE Write(w)
    BY <1>2, <2>2 DEF Write
  <2>3. CASE Snapshot(w)
    BY <1>2, <2>3 DEF Snapshot, Goto
  <2>4. CASE Insert(w)
    BY <1>2, <2>4 DEF Insert, Goto, Placed
  <2>5. CASE Drop(w)
    BY <1>2, <2>5 DEF Drop
  <2>6. CASE GetCheck(w)
    BY <1>2, <2>6 DEF GetCheck, Goto
  <2>7. CASE TableGet(w)
    BY <1>2, <2>7 DEF TableGet, Goto
  <2>8. CASE Taken(w)
    BY <1>2, <2>8 DEF Taken, Continue, Goto
  <2>9. CASE Store(w)
    BY <1>2, <2>9 DEF Store
  <2>10. CASE Discard(w)
    BY <1>2, <2>10 DEF Discard, Goto
  <2>11. CASE SnapPut(w)
    BY <1>2, <2>11 DEF SnapPut, Continue, Goto
  <2>12. CASE EraseFind(w)
    BY <1>2, <2>12 DEF EraseFind, Continue, Goto
  <2>13. CASE Bury(w)
    BY <1>2, <2>13 DEF Bury, Continue, Goto
  <2> QED
    BY <2>1, <2>2, <2>3, <2>4, <2>5, <2>6, <2>7, <2>8, <2>9, <2>10, <2>11, <2>12, <2>13 DEF Step
<1> QED BY <1>1, <1>2

LEMMA OneCountsStep ==
  ASSUME Types, Placed, Private, OneCounts, NEW w \in Workers, Step(w)
  PROVE  OneCounts'
<1>1. Workers' = Workers
  BY Given
<1>2. ASSUME NEW v \in Workers, v # w, Counting(w)', Counting(v)', obj'[w] = obj'[v]
      PROVE  FALSE
  <2>1. Counting(v) /\ obj'[v] = obj[v]
    BY <1>2, OthersStay DEF Counting
  <2>2. CASE Counting(w) /\ obj'[w] = obj[w]
    BY <1>2, <2>1, <2>2 DEF OneCounts
  <2>3. CASE obj'[w] = own[w] /\ own[w] \in Objects
    BY <1>2, <2>1, <2>3 DEF Private, Unknown
  <2> QED BY <1>2, <2>2, <2>3, CountingStep
<1>3. ASSUME NEW u \in Workers, NEW v \in Workers, u # w, v # w, Counting(u)', Counting(v)', obj'[u] = obj'[v]
      PROVE  u = v
  BY <1>3, OthersStay DEF Counting, OneCounts
<1> QED BY <1>1, <1>2, <1>3 DEF OneCounts

LEMMA CheckedStep ==
  ASSUME Types, Placed, Checked, Fits, NEW w \in Workers, Step(w)
  PROVE  Checked'
<1>0. /\ inst' = inst /\ Workers' = Workers /\ freed \subseteq freed' /\ (Alone' <=> Alone)
  BY Given, CountingStep DEF Alone
<1>1. ASSUME NEW v \in Workers, pc'[v] \in {"tableinc", "inc"}, Alone
      PROVE  count'[obj'[v]] < inst.limit
  <2>1. v = w
    BY <1>1 DEF Alone
  <2>2. GetCheck(w)
    BY <1>1, <2>1 DEF Types, Step, LoadState, Write, Snapshot, Insert, Drop, TableGet, Taken, Store,
       Discard, SnapPut, EraseFind, Bury, Goto, Continue
  <2> QED BY <1>1, <2>1, <2>2 DEF GetCheck, Goto, Types, pool
<1>2. ASSUME NEW v \in Workers, pc'[v] = "taken"
      PROVE  obj'[v] \in freed' \/ (Alone /\ count'[obj'[v]] = inst.limit)
  <2>1. CASE v # w
    <3>1. pc[v] = "taken" /\ obj'[v] = obj[v]
      BY <1>2, <2>1, OthersStay
    <3>2. ~Alone
      BY <2>1 DEF Alone
    <3> QED BY <1>0, <3>1, <3>2 DEF Checked
  <2>2. CASE v = w
    <3>1. GetCheck(w)
      BY <1>2, <2>2 DEF Types, Step, LoadState, Write, Snapshot, Insert, Drop, TableGet, Taken, Store,
         Discard, SnapPut, EraseFind, Bury, Goto, Continue
    <3>2. /\ ~(count[obj[w]] < inst.limit) /\ obj[w] \in Objects
          /\ obj' = obj /\ count' = count /\ freed' = freed
      BY <1>2, <2>2, <3>1 DEF GetCheck, Goto, Types, pool, Placed
    <3>3. count[obj[w]] = inst.limit
      BY <3>2, Limit DEF Types
    <3> QED BY <2>2, <3>2, <3>3 DEF Fits, Below
  <2> QED BY <2>1, <2>2
<1> QED BY <1>0, <1>1, <1>2 DEF Checked

-----------------------------------------------------------------------------
(* The counters *)

\* The worker does not begin or end to count a reference of the table.
LEMMA UncountedSame ==
  ASSUME Types, NEW w \in Workers, Step(w),
         Counting(w)' <=> Counting(w), Counting(w) => obj'[w] = obj[w], NEW o
  PROVE  Uncounted(o)' <=> Uncounted(o)
<1>1. Workers' = Workers
  BY Given
<1>2. Uncounted(o) <=> \E v \in Workers : Counting(v) /\ obj[v] = o
  BY DEF Uncounted, Counting
<1>3. Uncounted(o)' <=> \E v \in Workers : Counting(v)' /\ obj'[v] = o
  BY <1>1 DEF Uncounted, Counting
<1>4. \A v \in Workers : v # w => (Counting(v)' <=> Counting(v)) /\ obj'[v] = obj[v]
  BY OthersStay DEF Counting
<1> QED BY <1>2, <1>3, <1>4

\* A step that leaves the counters alone, and the terms of the equation.
LEMMA Quiet ==
  ASSUME Exactly, inst' = inst, count' = count, freed \subseteq freed',
         \A o \in Objects : /\ Uncounted(o)' <=> Uncounted(o)
                            /\ InTable(o)' <=> InTable(o)
                            /\ Cardinality(Holders(o)') = Cardinality(Holders(o))
  PROVE  Exactly'
<1>1. \A o \in Objects \ freed : Exact(o) \/ (Alone /\ count[o] = inst.limit)
  BY DEF Exactly
<1>2. Alone' <=> Alone
  BY DEF Alone, Workers
<1>3. ASSUME NEW o \in Objects \ freed'
      PROVE  Exact(o)' \/ (Alone' /\ count'[o] = inst'.limit)
  <2>1. CASE Exact(o)
    <3>1. /\ Uncounted(o)' <=> Uncounted(o)
          /\ InTable(o)' <=> InTable(o)
          /\ Cardinality(Holders(o)') = Cardinality(Holders(o))
      OBVIOUS
    <3>2. One(Uncounted(o)') = One(Uncounted(o)) /\ One(InTable(o)') = One(InTable(o))
      BY <3>1 DEF One
    <3> QED BY <2>1, <3>1, <3>2 DEF Exact
  <2>2. CASE Alone /\ count[o] = inst.limit
    BY <1>2, <2>2
  <2> QED BY <1>1, <2>1, <2>2
<1> QED BY <1>3 DEF Exactly

LEMMA ExactlyStep ==
  ASSUME Types, Placed, Private, Cells, OneCounts, Checked, Exactly, Untouched, Fits,
         NEW w \in Workers, Step(w)
  PROVE  Exactly'
<1>0. /\ inst' = inst /\ Workers' = Workers /\ freed \subseteq freed' /\ (Alone' <=> Alone)
      /\ \A v \in Workers : v # w => pc'[v] = pc[v] /\ obj'[v] = obj[v]
      /\ inst.limit \in Nat /\ inst.limit >= 2
      /\ count \in [Objects -> 0..inst.limit]
  BY Given, CountingStep, OthersStay, Limit DEF Alone, Types
<1>a. \A o \in Objects : Cardinality(Holders(o)) \in Nat /\ Cardinality(Holders(o)') \in Nat
  BY <1>0, Sums
<1>b. ASSUME pc[w] # "put", pc'[w] # "put", mine' = mine, stored' = stored, NEW o \in Objects
      PROVE  Holders(o)' = Holders(o)
  BY <1>0, <1>b, HoldersSame
<1>c. ASSUME Counting(w)' <=> Counting(w), Counting(w) => obj'[w] = obj[w], NEW o \in Objects
      PROVE  Uncounted(o)' <=> Uncounted(o)
  BY <1>c, UncountedSame
<1>1. CASE LoadState(w)
  <2>1. \A o \in Objects : Cardinality(Holders(o)') = Cardinality(Holders(o))
    BY <1>1, <1>b DEF LoadState, Types
  <2>2. (Counting(w)' <=> Counting(w)) /\ (Counting(w) => obj'[w] = obj[w])
    BY <1>1 DEF LoadState, Counting, Types
  <2>3. \A o \in Objects : Uncounted(o)' <=> Uncounted(o)
    BY <1>c, <2>2
  <2>4. count' = count /\ \A o \in Objects : InTable(o)' <=> InTable(o)
    BY <1>1 DEF LoadState, InTable, pool, table
  <2> QED BY <1>0, <2>1, <2>3, <2>4, Quiet
<1>2. CASE Write(w)
  <2>1. \A o \in Objects : Cardinality(Holders(o)') = Cardinality(Holders(o))
    BY <1>2, <1>b DEF Write, Types
  <2>2. (Counting(w)' <=> Counting(w)) /\ (Counting(w) => obj'[w] = obj[w])
    BY <1>2 DEF Write, Counting, Types
  <2>3. \A o \in Objects : Uncounted(o)' <=> Uncounted(o)
    BY <1>c, <2>2
  <2>4. count' = count /\ \A o \in Objects : InTable(o)' <=> InTable(o)
    BY <1>2 DEF Write, InTable, pool, table
  <2> QED BY <1>0, <2>1, <2>3, <2>4, Quiet
<1>3. CASE Snapshot(w)
  <2>1. \A o \in Objects : Cardinality(Holders(o)') = Cardinality(Holders(o))
    BY <1>3, <1>b DEF Snapshot, Goto, Types
  <2>2. (Counting(w)' <=> Counting(w)) /\ (Counting(w) => obj'[w] = obj[w])
    BY <1>3 DEF Snapshot, Goto, Counting, Types
  <2>3. \A o \in Objects : Uncounted(o)' <=> Uncounted(o)
    BY <1>c, <2>2
  <2>4. count' = count /\ \A o \in Objects : InTable(o)' <=> InTable(o)
    BY <1>3 DEF Snapshot, Goto, InTable, pool, table
  <2> QED BY <1>0, <2>1, <2>3, <2>4, Quiet
<1>4. CASE Insert(w)
  <2>1. \A o \in Objects : Holders(o)' = Holders(o)
    BY <1>4, <1>b DEF Insert, Goto, Types
  <2>2. count' = count /\ pc[w] = "insert" /\ own[w] \in Objects
    BY <1>4 DEF Insert, Placed
  <2>3. CASE /\ live' = live \cup {own[w]} /\ tombs' = tombs
             /\ obj' = [obj EXCEPT ![w] = own[w]] /\ Goto(w, "tableget")
    <3>1. ASSUME NEW o \in Objects \ freed'
          PROVE  Exact(o)' \/ (Alone' /\ count'[o] = inst'.limit)
      <4>1. CASE o = own[w]
        <5>1. Unknown(o)
          BY <2>2, <4>1 DEF Private
        <5>2. Holders(o) = {}
          BY <5>1 DEF Holders, Unknown
        <5>3. Uncounted(o)' /\ InTable(o)'
          BY <1>0, <2>3, <4>1 DEF Uncounted, Goto, InTable, Types
        <5>4. count'[o] = 0 /\ Cardinality(Holders(o)') = 0
          BY <2>1, <2>2, <5>1, <5>2, FS_EmptySet DEF Unknown
        <5> QED BY <5>3, <5>4 DEF Exact, One
      <4>2. CASE o # own[w]
        <5>1. Uncounted(o)' <=> Uncounted(o)
          BY <1>0, <2>2, <2>3, <4>2 DEF Uncounted, Goto, Types
        <5>2. InTable(o)' <=> InTable(o)
          BY <2>3, <4>2 DEF InTable
        <5>3. One(Uncounted(o)') = One(Uncounted(o)) /\ One(InTable(o)') = One(InTable(o))
          BY <5>1, <5>2 DEF One
        <5> QED BY <1>0, <2>1, <2>2, <5>3 DEF Exactly, Exact
      <4> QED BY <4>1, <4>2
    <3> QED BY <3>1 DEF Exactly
  <2>4. CASE \E o \in Equal(w) :
               live' = live \cup {o} /\ tombs' = tombs \ {o} /\ Goto(w, "get")
    <3>1. ~Counting(w)' /\ ~Counting(w)
      BY <2>2, <2>4 DEF Counting, Goto, Types
    <3>2. \A o \in Objects : Uncounted(o)' <=> Uncounted(o)
      BY <1>c, <3>1
    <3>3. \A o \in Objects : InTable(o)' <=> InTable(o)
      BY <2>4 DEF Equal, InTable
    <3> QED BY <1>0, <2>1, <2>2, <3>2, <3>3, Quiet
  <2> QED BY <1>4, <2>3, <2>4 DEF Insert
<1>5. CASE Drop(w)
  <2>1. PICK p \in tombs : tombs' = tombs \ {p} /\ Put(p)
    BY <1>5 DEF Drop
  <2>2. p \in Objects
    BY DEF Types
  <2>3. /\ \A o \in Objects : o # p => count'[o] = count[o]
        /\ count[p] = inst.limit => count'[p] = count[p]
        /\ count[p] # inst.limit /\ count[p] > 0 => count'[p] = count[p] - 1
    BY <2>1, <2>2, PutStep
  <2>4. \A o \in Objects : Holders(o)' = Holders(o)
    BY <1>5, <1>b DEF Drop
  <2>5. \A o \in Objects : Uncounted(o)' <=> Uncounted(o)
    BY <1>5, <1>c DEF Drop, Counting
  <2>6. ASSUME NEW o \in Objects \ freed'
        PROVE  Exact(o)' \/ (Alone' /\ count'[o] = inst'.limit)
    <3>1. One(Uncounted(o)') = One(Uncounted(o))
      BY <2>5 DEF One
    <3>2. o \notin freed /\ Cardinality(Holders(o)') = Cardinality(Holders(o)) /\ Cardinality(Holders(o)) \in Nat
      BY <1>0, <1>a, <2>4
    <3>3. CASE o = p
      <4>1. count[p] # 0
        BY <3>2, <3>3 DEF Untouched
      <4>2. CASE Exact(o)
        <5>1. CASE count[o] = inst.limit
          BY <1>0, <2>1, <2>2, <2>3, <3>2, <3>3, <5>1 DEF Fits, Below
        <5>2. CASE count[o] # inst.limit
          <6>1. count'[o] = count[o] - 1
            BY <1>0, <2>2, <2>3, <3>3, <4>1, <5>2
          <6>2. InTable(o)
            BY <3>3 DEF InTable
          <6>3. o \notin live => ~InTable(o)'
            BY <1>5, <2>1, <3>3 DEF InTable, Drop
          <6>4. o \notin live
            BY <3>3 DEF Cells
          <6> QED BY <1>0, <3>1, <3>2, <4>2, <6>1, <6>2, <6>3, <6>4 DEF Exact, One
        <5> QED BY <5>1, <5>2
      <4>3. CASE Alone /\ count[o] = inst.limit
        BY <1>0, <2>3, <3>3, <4>3
      <4> QED BY <3>2, <4>2, <4>3 DEF Exactly
    <3>4. CASE o # p
      <4>1. InTable(o)' <=> InTable(o)
        BY <1>5, <2>1, <3>4 DEF InTable, Drop
      <4>2. One(InTable(o)') = One(InTable(o))
        BY <4>1 DEF One
      <4> QED BY <1>0, <2>3, <3>1, <3>2, <3>4, <4>2 DEF Exactly, Exact
    <3> QED BY <3>3, <3>4
  <2> QED BY <2>6 DEF Exactly
<1>6. CASE GetCheck(w)
  <2>1. \A o \in Objects : Holders(o)' = Holders(o)
    BY <1>6, <1>b DEF GetCheck, Goto, Types
  <2>2. /\ count' = count /\ freed' = freed /\ obj' = obj /\ obj[w] \in Objects
        /\ \A o \in Objects : InTable(o)' <=> InTable(o)
    BY <1>6 DEF GetCheck, pool, table, InTable, Placed
  <2>3. CASE pc[w] = "tableget" /\ ~(count[obj[w]] < inst.limit)
    <3>1. ASSUME NEW o \in Objects \ freed'
          PROVE  Exact(o)' \/ (Alone' /\ count'[o] = inst'.limit)
      <4>1. CASE o = obj[w]
        BY <1>0, <2>2, <2>3, <4>1 DEF Fits, Below
      <4>2. CASE o # obj[w]
        <5>1. Uncounted(o)' <=> Uncounted(o)
          BY <1>0, <1>6, <2>2, <4>2 DEF Uncounted
        <5>2. One(Uncounted(o)') = One(Uncounted(o)) /\ One(InTable(o)') = One(InTable(o))
          BY <2>2, <5>1 DEF One
        <5> QED BY <1>0, <2>1, <2>2, <5>2 DEF Exactly, Exact
      <4> QED BY <4>1, <4>2
    <3> QED BY <3>1 DEF Exactly
  <2>4. CASE ~(pc[w] = "tableget" /\ ~(count[obj[w]] < inst.limit))
    <3>1. Counting(w)' <=> Counting(w)
      BY <1>6, <2>4 DEF GetCheck, Goto, Counting, Types
    <3>2. \A o \in Objects : Uncounted(o)' <=> Uncounted(o)
      BY <1>c, <2>2, <3>1
    <3> QED BY <1>0, <2>1, <2>2, <3>2, Quiet
  <2> QED BY <2>3, <2>4
<1>7. CASE TableGet(w)
  <2>1. \A o \in Objects : Holders(o)' = Holders(o)
    BY <1>7, <1>b DEF TableGet, Goto, Types
  <2>2. /\ freed' = freed /\ obj' = obj /\ obj[w] \in Objects /\ pc[w] = "tableinc" /\ pc'[w] = "get"
        /\ \A o \in Objects : InTable(o)' <=> InTable(o)
    BY <1>7 DEF TableGet, Goto, table, InTable, Placed, Types
  <2>3. /\ \A o \in Objects : o # obj[w] => count'[o] = count[o]
        /\ count[obj[w]] < inst.limit => count'[obj[w]] = count[obj[w]] + 1
    BY <1>7, <2>2, IncrementStep DEF TableGet
  <2>4. ASSUME NEW o \in Objects \ freed'
        PROVE  Exact(o)' \/ (Alone' /\ count'[o] = inst'.limit)
    <3>1. One(InTable(o)') = One(InTable(o)) /\ Holders(o)' = Holders(o) /\ o \in Objects \ freed
      BY <2>1, <2>2 DEF One
    <3>2. CASE o = obj[w]
      <4>1. count[o] < inst.limit
        BY <2>2, <3>1, <3>2 DEF Fits, Below, Checked
      <4>2. Exact(o)
        BY <1>0, <3>1, <4>1 DEF Exactly
      <4>3. Uncounted(o)
        BY <2>2, <3>2 DEF Uncounted
      <4>4. ~Uncounted(o)'
        <5>1. \A v \in Workers : v # w => ~(Counting(v) /\ obj[v] = o)
          BY <2>2, <3>2 DEF OneCounts, Counting
        <5> QED BY <1>0, <2>2, <5>1 DEF Uncounted, Counting
      <4> QED BY <1>0, <1>a, <2>3, <3>1, <3>2, <4>1, <4>2, <4>3, <4>4 DEF Exact, One
    <3>3. CASE o # obj[w]
      <4>1. Uncounted(o)' <=> Uncounted(o)
        BY <1>0, <2>2, <3>3 DEF Uncounted
      <4>2. One(Uncounted(o)') = One(Uncounted(o))
        BY <4>1 DEF One
      <4> QED BY <1>0, <2>3, <3>1, <3>3, <4>2 DEF Exactly, Exact
    <3> QED BY <3>2, <3>3
  <2> QED BY <2>4 DEF Exactly
<1>8. CASE Taken(w)
  <2>1. \A o \in Objects : Cardinality(Holders(o)') = Cardinality(Holders(o)) + One(obj[w] = o)
    BY <1>8, HoldersTaken
  <2>2. /\ freed' = freed /\ obj[w] \in Objects /\ pc[w] \in {"inc", "taken"}
        /\ \A o \in Objects : InTable(o)' <=> InTable(o)
    BY <1>8 DEF Taken, table, InTable, Placed
  <2>3. ~Counting(w) /\ ~Counting(w)'
    BY <1>8 DEF Taken, Continue, Goto, Types, Counting
  <2>4. \A o \in Objects : Uncounted(o)' <=> Uncounted(o)
    BY <1>c, <2>3
  <2>5. /\ \A o \in Objects : o # obj[w] => count'[o] = count[o]
        /\ pc[w] = "inc" /\ count[obj[w]] < inst.limit => count'[obj[w]] = count[obj[w]] + 1
        /\ pc[w] = "taken" => count' = count
    BY <1>8, <2>2, IncrementStep DEF Taken
  <2>6. ASSUME NEW o \in Objects \ freed'
        PROVE  Exact(o)' \/ (Alone' /\ count'[o] = inst'.limit)
    <3>1. /\ One(InTable(o)') = One(InTable(o)) /\ One(Uncounted(o)') = One(Uncounted(o))
          /\ o \in Objects \ freed
      BY <2>2, <2>4 DEF One
    <3>2. CASE o = obj[w] /\ pc[w] = "inc"
      <4>1. count[o] < inst.limit
        BY <2>2, <3>1, <3>2 DEF Fits, Below, Checked
      <4>2. Exact(o)
        BY <1>0, <3>1, <4>1 DEF Exactly
      <4>3. Cardinality(Holders(o)') = Cardinality(Holders(o)) + 1 /\ count'[o] = count[o] + 1
        BY <2>1, <2>5, <3>2, <4>1 DEF One
      <4> QED BY <1>0, <1>a, <3>1, <4>2, <4>3 DEF Exact, One
    <3>3. CASE o = obj[w] /\ pc[w] = "taken"
      BY <1>0, <2>5, <3>1, <3>3 DEF Checked
    <3>4. CASE o # obj[w]
      <4>1. Cardinality(Holders(o)') = Cardinality(Holders(o)) /\ count'[o] = count[o]
        BY <1>a, <2>1, <2>5, <3>4 DEF One
      <4> QED BY <1>0, <3>1, <4>1 DEF Exactly, Exact
    <3> QED BY <2>2, <3>2, <3>3, <3>4
  <2> QED BY <2>6 DEF Exactly
<1>9. CASE Store(w)
  <2>1. \A o \in Objects : Cardinality(Holders(o)') = Cardinality(Holders(o))
    BY <1>9, HoldersStore
  <2>2. (Counting(w)' <=> Counting(w)) /\ (Counting(w) => obj'[w] = obj[w])
    BY <1>9 DEF Store, Counting, Types
  <2>3. \A o \in Objects : Uncounted(o)' <=> Uncounted(o)
    BY <1>c, <2>2
  <2>4. count' = count /\ \A o \in Objects : InTable(o)' <=> InTable(o)
    BY <1>9 DEF Store, InTable, pool, table
  <2> QED BY <1>0, <2>1, <2>3, <2>4, Quiet
<1>10. CASE Discard(w)
  <2>1. \A o \in Objects : Cardinality(Holders(o)') = Cardinality(Holders(o))
    BY <1>10, HoldersDiscard
  <2>2. (Counting(w)' <=> Counting(w)) /\ (Counting(w) => obj'[w] = obj[w])
    BY <1>10 DEF Discard, Goto, Counting, Types
  <2>3. \A o \in Objects : Uncounted(o)' <=> Uncounted(o)
    BY <1>c, <2>2
  <2>4. count' = count /\ \A o \in Objects : InTable(o)' <=> InTable(o)
    BY <1>10 DEF Discard, Goto, InTable, pool, table
  <2> QED BY <1>0, <2>1, <2>3, <2>4, Quiet
<1>11. CASE SnapPut(w)
  <2>1. \A o \in Objects : /\ Cardinality(Holders(o)') = Cardinality(Holders(o)) - One(obj[w] = o)
                           /\ obj[w] = o => Cardinality(Holders(o)) >= 1
    BY <1>11, HoldersPut
  <2>2. obj[w] \in Objects /\ \A o \in Objects : InTable(o)' <=> InTable(o)
    BY <1>11 DEF SnapPut, table, InTable, Placed
  <2>3. ~Counting(w) /\ ~Counting(w)'
    BY <1>11 DEF SnapPut, Continue, Goto, Types, Counting
  <2>4. \A o \in Objects : Uncounted(o)' <=> Uncounted(o)
    BY <1>c, <2>3
  <2>5. /\ \A o \in Objects : o # obj[w] => count'[o] = count[o]
        /\ count[obj[w]] = inst.limit => count'[obj[w]] = count[obj[w]]
        /\ count[obj[w]] # inst.limit /\ count[obj[w]] > 0 => count'[obj[w]] = count[obj[w]] - 1
    BY <1>11, <2>2, PutStep DEF SnapPut
  <2>6. ASSUME NEW o \in Objects \ freed'
        PROVE  Exact(o)' \/ (Alone' /\ count'[o] = inst'.limit)
    <3>1. /\ One(InTable(o)') = One(InTable(o)) /\ One(Uncounted(o)') = One(Uncounted(o))
          /\ o \in Objects \ freed
      BY <1>0, <2>2, <2>4 DEF One
    <3>2. CASE o = obj[w]
      <4>1. Holders(o) # {}
        BY <2>1, <3>2, FS_EmptySet
      <4>2. count[o] # 0
        BY <3>1, <4>1 DEF Untouched
      <4>3. CASE count[o] = inst.limit
        BY <1>0, <2>5, <3>1, <3>2, <4>3 DEF Fits, Below
      <4>4. CASE count[o] # inst.limit
        <5>1. Exact(o)
          BY <3>1, <4>4 DEF Exactly
        <5>2. Cardinality(Holders(o)') = Cardinality(Holders(o)) - 1 /\ count'[o] = count[o] - 1
          BY <1>0, <2>1, <2>5, <3>2, <4>2, <4>4 DEF One
        <5> QED BY <1>0, <1>a, <3>1, <5>1, <5>2 DEF Exact, One
      <4> QED BY <4>3, <4>4
    <3>3. CASE o # obj[w]
      <4>1. Cardinality(Holders(o)') = Cardinality(Holders(o)) /\ count'[o] = count[o]
        BY <1>a, <2>1, <2>5, <3>3 DEF One
      <4> QED BY <1>0, <3>1, <4>1 DEF Exactly, Exact
    <3> QED BY <3>2, <3>3
  <2> QED BY <2>6 DEF Exactly
<1>12. CASE EraseFind(w)
  <2>1. \A o \in Objects : Cardinality(Holders(o)') = Cardinality(Holders(o))
    BY <1>12, <1>b DEF EraseFind, Continue, Goto, Types
  <2>2. (Counting(w)' <=> Counting(w)) /\ (Counting(w) => obj'[w] = obj[w])
    BY <1>12 DEF EraseFind, Continue, Goto, Counting, Types
  <2>3. \A o \in Objects : Uncounted(o)' <=> Uncounted(o)
    BY <1>c, <2>2
  <2>4. count' = count /\ \A o \in Objects : InTable(o)' <=> InTable(o)
    BY <1>12 DEF EraseFind, Continue, Goto, InTable, pool, table
  <2> QED BY <1>0, <2>1, <2>3, <2>4, Quiet
<1>13. CASE Bury(w)
  <2>1. \A o \in Objects : Cardinality(Holders(o)') = Cardinality(Holders(o))
    BY <1>13, <1>b DEF Bury, Continue, Goto, Types
  <2>2. (Counting(w)' <=> Counting(w)) /\ (Counting(w) => obj'[w] = obj[w])
    BY <1>13 DEF Bury, Continue, Goto, Counting, Types
  <2>3. \A o \in Objects : Uncounted(o)' <=> Uncounted(o)
    BY <1>c, <2>2
  <2>4. count' = count /\ \A o \in Objects : InTable(o)' <=> InTable(o)
    BY <1>13 DEF Bury, Continue, Goto, InTable, pool, table
  <2> QED BY <1>0, <2>1, <2>3, <2>4, Quiet
<1> QED
  BY <1>1, <1>2, <1>3, <1>4, <1>5, <1>6, <1>7, <1>8, <1>9, <1>10, <1>11, <1>12, <1>13 DEF Step

LEMMA CellsStep ==
  ASSUME Types, Placed, Private, Cells, NEW w \in Workers, Step(w)
  PROVE  Cells'
<1>1. CASE Insert(w)
  <2>1. own[w] \in Objects
    BY <1>1 DEF Insert, Placed
  <2>2. own[w] \notin tombs
    BY <2>1 DEF Private, Unknown
  <2> QED BY <1>1, <2>2 DEF Insert, Cells
<1>2. CASE Drop(w)
  BY <1>2 DEF Drop, Cells
<1>3. CASE Bury(w)
  BY <1>3 DEF Bury, Cells
<1>4. CASE ~Insert(w) /\ ~Drop(w) /\ ~Bury(w)
  BY <1>4 DEF Step, LoadState, Write, Snapshot, GetCheck, TableGet, Taken, Store, Discard,
     SnapPut, EraseFind, table, Cells
<1> QED BY <1>1, <1>2, <1>3, <1>4

\* A counter gets to 0 only where the object goes back to the pool.
LEMMA ZeroStep ==
  ASSUME Types, Placed, Checked, Fits, NEW w \in Workers, Step(w),
         NEW o \in Objects \ freed', count'[o] = 0
  PROVE  count[o] = 0 /\ ~(Taken(w) /\ obj[w] = o)
<1>0. /\ inst' = inst /\ Workers' = Workers /\ freed \subseteq freed'
      /\ \A v \in Workers : v # w => pc'[v] = pc[v] /\ obj'[v] = obj[v]
      /\ inst.limit \in Nat /\ inst.limit >= 2
      /\ count \in [Objects -> 0..inst.limit]
  BY Given, CountingStep, OthersStay, Limit DEF Types
<1>1. o \in Objects \ freed /\ count[o] \in 0..inst.limit
  BY <1>0
<1>2. ASSUME NEW p \in Objects, Put(p) PROVE count[o] = 0
  <2>1. CASE p = o
    <3>1. /\ count[o] = inst.limit => count'[o] = count[o]
          /\ count[o] # inst.limit /\ count[o] > 0 => count'[o] = count[o] - 1
          /\ count[o] # 1
      BY <1>1, <1>2, <2>1, PutStep
    <3> QED BY <1>0, <1>1, <3>1
  <2>2. CASE p # o
    BY <1>1, <1>2, <2>2, PutStep
  <2> QED BY <2>1, <2>2
<1>3. ASSUME NEW p \in Objects, Increment(p), o \in freed \/ p # o \/ count[o] < inst.limit
      PROVE  count[o] = 0 /\ p # o
  <2>1. /\ p # o => count'[o] = count[o]
        /\ p = o /\ count[o] < inst.limit => count'[o] = count[o] + 1
    BY <1>1, <1>3, IncrementStep
  <2> QED BY <1>0, <1>1, <1>3, <2>1
<1>4. ASSUME pc[w] \in {"tableinc", "inc"}, obj[w] = o
      PROVE  count[o] < inst.limit
  BY <1>1, <1>4 DEF Fits, Below, Checked
<1>5. count[o] = 0 /\ ~(Taken(w) /\ obj[w] = o)
  <2>1. CASE Drop(w)
    <3>1. PICK p \in tombs : Put(p)
      BY <2>1 DEF Drop
    <3>2. p \in Objects /\ ~Taken(w)
      BY <2>1 DEF Types, Drop, Taken
    <3> QED BY <1>2, <3>1, <3>2
  <2>2. CASE SnapPut(w)
    <3>1. obj[w] \in Objects /\ Put(obj[w]) /\ ~Taken(w)
      BY <2>2 DEF SnapPut, Placed, Taken
    <3> QED BY <1>2, <3>1
  <2>3. CASE TableGet(w)
    <3>1. obj[w] \in Objects /\ Increment(obj[w]) /\ ~Taken(w) /\ pc[w] = "tableinc"
      BY <2>3 DEF TableGet, Placed, Taken
    <3> QED BY <1>3, <1>4, <3>1
  <2>4. CASE Taken(w)
    <3>1. CASE pc[w] = "inc"
      <4>1. obj[w] \in Objects /\ Increment(obj[w])
        BY <2>4, <3>1 DEF Taken, Placed
      <4> QED BY <1>3, <1>4, <3>1, <4>1
    <3>2. CASE pc[w] = "taken"
      <4>1. count' = count
        BY <2>4, <3>2 DEF Taken
      <4>2. obj[w] # o
        BY <1>0, <1>1, <3>2, <4>1 DEF Checked
      <4> QED BY <4>1, <4>2
    <3> QED BY <2>4, <3>1, <3>2 DEF Taken
  <2>5. CASE ~Drop(w) /\ ~SnapPut(w) /\ ~TableGet(w) /\ ~Taken(w)
    BY <2>5 DEF Step, LoadState, Write, Snapshot, Insert, GetCheck, Store, Discard, EraseFind, Bury, pool
  <2> QED BY <2>1, <2>2, <2>3, <2>4, <2>5
<1> QED BY <1>5

LEMMA UntouchedStep ==
  ASSUME Types, Placed, Private, Checked, Untouched, Fits, NEW w \in Workers, Step(w)
  PROVE  Untouched'
<1>0. /\ inst' = inst /\ Workers' = Workers /\ freed \subseteq freed'
      /\ \A v \in Workers : v # w => pc'[v] = pc[v] /\ obj'[v] = obj[v]
      /\ inst.limit \in Nat /\ inst.limit >= 2
      /\ count \in [Objects -> 0..inst.limit]
  BY Given, CountingStep, OthersStay, Limit DEF Types
<1> SUFFICES ASSUME NEW o \in Objects \ freed', count'[o] = 0
             PROVE  /\ Holders(o)' = {} /\ o \notin tombs'
                    /\ \A v \in Workers : ~(pc'[v] \in {"erase", "bury"} /\ obj'[v] = o)
  BY <1>0 DEF Untouched
<1>1. o \in Objects \ freed /\ count[o] = 0 /\ ~(Taken(w) /\ obj[w] = o)
  BY <1>0, ZeroStep
\* The snapshots that a step gives to others are none of this object.
<1>5. Holders(o)' = {} /\ ~(SnapPut(w) /\ obj[w] = o)
  <2>1. Holders(o) = {} /\ Cardinality(Holders(o)) = 0 /\ IsFiniteSet(Holders(o)')
    BY <1>0, <1>1, Sums, FS_EmptySet DEF Untouched
  <2>2. CASE Taken(w)
    <3>1. Cardinality(Holders(o)') = 0
      BY <1>1, <2>1, <2>2, HoldersTaken DEF One
    <3>2. ~SnapPut(w)
      BY <2>2 DEF Taken, SnapPut
    <3> QED BY <2>1, <3>1, <3>2, FS_EmptySet
  <2>3. CASE Store(w) \/ Discard(w)
    <3>1. Cardinality(Holders(o)') = 0
      BY <1>1, <2>1, <2>3, HoldersStore, HoldersDiscard
    <3>2. ~SnapPut(w)
      BY <2>3 DEF Store, Discard, SnapPut
    <3> QED BY <2>1, <3>1, <3>2, FS_EmptySet
  <2>4. CASE SnapPut(w)
    <3>1. \A p \in Objects : /\ Cardinality(Holders(p)') = Cardinality(Holders(p)) - One(obj[w] = p)
                             /\ obj[w] = p => Cardinality(Holders(p)) >= 1
      BY <2>4, HoldersPut
    <3>2. obj[w] # o
      BY <1>1, <2>1, <3>1
    <3>3. One(obj[w] = o) = 0
      BY <3>2 DEF One
    <3>4. Cardinality(Holders(o)') = 0
      <4>1. Cardinality(Holders(o)') = Cardinality(Holders(o)) - One(obj[w] = o)
        BY <1>1, <3>1, Zenon
      <4> QED BY <2>1, <3>3, <4>1
    <3> QED BY <2>1, <3>2, <3>4, FS_EmptySet
  <2>5. CASE ~Taken(w) /\ ~Store(w) /\ ~Discard(w) /\ ~SnapPut(w)
    <3>1. pc[w] # "put" /\ pc'[w] # "put" /\ mine' = mine /\ stored' = stored
      BY <2>5 DEF Step, LoadState, Write, Snapshot, Insert, Drop, GetCheck, TableGet, EraseFind, Bury,
         Goto, Continue, Types
    <3> QED BY <1>0, <2>1, <2>5, <3>1, HoldersSame
  <2> QED BY <2>2, <2>3, <2>4, <2>5
<1>7. /\ Holders(o)' = {} /\ ~(SnapPut(w) /\ obj[w] = o)
      /\ o \notin tombs
      /\ \A v \in Workers : ~(pc[v] \in {"erase", "bury"} /\ obj[v] = o)
  BY <1>1, <1>5 DEF Untouched
<1>8. o \notin tombs'
  BY <1>7 DEF Step, LoadState, Write, Snapshot, Insert, Drop, GetCheck, TableGet, Taken, Store, Discard,
     SnapPut, EraseFind, Bury, table
<1>9. ~(pc'[w] \in {"erase", "bury"} /\ obj'[w] = o)
  <2>1. CASE LoadState(w)
    BY <1>7, <2>1 DEF LoadState, Types
  <2>2. CASE Write(w)
    BY <1>7, <2>2 DEF Write, Types
  <2>3. CASE Snapshot(w)
    BY <1>7, <2>3 DEF Snapshot, Goto, Types
  <2>4. CASE Insert(w)
    BY <1>7, <2>4 DEF Insert, Goto, Types
  <2>5. CASE Drop(w)
    BY <1>7, <2>5 DEF Drop, Types
  <2>6. CASE GetCheck(w)
    BY <1>7, <2>6 DEF GetCheck, Goto, Types
  <2>7. CASE TableGet(w)
    BY <1>7, <2>7 DEF TableGet, Goto, Types
  <2>8. CASE Taken(w)
    BY <1>7, <2>8 DEF Taken, Continue, Goto, Types
  <2>9. CASE Store(w)
    BY <1>7, <2>9 DEF Store, Types
  <2>10. CASE Discard(w)
    BY <1>7, <2>10 DEF Discard, Goto, Types
  <2>11. CASE SnapPut(w)
    BY <1>7, <2>11 DEF SnapPut, Continue, Goto, Types
  <2>12. CASE EraseFind(w)
    BY <1>7, <2>12 DEF EraseFind, Continue, Goto, Types
  <2>13. CASE Bury(w)
    BY <1>7, <2>13 DEF Bury, Continue, Goto, Types
  <2> QED
    BY <2>1, <2>2, <2>3, <2>4, <2>5, <2>6, <2>7, <2>8, <2>9, <2>10, <2>11, <2>12, <2>13 DEF Step
<1> QED BY <1>0, <1>7, <1>8, <1>9

LEMMA AccountedStep ==
  ASSUME Types, Placed, Private, Checked, Untouched, Accounted, Fits, NEW w \in Workers, Step(w)
  PROVE  Accounted'
<1>0. /\ Workers' = Workers /\ freed \subseteq freed' /\ None \notin Objects
      /\ own \in [Workers -> Objects \cup {None}]
  BY Given, CountingStep DEF Types
<1> SUFFICES ASSUME NEW o \in Objects, content'[o] # None, o \notin freed', o \notin lost', count'[o] = 0
             PROVE  (\E v \in Workers : own'[v] = o) \/ o \in live'
  BY <1>0 DEF Accounted, Allocated
<1>1. count[o] = 0 /\ o \notin freed
  BY <1>0, ZeroStep
<1>2. lost \subseteq lost'
  BY DEF Step, LoadState, Load, Write, Snapshot, Insert, Drop, GetCheck, TableGet, Taken, Store, Discard,
     SnapPut, EraseFind, Bury
<1>3. CASE content[o] = None
  <2>1. PICK p \in Objects, c \in Contents :
          content' = [content EXCEPT ![p] = c] /\ own' = [own EXCEPT ![w] = p]
    BY <1>3, WriteStep
  <2>2. p = o
    BY <1>3, <2>1 DEF Types
  <2> QED BY <1>0, <2>1, <2>2
<1>4. CASE content[o] # None
  <2>1. (\E v \in Workers : own[v] = o) \/ o \in live
    BY <1>1, <1>2, <1>4 DEF Accounted, Allocated
  <2>2. CASE \E v \in Workers : own[v] = o
    <3>1. PICK v \in Workers : own[v] = o
      BY <2>2
    <3>2. CASE own'[v] = o
      BY <3>2
    <3>3. CASE own'[v] # o
      <4>1. v = w
        BY <1>0, <1>4, <3>1, <3>3, WriteStep
      <4>2. LoadState(w) \/ Discard(w) \/ Insert(w)
        <5>1. ~Write(w) /\ own' # own
          BY <1>0, <3>1, <3>3, <4>1 DEF Write
        <5> QED
          BY <5>1 DEF Step, Snapshot, Drop, GetCheck, TableGet, Taken, Store, SnapPut, EraseFind, Bury
      <4>3. ~LoadState(w) /\ ~Discard(w)
        BY <1>0, <3>1, <4>1 DEF LoadState, Discard, Load
      <4> QED BY <3>1, <4>1, <4>2, <4>3 DEF Insert
    <3> QED BY <3>2, <3>3
  <2>3. CASE o \in live
    <3>1. ~(Bury(w) /\ obj[w] = o)
      BY <1>1 DEF Untouched, Bury
    <3> QED
      BY <2>3, <3>1 DEF Step, LoadState, Write, Snapshot, Insert, Drop, GetCheck, TableGet, Taken, Store,
         Discard, SnapPut, EraseFind, Bury, table
  <2> QED BY <2>1, <2>2, <2>3
<1> QED BY <1>3, <1>4
-----------------------------------------------------------------------------
(* The theorems *)

LEMMA InvInit == Init => Inv
<1> SUFFICES ASSUME Init PROVE Inv
  OBVIOUS
<1>0. /\ inst \in Instances /\ inst.limit \in Nat /\ inst.limit >= 2 /\ MaxHeld \in Nat
      /\ Object0 \in Objects /\ Content0 \in Contents /\ None \notin Objects /\ None \notin Contents
  BY CowAssumption, Limit DEF Init, CowAssumption
<1> USE <1>0
<1>1. Types
  <2>1. /\ content \in [Objects -> Contents \cup {None}] /\ count \in [Objects -> 0..inst.limit]
        /\ stored \in [Contents -> Objects \cup {None}]
    BY DEF Init
  <2>2. mine \in [Workers -> Seq(Objects)]
    BY DEF Init
  <2>3. /\ base \in [Workers -> Objects] /\ own \in [Workers -> Objects \cup {None}]
        /\ pc \in [Workers -> Labels] /\ obj \in [Workers -> Objects \cup {None}]
    BY DEF Init, Labels
  <2> QED BY <2>1, <2>2, <2>3 DEF Init, Types
<1>2. Placed
  BY DEF Init, Placed
<1>3. Private
  BY DEF Init, Private, Unknown
<1>4. Cells /\ OneCounts /\ Checked
  BY DEF Init, Cells, OneCounts, Counting, Checked
<1>5. ASSUME NEW o \in Objects
      PROVE  Holders(o) = IF o = Object0 THEN {<<Content0, 0>>} ELSE {}
  BY DEF Init, Holders
<1>6. Exactly
  <2>1. ASSUME NEW o \in Objects PROVE Exact(o)
    <3>1. ~Uncounted(o) /\ (InTable(o) <=> o = Object0) /\ count[o] = IF o = Object0 THEN 2 ELSE 0
      BY DEF Init, Uncounted, InTable
    <3>2. Cardinality(Holders(o)) = IF o = Object0 THEN 1 ELSE 0
      BY <1>5, FS_EmptySet, FS_Singleton
    <3> QED BY <3>1, <3>2 DEF Exact, One
  <2> QED BY <2>1 DEF Exactly
<1>7. Untouched
  BY <1>5 DEF Untouched, Init
<1>8. Accounted
  BY DEF Accounted, Allocated, Init
<1> QED BY <1>1, <1>2, <1>3, <1>4, <1>6, <1>7, <1>8 DEF Inv

LEMMA InvNext == Inv /\ Fits /\ [Next]_vars => Inv'
<1> SUFFICES ASSUME Inv, Fits, [Next]_vars PROVE Inv'
  OBVIOUS
<1>1. CASE Next
  <2>1. PICK w \in Workers : Step(w)
    BY <1>1 DEF Next, Step
  <2>2. Types' /\ Placed' /\ Private' /\ Cells' /\ OneCounts' /\ Checked'
    BY <2>1, TypesStep, PlacedStep, PrivateStep, CellsStep, OneCountsStep, CheckedStep DEF Inv
  <2>3. Exactly' /\ Untouched' /\ Accounted'
    BY <2>1, ExactlyStep, UntouchedStep, AccountedStep DEF Inv
  <2> QED BY <2>2, <2>3 DEF Inv
<1>2. CASE UNCHANGED vars
  <2> USE <1>2 DEF vars, Workers
  <2>1. Types' /\ Placed' /\ Cells'
    BY DEF Inv, Types, Placed, Cells
  <2>2. Private'
    BY DEF Inv, Private, Unknown
  <2>3. OneCounts' /\ Checked'
    BY DEF Inv, OneCounts, Counting, Checked, Alone
  <2>4. \A o : Holders(o)' = Holders(o) /\ (Uncounted(o)' <=> Uncounted(o)) /\ (InTable(o)' <=> InTable(o))
    BY DEF Holders, Uncounted, InTable
  <2>5. Exactly'
    BY <2>4, Quiet DEF Inv
  <2>6. Untouched' /\ Accounted'
    BY <2>4 DEF Inv, Untouched, Accounted, Allocated
  <2> QED BY <2>1, <2>2, <2>3, <2>5, <2>6 DEF Inv
<1> QED BY <1>1, <1>2

\* Enough room: there is one worker, or the counters count more than all the references
\* that workers, states and the table can have.
Roomy ==
  \A i \in Instances :
    \/ \A w, v \in i.workers : w = v
    \/ Cardinality(i.workers) * MaxHeld + Cardinality(i.workers) + Cardinality(Contents) + 1 < i.limit

\* An exact counter cannot get to a limit that is higher than the number of references.
LEMMA InvFits == Roomy /\ Inv => Fits
<1> SUFFICES ASSUME Roomy, Inv, ~Alone PROVE Below
  BY DEF Fits
<1>1. /\ inst \in Instances /\ IsFiniteSet(Workers) /\ IsFiniteSet(Contents)
      /\ inst.limit \in Nat /\ count \in [Objects -> 0..inst.limit]
  BY CowAssumption DEF CowAssumption, Inv, Types, Workers
<1>2. Cardinality(Workers) * MaxHeld + Cardinality(Workers) + Cardinality(Contents) + 1 < inst.limit
  BY <1>1 DEF Roomy, Alone, Workers
<1>3. ASSUME NEW o \in Objects \ freed
      PROVE  count[o] < inst.limit
  <2>1. Exact(o)
    BY <1>3 DEF Inv, Exactly
  <2>2. /\ Cardinality(Workers) \in Nat /\ Cardinality(Contents) \in Nat /\ MaxHeld \in Nat
        /\ Cardinality(Workers) * MaxHeld \in Nat
    BY <1>1, CowAssumption, FS_CardinalityType DEF CowAssumption
  <2>3. Parts(o)
    BY <1>1, HoldersSplit
  <2>4. Cardinality(HeldIn(Workers, mine, o)) <= Cardinality(Workers) * MaxHeld
    BY <1>1, HeldFinite
  <2>5. Cardinality(Kept(o)) <= Cardinality(Contents) /\ Cardinality(Putting(o)) <= Cardinality(Workers)
    <3>1. Kept(o) \in SUBSET Contents /\ Putting(o) \in SUBSET Workers
      BY DEF Kept, Putting
    <3> QED BY <1>1, <3>1, FS_Subset
  <2> DEFINE p == Cardinality(Workers) * MaxHeld
  <2>6. p \in Nat /\ Cardinality(HeldIn(Workers, mine, o)) <= p
        /\ p + Cardinality(Workers) + Cardinality(Contents) + 1 < inst.limit
    BY <1>2, <2>2, <2>4
  <2> HIDE DEF p
  <2>7. Cardinality(Holders(o)) <= p + Cardinality(Contents) + Cardinality(Workers) /\ Cardinality(Holders(o)) \in Nat
    BY <2>2, <2>3, <2>5, <2>6 DEF Parts
  <2>8. count[o] <= Cardinality(Holders(o)) + 1
    BY <1>1, <2>1, <2>7 DEF Exact, One
  <2> QED BY <1>1, <2>2, <2>6, <2>7, <2>8
<1> QED BY <1>3 DEF Below

LEMMA AlwaysInv == ASSUME Roomy PROVE Spec => []Inv
<1>1. Inv /\ [Next]_vars => Inv'
  BY InvFits, InvNext
<1> QED BY <1>1, InvInit, PTL DEF Spec

\* For every number of workers, objects and contents: as long as the counters have room for
\* all references, or there is one worker, RefPool's counter of an object outside the pool
\* is the number of its references.
THEOREM CountsAreExact == ASSUME Roomy PROVE Spec => []CountExact
<1>1. Inv => CountExact
  BY DEF Inv, Exactly, Exact, CountExact, Allocated
<1> QED BY <1>1, AlwaysInv, PTL

\* ... RefPool::put, the callback that buries and invalidate free an object only when
\* nothing refers to it, but for the window of an object that was inserted and not counted.
THEOREM FreedIsUnused == ASSUME Roomy PROVE Spec => FreedUnused
<1>1. ASSUME Inv, Fits, [Next]_vars, NEW o \in freed' \ freed, ~Uncounted(o)
      PROVE  Holders(o)' = {} /\ ~InTable(o)'
  <2>0. o \in Objects
    <3>1. Inv'
      BY <1>1, InvNext
    <3> QED BY <3>1 DEF Inv, Types
  <2>1. PICK w \in Workers : Step(w)
    <3>1. freed' # freed
      BY <1>1
    <3> QED BY <1>1, <3>1 DEF vars, Next, Step
  <2>2. /\ Types /\ Placed /\ inst' = inst /\ Workers' = Workers
        /\ \A v \in Workers : v # w => pc'[v] = pc[v] /\ obj'[v] = obj[v]
    BY <1>1, <2>1, Given, OthersStay DEF Inv
  <2>3. IsFiniteSet(Holders(o)) /\ IsFiniteSet(Holders(o)') /\ Cardinality(Holders(o)) \in Nat
    BY <2>2, Sums
  <2>4. ASSUME count[o] = 1
        PROVE  1 = Cardinality(Holders(o)) + One(InTable(o))
    <3>1. inst.limit >= 2 /\ inst.limit \in Nat
      BY <2>2, Limit DEF Types
    <3>2. Exact(o)
      BY <1>1, <2>0, <2>4, <3>1 DEF Inv, Exactly
    <3> QED BY <1>1, <2>3, <2>4, <3>2 DEF Exact, One
  <2>5. CASE Insert(w)
    <3>1. o = own[w] /\ \E p \in Equal(w) : live' = live \cup {p} /\ tombs' = tombs \ {p}
      BY <1>1, <2>5 DEF Insert
    <3>2. Unknown(o)
      BY <1>1, <2>0, <3>1 DEF Inv, Private
    <3>3. Holders(o) = {}
      BY <3>2 DEF Holders, Unknown
    <3>4. pc[w] # "put" /\ pc'[w] # "put" /\ mine' = mine /\ stored' = stored
      BY <2>2, <2>5 DEF Insert, Goto, Types
    <3>5. Holders(o)' = Holders(o)
      BY <2>2, <3>4, HoldersSame
    <3>6. ~InTable(o)'
      BY <3>1, <3>2 DEF Equal, InTable, Unknown
    <3> QED BY <3>3, <3>5, <3>6
  <2>6. CASE Drop(w)
    <3>1. PICK p \in tombs : tombs' = tombs \ {p} /\ Put(p)
      BY <2>6 DEF Drop
    <3>2. o = p /\ count[o] = 1
      <4>1. p \in Objects /\ freed' \subseteq freed \cup {p} /\ (p \notin freed => (p \in freed' <=> count[p] = 1))
        BY <2>2, <3>1, PutStep DEF Types
      <4> QED BY <1>1, <4>1
    <3>3. InTable(o) /\ ~InTable(o)'
      BY <1>1, <2>6, <3>1, <3>2 DEF InTable, Inv, Cells, Drop
    <3>4. Holders(o) = {}
      BY <2>3, <2>4, <3>2, <3>3, FS_EmptySet DEF One
    <3>5. pc[w] # "put" /\ pc'[w] # "put" /\ mine' = mine /\ stored' = stored
      BY <2>6 DEF Drop
    <3>6. Holders(o)' = Holders(o)
      BY <2>2, <3>5, HoldersSame
    <3> QED BY <3>3, <3>4, <3>6
  <2>7. CASE SnapPut(w)
    <3>1. o = obj[w] /\ count[o] = 1
      <4>1. /\ obj[w] \in Objects /\ freed' \subseteq freed \cup {obj[w]}
            /\ obj[w] \notin freed => (obj[w] \in freed' <=> count[obj[w]] = 1)
        BY <2>2, <2>7, PutStep DEF Placed, SnapPut
      <4> QED BY <1>1, <4>1
    <3>2. \A p \in Objects : /\ Cardinality(Holders(p)') = Cardinality(Holders(p)) - One(obj[w] = p)
                             /\ obj[w] = p => Cardinality(Holders(p)) >= 1
      BY <2>2, <2>7, HoldersPut
    <3>3. Cardinality(Holders(o)) >= 1
      BY <2>0, <3>1, <3>2
    <3>4. ~InTable(o) /\ Cardinality(Holders(o)) = 1
      BY <2>3, <2>4, <3>1, <3>3 DEF One
    <3>5. Cardinality(Holders(o)') = Cardinality(Holders(o)) - One(obj[w] = o)
      BY <2>0, <3>2, Zenon
    <3>6. Holders(o)' = {}
      BY <2>3, <3>1, <3>4, <3>5, FS_EmptySet DEF One
    <3>7. InTable(o)' <=> InTable(o)
      BY <2>7 DEF SnapPut, table, InTable
    <3> QED BY <3>4, <3>6, <3>7
  <2>8. CASE ~Insert(w) /\ ~Drop(w) /\ ~SnapPut(w)
    BY <1>1, <2>1, <2>8 DEF Step, LoadState, Write, Snapshot, GetCheck, TableGet, Taken, Store, Discard,
       EraseFind, Bury, pool
  <2> QED BY <2>5, <2>6, <2>7, <2>8
<1>2. Inv /\ [Next]_vars =>
        [\A o \in freed' \ freed : Uncounted(o) \/ (Holders(o)' = {} /\ ~InTable(o)')]_vars
  BY <1>1, InvFits
<1> QED BY <1>2, AlwaysInv, PTL DEF Spec, FreedUnused

\* ... and no object is lost that is neither referred to nor in the pool.
THEOREM NothingLeaks == ASSUME Roomy PROVE Spec => []NoLeak
<1>1. ASSUME Inv, NEW o \in Allocated, count[o] = 0, o \notin freed \cup lost
      PROVE  \E w \in Workers : own[w] = o \/ obj[w] = o
  <2>1. CASE \E w \in Workers : own[w] = o
    BY <2>1
  <2>2. CASE o \in live
    <3>1. /\ o \in Objects /\ inst.limit >= 2 /\ inst.limit \in Nat
      BY <1>1, Limit DEF Inv, Types, Allocated
    <3>2. Exact(o)
      BY <1>1, <3>1 DEF Inv, Exactly
    <3>3. Holders(o) = {} /\ InTable(o)
      BY <1>1, <2>2, <3>1 DEF Inv, Untouched, InTable
    <3>4. Uncounted(o)
      BY <1>1, <3>2, <3>3, FS_EmptySet DEF Exact, One
    <3> QED BY <3>4 DEF Uncounted
  <2> QED BY <1>1, <2>1, <2>2 DEF Inv, Accounted
<1>2. Inv => NoLeak
  BY <1>1 DEF NoLeak
<1> QED BY <1>2, AlwaysInv, PTL

-----------------------------------------------------------------------------
(* One worker: equal objects of snapshots are one object, which is in the  *)
(* table, so that no snapshot has a freed object.                          *)

Referred(o) == Holders(o) # {}

\* What the worker has loaded is a state or one of its snapshots.
Based ==
  \A w \in Workers :
    (\E c \in Contents : stored[c] = base[w]) \/ (\E n \in DOMAIN mine[w] : mine[w][n] = base[w])

\* What is in the table is not in the pool, and its contents differ.
Deduplicated ==
  /\ freed \cap (live \cup tombs) = {}
  /\ \A o, p \in live \cup tombs : content[o] = content[p] => o = p

\* Snapshots have objects whose cells are no tombstones; a tombstone stands for the last
\* reference.
Living ==
  /\ \A o \in Objects : Referred(o) => o \in live
  /\ \A o \in tombs : count[o] = 1
  /\ \A w \in Workers :
       /\ pc[w] \in {"tableget", "tableinc", "get", "inc", "taken"} => obj[w] \in live
       /\ pc[w] \in {"erase", "bury"} =>
            count[obj[w]] = 1 /\ ~Referred(obj[w]) /\ obj[w] \notin tombs

Clean == Based /\ Deduplicated /\ Living

\* What is not removed from a sequence stays.
LEMMA RemoveKeeps ==
  ASSUME NEW s \in Seq(Objects), NEW n \in DOMAIN s, NEW k \in DOMAIN s, k # n
  PROVE  \E j \in DOMAIN RemoveAt(s, n) : RemoveAt(s, n)[j] = s[k]
<1>0. Len(s) \in Nat /\ DOMAIN s = 1..Len(s)
  OBVIOUS
<1> DEFINE r == RemoveAt(s, n)
           j == IF k < n THEN k ELSE k - 1
<1>1. /\ r \in Seq(Objects) /\ Len(r) = Len(s) - 1
      /\ \A i \in 1..(Len(s) - 1) : r[i] = IF i < n THEN s[i] ELSE s[i + 1]
  BY RemoveLen
<1>2. DOMAIN r = 1..(Len(s) - 1)
  BY <1>0, <1>1
<1> HIDE DEF r
<1>3. j \in 1..(Len(s) - 1) /\ (IF j < n THEN j ELSE j + 1) = k
  BY <1>0
<1>4. r[j] = s[k]
  BY <1>0, <1>1, <1>3
<1> HIDE DEF j
<1>5. \E i \in DOMAIN r : r[i] = s[k]
  BY <1>2, <1>3, <1>4
<1> QED BY <1>5 DEF r

LEMMA BasedStep ==
  ASSUME Types, Placed, Private, Alone, Based, NEW w \in Workers, Step(w)
  PROVE  Based'
<1>0. Workers' = Workers /\ \A v \in Workers : v = w
  BY Given DEF Alone
<1> SUFFICES \/ \E c \in Contents : stored'[c] = base'[w]
             \/ \E n \in DOMAIN mine'[w] : mine'[w][n] = base'[w]
  BY <1>0 DEF Based
<1>1. \/ \E c \in Contents : stored[c] = base[w]
      \/ \E n \in DOMAIN mine[w] : mine[w][n] = base[w]
  BY DEF Based
<1>2. CASE LoadState(w)
  BY <1>2 DEF LoadState, Load, Types
<1>3. CASE Taken(w)
  <2>1. obj[w] \in Objects /\ mine[w] \in Seq(Objects)
    BY <1>3 DEF Taken, Placed, Types
  <2>2. mine'[w] = Append(mine[w], obj[w]) /\ base'[w] = obj[w]
    BY <1>3 DEF Taken, Types
  <2>3. Len(mine[w]) + 1 \in DOMAIN mine'[w] /\ mine'[w][Len(mine[w]) + 1] = obj[w]
    BY <2>1, <2>2
  <2> QED BY <2>2, <2>3
<1>4. CASE Store(w)
  <2>1. PICK n \in DOMAIN mine[w] :
          /\ stored[content[mine[w][n]]] = None
          /\ stored' = [stored EXCEPT ![content[mine[w][n]]] = mine[w][n]]
          /\ mine' = [mine EXCEPT ![w] = RemoveAt(mine[w], n)]
    BY <1>4 DEF Store
  <2>2. base' = base /\ base[w] \in Objects /\ None \notin Objects /\ mine[w] \in Seq(Objects)
        /\ mine'[w] = RemoveAt(mine[w], n)
    BY <1>4, <2>1, Given DEF Store, Types
  <2>3. CASE mine[w][n] = base[w]
    <3>1. content[mine[w][n]] \in Contents
      BY <2>2, <2>3 DEF Private, Unknown, Types
    <3>2. stored'[content[mine[w][n]]] = base[w]
      BY <2>1, <2>3, <3>1 DEF Types
    <3> QED BY <2>2, <3>1, <3>2
  <2>4. CASE mine[w][n] # base[w] /\ \E c \in Contents : stored[c] = base[w]
    <3>1. PICK c \in Contents : stored[c] = base[w]
      BY <2>4
    <3>2. stored'[c] = base[w]
      BY <2>1, <2>2, <3>1 DEF Types
    <3> QED BY <2>2, <3>2
  <2>5. CASE mine[w][n] # base[w] /\ \E k \in DOMAIN mine[w] : mine[w][k] = base[w]
    <3>1. PICK k \in DOMAIN mine[w] : mine[w][k] = base[w]
      BY <2>5
    <3>2. k # n
      BY <2>5, <3>1
    <3>3. \E j \in DOMAIN RemoveAt(mine[w], n) : RemoveAt(mine[w], n)[j] = mine[w][k]
      BY <2>2, <3>2, RemoveKeeps
    <3> QED BY <2>2, <3>1, <3>3
  <2> QED BY <1>1, <2>3, <2>4, <2>5
<1>5. CASE Discard(w)
  BY <1>5 DEF Discard, Load, Types
<1>6. CASE ~LoadState(w) /\ ~Taken(w) /\ ~Store(w) /\ ~Discard(w)
  BY <1>1, <1>6 DEF Step, Write, Snapshot, Insert, Drop, GetCheck, TableGet, SnapPut, EraseFind, Bury
<1> QED BY <1>2, <1>3, <1>4, <1>5, <1>6

\* The object that a worker has loaded, and the one it puts, are referred to.
LEMMA BaseReferred ==
  ASSUME Types, Placed, Based, NEW w \in Workers
  PROVE  Referred(base[w]) /\ (pc[w] = "put" => Referred(obj[w]))
<1>0. pc[w] = "put" => Referred(obj[w])
  BY DEF Referred, Holders
<1>1. CASE \E c \in Contents : stored[c] = base[w]
  <2>1. PICK c \in Contents : stored[c] = base[w]
    BY <1>1
  <2>2. <<c, 0>> \in Holders(base[w])
    BY <2>1 DEF Holders
  <2> QED BY <1>0, <2>2 DEF Referred
<1>2. CASE \E n \in DOMAIN mine[w] : mine[w][n] = base[w]
  <2>1. PICK n \in DOMAIN mine[w] : mine[w][n] = base[w]
    BY <1>2
  <2>2. n \in 1..MaxHeld
    <3>1. mine[w] \in Seq(Objects) /\ Len(mine[w]) <= MaxHeld /\ MaxHeld \in Nat
      BY CowAssumption DEF CowAssumption, Types, Placed
    <3>2. Len(mine[w]) \in Nat /\ DOMAIN mine[w] = 1..Len(mine[w])
      BY <3>1
    <3>3. n \in 1..Len(mine[w])
      BY <3>2
    <3> QED BY <3>1, <3>2, <3>3
  <2>3. <<w, n>> \in Holders(base[w])
    BY <2>1, <2>2 DEF Holders
  <2> QED BY <1>0, <2>3 DEF Referred
<1> QED BY <1>1, <1>2 DEF Based

LEMMA DeduplicatedStep ==
  ASSUME Types, Placed, Private, Cells, Exactly, Untouched, Alone, Clean, NEW w \in Workers, Step(w)
  PROVE  Deduplicated'
<1>0. /\ freed \cap (live \cup tombs) = {}
      /\ \A o, p \in live \cup tombs : content[o] = content[p] => o = p
      /\ live \subseteq Objects /\ tombs \subseteq Objects
  BY DEF Clean, Deduplicated, Types
<1>1. CASE Write(w)
  <2>1. /\ live' = live /\ tombs' = tombs /\ freed' = freed
    BY <1>1 DEF Write, table
  <2>2. PICK o \in Objects, c \in Contents : content[o] = None /\ content' = [content EXCEPT ![o] = c]
    BY <1>1 DEF Write
  <2>3. o \notin live \cup tombs
    BY <2>2 DEF Private, Unknown
  <2>4. \A p \in live \cup tombs : content'[p] = content[p]
    BY <1>0, <2>2, <2>3 DEF Types
  <2> QED BY <1>0, <2>1, <2>4 DEF Deduplicated
<1>2. CASE Insert(w)
  <2>1. own[w] \in Objects /\ content' = content
    BY <1>2 DEF Insert, Placed
  <2>2. own[w] \notin live \cup tombs \cup freed
    BY <2>1 DEF Private, Unknown
  <2>3. CASE Equal(w) = {} /\ live' = live \cup {own[w]} /\ tombs' = tombs /\ freed' = freed
    BY <1>0, <2>1, <2>2, <2>3 DEF Equal, Deduplicated
  <2>4. CASE \E o \in Equal(w) : live' = live \cup {o} /\ tombs' = tombs \ {o} /\ freed' = freed \cup {own[w]}
    BY <1>0, <2>1, <2>2, <2>4 DEF Equal, Deduplicated
  <2> QED BY <1>2, <2>3, <2>4 DEF Insert
<1>3. CASE Drop(w)
  <2>1. PICK p \in tombs : tombs' = tombs \ {p} /\ Put(p)
    BY <1>3 DEF Drop
  <2>2. freed' \subseteq freed \cup {p} /\ p \notin live
    BY <1>0, <2>1, PutStep DEF Cells
  <2> QED BY <1>0, <1>3, <2>1, <2>2 DEF Drop, Deduplicated
<1>4. CASE SnapPut(w)
  <2>1. obj[w] \in Objects /\ Referred(obj[w]) /\ obj[w] \in live
    BY <1>4, BaseReferred DEF Clean, Living, SnapPut, Placed
  <2>2. obj[w] \notin freed
    BY <1>0, <2>1
  <2>3. count[obj[w]] # 1
    <3>1. SUFFICES ASSUME count[obj[w]] = 1 PROVE FALSE
      OBVIOUS
    <3>2. inst.limit >= 2 /\ inst.limit \in Nat
      BY Limit DEF Types
    <3>3. Exact(obj[w])
      BY <2>1, <2>2, <3>1, <3>2 DEF Exactly
    <3>4. ~Uncounted(obj[w]) /\ InTable(obj[w])
      BY <1>4, <2>1 DEF SnapPut, Uncounted, Alone, InTable
    <3>5. IsFiniteSet(Holders(obj[w])) /\ Cardinality(Holders(obj[w])) \in Nat
      <4>1. inst' = inst
        BY Given
      <4> QED BY <4>1, Sums
    <3>6. Cardinality(Holders(obj[w])) = 0
      BY <3>1, <3>3, <3>4, <3>5 DEF Exact, One
    <3> QED BY <2>1, <3>5, <3>6, FS_EmptySet DEF Referred
  <2>4. freed' = freed
    BY <1>4, <2>1, <2>2, <2>3, PutStep DEF SnapPut
  <2> QED BY <1>0, <1>4, <2>4 DEF SnapPut, table, Deduplicated
<1>5. CASE Bury(w)
  <2>1. live' \cup tombs' \subseteq live \cup tombs
    BY <1>5 DEF Bury
  <2> QED BY <1>0, <1>5, <2>1 DEF Bury, pool, Deduplicated
<1>6. CASE ~Write(w) /\ ~Insert(w) /\ ~Drop(w) /\ ~SnapPut(w) /\ ~Bury(w)
  <2>1. live' = live /\ tombs' = tombs /\ freed' = freed /\ content' = content
    BY <1>6 DEF Step, LoadState, Snapshot, GetCheck, TableGet, Taken, Store, Discard, EraseFind, pool, table
  <2> QED BY <1>0, <2>1 DEF Deduplicated
<1> QED BY <1>1, <1>2, <1>3, <1>4, <1>5, <1>6

LEMMA LivingStep ==
  ASSUME Types, Placed, Private, Cells, Exactly, Untouched, Alone, Clean, NEW w \in Workers, Step(w)
  PROVE  Living'
<1>0. /\ inst' = inst /\ Workers' = Workers /\ \A v \in Workers : v = w
      /\ live \subseteq Objects /\ tombs \subseteq Objects
      /\ count \in [Objects -> 0..inst.limit] /\ inst.limit \in Nat /\ inst.limit >= 2
  BY Given, Limit DEF Alone, Types
<1>a. /\ \A o \in Objects : Referred(o) => o \in live
      /\ \A o \in tombs : count[o] = 1
      /\ pc[w] \in {"tableget", "tableinc", "get", "inc", "taken"} => obj[w] \in live
      /\ pc[w] \in {"erase", "bury"} => count[obj[w]] = 1 /\ ~Referred(obj[w]) /\ obj[w] \notin tombs
  BY DEF Clean, Living
<1>b. live \cap tombs = {}
  BY DEF Cells
\* Only Taken adds a holder, and of the object that it takes.
<1>c. ASSUME NEW o \in Objects, Referred(o)'
      PROVE  Referred(o) \/ (Taken(w) /\ obj[w] = o)
  <2>0. /\ IsFiniteSet(Holders(o)) /\ IsFiniteSet(Holders(o)')
        /\ Cardinality(Holders(o)) \in Nat /\ Cardinality(Holders(o)') \in Nat
    BY <1>0, Sums
  <2>1. Cardinality(Holders(o)') # 0
    BY <1>c, <2>0, FS_EmptySet DEF Referred
  <2>2. CASE Taken(w)
    <3>1. Cardinality(Holders(o)') = Cardinality(Holders(o)) + One(obj[w] = o)
      BY <2>2, HoldersTaken
    <3>2. obj[w] # o => Cardinality(Holders(o)) # 0
      BY <2>0, <2>1, <3>1 DEF One
    <3> QED BY <2>2, <3>2, FS_EmptySet DEF Referred
  <2>3. CASE Store(w) \/ Discard(w)
    <3>1. Cardinality(Holders(o)') = Cardinality(Holders(o))
      BY <2>3, HoldersStore, HoldersDiscard
    <3> QED BY <2>1, <3>1, FS_EmptySet DEF Referred
  <2>4. CASE SnapPut(w)
    <3>1. obj[w] = o => Cardinality(Holders(o)) >= 1
      <4>1. \A p \in Objects : obj[w] = p => Cardinality(Holders(p)) >= 1
        BY <2>4, HoldersPut
      <4> QED BY <4>1
    <3>2. obj[w] # o => Cardinality(Holders(o)') = Cardinality(Holders(o))
      <4>1. \A p \in Objects : Cardinality(Holders(p)') = Cardinality(Holders(p)) - One(obj[w] = p)
        BY <2>4, HoldersPut
      <4>2. Cardinality(Holders(o)') = Cardinality(Holders(o)) - One(obj[w] = o)
        BY <4>1, Zenon
      <4> QED BY <2>0, <4>2 DEF One
    <3> QED BY <2>0, <2>1, <3>1, <3>2, FS_EmptySet DEF Referred
  <2>5. CASE ~Taken(w) /\ ~Store(w) /\ ~Discard(w) /\ ~SnapPut(w)
    <3>1. pc[w] # "put" /\ pc'[w] # "put" /\ mine' = mine /\ stored' = stored
      BY <2>5 DEF Step, LoadState, Write, Snapshot, Insert, Drop, GetCheck, TableGet, EraseFind, Bury,
         Goto, Continue, Types
    <3>2. Holders(o)' = Holders(o)
      BY <1>0, <3>1, HoldersSame
    <3> QED BY <1>c, <3>2 DEF Referred
  <2> QED BY <2>2, <2>3, <2>4, <2>5
<1>d. ASSUME NEW o \in Objects, Referred(o)'
      PROVE  o \in live
  BY <1>a, <1>c, <1>d DEF Taken
<1> SUFFICES /\ \A o \in live \ live' : ~Referred(o)'
             /\ \A o \in tombs' : count'[o] = 1
             /\ pc'[w] \in {"tableget", "tableinc", "get", "inc", "taken"} => obj'[w] \in live'
             /\ pc'[w] \in {"erase", "bury"} =>
                  obj'[w] \in Objects /\ count'[obj'[w]] = 1 /\ obj'[w] \notin tombs'
             /\ \A o \in Objects : pc'[w] \in {"erase", "bury"} /\ obj'[w] = o => ~Referred(o)'
  BY <1>0, <1>d DEF Living
<1>1. CASE LoadState(w)
  BY <1>a, <1>c, <1>1 DEF LoadState, pool, table, Taken
<1>2. CASE Write(w)
  BY <1>a, <1>c, <1>2 DEF Write, table, Taken
<1>3. CASE Snapshot(w)
  <2>1. base[w] \in live
    BY <1>a, BaseReferred DEF Clean, Types
  <2>2. pc'[w] \in {"insert", "get"} /\ (pc'[w] = "get" => obj'[w] = base[w])
    BY <1>3 DEF Snapshot, Goto, Types
  <2> QED BY <1>a, <1>3, <2>1, <2>2 DEF Snapshot, pool, table
<1>4. CASE Insert(w)
  <2>1. live \subseteq live' /\ tombs' \subseteq tombs /\ count' = count
    BY <1>4 DEF Insert
  <2>2. pc'[w] \in {"tableget", "get"} /\ obj'[w] \in live'
    BY <1>4 DEF Insert, Goto, Types
  <2> QED BY <1>a, <2>1, <2>2
<1>5. CASE Drop(w)
  <2>1. PICK p \in tombs : tombs' = tombs \ {p} /\ Put(p)
    BY <1>5 DEF Drop
  <2>2. \A o \in Objects : o # p => count'[o] = count[o]
    BY <1>0, <2>1, PutStep
  <2>3. live' = live /\ pc' = pc /\ obj' = obj /\ pc[w] \in {"insert", "erase"}
    BY <1>5 DEF Drop
  <2>4. ASSUME pc[w] = "erase"
        PROVE  /\ obj[w] \in Objects /\ count'[obj[w]] = 1 /\ obj[w] \notin tombs'
               /\ \A o \in Objects : obj[w] = o => ~Referred(o)'
    <3>1. obj[w] \in Objects /\ obj[w] \notin tombs
      BY <1>a, <2>4 DEF Placed
    <3>2. ~Taken(w)
      BY <2>4 DEF Taken
    <3> QED BY <1>a, <1>c, <2>1, <2>2, <2>4, <3>1, <3>2
  <2> QED BY <1>0, <1>a, <2>1, <2>2, <2>3, <2>4
<1>6. CASE GetCheck(w)
  <2>1. pc[w] \in {"tableget", "get"} /\ pc'[w] \in {"tableinc", "get", "inc", "taken"}
    BY <1>6 DEF GetCheck, Goto, Types
  <2> QED BY <1>a, <1>6, <2>1 DEF GetCheck, pool, table
<1>7. CASE TableGet(w)
  <2>1. /\ pc[w] = "tableinc" /\ pc'[w] = "get" /\ obj' = obj /\ live' = live /\ tombs' = tombs
        /\ obj[w] \in Objects
    BY <1>7 DEF TableGet, Goto, Types, table, Placed
  <2>2. \A o \in Objects : o # obj[w] => count'[o] = count[o]
    BY <1>7, <2>1, IncrementStep DEF TableGet
  <2> QED BY <1>0, <1>a, <1>b, <2>1, <2>2
<1>8. CASE Taken(w)
  <2>1. /\ pc[w] \in {"inc", "taken"} /\ pc'[w] = "run" /\ live' = live /\ tombs' = tombs
        /\ obj[w] \in Objects
    BY <1>8 DEF Taken, Continue, Goto, Types, table, Placed
  <2>2. \A o \in Objects : o # obj[w] => count'[o] = count[o]
    BY <1>8, <2>1, IncrementStep DEF Taken
  <2> QED BY <1>0, <1>a, <1>b, <2>1, <2>2
<1>9. CASE Store(w)
  BY <1>a, <1>9 DEF Store, pool, table
<1>10. CASE Discard(w)
  <2>1. pc'[w] = "put" /\ live' = live /\ tombs' = tombs /\ count' = count
    BY <1>10 DEF Discard, Goto, Types, table, pool
  <2> QED BY <1>a, <2>1
<1>11. CASE SnapPut(w)
  <2>1. /\ obj[w] \in Objects /\ obj[w] \in live /\ pc[w] = "put"
        /\ live' = live /\ tombs' = tombs
    BY <1>11, <1>a, BaseReferred DEF Clean, SnapPut, Placed, table
  <2>2. /\ \A o \in Objects : o # obj[w] => count'[o] = count[o]
        /\ count[obj[w]] # inst.limit /\ count[obj[w]] > 0 => count'[obj[w]] = count[obj[w]] - 1
    BY <1>11, <2>1, PutStep DEF SnapPut
  <2>3. CASE count[obj[w]] = 2 /\ count[obj[w]] # inst.limit
    <3>1. pc'[w] = "erase" /\ obj'[w] = obj[w]
      BY <1>11, <2>3 DEF SnapPut, Continue, Goto, Types
    <3>2. obj[w] \notin freed
      BY <2>1 DEF Clean, Deduplicated
    <3>3. Exact(obj[w])
      BY <2>1, <2>3, <3>2 DEF Exactly
    <3>4. ~Uncounted(obj[w]) /\ InTable(obj[w])
      BY <1>0, <2>1 DEF Uncounted, InTable
    <3>5. /\ Cardinality(Holders(obj[w])) \in Nat
          /\ \A o \in Objects : Cardinality(Holders(o)') \in Nat /\ IsFiniteSet(Holders(o)')
      BY <1>0, Sums
    <3>6. Cardinality(Holders(obj[w])) = 1
      BY <2>3, <3>3, <3>4, <3>5 DEF Exact, One
    <3>7. ASSUME NEW o \in Objects, obj[w] = o PROVE ~Referred(o)'
      <4>1. \A p \in Objects : Cardinality(Holders(p)') = Cardinality(Holders(p)) - One(obj[w] = p)
        BY <1>11, HoldersPut
      <4>2. Cardinality(Holders(o)') = Cardinality(Holders(o)) - One(obj[w] = o)
        BY <4>1, Zenon
      <4>3. Cardinality(Holders(o)') = 0
        BY <3>5, <3>6, <3>7, <4>2 DEF One
      <4> QED BY <3>5, <4>3, FS_EmptySet DEF Referred
    <3>8. count'[obj[w]] = 1
      BY <2>2, <2>3
    <3> QED BY <1>0, <1>a, <1>b, <2>1, <2>2, <3>1, <3>7, <3>8
  <2>4. CASE ~(count[obj[w]] = 2 /\ count[obj[w]] # inst.limit)
    <3>1. pc'[w] = "run"
      BY <1>11, <2>4 DEF SnapPut, Continue, Goto, Types
    <3> QED BY <1>0, <1>a, <1>b, <2>1, <2>2, <3>1
  <2> QED BY <2>3, <2>4
<1>12. CASE EraseFind(w)
  <2>1. /\ pc[w] = "erase" /\ obj[w] \in Objects /\ live' = live /\ tombs' = tombs /\ count' = count
        /\ pc'[w] = "run" \/ (pc'[w] = "bury" /\ obj'[w] = obj[w])
    BY <1>12 DEF EraseFind, Continue, Goto, Types, table, pool, Placed
  <2>2. ~Taken(w)
    BY <2>1 DEF Taken
  <2> QED BY <1>0, <1>a, <1>c, <2>1, <2>2
<1>13. CASE Bury(w)
  <2>1. /\ pc[w] = "bury" /\ obj[w] \in Objects /\ count' = count /\ pc'[w] = "run"
        /\ live' = live \ {obj[w]} /\ tombs' \subseteq tombs \cup {obj[w]}
    BY <1>13 DEF Bury, Continue, Goto, Types, pool, Placed
  <2>2. ~Taken(w)
    BY <2>1 DEF Taken
  <2> QED BY <1>0, <1>a, <1>c, <2>1, <2>2
<1> QED
  BY <1>1, <1>2, <1>3, <1>4, <1>5, <1>6, <1>7, <1>8, <1>9, <1>10, <1>11, <1>12, <1>13 DEF Step

\* With one worker, no snapshot has a freed object, and equal objects of snapshots are one:
\* nothing happens between the check and the increment of RefPool::get, nor between the
\* insert and the get in snap_dedup.
THEOREM OneWorkerIsSafe == Spec => []Sequential
<1>1. Init => inst \in Instances /\ (Alone => Inv /\ Clean)
  <2> SUFFICES ASSUME Init, Inv PROVE Clean
    BY InvInit DEF Init
  <2>1. Object0 \in Objects /\ None \notin Objects /\ Content0 \in Contents
    BY CowAssumption DEF CowAssumption
  <2>2. Based
    BY <2>1 DEF Init, Based
  <2>3. Deduplicated
    BY DEF Init, Deduplicated
  <2>4. Living
    BY <2>1 DEF Init, Living, Referred, Holders
  <2> QED BY <2>2, <2>3, <2>4 DEF Clean
<1>2. /\ inst \in Instances /\ (Alone => Inv /\ Clean)
      /\ [Next]_vars
      => (inst \in Instances /\ (Alone => Inv /\ Clean))'
  <2> SUFFICES ASSUME inst \in Instances, Alone => Inv /\ Clean, [Next]_vars
               PROVE  inst' \in Instances /\ (Alone' => Inv' /\ Clean')
    OBVIOUS
  <2>1. inst' = inst
    BY DEF Next, vars, LoadState, Write, Snapshot, Insert, Drop, GetCheck, TableGet, Taken, Store, Discard,
       SnapPut, EraseFind, Bury
  <2> SUFFICES ASSUME Alone' PROVE Inv' /\ Clean'
    BY <2>1
  <2>2. Alone /\ Inv /\ Clean
    BY <2>1 DEF Alone, Workers
  <2>3. Inv'
    BY <2>2, InvNext DEF Fits
  <2>4. CASE Next
    <3>1. PICK w \in Workers : Step(w)
      BY <2>4 DEF Next, Step
    <3> QED BY <2>2, <2>3, <3>1, BasedStep, DeduplicatedStep, LivingStep DEF Inv, Clean
  <2>5. CASE UNCHANGED vars
    <3> USE <2>5 DEF vars, Workers
    <3>1. Based' /\ Deduplicated'
      BY <2>2 DEF Clean, Based, Deduplicated
    <3>2. \A o : Holders(o)' = Holders(o)
      BY DEF Holders
    <3>3. Living'
      BY <2>2, <3>2 DEF Clean, Living, Referred, Holders
    <3> QED BY <2>3, <3>1, <3>3 DEF Clean
  <2> QED BY <2>4, <2>5
<1>3. inst \in Instances /\ (Alone => Inv /\ Clean) => Sequential
  <2> SUFFICES ASSUME inst \in Instances, Alone => Inv /\ Clean, Cardinality(Workers) = 1,
                      NEW o \in Allocated, NEW p \in Allocated, Holders(o) # {}, Holders(p) # {}
               PROVE  o \notin freed /\ (content[o] = content[p] => o = p)
    BY DEF Sequential
  <2>1. Alone
    <3>1. IsFiniteSet(Workers)
      BY CowAssumption DEF CowAssumption, Workers
    <3>2. PICK w : Workers = {w}
      BY <3>1, FS_Singleton
    <3> QED BY <3>2 DEF Alone
  <2>2. o \in live /\ p \in live
    BY <2>1 DEF Clean, Living, Referred, Allocated
  <2> QED BY <2>1, <2>2 DEF Clean, Deduplicated
<1> QED BY <1>1, <1>2, <1>3, PTL DEF Spec

=============================================================================
