----------------------------- MODULE WeakMemory -----------------------------
(***************************************************************************)
(* The lazy simulation of x86-TSO in src/dios/rst/weakmem.cpp: stores of a *)
(* thread wait in its buffer, and a load decides, at the last moment, which*)
(* stores to its address have reached memory before it.  Stores to other   *)
(* addresses that had to be there before those become Committed: they stay *)
(* in the buffer until somebody reads or overwrites their address.         *)
(*                                                                         *)
(* Threads run a program of straight-line code, chosen in Init.  Every     *)
(* operation runs under the runtime's mask and is one action.  `machine`   *)
(* is a history variable: the x86-TSO machine states that explain the      *)
(* values the threads have got so far.                                     *)
(***************************************************************************)
EXTENDS Naturals, Sequences, FiniteSets, Functions, FiniteSetsExt

CONSTANTS Threads,     \* 1..n: the order of the tasks in the map of buffers
          Addresses,   \* locations, all of the same size
          Programs     \* [bound: __lart_weakmem_buffer_size, code: [Threads -> Seq(instruction)]]

ASSUME WeakMemoryAssumption ==
  /\ Threads \subseteq Nat /\ IsFiniteSet(Threads)
  /\ \A p \in Programs : \A t \in Threads : \A i \in Range(p.code[t]) :
       /\ i.op \notin {"fence", "join"} => i.addr \in Addresses
       /\ i.op \notin {"fence", "join", "load"} => i.val \in Nat

VARIABLES prog,      \* the program that runs
          mem,       \* the memory
          buf,       \* Buffers: for each thread the lines of its buffer, oldest first
          pc,        \* the next instruction of each thread
          machine    \* history: the states of the x86-TSO machine that explain the run

vars == <<prog, mem, buf, pc, machine>>

TSO == INSTANCE TotalStoreOrder

Init ==
  /\ prog \in Programs
  /\ mem = [a \in Addresses |-> 0]
  /\ buf = [t \in Threads |-> <<>>]
  /\ pc = [t \in Threads |-> 1]
  /\ machine = {TSO!Machine0}
-----------------------------------------------------------------------------
(* Operators on s = [mem, buf], what the runtime keeps.  Those that call   *)
(* __vm_choose return the set of possible outcomes.                        *)

Matching(b, a) == {n \in DOMAIN b : b[n].addr = a}
Committed(b, a) == {n \in Matching(b, a) : b[n].committed}

\* BufferLine::store
Store(s, line) == [s EXCEPT !.mem[line.addr] = line.val]

\* The lines among the first n of b that do not match a: they are Committed and kept.
Kept(b, a) ==
  LET kept[n \in 0..Len(b)] ==
        IF n = 0 THEN <<>>
        ELSE IF b[n].addr = a THEN kept[n - 1]
        ELSE Append(kept[n - 1], [b[n] EXCEPT !.committed = TRUE])
  IN  kept

\* Mutant: the lines that are kept are not marked.
BadFlushDelayed(b, last, a) ==
  SelectSeq(SubSeq(b, 1, last), LAMBDA l : l.addr # a) \o SubSeq(b, last + 1, Len(b))

\* Mutant: the lines behind `last` are marked instead of those before it.
BadFlushBelow(b, last, a) ==
  LET rest == SubSeq(b, last + 1, Len(b))
  IN  SelectSeq(SubSeq(b, 1, last), LAMBDA l : l.addr # a)
      \o [n \in DOMAIN rest |-> [rest[n] EXCEPT !.committed = TRUE]]

\* Buffers::flush(buf, entry, addr): what it leaves of a buffer, when the lines up to
\* `last` that match are stored.
Flush(b, last, a) == Kept(b, a)[last] \o SubSeq(b, last + 1, Len(b))

\* flush_buf: idx is compared with the position of a line in the whole buffer, from 0;
\* when no delayed line to a is there, the last line to a ends the flush.
LastLine(b, idx, a) ==
  LET lines == Matching(b, a)
  IN  IF idx + 1 \in lines \ Committed(b, a) THEN idx + 1 ELSE Max(lines)

\* The buffers of `chosen` are flushed in some order, which ends with the one of p: all
\* of them store to a only, so that the value of the last line of p remains.
FlushBuffers(s, chosen, p, todo, a) ==
  LET last == [q \in chosen |-> LastLine(s.buf[q], todo[q], a)]
  IN  [mem |-> [s.mem EXCEPT ![a] = s.buf[p][last[p]].val],
       buf |-> [q \in Threads |-> IF q \in chosen THEN Flush(s.buf[q], last[q], a) ELSE s.buf[q]]]

\* The eligible buffers are flushed in the order of the tasks.  The loop does not count
\* the buffer it keeps for the end, so each later one replaces it: the first `n` are
\* flushed, then the last one, and those between them are not.
First(eligible, n) == {p \in eligible : Cardinality({q \in eligible : q < p}) < n}

FlushEligible(s, eligible, todo, a) ==
  {FlushBuffers(s, First(eligible, n) \cup {Max(eligible)}, Max(eligible), todo, a) :
     n \in 0..(Cardinality(eligible) - 1)}

\* tso_load: for every buffer the number of lines that reach memory is chosen; buffers
\* with committed lines to a are flushed whatever is chosen, unless skip_local is set.
Must(s, skip_local, a) == {p \in Threads : ~skip_local /\ Committed(s.buf[p], a) # {}}

Todos(s, skip_local, a, t) ==
  LET Lines(p) == IF skip_local THEN Matching(s.buf[p], a)
                  ELSE Matching(s.buf[p], a) \ Committed(s.buf[p], a)
      most == [p \in Threads |-> IF skip_local /\ p = t THEN 0 ELSE Cardinality(Lines(p))]
  IN  {todo \in [Threads -> 0..Max(Range(most))] : \A p \in Threads : todo[p] <= most[p]}

TsoLoad(s, skip_local, a, t) ==
  IF \A p \in Threads \ {t} : Matching(s.buf[p], a) = {} THEN {s}
  ELSE UNION {LET eligible == {p \in Threads : todo[p] > 0} \cup Must(s, skip_local, a)
              IN  IF eligible = {} THEN {s} ELSE FlushEligible(s, eligible, todo, a) :
                todo \in Todos(s, skip_local, a, t)}

\* Buffers::flush(tid, buf): the whole buffer of t, oldest line first.
StoreLine(S, l, t) == {Store(r, l) : r \in UNION {TsoLoad(q, TRUE, l.addr, t) : q \in S}}

FlushAll(s, t) ==
  LET b == s.buf[t]
      after[n \in 0..Len(b)] == IF n = 0 THEN {s} ELSE StoreLine(after[n - 1], b[n], t)
  IN  {[r EXCEPT !.buf[t] = <<>>] : r \in after[Len(b)]}

\* push_tso: a line that does not fit pushes the oldest one out to memory.
PushTso(s, t, i) ==
  LET pushed == [s EXCEPT !.buf[t] = Append(@, [addr |-> i.addr, val |-> i.val,
                                                committed |-> FALSE])]
      oldest == Head(pushed.buf[t])
  IN  IF prog.bound = 0 \/ Len(pushed.buf[t]) <= prog.bound THEN {pushed}
      ELSE {[Store(r, oldest) EXCEPT !.buf[t] = Tail(@)] :
              r \in TsoLoad(pushed, TRUE, oldest.addr, t)}

\* __lart_weakmem_store with a SeqCst order or as a part of an atomic operation
StoreNow(s, t, i) == {Store(r, i) : r \in FlushAll(s, t)}

\* doLoad: the newest line of the thread's own buffer, or memory.
DoLoad(s, t, a) ==
  LET own == Matching(s.buf[t], a)
  IN  IF own = {} THEN s.mem[a] ELSE s.buf[t][Max(own)].val
-----------------------------------------------------------------------------
(* One action for each operation of the runtime.                           *)

\* Thread t gets `result` from its instruction and the runtime moves to r.
Return(t, r, result) ==
  /\ mem' = r.mem
  /\ buf' = r.buf
  /\ pc' = [pc EXCEPT ![t] = @ + 1]
  /\ machine' = TSO!Explain(machine, t, prog.code[t][pc[t]], result)
  /\ UNCHANGED prog

Runtime == [mem |-> mem, buf |-> buf]
Done == [ok |-> TRUE, val |-> 0]

\* Thread t is at an instruction i of one of the kinds in ops.
At(t, ops, i) ==
  /\ pc[t] <= Len(prog.code[t])
  /\ i = prog.code[t][pc[t]]
  /\ i.op \in ops

WeakStore(t, i) ==
  /\ At(t, {"store"}, i)
  /\ \E r \in PushTso(Runtime, t, i) : Return(t, r, Done)

StrongStore(t, i) ==
  /\ At(t, {"scstore"}, i)
  /\ \E r \in StoreNow(Runtime, t, i) : Return(t, r, Done)

\* __lart_weakmem_fence with a SeqCst order, which also every call of a pthread function
\* makes; "join" is the one that waits for the other threads to end.
Fence(t, i) ==
  /\ At(t, {"fence", "join"}, i)
  /\ i.op = "join" => \A u \in Threads \ {t} : pc[u] > Len(prog.code[u])
  /\ \E r \in FlushAll(Runtime, t) : Return(t, r, Done)

\* __lart_weakmem_load
Load(t, i) ==
  /\ At(t, {"load"}, i)
  /\ \E r \in TsoLoad(Runtime, FALSE, i.addr, t) :
       Return(t, r, [ok |-> TRUE, val |-> DoLoad(r, t, i.addr)])

\* atomicrmw, which the pass splits into a load and a store of the same mask
ReadModifyWrite(t, i) ==
  /\ At(t, {"swap"}, i)
  /\ \E q \in TsoLoad(Runtime, FALSE, i.addr, t) : \E r \in StoreNow(q, t, i) :
       Return(t, r, [ok |-> TRUE, val |-> DoLoad(q, t, i.addr)])

\* __lart_weakmem_cas: it fails when the value differs, and a weak one at will.
CasFails(t, i) ==
  /\ At(t, {"cas", "weakcas"}, i)
  /\ \E r \in TsoLoad(Runtime, FALSE, i.addr, t) :
       /\ DoLoad(r, t, i.addr) # i.cmp \/ i.op = "weakcas"
       /\ Return(t, r, [ok |-> FALSE, val |-> DoLoad(r, t, i.addr)])

\* When it succeeds, it returns the new value.
CasSucceeds(t, i) ==
  /\ At(t, {"cas", "weakcas"}, i)
  /\ \E q \in TsoLoad(Runtime, FALSE, i.addr, t) :
       /\ DoLoad(q, t, i.addr) = i.cmp
       /\ \E r \in StoreNow(q, t, i) : Return(t, r, [ok |-> TRUE, val |-> i.val])

Next ==
  \E t \in Threads : \E i \in Range(prog.code[t]) :
    \/ WeakStore(t, i)
    \/ StrongStore(t, i)
    \/ Fence(t, i)
    \/ Load(t, i)
    \/ ReadModifyWrite(t, i)
    \/ CasFails(t, i)
    \/ CasSucceeds(t, i)

Spec == Init /\ [][Next]_vars
-----------------------------------------------------------------------------
(* Properties *)

\* Every value the threads got is one that a run of the x86-TSO machine gives them:
\* the choices of tso_load, made late and one address at a time, fit together.
Explained == machine # {}

\* The committed lines of a buffer are its oldest ones, through all flushes of parts of
\* it: nothing that is still delayed stands before a store that has to be in memory.
CommittedFirst ==
  \A t \in Threads : \A m, n \in DOMAIN buf[t] :
    m < n /\ buf[t][n].committed => buf[t][m].committed
=============================================================================
