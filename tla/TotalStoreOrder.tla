-------------------------- MODULE TotalStoreOrder --------------------------
(***************************************************************************)
(* The machine that programs run on under `x86-TSO`, as the litmus tests   *)
(* of test/weakmem/x86-tso describe it: one memory, a first-in first-out   *)
(* store buffer for every thread, and a step of the machine's own that     *)
(* moves the oldest store of some buffer to memory at any time.            *)
(*                                                                         *)
(* It is written as a function of sets of machine states, so that it can   *)
(* observe another implementation: Explain(S, t, i, r) are the states the  *)
(* machine may be in after thread t got the result r from instruction i,   *)
(* when it was in one of S before.  An execution is one of x86-TSO when    *)
(* the set never becomes empty.                                            *)
(***************************************************************************)
EXTENDS Naturals, Sequences, FiniteSetsExt

CONSTANTS Threads,    \* the threads of the program
          Addresses   \* the locations they use

\* All locations start as 0 and all store buffers are empty.
Machine0 == [mem |-> [a \in Addresses |-> 0], sb |-> [t \in Threads |-> <<>>]]

\* The machine moves the oldest store of thread t's buffer to memory.
Propagate(s, t) ==
  [mem |-> [s.mem EXCEPT ![Head(s.sb[t]).addr] = Head(s.sb[t]).val],
   sb |-> [s.sb EXCEPT ![t] = Tail(@)]]

\* The states reached from those of S by the machine's own steps.
Settle(S) ==
  LET Pending(s) == MapThenSumSet(LAMBDA t : Len(s.sb[t]), Threads)
      after[n \in Nat] ==
        IF n = 0 THEN S
        ELSE LET before == after[n - 1]
             IN  before \cup UNION {{Propagate(s, t) : t \in {u \in Threads : s.sb[u] # <<>>}} :
                                      s \in before}
  IN  IF S = {} THEN {} ELSE after[Max({Pending(s) : s \in S})]

\* What thread t reads at address a: its own latest store, or else memory.
Reads(s, t, a) ==
  LET own == {n \in DOMAIN s.sb[t] : s.sb[t][n].addr = a}
  IN  IF own = {} THEN s.mem[a] ELSE s.sb[t][Max(own)].val

\* A locked instruction waits for the thread's buffer to drain, then acts on memory.
Locked(S, t) == {s \in S : s.sb[t] = <<>>}
Write(S, i) == {[s EXCEPT !.mem[i.addr] = i.val] : s \in S}

\* The effect of instruction i with the observed result r = [ok, val].  A
\* compare-and-swap that fails is a load, as its failure order in C says; the result
\* of one that succeeds is only that it did.
Effect(S, t, i, r) ==
  LET seen == {s \in S : Reads(s, t, i.addr) = r.val}
  IN  CASE i.op = "store" ->
             {[s EXCEPT !.sb[t] = Append(@, [addr |-> i.addr, val |-> i.val])] : s \in S}
        [] i.op = "scstore" -> Write(Locked(S, t), i)
        [] i.op = "load"  -> seen
        [] i.op \in {"fence", "join"} -> Locked(S, t)
        [] i.op = "swap"  -> Write(Locked(seen, t), i)
        [] i.op \in {"cas", "weakcas"} ->
             IF r.ok THEN Write({s \in Locked(S, t) : s.mem[i.addr] = i.cmp}, i)
             ELSE {s \in seen : i.op = "cas" => r.val # i.cmp}

\* The machine states that explain the result r of instruction i of thread t.
Explain(S, t, i, r) == Effect(Settle(S), t, i, r)
=============================================================================
