---------------------------- MODULE MCPthreads -----------------------------
(***************************************************************************)
(* Instances of Pthreads for TLC.                                          *)
(***************************************************************************)
EXTENDS Pthreads, TLC

CONSTANTS t1, t2, t3, m1, m2, c1, b1

TwoTypes == m1 :> "normal" @@ m2 :> "recursive"
Pairs == b1 :> 2

ThreadSymmetry == Permutations(Threads)
=============================================================================
