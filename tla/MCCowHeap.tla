----------------------------- MODULE MCCowHeap -----------------------------
(***************************************************************************)
(* Instances of CowHeap for TLC.                                           *)
(***************************************************************************)
EXTENDS CowHeap

\* Two workers far below the limit of the counter (8 bits), and one worker that reaches
\* the limit.
TwoOrSaturated ==
  {[workers |-> {"w1", "w2"}, limit |-> 255], [workers |-> {"w1"}, limit |-> 3]}

Two == {[workers |-> {"w1", "w2"}, limit |-> 255]}
TwoAtLimit == {[workers |-> {"w1", "w2"}, limit |-> 3]}
=============================================================================
