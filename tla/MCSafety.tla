----------------------------- MODULE MCSafety ------------------------------
(***************************************************************************)
(* Instances of Safety and TraceReplay for TLC.                            *)
(***************************************************************************)
EXTENDS TraceReplay

To(t, l) == [to |-> t, label |-> l, error |-> FALSE]
Err(t, l) == [to |-> t, label |-> l, error |-> TRUE]

\* Two branches that end in error edges to one state, which is also reached without
\* an error; the error edges have different sources and different labels.
TwoErrors == <<
  <<To(2, 1), To(3, 2), To(4, 3)>>,
  <<Err(4, 4), To(3, 5)>>,
  <<To(1, 6), Err(4, 7)>>,
  <<To(5, 8)>>,
  <<>>>>

\* The same with one error edge, to a state that has another parent in some runs, and
\* next to an edge between the same states without an error.
OneError == [TwoErrors EXCEPT ![2] = <<To(4, 9), Err(4, 4), To(3, 5)>>, ![3] = <<To(1, 6)>>]
=============================================================================
