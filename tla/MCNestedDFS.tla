---------------------------- MODULE MCNestedDFS ----------------------------
(***************************************************************************)
(* Instances of NestedDFS for TLC: every graph of a family at once.        *)
(***************************************************************************)
EXTENDS NestedDFS

CONSTANTS MaxDegree   \* the number of edges of one state

\* Sequences of different edges, at most MaxDegree of them.
Lists(edges) ==
  {l \in UNION {[1..n -> edges] : n \in 0..MaxDegree} :
     \A i, j \in DOMAIN l : l[i] = l[j] => i = j}

\* All states are reachable, and each but the first has a predecessor with a
\* smaller number; every graph whose states are all reachable is isomorphic to such
\* a one.
Numbered(f) ==
  \A s \in States \ {Initial} : \E p \in 1..(s - 1) : \E i \in DOMAIN f[p] : f[p][i].to = s

\* Graphs with accepting edges everywhere, in which some states are entered by error
\* edges only, and the others by edges without error.
ErrorStates == {errors \in SUBSET (States \ {Initial}) : Cardinality(errors) <= 1}
ErrorsAtStates ==
  UNION {{f \in [States -> Lists({e \in Edges : e.error = (e.to \in errors)})] : Numbered(f)} :
           errors \in ErrorStates}

\* Error edges, no accepting ones, to any state.
AllFaulty == [States -> Lists({e \in Edges : ~e.accepting})]
=============================================================================
