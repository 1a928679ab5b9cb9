------------------------- MODULE MCParallelSearch -------------------------
(***************************************************************************)
(* Instances of ParallelSearch for TLC.                                    *)
(***************************************************************************)
EXTENDS ParallelSearch, TLC

\* A chunk of three leaves and an inner state with more successors than fit in
\* a chunk: the worker that takes it has spent its credit (one for each leaf) when
\* it pushes the state that fills its chunk.  One more successor has an error.
ChunkStates == 0..9
ChunkSucc == [s \in ChunkStates |-> CASE s = 0 -> {1, 2, 3, 4}
                                     [] s = 4 -> {5, 6, 7, 8, 9}
                                     [] s = 9 -> {0}
                                     [] OTHER -> {}]
ChunkErrors == {<<9, 0>>}

\* A root whose successors make two chunks, so that two workers expand them at
\* once; one of them has an error edge to a state that another one finds, too.
ForkStates == 0..6
ForkSucc == [s \in ForkStates |-> CASE s = 0 -> {1, 2, 3, 4, 5}
                                    [] s \in {4, 5} -> {6}
                                    [] s = 6 -> {0}
                                    [] OTHER -> {}]
ForkErrors == {<<5, 6>>}

\* A chunk that is published while its last state is not counted, a second one
\* with two states that the expansion of the first finds, joining paths, a cycle
\* and an ignored state, but no error.
WholeStates == 0..7
WholeSucc == [s \in WholeStates |-> CASE s = 0 -> 1..4
                                      [] s = 3 -> {5}
                                      [] s = 4 -> {5, 6, 7}
                                      [] s = 5 -> {0}
                                      [] OTHER -> {}]

First == {0}
NoErrors == {}

WorkerSymmetry == Permutations(Workers)
=============================================================================
