---------------------------- MODULE TraceReplay ----------------------------
(***************************************************************************)
(* What follows a search of module Safety that found an error: ce_trace    *)
(* collects the states from the parents, and mc::trace                     *)
(* (divine/mc/trace.hpp) runs a second search, of one worker, to get the   *)
(* labels of the edges between them.  Its listener answers Process for the *)
(* next edge of the trace, so that known states are opened again, and      *)
(* Ignore for all others.                                                  *)
(***************************************************************************)
EXTENDS Safety

VARIABLES phase,         \* "search", "replay", "done", or "bad" for BadTrace
          states, last,  \* the trace and the position of the iterator `last` in it
          work,          \* the queue of the second search
          from, edge,    \* the state it expands and its next edge
          steps, final   \* the labels of t.steps, and t.final

replayVars == <<phase, states, last, work, from, edge, steps, final>>
allVars == <<vars, replayVars>>

ReplayInit ==
  /\ Init
  /\ phase = "search"
  /\ states = <<>> /\ last = 1
  /\ work = <<>>
  /\ from = NoState /\ edge = 1
  /\ steps = <<>> /\ final = NoState

\* The states on the way from the initial state to s, by their parents.
Chain(s) ==
  LET back[n \in Nat] == IF n = 0 THEN s ELSE parent[back[n - 1]]
      length == CHOOSE n \in 0..Cardinality(States) :
                  back[n] = Initial /\ \A k \in 0..(n - 1) : back[k] # Initial
  IN  [n \in 1..(length + 1) |-> back[length + 1 - n]]

\* Safety::ce_trace: only the last state comes with a label.
CeTrace ==
  /\ phase = "search" /\ Joined /\ error_found
  /\ states' = Append([n \in DOMAIN Chain(error) |-> [state |-> Chain(error)[n], label |-> 0]],
                      [state |-> error_to, label |-> error_label])
  /\ work' = <<Initial>>
  /\ phase' = "replay"
  /\ UNCHANGED <<vars, last, from, edge, steps, final>>

Pop ==
  /\ phase = "replay" /\ from = NoState /\ work # <<>>
  /\ from' = Head(work) /\ work' = Tail(work)
  /\ edge' = 1
  /\ UNCHANGED <<vars, phase, states, last, steps, final>>

\* The listener is called for this edge.
Next_ == Graph[from][edge]
Calls == phase = "replay" /\ from # NoState /\ edge <= Len(Graph[from])
AtLast == from = states[last].state

\* Mutant: labels are not compared.
BadFits == AtLast /\ last < Len(states) /\ Next_.to = states[last + 1].state

Fits ==
  /\ AtLast /\ last < Len(states)
  /\ Next_.to = states[last + 1].state
  /\ states[last + 1].label \in {0, Next_.label}

Ignore ==
  /\ Calls /\ ~Fits /\ ~(AtLast /\ last = Len(states))
  /\ edge' = edge + 1
  /\ UNCHANGED <<vars, phase, states, last, work, from, steps, final>>

Process ==
  /\ Calls /\ Fits
  /\ final' = IF Next_.error THEN from ELSE final
  /\ steps' = Append(steps, Next_.label)
  /\ last' = last + 1
  /\ work' = Append(work, Next_.to)
  /\ edge' = edge + 1
  /\ UNCHANGED <<vars, phase, states, from>>

Expanded ==
  /\ phase = "replay" /\ from # NoState /\ edge > Len(Graph[from])
  /\ from' = NoState
  /\ UNCHANGED <<vars, phase, states, last, work, edge, steps, final>>

\* The second search ends, when the listener says so or when nothing is open.
EndReplay ==
  /\ \/ Calls /\ AtLast /\ last = Len(states)
     \/ phase = "replay" /\ from = NoState /\ work = <<>>
  /\ phase' = IF last = Len(states) THEN "done" ELSE "bad"
  /\ UNCHANGED <<vars, states, last, work, from, edge, steps, final>>

Replay == CeTrace \/ Pop \/ Ignore \/ Process \/ Expanded \/ EndReplay

ReplayNext == (Next /\ UNCHANGED replayVars) \/ Replay

\* The replay is code of one thread, which runs to its end.
ReplaySpec == ReplayInit /\ [][ReplayNext]_allVars /\ WF_allVars(Replay)
-----------------------------------------------------------------------------
\* The labels of the trace are those of a path of the program from the initial state,
\* whose last edge is the error edge and the only one with an error on the path.
Genuine ==
  /\ states[1].state = Initial
  /\ Len(steps) + 1 = Len(states)
  /\ \A n \in DOMAIN steps :
       [to |-> states[n + 1].state, label |-> steps[n], error |-> n = Len(steps)]
         \in EdgesOf(states[n].state)

\* Every error that the search reports can be shown: the replay ends, with a genuine
\* trace and with the source of the error edge as its final state, although the target of
\* the error edge may have another parent, and other edges may lead between the same states.
Replayed ==
  (Joined /\ error_found) ~> (phase = "done" /\ Genuine /\ final = error)
=============================================================================
