----------------------------- MODULE EventWalk -----------------------------
(***************************************************************************)
(* What the interpreter relies on while it executes the nodes of the main  *)
(* graph for one event after the other: a node is one step, at the end of  *)
(* which either all its outputs are in the scope and one of its edges was  *)
(* taken, or some of them are and the flow has ended. EngineRunner has the *)
(* same steps as its actions Consume, ExecuteNode and ExecuteFails.        *)
(***************************************************************************)
EXTENDS Naturals

CONSTANTS
  Nodes,     \* nodes of the main graph
  Idle,      \* no node
  First,     \* where the edges of the startup node and of the triggers lead
  Succ,      \* where the edges of each node lead
  Outputs    \* what each node writes

VARIABLES
  at,        \* the node the walk has reached
  written,   \* what the nodes of this event have written
  served     \* number of events so far

vars == <<at, written, served>>

Init == at = Idle /\ written = {} /\ served = 0

\* The next event is taken when the last one is done.
Begin ==
  /\ at = Idle
  /\ at' \in First
  /\ written' = {}
  /\ served' = served + 1

Execute ==
  /\ at \in Nodes
  /\ at' \in Succ[at]
  /\ written' = written \cup Outputs[at]
  /\ UNCHANGED served

Fail ==
  /\ at \in Nodes
  /\ at' = Idle
  /\ \E S \in SUBSET Outputs[at] : written' = written \cup S
  /\ UNCHANGED served

Next == Begin \/ Execute \/ Fail

Spec == Init /\ [][Next]_vars

=============================================================================
