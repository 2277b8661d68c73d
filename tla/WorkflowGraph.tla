---------------------------- MODULE WorkflowGraph ----------------------------
(***************************************************************************)
(* What the interpreter needs of a workflow graph. build.wireEdges has to  *)
(* establish it (GraphBuild) and the state loop of engine.Runner relies on *)
(* it (EngineRunner): a state that is no executable node stops the runner  *)
(* with "node not found" long after the build accepted the workflow.       *)
(***************************************************************************)

\* nodes and triggers are ids, delays those that are both; entry is where the
\* startup edge leads, target[t] where a trigger leads, succ[n] where the ports
\* of a node lead. idle stands for "nowhere".
Runnable(nodes, triggers, delays, idle, entry, target, succ) ==
  /\ delays \subseteq nodes
  /\ entry \in nodes \cup {idle}
  /\ target \in [triggers -> nodes \cup {idle}]
  /\ succ \in [nodes -> SUBSET (nodes \cup {idle})]
  /\ \A n \in nodes \ delays : succ[n] # {}

=============================================================================
