----------------------------- MODULE MCAgentLoop -----------------------------
(***************************************************************************)
(* A small workflow for AgentLoop. An event leads to the planner by a task *)
(* edge, or to the writer by a control edge. The planner chooses between   *)
(* the log step and the writer; it declares one output and may call a      *)
(* memory tool, the helper agent and the function "clean". The helper has  *)
(* a turn limit and the expert and it hand over to one another. The task   *)
(* edge that follows the log step has no prompt.                           *)
(*                                                                         *)
(*   clean: wipe -> look -> wipe, or helper -> nothing                     *)
(***************************************************************************)
EXTENDS AgentLoop, SequencesExt

E(to, type, prompt) == [to |-> to, type |-> type, prompt |-> prompt]

MCOffers ==
  [a \in {"planner", "writer", "helper", "expert"} |->
     CASE a = "planner" -> {"memory", "ask", "call"}
       [] a = "helper" -> {"memory", "hand"}
       [] a = "expert" -> {"back"}
       [] OTHER -> {}]

MCAgentOf ==
  [t \in {"ask", "hand", "back"} |-> IF t = "hand" THEN "expert" ELSE "helper"]

MCStarts == {E("planner", "AgentTask", TRUE), E("writer", "Control", FALSE)}

MCOutEdges ==
  [n \in {"planner", "writer", "helper", "expert", "log", "wipe", "look", "call"} |->
     CASE n = "planner" -> {E("log", "AgentChoice", FALSE), E("writer", "AgentDelegate", TRUE)}
       [] n = "writer" -> {E("call", "Control", FALSE)}
       [] n = "log" -> {E("writer", "AgentTask", FALSE)}
       [] n = "wipe" -> {E("look", "Control", FALSE)}
       [] n = "look" -> {E("wipe", "Control", FALSE), E("helper", "AgentDelegate", TRUE)}
       [] n \in {"helper", "expert"} -> {}
       [] OTHER -> {E("idle", "Control", FALSE)}]

MCDeclared == [a \in {"planner", "writer", "helper", "expert"} |-> IF a = "planner" THEN 1 ELSE 0]
MCMaxTurns == [a \in {"planner", "writer", "helper", "expert"} |->
                 IF a \in {"helper", "writer"} THEN 3 ELSE 0]
MCFnOf == [c \in {"call"} |-> "clean"]
MCFnEntry == [f \in {"clean"} |-> E("wipe", "AgentDelegate", TRUE)]

MCResponses ==
  {<<t>> : t \in {"memory", "ask", "call", "hand", "back", "none"}}
  \cup {<<"memory", t>> : t \in {"memory", "ask", "hand"}}
  \cup {<<"call", "memory">>}

=============================================================================
