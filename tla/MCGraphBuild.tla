---------------------------- MODULE MCGraphBuild ----------------------------
(***************************************************************************)
(* Small canvases for GraphBuild: a startup node, a trigger, a Delay, an   *)
(* If with two ports, an agent, a FunctionCall (a ToolProvider) and a web  *)
(* search tool, in three lists, and every document of up to three edges    *)
(* out of a set in which every rule can be kept and broken.                *)
(***************************************************************************)
EXTENDS GraphBuild, SequencesExt

MCIds == {"start", "tick", "wait", "if", "agent", "fn", "gone", "call", "web"}

MCKind ==
  [n \in MCIds |->
     CASE n = "start" -> "startup"
       [] n = "tick" -> "trigger"
       [] n = "wait" -> "delay"
       [] n = "if" -> "linear"
       [] n = "agent" -> "agent"
       [] n \in {"fn", "gone", "call"} -> "call"
       [] n = "web" -> "toolonly"]

MCPorts == [n \in MCIds |-> IF n = "if" THEN {"true", "false"} ELSE {"ctrl"}]

\* Node "fn" calls the function of that id and so does "call"; the function of
\* "gone" was deleted.
MCFunctionId == [n \in {"fn", "gone", "call"} |-> IF n = "gone" THEN "deleted" ELSE "fn"]

MCCanvases ==
  {<<"start", "agent", "fn", "if", "web">>,
   <<"agent", "tick", "if", "wait", "start">>,
   <<"if", "start", "wait", "agent">>,
   <<"start", "if", "gone">>}

\* Two canvases of one call each.
CallCanvases == {<<"start", "fn">>, <<"start", "call">>}


E(from, port, to, type, described) ==
  [from |-> from, port |-> port, to |-> to, type |-> type, described |-> described]

MCEdges ==
  {E("start", "ctrl", to, "Control", FALSE) : to \in {"agent", "fn"}}
  \cup {E("tick", "ctrl", to, "AgentTask", FALSE) : to \in {"if", "agent"}}
  \cup {E("if", "true", to, "Control", FALSE) : to \in {"wait", "tick", "ghost"}}
  \cup {E("if", p, "agent", "AgentTask", FALSE) : p \in {"true", "false", "other"}}
  \cup {E("agent", "ctrl", "if", "AgentChoice", TRUE)}
  \cup {E("agent", "ctrl", "if", "AgentDelegate", FALSE)}
  \cup {E("agent", "tool", to, "Tool", FALSE) : to \in {"fn", "web", "agent", "if"}}
  \cup {E("wait", "ctrl", "if", "Control", FALSE), E("fn", "tool", "web", "Tool", FALSE),
        E("ghost", "ctrl", "if", "Control", FALSE), E("web", "ctrl", "if", "Control", FALSE)}

CallEdges == {E("start", "ctrl", to, "Control", FALSE) : to \in {"fn", "call"}}
CallDocuments == BoundedSeq(CallEdges, 1)

MCDocuments == BoundedSeq(MCEdges, 3)

=============================================================================
