----------------------------- MODULE GraphBuild -----------------------------
(***************************************************************************)
(* How go/engine/build turns the nodes and edges of one canvas, the main   *)
(* workflow or the body of a function, into the tables the interpreter     *)
(* runs on: graph.build instantiates the nodes, wireEdges takes the nodes  *)
(* that tool edges point at out of the executables and then wires every    *)
(* edge, Build rejects function bodies that could not return, setupNodes   *)
(* sets up the agents. Any error ends the build.                           *)
(*                                                                         *)
(* Nodes are told apart by what the build asks of them: what they embed    *)
(* (LinearNode, BranchingNode, TriggerNode, ToolNode) and whether they are *)
(* an Executable, a Trigger and a ToolProvider. A transition is the index  *)
(* of the edge it came from.                                               *)
(***************************************************************************)
EXTENDS Naturals, Sequences, WorkflowGraph

CONSTANTS
  Ids,          \* ids of nodes
  Kind,         \* the kind of each of them
  Ports,        \* the ports that each of them follows
  Canvases,     \* the lists of nodes considered
  FunctionId,   \* the function that each FunctionCall node names (functionId)
  Functions,    \* ids of the functions the workflow declares
  Edges,        \* edges a document may contain
  Documents,    \* the lists of edges considered
  NoNode,       \* the empty id
  Idle          \* StateIdle

Kinds == {"startup", "trigger", "delay", "linear", "provider", "call", "agent", "toolonly"}

EdgeTypes == {"Control", "AgentTask", "AgentDelegate", "AgentChoice", "Tool"}

ASSUME NodeAssumption ==
  /\ Kind \in [Ids -> Kinds]
  /\ \A n \in Ids : Ports[n] # {}
  /\ Canvases \subseteq Seq(Ids)
  /\ NoNode \notin Ids
  /\ Idle \notin Ids

\* An edge may name unknown nodes, and a port that its source never follows.
ASSUME EdgeAssumption ==
  /\ \A e \in Edges : e.type \in EdgeTypes /\ e.described \in BOOLEAN
  /\ Documents \subseteq Seq(Edges)

VARIABLES
  role,         \* "main", or "function" for the body of a function
  phase,        \* where Build is with this canvas
  pos,          \* the node or edge it looks at next
  nodeList,     \* the nodes of the canvas, in document order
  startup,      \* the OnStartup or OnFunctionCall node, NoNode when there is none
  allNodes, executables, triggers, tools,  \* the maps of type graph
  edges,        \* the argument of wireEdges
  entry,        \* entryTr: the index of the edge it was made from, 0 when zero
  wired,        \* edges that became transitions of their source
  attached,     \* tool edges whose receiver was added to the agent
  error         \* which check ended the build

maps == <<startup, allNodes, executables, triggers>>
tables == <<entry, wired, attached>>
vars == <<role, nodeList, phase, pos, maps, tools, edges, tables, error>>

Phases == {"nodes", "tools", "wire", "check", "setup", "built", "failed"}
Errors == {"none", "node", "lookup", "unknown", "entry", "tool", "control", "duplicate", "function", "setup"}

TypeOK ==
  /\ role \in {"main", "function"}
  /\ phase \in Phases
  /\ pos \in Nat \ {0}
  /\ nodeList \in Canvases
  /\ startup \in Ids \cup {NoNode}
  /\ allNodes \in SUBSET Ids
  /\ executables \in SUBSET allNodes
  /\ triggers \in SUBSET allNodes
  /\ tools \in SUBSET allNodes
  /\ edges \in Documents \cup {<<>>}
  /\ entry \in DOMAIN edges \cup {0}
  /\ wired \in SUBSET DOMAIN edges
  /\ attached \in SUBSET DOMAIN edges
  /\ error \in Errors

-----------------------------------------------------------------------------
(* What a node can do *)

IsTrigger(n) == Kind[n] \in {"trigger", "delay"}
IsExecutable(n) == Kind[n] \in {"delay", "linear", "provider", "call", "agent"}
IsToolProvider(n) == Kind[n] \in {"provider", "call", "agent", "toolonly"}

Fail(why) ==
  /\ phase' = "failed"
  /\ error' = why
  /\ UNCHANGED <<role, nodeList, pos, maps, tools, edges, tables>>

-----------------------------------------------------------------------------
(* graph.build *)

Init ==
  /\ role \in {"main", "function"}
  /\ phase = "nodes"
  /\ pos = 1
  /\ nodeList \in Canvases
  /\ startup = NoNode
  /\ allNodes = {} /\ executables = {} /\ triggers = {} /\ tools = {}
  /\ edges = <<>>
  /\ entry = 0 /\ wired = {} /\ attached = {}
  /\ error = "none"

Node == nodeList[pos]

\* A FunctionCall node is looked up in the table of functions under its own id.
FunctionFound(n) == n \in Functions

\* The startup node stays out of every map; the last one of a canvas counts.
Instantiate ==
  /\ phase = "nodes"
  /\ pos \in DOMAIN nodeList
  /\ Kind[Node] = "call" => FunctionFound(Node)
  /\ pos' = pos + 1
  /\ IF Kind[Node] = "startup"
     THEN startup' = Node /\ UNCHANGED <<allNodes, executables, triggers>>
     ELSE /\ allNodes' = allNodes \cup {Node}
          /\ executables' = executables \cup {n \in {Node} : IsExecutable(n)}
          /\ triggers' = triggers \cup {n \in {Node} : IsTrigger(n)}
          /\ UNCHANGED startup
  /\ UNCHANGED <<role, nodeList, phase, tools, edges, tables, error>>

\* A missing field, an argument that names no declared channel, model, memory
\* or function, or a service that is not configured.
InstantiateFails ==
  /\ phase = "nodes"
  /\ pos \in DOMAIN nodeList
  /\ Kind[Node] # "startup"
  /\ Fail("node")

LookupFails ==
  /\ phase = "nodes"
  /\ pos \in DOMAIN nodeList
  /\ Kind[Node] = "call"
  /\ ~FunctionFound(Node)
  /\ Fail("lookup")

\* The call of wireEdges.
NodesDone ==
  /\ phase = "nodes"
  /\ pos = Len(nodeList) + 1
  /\ phase' = "tools"
  /\ pos' = 1
  /\ edges' \in Documents
  /\ UNCHANGED <<role, nodeList, maps, tools, tables, error>>

-----------------------------------------------------------------------------
(* wireEdges *)

Edge == edges[pos]

\* First pass: whatever a tool edge points at is a tool and no state.
ExtractTool ==
  /\ phase = "tools"
  /\ pos \in DOMAIN edges
  /\ Edge.type = "Tool"
  /\ \/ /\ Edge.to \in allNodes
        /\ tools' = tools \cup {Edge.to}
        /\ executables' = executables \ {Edge.to}
        /\ pos' = pos + 1
        /\ UNCHANGED <<role, nodeList, phase, startup, allNodes, triggers, edges, tables, error>>
     \/ Edge.to \notin allNodes /\ Fail("unknown")

PassOver ==
  /\ phase = "tools"
  /\ pos \in DOMAIN edges
  /\ Edge.type # "Tool"
  /\ pos' = pos + 1
  /\ UNCHANGED <<role, nodeList, phase, maps, tools, edges, tables, error>>

ToolsDone ==
  /\ phase = "tools"
  /\ pos = Len(edges) + 1
  /\ phase' = "wire"
  /\ pos' = 1
  /\ UNCHANGED <<role, nodeList, maps, tools, edges, tables, error>>

\* Second pass. Edges of the startup node: every one overwrites entryTr.
IsEntry(e) == e.from = startup

\* Mutant of WireEntry: the index of the edge after it.
WireEntryOffByOne ==
  /\ phase = "wire"
  /\ pos \in DOMAIN edges
  /\ IsEntry(Edge)
  /\ \/ /\ Edge.to \in executables
        /\ entry' = pos + 1
        /\ pos' = pos + 1
        /\ UNCHANGED <<role, nodeList, phase, maps, tools, edges, wired, attached, error>>
     \/ Edge.to \notin executables /\ Fail("entry")

\* Mutant of WireEntry: the first edge of the startup node counts.
WireEntryFirst ==
  /\ phase = "wire"
  /\ pos \in DOMAIN edges
  /\ IsEntry(Edge)
  /\ \/ /\ Edge.to \in executables
        /\ entry' = IF entry = 0 THEN pos ELSE entry
        /\ pos' = pos + 1
        /\ UNCHANGED <<role, nodeList, phase, maps, tools, edges, wired, attached, error>>
     \/ Edge.to \notin executables /\ Fail("entry")

WireEntry ==
  /\ phase = "wire"
  /\ pos \in DOMAIN edges
  /\ IsEntry(Edge)
  /\ \/ /\ Edge.to \in executables
        /\ entry' = pos
        /\ pos' = pos + 1
        /\ UNCHANGED <<role, nodeList, phase, maps, tools, edges, wired, attached, error>>
     \/ Edge.to \notin executables /\ Fail("entry")

EdgeUnknown ==
  /\ phase = "wire"
  /\ pos \in DOMAIN edges
  /\ ~IsEntry(Edge)
  /\ Edge.from \notin allNodes \/ Edge.to \notin allNodes
  /\ Fail("unknown")

\* The edge at pos is neither the startup node's nor one of unknown nodes.
Proper ==
  /\ phase = "wire"
  /\ pos \in DOMAIN edges
  /\ ~IsEntry(Edge)
  /\ Edge.from \in allNodes
  /\ Edge.to \in allNodes

WireTool ==
  /\ Proper
  /\ Edge.type = "Tool"
  /\ \/ /\ IsToolProvider(Edge.to)
        /\ Kind[Edge.from] = "agent"
        /\ attached' = attached \cup {pos}
        /\ pos' = pos + 1
        /\ UNCHANGED <<role, nodeList, phase, maps, tools, edges, entry, wired, error>>
     \/ ~IsToolProvider(Edge.to) /\ Fail("tool")
     \/ Kind[Edge.from] # "agent" /\ Fail("tool")

\* Mutant of Refuses: only a repeated edge counts as a duplicate.
RefusesRepeated(e) ==
  Kind[e.from] = "toolonly" \/ \E i \in wired : edges[i] = e

\* AddTransition: an agent takes any number, a trigger one, any other node one
\* per port and a tool-only node none.
Refuses(e) ==
  \/ Kind[e.from] = "toolonly"
  \/ IsTrigger(e.from) /\ \E i \in wired : edges[i].from = e.from
  \/ Kind[e.from] # "agent"
     /\ \E i \in wired : edges[i].from = e.from /\ edges[i].port = e.port

\* Mutant of Targets: any node that is not a tool.
TargetsAnyNode(n) == n \notin tools

\* The target of a control edge is an executable that no tool edge took away.
Targets(n) == n \in executables /\ n \notin tools

WireControl ==
  /\ Proper
  /\ Edge.type # "Tool"
  /\ \/ /\ Targets(Edge.to)
        /\ ~Refuses(Edge)
        /\ wired' = wired \cup {pos}
        /\ pos' = pos + 1
        /\ UNCHANGED <<role, nodeList, phase, maps, tools, edges, entry, attached, error>>
     \/ ~Targets(Edge.to) /\ Fail("control")
     \/ Targets(Edge.to) /\ Refuses(Edge) /\ Fail("duplicate")

EdgesDone ==
  /\ phase = "wire"
  /\ pos = Len(edges) + 1
  /\ phase' = "check"
  /\ UNCHANGED <<role, nodeList, pos, maps, tools, edges, tables, error>>

-----------------------------------------------------------------------------
(* Build: function bodies, and the setup of the nodes *)

\* Mutant of MayReturn: a Delay is taken for an executable like the others.
MayReturnByDelay == triggers \subseteq executables /\ entry # 0

\* A function returns when its body is back at idle: nothing in it may resume
\* a flow later, and it has to start somewhere.
MayReturn == triggers = {} /\ entry # 0

CheckFunction ==
  /\ phase = "check"
  /\ \/ /\ role = "function" => MayReturn
        /\ phase' = "setup"
        /\ UNCHANGED <<role, nodeList, pos, maps, tools, edges, tables, error>>
     \/ role = "function" /\ ~MayReturn /\ Fail("function")

Branches(n) == {i \in wired : edges[i].from = n}
Several(S) == \E i, j \in S : i # j

\* Agent.Setup: with several branches each needs the description the model
\* chooses by.
Undescribed(n) ==
  /\ Kind[n] = "agent"
  /\ Several(Branches(n))
  /\ \E i \in Branches(n) : ~edges[i].described

SetupNodes ==
  /\ phase = "setup"
  /\ \/ /\ \A n \in allNodes : ~Undescribed(n)
        /\ phase' = "built"
        /\ UNCHANGED <<role, nodeList, pos, maps, tools, edges, tables, error>>
     \/ (\E n \in allNodes : Undescribed(n)) /\ Fail("setup")

Over == phase \in {"built", "failed"} /\ UNCHANGED vars

Next ==
  \/ Instantiate \/ InstantiateFails \/ LookupFails \/ NodesDone
  \/ ExtractTool \/ PassOver \/ ToolsDone
  \/ WireEntry \/ EdgeUnknown \/ WireTool \/ WireControl \/ EdgesDone
  \/ CheckFunction \/ SetupNodes
  \/ Over

Spec == Init /\ [][Next]_vars

-----------------------------------------------------------------------------
(* What a finished build promises the interpreter *)

FollowedFrom(n, p) == {i \in wired : edges[i].from = n /\ edges[i].port = p}

\* The next states a node can name: a Delay always answers idle, any other node
\* what is wired to the port it picks, which is idle when nothing is.
SuccOf ==
  [n \in executables |->
     IF n \in triggers THEN {}
     ELSE {edges[i].to : i \in UNION {FollowedFrom(n, p) : p \in Ports[n]}}
          \cup {x \in {Idle} : \E p \in Ports[n] : FollowedFrom(n, p) = {}}]

TargetOf ==
  [t \in triggers |->
     IF Branches(t) = {} THEN Idle ELSE edges[CHOOSE i \in Branches(t) : TRUE].to]

EntryOf == IF entry = 0 THEN Idle ELSE edges[entry].to

\* The interpreter never looks up a state that is not there: whatever the order
\* of the edges, every transition of an accepted canvas leads to an executable
\* that no tool edge took out of the table (graph.go:405-407 and 465-468).
BuiltGraphIsRunnable ==
  phase = "built" =>
    Runnable(executables, triggers, executables \cap triggers, Idle,
             EntryOf, TargetOf, SuccOf)

\* A function body that was accepted comes back to idle by itself: it starts
\* somewhere and nothing in it resumes a flow after the call has returned, a
\* Delay included, which is an executable too (build.go:69-74).
FunctionBodiesReturn ==
  phase = "built" /\ role = "function" =>
    /\ EntryOf \in executables
    /\ \A n \in executables : ~IsTrigger(n) /\ SuccOf[n] # {}

\* The rules of a canvas, said of the document alone: of its set of edges, and
\* of no order of passes.
Present == {nodeList[i] : i \in DOMAIN nodeList} \ {n \in Ids : Kind[n] = "startup"}
ToolWired == {edges[i].to : i \in {j \in DOMAIN edges : edges[j].type = "Tool"}}
MayFollow(n) == n \in Present /\ IsExecutable(n) /\ n \notin ToolWired
FromStartup == {i \in DOMAIN edges : IsEntry(edges[i])}
ToolEdges == {i \in DOMAIN edges \ FromStartup : edges[i].type = "Tool"}
ControlEdges == DOMAIN edges \ (FromStartup \cup ToolEdges)
Clash(e, f) ==
  e.from = f.from /\ (IsTrigger(e.from) \/ (Kind[e.from] # "agent" /\ e.port = f.port))

Acceptable ==
  /\ ToolWired \subseteq Present
  /\ \A i \in FromStartup : MayFollow(edges[i].to)
  /\ \A i \in ToolEdges :
       /\ edges[i].from \in Present /\ Kind[edges[i].from] = "agent"
       /\ IsToolProvider(edges[i].to)
  /\ \A i \in ControlEdges :
       /\ edges[i].from \in Present /\ Kind[edges[i].from] # "toolonly"
       /\ MayFollow(edges[i].to)
       /\ \A j \in ControlEdges \ {i} : ~Clash(edges[i], edges[j])
  /\ role = "function" =>
       (\A n \in Present : ~IsTrigger(n)) /\ FromStartup # {}
  /\ \A i, j \in ControlEdges :
       i # j /\ edges[i].from = edges[j].from /\ Kind[edges[i].from] = "agent" =>
         edges[i].described

\* The verdict on the edges depends on the document alone: a canvas is built
\* exactly when it keeps the rules, whatever the order of its nodes and edges.
VerdictIsTheDocuments ==
  /\ phase = "built" => Acceptable
  /\ phase = "failed" /\ error \notin {"node", "lookup"} => ~Acceptable

\* Nothing the document says is dropped on the way: every tool edge of a built
\* canvas is attached, every control edge is a transition, and the entry is an
\* edge of the startup node. (Of several such edges only the last one counts:
\* that, unlike a second edge on a port, is not refused.)
NoEdgeForgotten ==
  phase = "built" =>
    /\ attached = ToolEdges
    /\ wired = ControlEdges
    /\ IF FromStartup = {} THEN entry = 0
       ELSE entry \in FromStartup /\ \A i \in FromStartup : i <= entry

\* A FunctionCall is refused only when the function it names is not declared
\* ("The engine resolves a `FunctionCall` purely by **`functionId`**",
\* skills/workflow-generate/reference/functions.md:23).
FunctionCallsResolveByFunctionId ==
  phase = "failed" /\ error = "lookup" => FunctionId[Node] \notin Functions

=============================================================================
