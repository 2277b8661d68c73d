-------------------------- MODULE GraphBuildProofs --------------------------
(***************************************************************************)
(* Proofs about GraphBuild for every canvas: any nodes of any kinds, any   *)
(* ports and any lists of edges.                                           *)
(***************************************************************************)
EXTENDS GraphBuild, TLAPS

\* The maps hold what their nodes are, and every trigger is in its map.
MapsInv ==
  /\ \A n \in allNodes : IsTrigger(n) => n \in triggers
  /\ phase \in {"nodes", "tools"} => wired = {} /\ attached = {} /\ entry = 0

\* Every transition made so far leads to an executable, and so does the entry.
TransitionInv ==
  /\ \A i \in wired : edges[i].to \in executables
  /\ entry # 0 => edges[entry].to \in executables
  /\ phase \in {"setup", "built"} /\ role = "function" => MayReturn

\* The edges that the second pass is done with.
Handled == IF phase = "wire" THEN 1 .. (pos - 1) ELSE DOMAIN edges

\* Each of them went where it belongs.
HandledInv ==
  phase \in {"wire", "check", "setup", "built"} =>
    /\ phase = "wire" => pos <= Len(edges) + 1
    /\ attached = ToolEdges \cap Handled
    /\ wired = ControlEdges \cap Handled
    /\ IF FromStartup \cap Handled = {} THEN entry = 0
       ELSE entry \in FromStartup \cap Handled /\ \A i \in FromStartup \cap Handled : i <= entry

BuildInv == TypeOK /\ MapsInv /\ TransitionInv /\ HandledInv

-----------------------------------------------------------------------------
(* The invariant is inductive *)

\* A list of edges is a sequence.
LEMMA EdgesAreSeq ==
  ASSUME TypeOK
  PROVE  edges \in Seq(Edges) /\ DOMAIN edges = 1 .. Len(edges) /\ Len(edges) \in Nat
<1>1. CASE edges = <<>> BY <1>1
<1>2. CASE edges \in Documents BY <1>2, EdgeAssumption
<1> QED BY <1>1, <1>2 DEF TypeOK

LEMMA InitBuild == Init => BuildInv
<1> SUFFICES ASSUME Init PROVE BuildInv OBVIOUS
<1>1. TypeOK BY DEF Init, TypeOK, Phases, Errors
<1>2. MapsInv BY DEF Init, MapsInv
<1>3. TransitionInv BY DEF Init, TransitionInv
<1>4. HandledInv BY DEF Init, HandledInv
<1> QED BY <1>1, <1>2, <1>3, <1>4 DEF BuildInv

\* Failing changes nothing but the verdict.
LEMMA FailBuild ==
  ASSUME BuildInv, NEW why \in Errors, Fail(why)
  PROVE  BuildInv'
<1> USE DEF BuildInv, Fail, maps, tables
<1>1. TypeOK' BY DEF TypeOK, Phases
<1>2. MapsInv' BY DEF MapsInv
<1>3. TransitionInv' BY DEF TransitionInv
<1>4. HandledInv' BY DEF HandledInv
<1> QED BY <1>1, <1>2, <1>3, <1>4

\* The pass over the nodes.
LEMMA NodesBuild ==
  ASSUME BuildInv, Instantiate \/ NodesDone
  PROVE  BuildInv'
<1>1. CASE Instantiate
  <2> USE <1>1 DEF Instantiate, BuildInv, tables
  <2>1. nodeList \in Seq(Ids) /\ pos \in DOMAIN nodeList BY NodeAssumption DEF TypeOK
  <2>2. Node \in Ids BY <2>1 DEF Node
  <2>3. TypeOK' BY <2>1, <2>2 DEF TypeOK, Phases, Errors
  <2>4. \A n \in allNodes' : IsTrigger(n) => n \in triggers'
    BY DEF MapsInv
  <2>5. MapsInv' BY <2>4 DEF MapsInv, IsTrigger
  <2>6. TransitionInv' BY DEF TransitionInv, MapsInv
  <2>7. HandledInv' BY DEF HandledInv
  <2> QED BY <2>3, <2>5, <2>6, <2>7
<1>2. CASE NodesDone
  <2> USE <1>2 DEF NodesDone, BuildInv, maps, tables
  <2>1. wired = {} /\ attached = {} /\ entry = 0 BY DEF MapsInv
  <2>2. TypeOK' BY <2>1 DEF TypeOK, Phases, Errors
  <2>3. MapsInv' BY <2>1 DEF MapsInv, IsTrigger
  <2>4. TransitionInv' BY <2>1 DEF TransitionInv
  <2>5. HandledInv' BY DEF HandledInv
  <2> QED BY <2>2, <2>3, <2>4, <2>5
<1> QED BY <1>1, <1>2

\* The first pass over the edges: nothing is wired yet, so that taking a node
\* out of the executables breaks no transition.
LEMMA FirstPassBuild ==
  ASSUME BuildInv, ExtractTool \/ PassOver \/ ToolsDone
  PROVE  BuildInv'
<1> USE DEF BuildInv, maps, tables
<1>0. wired = {} /\ attached = {} /\ entry = 0
  BY DEF ExtractTool, PassOver, ToolsDone, MapsInv
<1>1. CASE ExtractTool /\ error' # "unknown"
  <2> USE <1>0, <1>1 DEF ExtractTool, Fail
  <2>1. TypeOK' BY DEF TypeOK, Phases, Errors
  <2>2. MapsInv' BY DEF MapsInv, IsTrigger
  <2>3. TransitionInv' BY DEF TransitionInv
  <2>4. HandledInv' BY DEF HandledInv
  <2> QED BY <2>1, <2>2, <2>3, <2>4
<1>2. CASE ExtractTool /\ error' = "unknown"
  <2>1. CASE Fail("unknown") BY <2>1, FailBuild DEF Errors
  <2>2. CASE ~Fail("unknown")
    <3> USE <1>0, <1>2, <2>2 DEF ExtractTool
    <3>1. TypeOK' BY DEF TypeOK, Phases, Errors
    <3>2. MapsInv' BY DEF MapsInv, IsTrigger
    <3>3. TransitionInv' BY DEF TransitionInv
    <3>4. HandledInv' BY DEF HandledInv
    <3> QED BY <3>1, <3>2, <3>3, <3>4
  <2> QED BY <2>1, <2>2
<1>3. CASE PassOver \/ ToolsDone
  <2> USE <1>0, <1>3 DEF PassOver, ToolsDone
  <2>1. TypeOK' BY DEF TypeOK, Phases, Errors
  <2>2. MapsInv' BY DEF MapsInv, IsTrigger
  <2>3. TransitionInv' BY DEF TransitionInv
  <2>4. HandledInv'
    <3>1. phase' = "wire" => pos' = 1 BY DEF TypeOK
    <3>2. phase' = "wire" => Handled' = {} BY <3>1 DEF Handled
    <3>3. phase' \in {"tools", "wire"} OBVIOUS
    <3> QED BY <3>1, <3>2, <3>3, EdgesAreSeq DEF HandledInv
  <2> QED BY <2>1, <2>2, <2>3, <2>4
<1> QED BY <1>1, <1>2, <1>3

\* The three ways an edge is handled in the second pass.
Enters ==
  /\ IsEntry(Edge) /\ Edge.to \in executables
  /\ entry' = pos /\ wired' = wired /\ attached' = attached
Attaches ==
  /\ ~IsEntry(Edge) /\ Edge.type = "Tool"
  /\ attached' = attached \cup {pos} /\ wired' = wired /\ entry' = entry
Connects ==
  /\ ~IsEntry(Edge) /\ Edge.type # "Tool" /\ Edge.to \in executables
  /\ wired' = wired \cup {pos} /\ attached' = attached /\ entry' = entry

LEMMA EdgeBuild ==
  ASSUME BuildInv, phase = "wire", pos \in DOMAIN edges, Enters \/ Attaches \/ Connects,
         pos' = pos + 1, UNCHANGED <<role, nodeList, phase, maps, tools, edges, error>>
  PROVE  BuildInv'
<1> USE DEF BuildInv, maps
<1>0. edges \in Seq(Edges) /\ DOMAIN edges = 1 .. Len(edges) /\ Len(edges) \in Nat /\ pos \in Nat
  BY EdgesAreSeq DEF TypeOK
<1>1. TypeOK' BY <1>0 DEF TypeOK, Phases, Errors, Enters, Attaches, Connects
<1>2. MapsInv' BY DEF MapsInv, IsTrigger
<1>3. TransitionInv' BY DEF TransitionInv, Enters, Attaches, Connects, Edge
<1>4. HandledInv'
  <2>1. Handled' = Handled \cup {pos} /\ pos \notin Handled /\ Handled \subseteq DOMAIN edges
    BY <1>0 DEF Handled
  <2>2. /\ FromStartup' = FromStartup /\ ToolEdges' = ToolEdges /\ ControlEdges' = ControlEdges
    BY DEF FromStartup, ToolEdges, ControlEdges, IsEntry
  <2>3. /\ pos \in FromStartup <=> IsEntry(Edge)
        /\ pos \in ToolEdges <=> ~IsEntry(Edge) /\ Edge.type = "Tool"
        /\ pos \in ControlEdges <=> ~IsEntry(Edge) /\ Edge.type # "Tool"
    BY DEF FromStartup, ToolEdges, ControlEdges, Edge
  <2>4. attached' = ToolEdges \cap Handled'
    BY <2>1, <2>3 DEF HandledInv, Enters, Attaches, Connects
  <2>5. wired' = ControlEdges \cap Handled'
    BY <2>1, <2>3 DEF HandledInv, Enters, Attaches, Connects
  <2>6. IF FromStartup \cap Handled' = {} THEN entry' = 0
        ELSE /\ entry' \in FromStartup \cap Handled'
             /\ \A i \in FromStartup \cap Handled' : i <= entry'
    <3>1. CASE Enters
      <4>1. pos \in FromStartup \cap Handled' BY <3>1, <2>1, <2>3 DEF Enters
      <4>2. \A i \in Handled' : i <= pos BY <1>0, <2>1 DEF Handled
      <4> QED BY <3>1, <4>1, <4>2 DEF Enters
    <3>2. CASE ~Enters
      <4>1. FromStartup \cap Handled' = FromStartup \cap Handled
        BY <3>2, <2>1, <2>3 DEF Attaches, Connects
      <4>2. entry' = entry BY <3>2 DEF Attaches, Connects
      <4> QED BY <4>1, <4>2 DEF HandledInv
    <3> QED BY <3>1, <3>2
  <2>7. pos' <= Len(edges') + 1 BY <1>0
  <2>8. phase' = "wire" BY <1>0
  <2> QED BY <2>2, <2>4, <2>5, <2>6, <2>7, <2>8 DEF HandledInv
<1> QED BY <1>1, <1>2, <1>3, <1>4

\* The second pass over the edges.
LEMMA SecondPassBuild ==
  ASSUME BuildInv, WireEntry \/ EdgeUnknown \/ WireTool \/ WireControl
  PROVE  BuildInv'
<1>1. ASSUME NEW why \in Errors, Fail(why) PROVE BuildInv'
  BY <1>1, FailBuild
<1>2. CASE EdgeUnknown BY <1>1, <1>2 DEF EdgeUnknown, Errors
<1>3. CASE WireEntry
  <2>1. Fail("entry") \/ (Enters /\ pos' = pos + 1 /\ UNCHANGED <<role, nodeList, phase, maps, tools, edges, error>>)
    BY <1>3 DEF WireEntry, Enters
  <2>2. phase = "wire" /\ pos \in DOMAIN edges BY <1>3 DEF WireEntry
  <2> QED BY <2>1, <2>2, <1>1, EdgeBuild DEF Errors
<1>4. CASE WireTool
  <2>1. Fail("tool") \/ (Attaches /\ pos' = pos + 1 /\ UNCHANGED <<role, nodeList, phase, maps, tools, edges, error>>)
    BY <1>4 DEF WireTool, Proper, Attaches
  <2>2. phase = "wire" /\ pos \in DOMAIN edges BY <1>4 DEF WireTool, Proper
  <2> QED BY <2>1, <2>2, <1>1, EdgeBuild DEF Errors
<1>5. CASE WireControl
  <2>1. \/ Fail("control") \/ Fail("duplicate")
        \/ (Connects /\ pos' = pos + 1 /\ UNCHANGED <<role, nodeList, phase, maps, tools, edges, error>>)
    BY <1>5 DEF WireControl, Proper, Connects, Targets
  <2>2. phase = "wire" /\ pos \in DOMAIN edges BY <1>5 DEF WireControl, Proper
  <2> QED BY <2>1, <2>2, <1>1, EdgeBuild DEF Errors
<1> QED BY <1>2, <1>3, <1>4, <1>5

\* The end of the wiring and the two checks after it.
LEMMA ChecksBuild ==
  ASSUME BuildInv, EdgesDone \/ CheckFunction \/ SetupNodes
  PROVE  BuildInv'
<1>1. ASSUME NEW why \in Errors, Fail(why) PROVE BuildInv'
  BY <1>1, FailBuild
<1>2. CASE \A why \in Errors : ~Fail(why)
  <2> USE DEF BuildInv, maps, tables
  <2>0. /\ UNCHANGED <<role, nodeList, maps, tools, edges, tables, error, pos>>
        /\ \/ phase = "wire" /\ phase' = "check" /\ pos = Len(edges) + 1
           \/ phase = "check" /\ phase' = "setup" /\ (role = "function" => MayReturn)
           \/ phase = "setup" /\ phase' = "built"
    BY <1>2 DEF EdgesDone, CheckFunction, SetupNodes, Errors
  <2>1. TypeOK' BY <2>0 DEF TypeOK, Phases, Errors
  <2>2. MapsInv' BY <2>0 DEF MapsInv, IsTrigger
  <2>3. TransitionInv' BY <2>0 DEF TransitionInv, MayReturn
  <2>4. HandledInv'
    <3>1. Handled' = DOMAIN edges BY <2>0 DEF Handled
    <3>2. Handled = DOMAIN edges BY <2>0, EdgesAreSeq DEF Handled
    <3>3. FromStartup' = FromStartup /\ ToolEdges' = ToolEdges /\ ControlEdges' = ControlEdges
      BY <2>0 DEF FromStartup, ToolEdges, ControlEdges, IsEntry
    <3> QED BY <2>0, <3>1, <3>2, <3>3 DEF HandledInv
  <2> QED BY <2>1, <2>2, <2>3, <2>4
<1> QED BY <1>1, <1>2

LEMMA StepBuild == BuildInv /\ [Next]_vars => BuildInv'
<1> SUFFICES ASSUME BuildInv, [Next]_vars PROVE BuildInv' OBVIOUS
<1>1. CASE UNCHANGED vars
  BY <1>1 DEF vars, maps, tables, BuildInv, TypeOK, MapsInv, TransitionInv, HandledInv,
     Handled, FromStartup, ToolEdges, ControlEdges, IsEntry, IsTrigger, MayReturn
<1>2. CASE InstantiateFails \/ LookupFails
  BY <1>2, FailBuild DEF InstantiateFails, LookupFails, Errors
<1>3. CASE Instantiate \/ NodesDone BY <1>3, NodesBuild
<1>4. CASE ExtractTool \/ PassOver \/ ToolsDone BY <1>4, FirstPassBuild
<1>5. CASE WireEntry \/ EdgeUnknown \/ WireTool \/ WireControl BY <1>5, SecondPassBuild
<1>6. CASE EdgesDone \/ CheckFunction \/ SetupNodes BY <1>6, ChecksBuild
<1> QED BY <1>1, <1>2, <1>3, <1>4, <1>5, <1>6 DEF Next, Over

\* The tables of a build are always well formed.
THEOREM BuildTypeCorrect == Spec => []TypeOK
<1>1. BuildInv => TypeOK BY DEF BuildInv
<1> QED BY <1>1, InitBuild, StepBuild, PTL DEF Spec

\* Every accepted canvas is a graph the interpreter can run: wireEdges
\* discharges the assumption that EngineRunner makes of its workflow.
THEOREM BuildIsRunnable == Spec => []BuiltGraphIsRunnable
<1>1. BuildInv => BuiltGraphIsRunnable
  <2> SUFFICES ASSUME BuildInv, phase = "built"
               PROVE  Runnable(executables, triggers, executables \cap triggers, Idle,
                               EntryOf, TargetOf, SuccOf)
    BY DEF BuiltGraphIsRunnable
  <2>1. EntryOf \in executables \cup {Idle} BY DEF EntryOf, BuildInv, TransitionInv
  <2>2. TargetOf \in [triggers -> executables \cup {Idle}]
    <3>1. \A t \in triggers : Branches(t) # {} =>
            edges[CHOOSE i \in Branches(t) : TRUE].to \in executables
      BY DEF Branches, BuildInv, TransitionInv
    <3> QED BY <3>1 DEF TargetOf
  <2>3. SuccOf \in [executables -> SUBSET (executables \cup {Idle})]
    BY DEF SuccOf, FollowedFrom, BuildInv, TransitionInv
  <2>4. \A n \in executables \ (executables \cap triggers) : SuccOf[n] # {}
    <3> SUFFICES ASSUME NEW n \in executables, n \notin triggers PROVE SuccOf[n] # {}
      OBVIOUS
    <3>1. PICK p \in Ports[n] : TRUE BY NodeAssumption DEF BuildInv, TypeOK
    <3>2. CASE FollowedFrom(n, p) = {} BY <3>1, <3>2 DEF SuccOf
    <3>3. CASE FollowedFrom(n, p) # {}
      <4>1. PICK i \in FollowedFrom(n, p) : TRUE BY <3>3
      <4>2. edges[i].to \in SuccOf[n] BY <4>1, <3>1 DEF SuccOf
      <4> QED BY <4>2
    <3> QED BY <3>2, <3>3
  <2> QED BY <2>1, <2>2, <2>3, <2>4 DEF Runnable
<1> QED BY <1>1, InitBuild, StepBuild, PTL DEF Spec

\* A function body that the build accepted starts at an executable, holds
\* nothing that resumes later, and has a next state, maybe idle, everywhere.
THEOREM BuildFunctionsReturn == Spec => []FunctionBodiesReturn
<1>1. BuildInv => FunctionBodiesReturn
  <2> SUFFICES ASSUME BuildInv, phase = "built", role = "function"
               PROVE  /\ EntryOf \in executables
                      /\ \A n \in executables : ~IsTrigger(n) /\ SuccOf[n] # {}
    BY DEF FunctionBodiesReturn
  <2>1. triggers = {} /\ entry # 0 BY DEF BuildInv, TransitionInv, MayReturn
  <2>2. EntryOf \in executables BY <2>1 DEF EntryOf, BuildInv, TransitionInv
  <2>3. ASSUME NEW n \in executables PROVE ~IsTrigger(n) /\ SuccOf[n] # {}
    <3>1. ~IsTrigger(n) BY <2>1 DEF BuildInv, MapsInv, TypeOK
    <3>2. PICK p \in Ports[n] : TRUE BY NodeAssumption DEF BuildInv, TypeOK
    <3>3. SuccOf[n] # {}
      <4>1. CASE FollowedFrom(n, p) = {} BY <2>1, <3>2, <4>1 DEF SuccOf
      <4>2. CASE FollowedFrom(n, p) # {}
        <5>1. PICK i \in FollowedFrom(n, p) : TRUE BY <4>2
        <5>2. edges[i].to \in SuccOf[n] BY <2>1, <5>1, <3>2 DEF SuccOf
        <5> QED BY <5>2
      <4> QED BY <4>1, <4>2
    <3> QED BY <3>1, <3>3
  <2> QED BY <2>2, <2>3
<1> QED BY <1>1, InitBuild, StepBuild, PTL DEF Spec

\* No edge of an accepted document is dropped, whatever the document.
THEOREM BuildForgetsNoEdge == Spec => []NoEdgeForgotten
<1>1. BuildInv => NoEdgeForgotten
  <2> SUFFICES ASSUME BuildInv, phase = "built" PROVE NoEdgeForgotten
    BY DEF NoEdgeForgotten
  <2>1. Handled = DOMAIN edges BY DEF Handled
  <2>2. /\ FromStartup \subseteq DOMAIN edges /\ ToolEdges \subseteq DOMAIN edges
        /\ ControlEdges \subseteq DOMAIN edges
    BY DEF FromStartup, ToolEdges, ControlEdges
  <2> QED BY <2>1, <2>2 DEF NoEdgeForgotten, BuildInv, HandledInv
<1> QED BY <1>1, InitBuild, StepBuild, PTL DEF Spec

-----------------------------------------------------------------------------
(* The verdict is the document's *)

\* The part of a list that the pass of that name is done with.
Done(pass, list) == IF phase = pass THEN 1 .. (pos - 1) ELSE DOMAIN list

\* The maps hold the nodes seen so far, each by what it is.
NodesInv ==
  /\ phase = "nodes" => pos <= Len(nodeList) + 1 /\ edges = <<>>
  /\ allNodes = {nodeList[i] : i \in Done("nodes", nodeList)}
                  \ {n \in Ids : Kind[n] = "startup"}
  /\ triggers = {n \in allNodes : IsTrigger(n)}

\* The first pass has taken out of the executables what tool edges point at.
ToolsInv ==
  /\ phase = "tools" => pos <= Len(edges) + 1
  /\ tools = {edges[i].to : i \in {j \in Done("tools", edges) : edges[j].type = "Tool"}}
  /\ tools \subseteq allNodes
  /\ executables = {n \in allNodes : IsExecutable(n) /\ n \notin tools}

\* Each edge the second pass is done with keeps the rules.
RulesInv ==
  /\ \A i \in FromStartup \cap Handled : edges[i].to \in executables
  /\ \A i \in ToolEdges \cap Handled :
       /\ edges[i].from \in allNodes /\ Kind[edges[i].from] = "agent"
       /\ IsToolProvider(edges[i].to)
  /\ \A i \in ControlEdges \cap Handled :
       /\ edges[i].from \in allNodes /\ Kind[edges[i].from] # "toolonly"
       /\ edges[i].to \in executables
       /\ \A j \in (ControlEdges \cap Handled) \ {i} : ~Clash(edges[i], edges[j])

\* What the build has established, as far as it has come.
ProgressInv ==
  /\ phase # "failed" => NodesInv /\ ToolsInv
  /\ phase \in {"wire", "check", "setup", "built"} => RulesInv
  /\ phase = "built" => \A n \in allNodes : ~Undescribed(n)

\* A build that failed on an edge or on a check failed on a broken rule.
FailedInv == phase = "failed" /\ error \notin {"node", "lookup"} => ~Acceptable

DocumentInv == BuildInv /\ ProgressInv /\ FailedInv

\* A list of nodes is a sequence.
LEMMA NodesAreSeq ==
  ASSUME TypeOK
  PROVE  nodeList \in Seq(Ids) /\ DOMAIN nodeList = 1 .. Len(nodeList) /\ Len(nodeList) \in Nat
  BY NodeAssumption DEF TypeOK

LEMMA InitProgress == Init => ProgressInv /\ FailedInv
<1> SUFFICES ASSUME Init PROVE ProgressInv /\ FailedInv OBVIOUS
<1>1. TypeOK BY InitBuild DEF BuildInv
<1>2. /\ phase = "nodes" /\ pos = 1 /\ edges = <<>>
      /\ allNodes = {} /\ executables = {} /\ triggers = {} /\ tools = {}
  BY DEF Init
<1>3. NodesInv BY <1>1, <1>2, NodesAreSeq DEF NodesInv, Done
<1>4. ToolsInv BY <1>2 DEF ToolsInv, Done
<1> QED BY <1>2, <1>3, <1>4 DEF ProgressInv, FailedInv

\* The pass over the nodes.
LEMMA NodesProgress ==
  ASSUME BuildInv, ProgressInv, Instantiate \/ NodesDone
  PROVE  ProgressInv'
<1>1. TypeOK /\ NodesInv /\ ToolsInv
  BY DEF BuildInv, ProgressInv, Instantiate, NodesDone
<1>2. nodeList \in Seq(Ids) /\ DOMAIN nodeList = 1 .. Len(nodeList) /\ Len(nodeList) \in Nat
  BY <1>1, NodesAreSeq
<1>3. CASE Instantiate
  <2>1. /\ phase = "nodes" /\ phase' = "nodes" /\ pos \in 1 .. Len(nodeList) /\ pos' = pos + 1
        /\ UNCHANGED <<nodeList, tools, edges>>
        /\ edges = <<>>
    BY <1>1, <1>2, <1>3 DEF Instantiate, NodesInv
  <2>2. Done("nodes", nodeList)' = Done("nodes", nodeList) \cup {pos}
    BY <1>2, <2>1 DEF Done
  <2>3. {nodeList[i] : i \in Done("nodes", nodeList)'}
          = {nodeList[i] : i \in Done("nodes", nodeList)} \cup {Node}
    BY <2>2 DEF Node
  <2>4. Node \in Ids BY <1>2, <2>1 DEF Node
  <2>5. /\ allNodes' = allNodes \cup ({Node} \ {n \in Ids : Kind[n] = "startup"})
        /\ executables' = executables \cup {n \in allNodes' : n = Node /\ IsExecutable(n)}
        /\ triggers' = triggers \cup {n \in allNodes' : n = Node /\ IsTrigger(n)}
    BY <1>3, <2>4 DEF Instantiate, IsExecutable, IsTrigger
  <2>6. NodesInv'
    <3>1. allNodes' = {nodeList[i] : i \in Done("nodes", nodeList)'}
                        \ {n \in Ids : Kind[n] = "startup"}
      BY <1>1, <2>3, <2>5 DEF NodesInv
    <3>2. triggers' = {n \in allNodes' : IsTrigger(n)} BY <1>1, <2>5 DEF NodesInv
    <3>3. pos' <= Len(nodeList) + 1 BY <1>2, <2>1
    <3> QED BY <2>1, <3>1, <3>2, <3>3 DEF NodesInv, IsTrigger
  <2>7. ToolsInv'
    <3>1. tools = {} BY <1>1, <2>1 DEF ToolsInv, Done
    <3>2. executables' = {n \in allNodes' : IsExecutable(n)}
      BY <1>1, <2>5, <3>1 DEF ToolsInv
    <3> QED BY <2>1, <3>1, <3>2 DEF ToolsInv, Done, IsExecutable
  <2> QED BY <2>1, <2>6, <2>7 DEF ProgressInv
<1>4. CASE NodesDone
  <2>1. /\ phase = "nodes" /\ phase' = "tools" /\ pos = Len(nodeList) + 1 /\ pos' = 1
        /\ UNCHANGED <<nodeList, tools, allNodes, executables, triggers>>
        /\ edges = <<>>
    BY <1>1, <1>4 DEF NodesDone, NodesInv, maps
  <2>2. TypeOK' BY <1>4, NodesBuild DEF BuildInv
  <2>3. Done("nodes", nodeList)' = Done("nodes", nodeList) BY <1>2, <2>1 DEF Done
  <2>4. NodesInv' BY <1>1, <2>1, <2>3 DEF NodesInv, IsTrigger
  <2>5. tools = {} BY <1>1, <2>1 DEF ToolsInv, Done
  <2>6. Len(edges') \in Nat
    <3>1. edges' \in Seq(Edges) BY <1>4, EdgeAssumption DEF NodesDone
    <3> QED BY <3>1
  <2>7. ToolsInv' BY <1>1, <2>1, <2>5, <2>6 DEF ToolsInv, Done, IsExecutable
  <2> QED BY <2>1, <2>4, <2>7 DEF ProgressInv
<1> QED BY <1>3, <1>4

\* The first pass over the edges.
LEMMA FirstPassProgress ==
  ASSUME BuildInv, ProgressInv, ExtractTool \/ PassOver \/ ToolsDone, phase' # "failed"
  PROVE  ProgressInv'
<1>1. /\ TypeOK /\ NodesInv /\ ToolsInv
      /\ phase = "tools"
  BY DEF BuildInv, ProgressInv, ExtractTool, PassOver, ToolsDone
<1>2. edges \in Seq(Edges) /\ DOMAIN edges = 1 .. Len(edges) /\ Len(edges) \in Nat
  BY <1>1, EdgesAreSeq
<1>3. /\ pos \in Nat \ {0}
      /\ UNCHANGED <<nodeList, edges, allNodes, triggers>>
  BY <1>1 DEF ExtractTool, PassOver, ToolsDone, Fail, TypeOK, maps
<1>4. NodesInv'
  <2>1. Done("nodes", nodeList)' = Done("nodes", nodeList)
    BY <1>1, <1>3 DEF Done, ExtractTool, PassOver, ToolsDone, Fail
  <2>2. phase' # "nodes" BY <1>1 DEF ExtractTool, PassOver, ToolsDone, Fail
  <2> QED BY <1>1, <1>3, <2>1, <2>2 DEF NodesInv, IsTrigger
<1> DEFINE ToolTargets(D) == {edges[i].to : i \in {j \in D : edges[j].type = "Tool"}}
<1>5. CASE ExtractTool
  <2>1. /\ pos \in 1 .. Len(edges) /\ pos' = pos + 1 /\ phase' = "tools"
        /\ Edge.type = "Tool" /\ Edge.to \in allNodes
        /\ tools' = tools \cup {Edge.to}
        /\ executables' = executables \ {Edge.to}
    BY <1>1, <1>2, <1>5 DEF ExtractTool, Fail
  <2>2. Done("tools", edges)' = Done("tools", edges) \cup {pos}
    BY <1>1, <1>3, <2>1 DEF Done
  <2>3. ToolTargets(Done("tools", edges)') = ToolTargets(Done("tools", edges)) \cup {Edge.to}
    BY <2>1, <2>2 DEF Edge
  <2>4. tools' = ToolTargets(Done("tools", edges)') BY <1>1, <2>1, <2>3 DEF ToolsInv
  <2>5. executables' = {n \in allNodes : IsExecutable(n) /\ n \notin tools'}
    BY <1>1, <2>1 DEF ToolsInv
  <2>6. tools' \subseteq allNodes BY <1>1, <2>1 DEF ToolsInv
  <2>7. pos' <= Len(edges) + 1 BY <1>2, <2>1
  <2>8. ToolsInv' BY <1>3, <2>4, <2>5, <2>6, <2>7 DEF ToolsInv, IsExecutable
  <2> QED BY <1>4, <2>1, <2>8 DEF ProgressInv
<1>6. CASE PassOver
  <2>1. /\ pos \in 1 .. Len(edges) /\ pos' = pos + 1 /\ phase' = "tools"
        /\ Edge.type # "Tool"
        /\ UNCHANGED <<tools, executables>>
    BY <1>1, <1>2, <1>6 DEF PassOver, maps
  <2>2. Done("tools", edges)' = Done("tools", edges) \cup {pos}
    BY <1>1, <1>3, <2>1 DEF Done
  <2>3. ToolTargets(Done("tools", edges)') = ToolTargets(Done("tools", edges))
    BY <2>1, <2>2 DEF Edge
  <2>4. pos' <= Len(edges) + 1 BY <1>2, <2>1
  <2>5. ToolsInv' BY <1>1, <1>3, <2>1, <2>3, <2>4 DEF ToolsInv, IsExecutable
  <2> QED BY <1>4, <2>1, <2>5 DEF ProgressInv
<1>7. CASE ToolsDone
  <2>1. /\ pos = Len(edges) + 1 /\ pos' = 1 /\ phase' = "wire"
        /\ UNCHANGED <<tools, executables>>
    BY <1>1, <1>7 DEF ToolsDone, maps
  <2>2. Done("tools", edges)' = Done("tools", edges) BY <1>1, <1>2, <1>3, <2>1 DEF Done
  <2>3. ToolsInv' BY <1>1, <1>3, <2>1, <2>2 DEF ToolsInv, IsExecutable
  <2>4. Handled' = {} BY <2>1 DEF Handled
  <2>5. RulesInv' BY <2>4 DEF RulesInv
  <2> QED BY <1>4, <2>1, <2>3, <2>5 DEF ProgressInv
<1> QED BY <1>5, <1>6, <1>7

\* After the first pass a node may be the next state of another exactly when
\* it is among the executables.
LEMMA FollowersAreExecutables ==
  ASSUME TypeOK, ProgressInv, phase \in {"wire", "check", "setup", "built"}
  PROVE  /\ allNodes = Present
         /\ tools = ToolWired
         /\ \A n : n \in executables <=> MayFollow(n)
<1>1. NodesInv /\ ToolsInv BY DEF ProgressInv
<1>2. allNodes = Present BY <1>1 DEF NodesInv, Done, Present
<1>3. tools = ToolWired BY <1>1 DEF ToolsInv, Done, ToolWired
<1> QED BY <1>1, <1>2, <1>3 DEF ToolsInv, MayFollow

\* An edge that is handled by the rules keeps the edges so far within them.
EnterRule == Edge.to \in executables
AttachRule ==
  Edge.from \in allNodes /\ Kind[Edge.from] = "agent" /\ IsToolProvider(Edge.to)
ConnectRule ==
  Edge.from \in allNodes /\ Edge.to \in executables /\ ~Refuses(Edge)

LEMMA EdgeProgress ==
  ASSUME BuildInv, ProgressInv, phase = "wire", pos \in DOMAIN edges,
         \/ Enters /\ EnterRule
         \/ Attaches /\ AttachRule
         \/ Connects /\ ConnectRule,
         pos' = pos + 1, UNCHANGED <<role, nodeList, phase, maps, tools, edges, error>>
  PROVE  ProgressInv'
<1>1. TypeOK /\ NodesInv /\ ToolsInv /\ RulesInv BY DEF BuildInv, ProgressInv
<1>2. edges \in Seq(Edges) /\ DOMAIN edges = 1 .. Len(edges) /\ Len(edges) \in Nat /\ pos \in Nat
  BY <1>1, EdgesAreSeq DEF TypeOK
<1>3. NodesInv'
  <2>1. Done("nodes", nodeList)' = Done("nodes", nodeList) BY DEF Done
  <2> QED BY <1>1, <2>1 DEF NodesInv, IsTrigger, maps
<1>4. ToolsInv'
  <2>1. Done("tools", edges)' = Done("tools", edges) BY DEF Done
  <2> QED BY <1>1, <2>1 DEF ToolsInv, IsExecutable, maps
<1>5. Handled' = Handled \cup {pos} /\ pos \notin Handled /\ Handled \subseteq DOMAIN edges
  BY <1>2 DEF Handled
<1>6. FromStartup' = FromStartup /\ ToolEdges' = ToolEdges /\ ControlEdges' = ControlEdges
  BY DEF FromStartup, ToolEdges, ControlEdges, IsEntry, maps
<1>7. /\ pos \in FromStartup <=> IsEntry(Edge)
      /\ pos \in ToolEdges <=> ~IsEntry(Edge) /\ Edge.type = "Tool"
      /\ pos \in ControlEdges <=> ~IsEntry(Edge) /\ Edge.type # "Tool"
  BY DEF FromStartup, ToolEdges, ControlEdges, Edge
<1>8. \A i \in FromStartup \cap Handled' : edges[i].to \in executables
  BY <1>1, <1>5, <1>7 DEF RulesInv, Enters, EnterRule, Attaches, Connects, Edge
<1>9. \A i \in ToolEdges \cap Handled' :
        /\ edges[i].from \in allNodes /\ Kind[edges[i].from] = "agent"
        /\ IsToolProvider(edges[i].to)
  BY <1>1, <1>5, <1>7 DEF RulesInv, Enters, Attaches, AttachRule, Connects, Edge
<1>10. \A i \in ControlEdges \cap Handled' :
         /\ edges[i].from \in allNodes /\ Kind[edges[i].from] # "toolonly"
         /\ edges[i].to \in executables
         /\ \A j \in (ControlEdges \cap Handled') \ {i} : ~Clash(edges[i], edges[j])
  <2>1. CASE ~Connects
    <3>1. ControlEdges \cap Handled' = ControlEdges \cap Handled
      BY <1>5, <1>7, <2>1 DEF Enters, Attaches
    <3> QED BY <1>1, <3>1 DEF RulesInv
  <2>2. CASE Connects /\ ConnectRule
    <3>1. ControlEdges \cap Handled' = (ControlEdges \cap Handled) \cup {pos}
      BY <1>5, <1>7, <2>2 DEF Connects
    <3>2. wired = ControlEdges \cap Handled BY DEF BuildInv, HandledInv
    <3>3. \A i \in wired :
            ~Clash(edges[pos], edges[i]) /\ ~Clash(edges[i], edges[pos])
      BY <2>2 DEF ConnectRule, Refuses, Clash, Edge
    <3>4. Kind[edges[pos].from] # "toolonly" BY <2>2 DEF ConnectRule, Refuses, Edge
    <3>5. edges[pos].from \in allNodes /\ edges[pos].to \in executables
      BY <2>2 DEF ConnectRule, Edge
    <3> QED BY <1>1, <1>5, <3>1, <3>2, <3>3, <3>4, <3>5 DEF RulesInv
  <2> QED BY <1>7, <2>1, <2>2 DEF Enters, Attaches, Connects
<1>11. RulesInv'
  <2>1. UNCHANGED <<edges, executables, allNodes>> BY DEF maps
  <2> QED BY <1>6, <1>8, <1>9, <1>10, <2>1 DEF RulesInv, IsToolProvider, Clash, IsTrigger
<1> QED BY <1>3, <1>4, <1>11 DEF ProgressInv

\* The second pass over the edges.
LEMMA SecondPassProgress ==
  ASSUME BuildInv, ProgressInv, WireEntry \/ WireTool \/ WireControl, phase' # "failed"
  PROVE  ProgressInv'
<1>1. phase = "wire" /\ pos \in DOMAIN edges
  BY DEF WireEntry, WireTool, WireControl, Proper
<1>2. pos' = pos + 1 /\ UNCHANGED <<role, nodeList, phase, maps, tools, edges, error>>
  BY DEF WireEntry, WireTool, WireControl, Fail
<1>3. \/ Enters /\ EnterRule
      \/ Attaches /\ AttachRule
      \/ Connects /\ ConnectRule
  BY DEF WireEntry, WireTool, WireControl, Proper, Fail, Enters, Attaches, Connects,
         EnterRule, AttachRule, ConnectRule, Targets
<1> QED BY <1>1, <1>2, <1>3, EdgeProgress

\* The end of the wiring and the two checks after it.
LEMMA ChecksProgress ==
  ASSUME BuildInv, ProgressInv, EdgesDone \/ CheckFunction \/ SetupNodes, phase' # "failed"
  PROVE  ProgressInv'
<1>1. /\ TypeOK /\ NodesInv /\ ToolsInv /\ RulesInv
      /\ UNCHANGED <<role, nodeList, maps, tools, edges, tables>>
      /\ \/ phase = "wire" /\ phase' = "check" /\ pos = Len(edges) + 1
         \/ phase = "check" /\ phase' = "setup"
         \/ /\ phase = "setup" /\ phase' = "built"
            /\ \A n \in allNodes : ~Undescribed(n)
  BY DEF BuildInv, ProgressInv, EdgesDone, CheckFunction, SetupNodes, Fail
<1>2. NodesInv'
  <2>1. Done("nodes", nodeList)' = Done("nodes", nodeList) BY <1>1 DEF Done
  <2> QED BY <1>1, <2>1 DEF NodesInv, IsTrigger, maps
<1>3. ToolsInv'
  <2>1. Done("tools", edges)' = Done("tools", edges) BY <1>1 DEF Done
  <2> QED BY <1>1, <2>1 DEF ToolsInv, IsExecutable, maps
<1>4. RulesInv'
  <2>1. Handled' = DOMAIN edges BY <1>1 DEF Handled
  <2>2. Handled = DOMAIN edges BY <1>1, EdgesAreSeq DEF Handled
  <2>3. FromStartup' = FromStartup /\ ToolEdges' = ToolEdges /\ ControlEdges' = ControlEdges
    BY <1>1 DEF FromStartup, ToolEdges, ControlEdges, IsEntry, maps
  <2> QED BY <1>1, <2>1, <2>2, <2>3 DEF RulesInv, IsToolProvider, Clash, IsTrigger, maps
<1>5. phase' = "built" => \A n \in allNodes' : ~Undescribed(n)'
  BY <1>1 DEF Undescribed, Branches, Several, maps, tables
<1> QED BY <1>1, <1>2, <1>3, <1>4, <1>5 DEF ProgressInv

LEMMA StepProgress ==
  ASSUME BuildInv, ProgressInv, [Next]_vars
  PROVE  ProgressInv'
<1>1. CASE UNCHANGED vars
  BY <1>1 DEF vars, maps, tables, ProgressInv, NodesInv, ToolsInv, RulesInv, Done, Handled,
     FromStartup, ToolEdges, ControlEdges, IsEntry, IsTrigger, IsExecutable, IsToolProvider,
     Clash, Undescribed, Branches, Several
<1>2. CASE phase' = "failed" BY <1>2 DEF ProgressInv
<1>3. CASE phase' # "failed" /\ (InstantiateFails \/ LookupFails \/ EdgeUnknown)
  BY <1>3 DEF InstantiateFails, LookupFails, EdgeUnknown, Fail
<1>4. CASE Instantiate \/ NodesDone BY <1>4, NodesProgress
<1>5. CASE phase' # "failed" /\ (ExtractTool \/ PassOver \/ ToolsDone)
  BY <1>5, FirstPassProgress
<1>6. CASE phase' # "failed" /\ (WireEntry \/ WireTool \/ WireControl)
  BY <1>6, SecondPassProgress
<1>7. CASE phase' # "failed" /\ (EdgesDone \/ CheckFunction \/ SetupNodes)
  BY <1>7, ChecksProgress
<1> QED BY <1>1, <1>2, <1>3, <1>4, <1>5, <1>6, <1>7 DEF Next, Over

\* What was built keeps every rule.
LEMMA BuiltIsAcceptable ==
  ASSUME BuildInv, ProgressInv, phase = "built"
  PROVE  Acceptable
<1>1. TypeOK /\ NodesInv /\ ToolsInv /\ RulesInv BY DEF BuildInv, ProgressInv
<1>2. /\ allNodes = Present /\ tools = ToolWired
      /\ \A n : n \in executables <=> MayFollow(n)
  BY <1>1, FollowersAreExecutables
<1>3. Handled = DOMAIN edges BY DEF Handled
<1>4. /\ FromStartup \cap Handled = FromStartup
      /\ ToolEdges \cap Handled = ToolEdges
      /\ ControlEdges \cap Handled = ControlEdges
  BY <1>3 DEF FromStartup, ToolEdges, ControlEdges
<1>5. ToolWired \subseteq Present BY <1>1, <1>2 DEF ToolsInv
<1>6. \A i \in FromStartup : MayFollow(edges[i].to) BY <1>1, <1>2, <1>4 DEF RulesInv
<1>7. \A i \in ToolEdges :
        /\ edges[i].from \in Present /\ Kind[edges[i].from] = "agent"
        /\ IsToolProvider(edges[i].to)
  BY <1>1, <1>2, <1>4 DEF RulesInv
<1>8. \A i \in ControlEdges :
        /\ edges[i].from \in Present /\ Kind[edges[i].from] # "toolonly"
        /\ MayFollow(edges[i].to)
        /\ \A j \in ControlEdges \ {i} : ~Clash(edges[i], edges[j])
  BY <1>1, <1>2, <1>4 DEF RulesInv
<1>9. role = "function" => (\A n \in Present : ~IsTrigger(n)) /\ FromStartup # {}
  <2> SUFFICES ASSUME role = "function"
               PROVE  (\A n \in Present : ~IsTrigger(n)) /\ FromStartup # {}
    OBVIOUS
  <2>1. triggers = {} /\ entry # 0 BY DEF BuildInv, TransitionInv, MayReturn
  <2>2. \A n \in Present : ~IsTrigger(n) BY <1>1, <1>2, <2>1 DEF NodesInv
  <2>3. FromStartup # {} BY <1>4, <2>1 DEF BuildInv, HandledInv
  <2> QED BY <2>2, <2>3
<1>10. ASSUME NEW i \in ControlEdges, NEW j \in ControlEdges, i # j,
              edges[i].from = edges[j].from, Kind[edges[i].from] = "agent"
       PROVE  edges[i].described
  <2>1. wired = ControlEdges BY <1>4 DEF BuildInv, HandledInv
  <2>2. edges[i].from \in allNodes BY <1>2, <1>8
  <2>3. ~Undescribed(edges[i].from) BY <2>2 DEF ProgressInv
  <2>4. i \in Branches(edges[i].from) /\ j \in Branches(edges[i].from)
    BY <1>10, <2>1 DEF Branches
  <2>5. Several(Branches(edges[i].from)) BY <1>10, <2>4 DEF Several
  <2> QED BY <1>10, <2>3, <2>4, <2>5 DEF Undescribed
<1> QED BY <1>5, <1>6, <1>7, <1>8, <1>9, <1>10 DEF Acceptable

\* An edge is refused only when it breaks a rule, and so is a canvas.
LEMMA RefusedIsUnacceptable ==
  ASSUME BuildInv, ProgressInv, [Next]_vars, phase # "failed", phase' = "failed",
         error' \notin {"node", "lookup"}
  PROVE  ~Acceptable
<1> SUFFICES ASSUME Acceptable PROVE FALSE OBVIOUS
<1>1. TypeOK /\ NodesInv /\ ToolsInv BY DEF BuildInv, ProgressInv
<1>2. CASE ExtractTool
  <2>1. phase = "tools" /\ pos \in DOMAIN edges /\ Edge.type = "Tool" /\ Edge.to \notin allNodes
    BY <1>2 DEF ExtractTool, Fail
  <2>2. allNodes = Present BY <1>1, <2>1 DEF NodesInv, Done, Present
  <2>3. Edge.to \in ToolWired BY <2>1 DEF ToolWired, Edge
  <2> QED BY <2>1, <2>2, <2>3 DEF Acceptable
<1>3. CASE WireEntry \/ EdgeUnknown \/ WireTool \/ WireControl
  <2>1. phase = "wire" /\ pos \in DOMAIN edges
    BY <1>3 DEF WireEntry, EdgeUnknown, WireTool, WireControl, Proper
  <2>2. /\ allNodes = Present /\ tools = ToolWired
        /\ \A n : n \in executables <=> MayFollow(n)
    BY <1>1, <2>1, FollowersAreExecutables
  <2>3. /\ pos \in FromStartup <=> IsEntry(Edge)
        /\ pos \in ToolEdges <=> ~IsEntry(Edge) /\ Edge.type = "Tool"
        /\ pos \in ControlEdges <=> ~IsEntry(Edge) /\ Edge.type # "Tool"
    BY <2>1 DEF FromStartup, ToolEdges, ControlEdges, Edge
  <2>4. CASE WireEntry
    <3>1. IsEntry(Edge) /\ Edge.to \notin executables
      BY <2>4, <2>1 DEF WireEntry, Fail
    <3> QED BY <2>2, <2>3, <3>1 DEF Acceptable, Edge
  <2>5. CASE EdgeUnknown
    <3>1. ~IsEntry(Edge) /\ (Edge.from \notin Present \/ Edge.to \notin Present)
      BY <2>2, <2>5 DEF EdgeUnknown
    <3>2. CASE Edge.type = "Tool"
      <4>1. Edge.to \in ToolWired BY <2>1, <3>2 DEF ToolWired, Edge
      <4>2. Edge.from \in Present BY <2>3, <3>1, <3>2 DEF Acceptable, Edge
      <4> QED BY <3>1, <4>1, <4>2 DEF Acceptable
    <3>3. CASE Edge.type # "Tool"
      <4>1. Edge.from \in Present /\ MayFollow(Edge.to)
        BY <2>3, <3>1, <3>3 DEF Acceptable, Edge
      <4> QED BY <3>1, <4>1 DEF MayFollow
    <3> QED BY <3>2, <3>3
  <2>6. CASE WireTool
    <3>1. /\ ~IsEntry(Edge) /\ Edge.type = "Tool"
          /\ ~IsToolProvider(Edge.to) \/ Kind[Edge.from] # "agent"
      BY <2>1, <2>6 DEF WireTool, Proper, Fail
    <3> QED BY <2>3, <3>1 DEF Acceptable, Edge
  <2>7. CASE WireControl
    <3>1. /\ ~IsEntry(Edge) /\ Edge.type # "Tool"
          /\ ~Targets(Edge.to) \/ Refuses(Edge)
      BY <2>1, <2>7 DEF WireControl, Proper, Fail
    <3>2. /\ pos \in ControlEdges /\ MayFollow(Edge.to) /\ Kind[Edge.from] # "toolonly"
          /\ \A j \in ControlEdges \ {pos} : ~Clash(Edge, edges[j])
      BY <2>3, <3>1 DEF Acceptable, Edge
    <3>3. Targets(Edge.to) BY <2>2, <3>2 DEF Targets, MayFollow
    <3>4. PICK i \in wired : Clash(Edge, edges[i])
      BY <3>1, <3>2, <3>3 DEF Refuses, Clash
    <3>5. i \in ControlEdges /\ i \in Handled
      BY <2>1, <3>4 DEF BuildInv, HandledInv
    <3>6. i # pos BY <1>1, <2>1, <3>5 DEF Handled, TypeOK
    <3> QED BY <3>2, <3>4, <3>5, <3>6
  <2> QED BY <1>3, <2>4, <2>5, <2>6, <2>7
<1>4. CASE CheckFunction
  <2>1. phase = "check" /\ role = "function" /\ ~MayReturn
    BY <1>4 DEF CheckFunction, Fail
  <2>2. allNodes = Present BY <1>1, <2>1, FollowersAreExecutables
  <2>3. triggers = {} BY <1>1, <2>1, <2>2 DEF Acceptable, NodesInv
  <2>4. entry # 0
    <3>1. FromStartup # {} BY <2>1 DEF Acceptable
    <3>2. FromStartup \cap Handled = FromStartup /\ 0 \notin FromStartup
      BY <1>1, <2>1, EdgesAreSeq DEF Handled, FromStartup
    <3> QED BY <2>1, <3>1, <3>2 DEF BuildInv, HandledInv
  <2> QED BY <2>1, <2>3, <2>4 DEF MayReturn
<1>5. CASE SetupNodes
  <2>1. phase = "setup" BY <1>5 DEF SetupNodes
  <2>2. PICK n \in allNodes : Undescribed(n) BY <1>5, <2>1 DEF SetupNodes, Fail
  <2>3. PICK i \in Branches(n) : ~edges[i].described BY <2>2 DEF Undescribed
  <2>4. PICK j \in Branches(n) : j # i BY <2>2, <2>3 DEF Undescribed, Several
  <2>5. wired \subseteq ControlEdges BY <2>1 DEF BuildInv, HandledInv
  <2>6. /\ i \in ControlEdges /\ j \in ControlEdges
        /\ edges[i].from = n /\ edges[j].from = n /\ Kind[n] = "agent"
    BY <2>2, <2>3, <2>4, <2>5 DEF Branches, Undescribed
  <2> QED BY <2>3, <2>4, <2>6 DEF Acceptable
<1>6. CASE InstantiateFails \/ LookupFails
  BY <1>6 DEF InstantiateFails, LookupFails, Fail
<1>7. CASE Instantiate \/ NodesDone \/ PassOver \/ ToolsDone \/ EdgesDone \/ UNCHANGED vars
  BY <1>7 DEF Instantiate, NodesDone, PassOver, ToolsDone, EdgesDone, vars
<1> QED BY <1>2, <1>3, <1>4, <1>5, <1>6, <1>7 DEF Next, Over

\* A build that has failed changes no more, and Fail changes nothing that the
\* rules are about.
LEMMA StepFailed ==
  ASSUME BuildInv, ProgressInv, FailedInv, [Next]_vars
  PROVE  FailedInv'
<1> SUFFICES ASSUME phase' = "failed", error' \notin {"node", "lookup"}
             PROVE  ~Acceptable'
  BY DEF FailedInv
<1>1. UNCHANGED <<role, nodeList, startup, edges>>
  <2>1. CASE Instantiate \/ NodesDone \/ PassOver \/ ToolsDone \/ EdgesDone
    <3>1. phase \in {"nodes", "tools", "wire"}
      BY <2>1 DEF Instantiate, NodesDone, PassOver, ToolsDone, EdgesDone
    <3> QED BY <2>1, <3>1 DEF Instantiate, NodesDone, PassOver, ToolsDone, EdgesDone
  <2>2. CASE InstantiateFails \/ LookupFails \/ ExtractTool \/ WireEntry \/ EdgeUnknown
             \/ WireTool \/ WireControl \/ CheckFunction \/ SetupNodes
    BY <2>2 DEF InstantiateFails, LookupFails, ExtractTool, WireEntry, EdgeUnknown, WireTool,
                WireControl, CheckFunction, SetupNodes, Fail, maps
  <2>3. CASE UNCHANGED vars BY <2>3 DEF vars, maps
  <2> QED BY <2>1, <2>2, <2>3 DEF Next, Over
<1>2. Acceptable' = Acceptable
  BY <1>1 DEF Acceptable, ToolWired, Present, FromStartup, ToolEdges, ControlEdges, IsEntry,
              MayFollow, IsExecutable, IsToolProvider, IsTrigger, Clash
<1>3. CASE phase # "failed" BY <1>2, <1>3, RefusedIsUnacceptable
<1>4. CASE phase = "failed"
  <2>1. error' = error
    BY <1>4 DEF Next, vars, Over, Instantiate, InstantiateFails, LookupFails, NodesDone,
       ExtractTool, PassOver, ToolsDone, WireEntry, EdgeUnknown, WireTool, WireControl,
       Proper, EdgesDone, CheckFunction, SetupNodes
  <2> QED BY <1>2, <1>4, <2>1 DEF FailedInv
<1> QED BY <1>3, <1>4

\* For every canvas and every list of edges: the two passes and the checks
\* after them accept a document exactly when it keeps the rules of a canvas,
\* which are said of its set of edges and of no order.
THEOREM BuildVerdict == Spec => []VerdictIsTheDocuments
<1>1. Init => DocumentInv BY InitBuild, InitProgress DEF DocumentInv
<1>2. DocumentInv /\ [Next]_vars => DocumentInv'
  BY StepBuild, StepProgress, StepFailed DEF DocumentInv
<1>3. DocumentInv => VerdictIsTheDocuments
  BY BuiltIsAcceptable DEF DocumentInv, FailedInv, VerdictIsTheDocuments
<1> QED BY <1>1, <1>2, <1>3, PTL DEF Spec

=============================================================================
