SPECIFICATION Spec
CONSTANTS
  Ids <- MCIds
  Kind <- MCKind
  Ports <- MCPorts
  Canvases <- MCCanvases
  FunctionId <- MCFunctionId
  Functions = {"fn"}
  Edges <- MCEdges
  Documents <- MCDocuments
  NoNode = "none"
  Idle = "idle"
INVARIANTS
  TypeOK
  BuiltGraphIsRunnable
  FunctionBodiesReturn
  VerdictIsTheDocuments
  NoEdgeForgotten
