SPECIFICATION Spec
CONSTANTS
  Ids <- MCIds
  Kind <- MCKind
  Ports <- MCPorts
  Canvases <- CallCanvases
  FunctionId <- MCFunctionId
  Functions = {"fn"}
  Edges <- CallEdges
  Documents <- CallDocuments
  NoNode = "none"
  Idle = "idle"
INVARIANTS
  FunctionCallsResolveByFunctionId
