SPECIFICATION FairSpec
CONSTANTS
  Agents = {"planner", "writer", "helper", "expert"}
  Steps = {"log", "wipe", "look"}
  Calls = {"call"}
  Effects = {"memory"}
  AgentTools = {"ask"}
  Handoffs = {"hand", "back"}
  Offers <- MCOffers
  AgentOf <- MCAgentOf
  FnOf <- MCFnOf
  FnEntry <- MCFnEntry
  Main = "main"
  Starts <- MCStarts
  OutEdges <- MCOutEdges
  Declared <- MCDeclared
  MaxTurns <- MCMaxTurns
  Responses <- MCResponses
  Idle = "idle"
  NoName = "none"
  MaxEvents = 3
  MaxAsks = 2
INVARIANTS
  TypeOK
  ToldWhatWasDone
  ConversationsAreOwn
  TurnsAreBounded
  OutputsCompleteBeforeNext
PROPERTIES
  CancelEndsEvent
  LimitedRunEnds
