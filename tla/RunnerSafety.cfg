SPECIFICATION Spec
CONSTANTS
  Nodes <- MCNodes
  Sources = {"p"}
  Watchers = {"w"}
  Delays = {"d"}
  Slots <- MCSlots
  Idle = "idle"
  NoSlot = "none"
  NoTrigger = "startup"
  Entry = "add"
  Target <- MCTarget
  Succ <- AcyclicSucc
  Writes <- MCWrites
  Out <- MCOut
  Watch <- MCWatch
  Seeded = {"total"}
  EventBuf = 1
  InboxCap <- MCInboxCap
  MaxOccurrences = 3
INVARIANTS
  TypeOK
  ChainSeesItsOwnEvent
  Accounted
  ServedInOrder
  ResourcesOutliveUsers
PROPERTIES
  ImplementsService
