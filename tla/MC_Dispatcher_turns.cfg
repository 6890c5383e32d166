\* Chats of one agent with one slot, of another without its profile; a stop, a crash, a fault.
CONSTANTS
  None = None
  w1 = w1
  a1 = a1
  a2 = a2
  s1 = s1
  s2 = s2
  h1 = h1
  Workers = {w1}
  WorkerHost <- OneHost
  AgentHost <- Anywhere
  TaskPage <- NoPages
  Requests <- TwoAgents
  MaxAttempts = 1
  MaxRequests = 2
  MaxRuns = 2
  MaxStops = 1
  MaxClaims = 2
  MaxCrashes = 1
  MaxPauses = 0
  MaxDbFaults = 1
  MaxConcurrent = 2
  AgentMax <- RoomToLeak
  MissingProfiles = {a2}
  MaxTicks = 1
SPECIFICATION DFairSpec
CHECK_DEADLOCK FALSE
INVARIANTS
  AgentCeiling
  SlotsComeBack
  RegistryIsExact
PROPERTIES
  
  ExecutionsEnd
  
