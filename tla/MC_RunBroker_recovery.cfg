\* Every row is settled in the end; one worker serves the agent; a crash, a lost reply.
CONSTANTS
  None = None
  w1 = w1
  w2 = w2
  t1 = t1
  a1 = a1
  p1 = p1
  s1 = s1
  s2 = s2
  h1 = h1
  h2 = h2
  Workers = {w1, w2}
  WorkerHost <- TwoHosts
  AgentHost <- OnHostOne
  TaskPage <- PageOfTask
  Requests <- MixedRequests
  MaxAttempts = 2
  MaxRequests = 1
  MaxRuns = 3
  MaxStops = 1
  MaxClaims = 5
  MaxCrashes = 1
  MaxPauses = 0
  MaxDbFaults = 1
SPECIFICATION FairSpec
CHECK_DEADLOCK FALSE
PROPERTIES
  EveryRunSettles
