\* Two workers, one of which may be killed, which may be paused past their leases,
\* and whose statements may fail or lose their replies.
CONSTANTS
  None = None
  w1 = w1
  w2 = w2
  t1 = t1
  a1 = a1
  p1 = p1
  s1 = s1
  s2 = s2
  h1 = h1
  h2 = h2
  Workers = {w1, w2}
  WorkerHost <- OneHost
  AgentHost <- Anywhere
  TaskPage <- PageOfTask
  Requests <- MixedRequests
  MaxAttempts = 2
  MaxRequests = 2
  MaxRuns = 3
  MaxStops = 0
  MaxClaims = 2
  MaxCrashes = 1
  MaxPauses = 2
  MaxDbFaults = 2
SPECIFICATION Spec
CHECK_DEADLOCK FALSE
SYMMETRY WorkerSymmetry
INVARIANTS
  TypeOK
  ActiveKeyUnique
  TokenDiscipline
  OneExecutionPerRun
  NoForkedRetry
PROPERTIES
  TerminalIsForever
  OutcomeIsFinal
