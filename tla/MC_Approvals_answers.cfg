\* One answer per request, given anywhere; a lost statement or connection, a crash.
CONSTANTS
  None = None
  p1 = p1
  p2 = p2
  perm = perm
  conn = conn
  Asks = {perm, conn}
  Permissions = {perm}
  Procs = {p1, p2}
  Surfaces = {"card", "inbox"}
  MaxClicks = 1
  MaxClicksPerAsk = 1
  MaxCrashes = 1
  MaxFaults = 1
SPECIFICATION FairSpec
CHECK_DEADLOCK FALSE
INVARIANTS
  ConsentIsReal
PROPERTIES
  KeepsPromise
  DecisionArrives
  NoStaleCard
