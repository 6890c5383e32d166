\* A resuming turn with a permission request, a terminal and a Stop.
CONSTANTS
  p1 = p1
  t1 = t1
  Asks = {p1}
  Terms = {t1}
  WantsResume = TRUE
  CancelGrace = 1
  InactivityLimit = 1
  PermissionLimit = 1
  TerminalLimit = 1
  TurnLimit = 2
  MaxUpdates = 2
SPECIFICATION FairSpec
\* A turn ends.
CHECK_DEADLOCK FALSE
INVARIANTS
  CompletedReplyIsWhole
  MemoryIsReal
PROPERTIES
  NothingOutlivesTheTurn
  TurnSettles
  RequestsEndOnce
