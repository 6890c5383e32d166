\* Two attempts, one trip: a crash, a connection lost, a connect refused, a failed poll.
CONSTANTS
  Skipped = {FALSE}
  MaxEvents = 2
  MaxAttempts = 2
  MaxWrites = 0
  MaxFaults = 0
  Backlog = 2
  MaxReconnects = 2
  MaxTrips = 1
SPECIFICATION FairSpec
\* A reader may have nothing left to do.
CHECK_DEADLOCK FALSE
INVARIANTS
  EndShowsAll
PROPERTIES
  ScreenConverges
  StreamsEnd
