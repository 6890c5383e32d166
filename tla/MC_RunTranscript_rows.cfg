\* Two attempts at a run, two writers besides, a fault; batches of two.
CONSTANTS
  Skipped = {TRUE, FALSE}
  Batch = 2
  MaxEvents = 2
  MaxAttempts = 2
  MaxWrites = 2
  MaxFaults = 1
SPECIFICATION Spec
\* A settled run is left alone.
CHECK_DEADLOCK FALSE
INVARIANTS
  NumbersAreExact
  TurnIsDurable
PROPERTIES
  RowsAscend
  ImplementsLog
