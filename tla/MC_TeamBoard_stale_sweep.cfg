\* The room is open in two tabs, and the sweep of one of them is slow.
CONSTANTS
  None = None
  Slots = {1, 2}
  Leader = 1
  Plans <- Chain
  Statuses = {"in_progress"}
  Handlers = {"h1"}
  Tabs = {"b1", "b2"}
  Watched = TRUE
  MaxTasks = 1
  MaxCalls = 1
  MaxRoom = 2
  MaxExcuses = 0
  MaxCrashes = 0
  MaxHalfSweeps = 0
SPECIFICATION Spec
CHECK_DEADLOCK FALSE
INVARIANTS
  NobodyElsesTask
