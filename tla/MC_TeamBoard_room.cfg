\* A leader and a member, a task and one that waits for it, one page open; a call that may
\* fail, a sweep that may die, a card and a stop of the room.
CONSTANTS
  None = None
  Slots = {1, 2}
  Leader = 1
  Plans <- Chain
  Statuses = {"in_progress"}
  Handlers = {"h1"}
  Tabs = {"b1"}
  Watched = TRUE
  MaxTasks = 2
  MaxCalls = 1
  MaxRoom = 2
  MaxExcuses = 1
  MaxCrashes = 1
  MaxHalfSweeps = 0
SPECIFICATION FairSpec
CHECK_DEADLOCK FALSE
PROPERTIES
  TasksKeepTheirOwner
  TasksComeBack
