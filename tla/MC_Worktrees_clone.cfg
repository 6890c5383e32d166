\* Two runs, a pass, a reaper and two approvals at once; something dies, a row is deleted.
CONSTANTS
  None = None
  KeepLast = 1
  Budget = 0
  QuietBoot = TRUE
  MaxRuns = 2
  MaxMishaps = 1
  MaxPasses = 1
  MaxApprovals = 2
SPECIFICATION FairSpec
CHECK_DEADLOCK FALSE
INVARIANTS
  TreesInUseStay
PROPERTIES
  RunsGetTheirTree
  DeliveryIsHonest
  
