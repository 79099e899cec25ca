SPECIFICATION Spec
CONSTANTS
  e1 = e1
  NoEvent = NoEvent
  Events = {e1}
  Families = {"EthTon"}
  QuietStart = FALSE
  NumTasks = 3
  MaxDeploys = 1
  MaxQueue = 1
  MaxCrashes = 0
  MaxFailures = 0
CHECK_DEADLOCK FALSE
INVARIANT NoneForgotten
