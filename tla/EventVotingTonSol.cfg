SPECIFICATION Spec
CONSTANTS
  e1 = e1
  NoEvent = NoEvent
  Events = {e1}
  Families = {"TonSol"}
  QuietStart = TRUE
  NumTasks = 3
  MaxDeploys = 2
  MaxQueue = 1
  MaxCrashes = 1
  MaxFailures = 0
CHECK_DEADLOCK FALSE
PROPERTY ScanKeepsVotable
