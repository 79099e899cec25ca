SPECIFICATION FairSpec
CONSTANTS
  e1 = e1
  NoEvent = NoEvent
  Events = {e1}
  Families = {"EthTon", "TonEth"}
  QuietStart = TRUE
  NumTasks = 3
  MaxDeploys = 2
  MaxQueue = 1
  MaxCrashes = 1
  MaxFailures = 1
CHECK_DEADLOCK FALSE
INVARIANT OneVoter
PROPERTY NoEarlyDrop
PROPERTY NoRevote
PROPERTY ScanKeepsVotable
PROPERTY VotedInTheEnd
PROPERTY SettledIsDropped
