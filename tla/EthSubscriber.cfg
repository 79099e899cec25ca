SPECIFICATION FairSpec
CONSTANTS
  l1 = l1
  k1 = k1
  k2 = k2
  NoLog = NoLog
  Nobody = Nobody
  Logs = {l1}
  Callers = {a, b}
  Configs = {k1, k2}
  Address <- AddressOf
  Topic <- TopicOf
  ConfigOf <- ConfigOfLog
  Confirm = 2
  MaxRange = 2
  Finality = 2
  Ahead = TRUE
  MaxHead = 4
  MaxReorgs = 1
  MaxFailures = 1
CHECK_DEADLOCK FALSE
INVARIANT ExistsIsTrue
 
INVARIANT NotExistsIsTrue
PROPERTY VerifyReturns
