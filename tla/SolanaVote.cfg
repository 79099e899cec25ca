SPECIFICATION FairSpec
CONSTANTS
  p1 = p1
  p2 = p2
  Proposals = {p1, p2}
  Worlds <- MCWorlds
  Soon = 0
  Later = 1
  Expired = 3
  FirstDelay = 1
  Interval = 2
  Wrap = 16
  MaxClock = 6
  ExecuteNeeded = {p1}
INVARIANTS VerdictIsTrue VotesAgree SoonChecked
PROPERTIES EveryAskAnswered VotesComplete
CHECK_DEADLOCK FALSE
