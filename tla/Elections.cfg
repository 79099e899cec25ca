SPECIFICATION FairSpec
CONSTANTS
  First = 2
  MaxRound = 3
  Seated = {{0, 2}}
  Amounts = {0, 1}
  Ignore = FALSE
  Quiet = TRUE
  Prompt = TRUE
  MaxUpdates = 1
  MaxDeposits = 1
  MaxRestarts = 1
  MaxTxs = 2
CHECK_DEADLOCK FALSE
INVARIANT LoopListens
INVARIANT ElectedIsTrue
INVARIANT Candidacy
INVARIANT StopsAtEnd
INVARIANT RewardsCovered
PROPERTY ElectionsGoOn
