SPECIFICATION Spec
CONSTANTS
  First = 2
  MaxRound = 3
  Seated = {{0, 2}}
  Amounts = {1}
  Ignore = FALSE
  Quiet = TRUE
  Prompt = TRUE
  MaxUpdates = 0
  MaxDeposits = 0
  MaxRestarts = 0
  MaxTxs = 2
CHECK_DEADLOCK FALSE
INVARIANT ParticipationIsTrue
