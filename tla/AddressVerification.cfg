SPECIFICATION FairSpec
CONSTANTS
  Stakers = {s1, s2}
  Addresses = {a1, a2}
  NoGap = TRUE
  MaxTx = 4
  Budgets <- MCBudgets
INVARIANTS OneInPool UpIsConfirmed
PROPERTY UpInTheEnd
CHECK_DEADLOCK FALSE
