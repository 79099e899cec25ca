SPECIFICATION FairSpec
CONSTANTS
  Full = 2
  Accounts = {3}
  x = x
  y = y
  w1 = w1
  w2 = w2
  o1 = o1
  Codes = {x, y}
  NoCode = {"none", "uninit", "frozen"}
  Waiters = {w1, w2}
  Observers = {o1}
  Target <- TargetOf
  NoGap = TRUE
  Worlds <- AllWorlds
CHECK_DEADLOCK FALSE
INVARIANT IndexIsTrue
INVARIANT ScanIsFresh
INVARIANT StatesAreCurrent
 
PROPERTY FailsOnlyOnRemoval
PROPERTY EventuallyStarted
PROPERTY WaiterReturns
