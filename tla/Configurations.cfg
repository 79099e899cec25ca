SPECIFICATION FairSpec
CONSTANTS
  c1 = c1
  c2 = c2
  k1 = k1
  k2 = k2
  Listener = Listener
  Connectors = {c1, c2}
  Configs = {k1, k2}
  x = x
  y = y
  Codes = {x, y}
  Worlds <- TwoWorlds
  Type <- TypeOf
  Quiet = TRUE
  MaxTime = 2
  MaxToggles = 1
  MaxEnds <- EndsOf
CHECK_DEADLOCK FALSE
INVARIANT Tracked
INVARIANT RegistryCovers
PROPERTY NoEarlyRemoval
PROPERTY EndedIsDropped
PROPERTY EnabledIsFollowed
