SPECIFICATION FairSpec
CONSTANTS
  m1 = m1
  m2 = m2
  m3 = m3
  s1 = s1
  s2 = s2
  Messages = {m1, m2, m3}
  Callers = {a, b}
  Nobody = Nobody
  Shards = {s1, s2}
  ShardOf <- ThreeShardOf
  U32Max = 4
  MaxTime = 3
INVARIANT WaiterHasEntry
INVARIANT NoneOverdue
PROPERTY PromiseSpec
PROPERTY EveryCallerIsAnswered
CHECK_DEADLOCK FALSE
