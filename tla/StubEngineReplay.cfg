CONSTANTS
  c1 = c1
  c2 = c2
  rest = rest
  X = X
  Y = Y
  s1 = s1
  s2 = s2
  Clients = {c1, c2}
  Callers = {rest}
  Symbols = {X, Y}
  Shards = {s1, s2}
  ShardOf <- MCShardOf
  Loads <- MCLoads
  MaxResting = 2
  RingSize = 1
  OutCap = 0
  OutputWriters = 1
  QueueCap = 1
  None = None
SPECIFICATION Spec
INVARIANT MissedCancelIsNoOp
CHECK_DEADLOCK FALSE
