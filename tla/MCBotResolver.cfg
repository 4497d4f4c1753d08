CONSTANTS
  a1 = a1
  b1 = b1
  b2 = b2
  c1 = c1
  c2 = c2
  Accounts = {a1}
  Bots = {b1, b2}
  Calls = {c1, c2}
  To <- MCTo
  Registered <- MCRegistered
  MaxChanges = 2
  MaxFailures = 1
  Nil = Nil
SPECIFICATION FairSpec
INVARIANT
  SnapshotStable
PROPERTIES
  ReachableNotForgotten
  CallsReturn
  Failover
