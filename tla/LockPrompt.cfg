SPECIFICATION LockFairSpec
CONSTANTS
  p1 = p1
  p2 = p2
  p3 = p3
  k1 = k1
  k2 = k2
  Pods = {p1, p2}
  Keys = {k1}
  LeaseIds = {1, 2, 3, 4, 5}
  TTL = 5
  Delay = 3
  Period = 2
  Slack = 1
  FailureThreshold = 2
  SharedProbe = FALSE
  RpcFails = FALSE
  Slow = {}
INVARIANTS
  MutualExclusion
PROPERTIES
  TakenOver
