SPECIFICATION LockSpec
CONSTANTS
  p1 = p1
  p2 = p2
  p3 = p3
  k1 = k1
  k2 = k2
  Pods = {p1, p2}
  Keys = {k1}
  LeaseIds = {1, 2, 3, 4, 5}
  TTL = 2
  Delay = 5
  Period = 5
  Slack = 0
  FailureThreshold = 3
  SharedProbe = FALSE
  RpcFails = FALSE
  Slow = {}
INVARIANTS
  MutualExclusion
