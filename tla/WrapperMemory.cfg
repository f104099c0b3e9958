SPECIFICATION Spec
CONSTANTS
  a = a
  b = b
  Commands = {a}
  MaxStarts = 2
  Probed = {}
  EmptyReadiness = {}
  Hooked = {}
  Locked = {}
  Limited = {a}
  NumProbes = 1
  FailureThreshold = 1
  Signals = {"TERM"}
  HandleTermination = FALSE
INVARIANTS
  LateStartOnce
  NeverAbandoned
