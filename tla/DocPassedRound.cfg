SPECIFICATION Spec
CONSTANTS
  a = a
  b = b
  Commands = {a}
  MaxStarts = 1
  Probed = {a}
  EmptyReadiness = {}
  Hooked = {a}
  Locked = {}
  Limited = {}
  NumProbes = 1
  FailureThreshold = 2
  Signals = {}
  HandleTermination = FALSE
PROPERTIES
  PassedRoundIsHealthy
