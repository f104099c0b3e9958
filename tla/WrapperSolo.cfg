SPECIFICATION Spec
CONSTANTS
  a = a
  b = b
  Commands = {a}
  MaxStarts = 2
  Probed = {a}
  EmptyReadiness = {}
  Hooked = {a}
  Locked = {a}
  Limited = {}
  NumProbes = 2
  FailureThreshold = 2
  Signals = {"TERM"}
  HandleTermination = FALSE
INVARIANTS
  TypeOK
  OneProcess
  NeverAbandoned
PROPERTIES
  NoStaleRound
