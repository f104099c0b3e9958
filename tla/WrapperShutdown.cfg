SPECIFICATION FairSpec
CONSTANTS
  a = a
  b = b
  Commands = {a}
  MaxStarts = 2
  Probed = {}
  EmptyReadiness = {a}
  Hooked = {a}
  Locked = {}
  Limited = {}
  NumProbes = 1
  FailureThreshold = 1
  Signals = {"TERM", "USR"}
  HandleTermination = TRUE
PROPERTIES
  ShutdownTerminates
