SPECIFICATION FairSpec
CONSTANTS
  a = a
  b = b
  Commands = {a}
  MaxStarts = 2
  Probed = {a}
  EmptyReadiness = {}
  Hooked = {a}
  Locked = {}
  Limited = {a}
  NumProbes = 1
  FailureThreshold = 1
  Signals = {}
  HandleTermination = FALSE
PROPERTIES
  CondemnedIsReplaced
  OldRoutinesEnd
