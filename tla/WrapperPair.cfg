SPECIFICATION Spec
CONSTANTS
  a = a
  b = b
  Commands = {a, b}
  MaxStarts = 2
  Probed = {}
  EmptyReadiness = {}
  Hooked = {}
  Locked = {}
  Limited = {}
  NumProbes = 1
  FailureThreshold = 1
  Signals = {"INT"}
  HandleTermination = FALSE
INVARIANTS
  WaitGroupCounts
  CompletedMeansAllDone
PROPERTIES
  Supervises
SYMMETRY CommandSymmetry
