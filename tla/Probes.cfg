SPECIFICATION ProbesFairSpec
CONSTANTS
  Delay = 5
  Period = 2
  FailureThreshold = 2
  FloatingPeriod = 27
  Threshold = 2
  FloatingPidHistory = 3
  HeartPeriod = 6
  BeatEvery = 2
  MaxStall = 2
  ExecProbeTimeout = 10
  HookDeadline = 3
  MaxCrashes = 4
INVARIANTS
  ProbesTypeOK
  HistorySuffices
  SteadyPasses
  HungKilled
  ExecsBounded
PROPERTIES
  AmqpRecovers
  Settles
