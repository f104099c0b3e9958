SPECIFICATION EndpointFairSpec
CONSTANTS
  a = a
  r1 = r1
  Commands = {a}
  MaxStarts = 1
  Readers = {r1}
  PollTimeout = 2
  RetryDelay = 1
  MaxErrors = 1
  WaitPause = 2
  WriteTimeout = 3
  FilePause = 1
  WaitDeadline = 2
INVARIANTS
  EndpointTypeOK
  NoticedInTime
PROPERTIES
  NotReadyOncePreempted
  PreemptionHandled
  WaitAnswered
  WaitFailsOnlyLate
