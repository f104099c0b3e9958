-------------------------- MODULE RefinementProofs --------------------------
(***************************************************************************)
(* The proof that the wrapper implements Supervision.                      *)
(*                                                                         *)
(* A step of the wrapper is a Spawn, Die, Retire, Stop, Complete or Abort  *)
(* of the abstract specification, or it leaves its variables alone.        *)
(***************************************************************************)
EXTENDS WrapperProofs

\* Definitions the provers expand throughout.
USE MaxStartsAssumption, ConfigAssumption
    DEF Inv, TypeOK, StateTypeOK, CommandTypeOK, SignalTypeOK,
        FrameInv, StatInv, OneProcess, RoutineInv, LateInv, AbandonInv,
        Starting, Supervised, Pids, Current, Name, GoTo, Kill, Elsewhere,
        stateVars, mapVars, fileVars, ctxVars, mainVars, osVars, runVars,
        hcVars, gsVars, commandVars, signalVars, progVars

\* Control points of a Run goroutine that has given its command up.
Retired == {"unwind", "done"}
\* The commands that may get one more process: the refinement mapping of spare.
Spare == {c \in Commands : \A p \in late : Name(p) # c}

\* A step the abstract specification does not see.
Unseen ==
  /\ UNCHANGED <<alive, starts, late, shutdown, exit>>
  /\ \A c \in Commands : run'[c] \in Retired <=> run[c] \in Retired

\* It maps to a stutter.
LEMMA UnseenStutters == Unseen => UNCHANGED Abstract!supervisionVars
  BY DEF Unseen, Retired, Phase, Abstract!supervisionVars

\* cmd.Start (process.go:369) is a Spawn.
LEMMA SpawnStep ==
  ASSUME Inv, exit = "up", NEW c \in Commands, Start(c) PROVE Abstract!Next
  <1>1. Abstract!Spawn(c)
    <2>1. Phase(c) = "down"
      BY DEF Start, Phase
    <2>2. Phase(c)' = "up"
      BY DEF Start, Phase, RunPc
    <2>3. \A d \in Commands : d # c => Phase(d)' = Phase(d)
      BY DEF Start, Phase
    <2>4. shutdown => c \in Spare
      BY DEF Start, Spare
    <2>5. Spare' = IF shutdown THEN Spare \ {c} ELSE Spare
      <3>1. CASE shutdown
        <4>1. PICK x : x[1] = c /\ late' = late \cup {x}
          BY <3>1 DEF Start
        <4>2. \A d : (\A p \in late' : p[1] # d) <=> (\A p \in late : p[1] # d) /\ c # d
          BY ONLY <4>1
        <4> QED
          BY ONLY <3>1, <4>2 DEF Spare, Name
      <3>2. CASE ~shutdown
        BY <3>2 DEF Start, Spare
      <3> QED
        BY <3>1, <3>2
    <2> QED
      BY <2>1, <2>2, <2>3, <2>4, <2>5 DEF Abstract!Spawn, Start, Spare
  <1> QED
    BY <1>1 DEF Abstract!Next

\* The end of a process that runs is a Die; a signal to a dead one is not seen.
LEMMA KillStep ==
  ASSUME Inv, exit = "up", NEW p \in Pids, Kill(p),
         UNCHANGED <<run, starts, late, shutdown, exit>>
  PROVE  [Abstract!Next]_(Abstract!supervisionVars)
  <1>1. CASE p \notin alive
    BY <1>1, UnseenStutters DEF Unseen
  <1>2. CASE p \in alive
    <2> DEFINE c == p[1]
    <2>0. c \in Commands /\ p = Current(c)
      BY <1>2, PidPair
    <2>1. Phase(c) = "up"
      BY <1>2, <2>0 DEF Phase
    <2>2. Phase(c)' = "down"
      BY <1>2, <2>0 DEF Phase
    <2>3. \A d \in Commands : d # c => Phase(d)' = Phase(d)
      BY <2>0 DEF Phase
    <2>4. Abstract!Die(c)
      BY <2>0, <2>1, <2>2, <2>3 DEF Abstract!Die
    <2> QED
      BY <2>0, <2>4 DEF Abstract!Next
  <1> QED
    BY <1>1, <1>2

\* Run taking the way out during a shutdown is a Retire.
LEMMA RetireStep ==
  ASSUME Inv, exit = "up", shutdown, NEW c \in Commands,
         run[c] \notin Retired \cup {"started", "register", "wait"},
         run' = [run EXCEPT ![c] = "unwind"],
         UNCHANGED <<alive, starts, late, shutdown, exit>>
  PROVE  Abstract!Next
  <1>1. Phase(c) = "down"
    BY DEF Phase, Retired
  <1>2. Phase(c)' = "retired"
    BY DEF Phase
  <1>3. \A d \in Commands : d # c => Phase(d)' = Phase(d)
    BY DEF Phase
  <1>4. Abstract!Retire(c)
    BY <1>1, <1>2, <1>3 DEF Abstract!Retire
  <1> QED
    BY <1>4 DEF Abstract!Next

\* Every step of Run is a step of Supervision or a stutter.
LEMMA RunSimulates ==
  ASSUME Inv, exit = "up", NEW c \in Commands, Run(c)
  PROVE  [Abstract!Next]_(Abstract!supervisionVars)
  <1>1. CASE Start(c)
    BY <1>1, SpawnStep
  <1>2. CASE RunCompletes(c)
    BY <1>2, RetireStep DEF RunCompletes, IsShutdown, Retired
  <1>3. CASE RunGivesUp(c)
    BY <1>3, RetireStep DEF RunGivesUp, IsShutdown, Retired
  <1>4. CASE RunRecheckKilled(c)
    <2>1. CASE IsKilled(c)
      BY <1>4, <2>1, UnseenStutters DEF RunRecheckKilled, Unseen, Retired
    <2>2. CASE ~IsKilled(c)
      BY <1>4, <2>2, RetireStep DEF RunRecheckKilled, Retired
    <2> QED
      BY <2>1, <2>2
  <1>5. CASE StartFails(c)
    BY <1>5 DEF StartFails, Abstract!Next, Abstract!Abort, Phase
  <1>6. CASE RunUnwind(c)
    <2>1. UNCHANGED <<alive, starts, late, shutdown>>
      BY <1>6 DEF RunUnwind
    <2>2. \A d \in Commands : run'[d] \in Retired <=> run[d] \in Retired
      BY <1>6 DEF RunUnwind, Retired
    <2>3. CASE exit' = exit
      BY <2>1, <2>2, <2>3, UnseenStutters DEF Unseen
    <2>4. CASE exit' = "panic"
      BY <2>1, <2>2, <2>4 DEF Abstract!Next, Abstract!Abort, Phase, Retired
    <2> QED
      BY <1>6, <2>3, <2>4 DEF RunUnwind, WgDone
  <1>7. CASE \/ NoSharedLock(c) \/ AcquireSharedLock(c) \/ LeaseGranted(c) \/ LockWaitCancelled(c)
             \/ RunSetPid(c) \/ RunRegister(c) \/ RunReap(c) \/ RunIsKilled(c) \/ RunNotShutdown(c)
             \/ RunRecheck(c) \/ RunClearKill(c) \/ RunBackoff(c) \/ RunRestart(c)
    <2>1. Unseen
      BY <1>7 DEF Unseen, Retired, NoSharedLock, AcquireSharedLock, LeaseGranted,
         LockWaitCancelled, RunSetPid, RunRegister, RunReap, RunIsKilled, RunNotShutdown,
         RunRecheck, RunClearKill, RunBackoff, RunRestart, RemoveState, SetState, SetPid,
         SetCancelRoutine, SetKillState, CancelRoutinesOf, WgAdd
    <2> QED
      BY <2>1, UnseenStutters
  <1> QED
    BY <1>1, <1>2, <1>3, <1>4, <1>5, <1>6, <1>7 DEF Run, RunStep

\* So is every step of a process or of its watchers.
LEMMA ProcessSimulates ==
  ASSUME Inv, exit = "up", NEW p \in Pids, Process(p) \/ Watch(p)
  PROVE  [Abstract!Next]_(Abstract!supervisionVars)
  <1>1. CASE ProcessExit(p) \/ ContextKill(p) \/ CondemnKill(p) \/ StatsKill(p)
    BY <1>1, KillStep DEF ProcessExit, ContextKill, CondemnKill, StatsKill
  <1>2. CASE Checker(p) /\ ~CondemnKill(p)
    <2>1. Unseen
      BY <1>2 DEF Unseen, Checker, CheckerStep, HookOutcome, ProbeOutcome,
         CheckerNoReadiness, CheckerBegin, CheckerWakes, ProbeStops, ProbeRound,
         ProbesPass,
         ProbesPassHook, ProbesPassAfterHook, HookSucceeds, HookFails, CondemnKilled,
         CondemnCancel, CondemnRemove, OnlyHookDone, ProbesFail, SetState, RemoveState,
         SetKillState
    <2> QED
      BY <2>1, UnseenStutters
  <1>3. CASE GetStats(p) /\ ~StatsKill(p)
    <2>1. Unseen
      BY <1>3 DEF Unseen, GetStats, StatsStep, StatsStop, StatsFail, StatsWithinLimit,
         StatsOverLimit, StatsSetKilled, SetKillState
    <2> QED
      BY <2>1, UnseenStutters
  <1> QED
    BY <1>1, <1>2, <1>3 DEF Process, Watch

\* SetShutdown (health.go:95) is a Stop, or a stutter when it is set already.
LEMMA StopStep ==
  ASSUME exit = "up", SetShutdown, UNCHANGED <<alive, run, starts, late, exit>>
  PROVE  Abstract!Next
  BY DEF SetShutdown, Abstract!Next, Abstract!Stop, Phase

\* So is every step of the signal notifier and of the file routine.
LEMMA ServiceSimulates ==
  ASSUME exit = "up", ReadinessFile \/ Signal \/ ReadStatus
  PROVE  [Abstract!Next]_(Abstract!supervisionVars)
  <1>1. CASE NotifySetShutdown \/ InterruptSetShutdown
    BY <1>1, StopStep DEF NotifySetShutdown, InterruptSetShutdown
  <1>2. CASE (ReadinessFile \/ Signal \/ ReadStatus) /\ ~NotifySetShutdown /\ ~InterruptSetShutdown
    <2>1. Unseen
      BY <1>2 DEF Unseen, ReadinessFile, CreateReadinessFile, CreateReadinessFilePoll,
         CreateReadinessFileWrite, CreateReadinessFileFails, Signal, Notify, Deliver,
         Receive,
         NotifyCancelRoutines, NotifyRemoveFile, TerminateProcess, ProcessKiller,
         InterruptRemoveFile, InterruptCancel, ReadStatus
    <2> QED
      BY <2>1, UnseenStutters
  <1> QED
    BY <1>1, <1>2

\* So is every step of main and NewSchedule; completion needs the count.
LEMMA MainSimulates ==
  ASSUME Inv, CountInv', exit = "up",
         \/ MainAdd \/ MainCompletes \/ ScheduleEnds \/ \E c \in Commands : Schedule(c)
  PROVE  [Abstract!Next]_(Abstract!supervisionVars)
  <1>1. CASE MainCompletes
    BY <1>1
    DEF MainCompletes, CountInv, CompletedMeansAllDone, Phase, Abstract!Next,
       Abstract!Complete
  <1>2. CASE MainAdd \/ \E c \in Commands : Schedule(c)
    <2>1. Unseen
      BY <1>2 DEF MainAdd, Schedule, Unseen, Retired, WgAdd
    <2> QED
      BY <2>1, UnseenStutters
  <1>3. CASE ScheduleEnds
    <2>1. UNCHANGED <<alive, run, starts, late, shutdown>>
      BY <1>3 DEF ScheduleEnds
    <2>2. CASE exit' = exit
      BY <2>1, <2>2, UnseenStutters DEF Unseen
    <2>3. CASE exit' = "panic"
      BY <2>1, <2>3 DEF Abstract!Next, Abstract!Abort, Phase
    <2> QED
      BY <1>3, <2>2, <2>3 DEF ScheduleEnds, WgDone
  <1> QED
    BY <1>1, <1>2, <1>3

\* So is every step of the wrapper.
LEMMA StepSimulates ==
  ASSUME Inv, CountInv, [Next]_vars
  PROVE  [Abstract!Next]_(Abstract!supervisionVars)
  <1>1. CASE UNCHANGED vars
    BY <1>1, UnseenStutters DEF vars, Unseen
  <1>2. CASE exit = "up" /\ Step
    BY <1>2, NextCount, RunSimulates, ProcessSimulates, ServiceSimulates, MainSimulates
    DEF Step, Command
  <1> QED
    BY <1>1, <1>2 DEF Next, Idle, Ended

\* The initial states map to the initial state.
LEMMA InitSimulates == Init => Abstract!Init
  BY DEF Init, NewState, CommandInit, Abstract!Init, Phase

\* The wrapper implements Supervision: whatever its goroutines do in between, a
\* command has one process at a time, only a shutdown retires it, at most one
\* process per command is started late, and the wrapper completes with every
\* command retired.
THEOREM WrapperSupervises == Spec => Supervises
  BY Invariance, Counting, InitSimulates, StepSimulates, PTL
  DEF Spec, Supervises, Abstract!Spec
=============================================================================
