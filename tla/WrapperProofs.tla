--------------------------- MODULE WrapperProofs ---------------------------
(***************************************************************************)
(* Proofs about the wrapper, for any commands, any number of restarts, any *)
(* configuration of probes, hooks, locks and limits, and any signals.      *)
(*                                                                         *)
(* Inv is the inductive invariant behind the safety properties; CountInv,  *)
(* proved on top of it, is the one behind the WaitGroup.                   *)
(***************************************************************************)
EXTENDS WrapperProperties, FiniteSetTheorems, TLAPS

\* Control points of Run before, and from, the start of its process.
Starting == {"acquire", "lockWait", "start"}
Supervised == {"started", "register", "wait", "exited", "ifShutdown", "recheck",
               "recheckKilled", "clearKill", "backoff", "decide"}

\* Every call of Run has started one process, but the one that is about to: the
\* frames that are pending are counted by the starts.
FrameInv ==
  \A c \in Commands :
    /\ run[c] = "new" => starts[c] = 0 /\ frames[c] = 0
    /\ run[c] \in Starting => frames[c] = starts[c] + 1
    /\ run[c] \in Supervised => frames[c] = starts[c] /\ starts[c] >= 1
    /\ run[c] = "unwind" => frames[c] >= 1 /\ frames[c] <= starts[c]
    /\ run[c] = "done" => frames[c] = 0

\* A stats worker that has not given up has failed fewer than three times in a
\* row.
StatInv == \A p \in Pids : gs[p] # "end" => statFails[p] < GetStatsFailureThreshold

\* The goroutines of a process exist from RunRegister on, so never for a
\* process to come; and once Run is past cancelRoutines (process.go:426) the
\* checker of every process so far is cancelled.  This is what NoStaleRound
\* rests on.
RoutineInv ==
  \A p \in Pids :
    /\ hc[p] # "none" \/ gs[p] # "none" =>
         /\ p[2] <= starts[p[1]]
         /\ p[2] = starts[p[1]] => run[p[1]] \notin {"started", "register"}
    /\ hc[p] # "none" /\ (p[2] < starts[p[1]] \/ run[p[1]] \in Starting \cup {"decide"})
         => p \in cancelled

\* A process started during the shutdown is the last one of its command, and
\* Run does not get back to a start: "decide" only leads there while Shutdown
\* is unset, and it is never unset.
LateInv ==
  \A p \in late :
    /\ shutdown
    /\ p[2] = starts[p[1]]
    /\ run[p[1]] \notin Starting \cup {"new"}

\* Run is where it only gets to once Shutdown was seen set.  The point between
\* the two reads of process.go:421 has to be named too.
AbandonInv ==
  \A c \in Commands : run[c] \in {"recheckKilled", "unwind", "done"} => shutdown

\* The inductive invariant.
Inv == TypeOK /\ FrameInv /\ StatInv /\ OneProcess /\ RoutineInv /\ LateInv /\ AbandonInv

\* The wrapper starts with the invariant.
LEMMA InitInv == Init => Inv
  <1> SUFFICES ASSUME Init PROVE Inv
    OBVIOUS
  <1> USE DEF Init, NewState, CommandInit, SignalInit
  <1>1. StateTypeOK
    <2>1. shutdown \in BOOLEAN /\ readinessFile \in BOOLEAN /\ ctxDone \in BOOLEAN
      BY Zenon
    <2> QED
      BY <2>1, MaxStartsAssumption DEF StateTypeOK, Status, FilePc, Exit
  <1>2. CommandTypeOK
    BY MaxStartsAssumption, ConfigAssumption
    DEF CommandTypeOK, RunPc, HcPc, GsPc, GetStatsFailureThreshold
  <1>3. SignalTypeOK
    BY DEF SignalTypeOK, NotifyPc
  <1>4. FrameInv /\ AbandonInv
    BY DEF FrameInv, AbandonInv, Starting, Supervised
  <1>5. StatInv
    BY DEF StatInv, GetStatsFailureThreshold
  <1>6. OneProcess /\ RoutineInv /\ LateInv
    BY DEF OneProcess, RoutineInv, LateInv
  <1> QED
    BY <1>1, <1>2, <1>3, <1>4, <1>5, <1>6 DEF Inv, TypeOK

\* Definitions the provers expand throughout.
USE MaxStartsAssumption, ConfigAssumption
    DEF Inv, TypeOK, StateTypeOK, CommandTypeOK, SignalTypeOK,
        FrameInv, StatInv, OneProcess, RoutineInv, LateInv, AbandonInv,
        Starting, Supervised, Pids, Current, Name, GoTo, Kill, Elsewhere,
        stateVars, mapVars, fileVars, ctxVars, mainVars, osVars, runVars,
        hcVars, gsVars, commandVars, signalVars, progVars

\* A process is the pair of its command and its number.
LEMMA PidPair ==
  \A p \in Pids : p = <<p[1], p[2]>> /\ p[1] \in Commands /\ p[2] \in 1..MaxStarts
  BY DEF Pids

\* Each step of the Run goroutine (process.go:334) preserves the invariant.
LEMMA RunInv == ASSUME Inv, NEW c \in Commands, Run(c), Elsewhere PROVE Inv'
  <1>1. CASE NoSharedLock(c)
    BY <1>1 DEF NoSharedLock, RunPc
  <1>2. CASE AcquireSharedLock(c)
    BY <1>2 DEF AcquireSharedLock, RunPc, RemoveState, SetState, Status
  <1>3. CASE LeaseGranted(c)
    BY <1>3 DEF LeaseGranted, RunPc
  <1>4. CASE LockWaitCancelled(c)
    BY <1>4 DEF LockWaitCancelled, RunPc
  <1>5. CASE Start(c)
    BY <1>5 DEF Start, RunPc
  <1>6. CASE StartFails(c)
    BY <1>6 DEF StartFails, RunPc, Exit
  <1>7. CASE RunSetPid(c)
    BY <1>7 DEF RunSetPid, RunPc, SetPid
  <1>8. CASE RunRegister(c)
    <2>1. Current(c) \in Pids /\ starts[c] >= 1
      BY <1>8 DEF RunRegister
    <2>2. hc' \in [Pids -> HcPc] /\ gs' \in [Pids -> GsPc]
      BY <1>8, <2>1 DEF RunRegister, HcPc, GsPc
    <2>3. TypeOK'
      BY <1>8, <2>2 DEF RunRegister, RunPc, SetCancelRoutine
    <2>4. \A p \in Pids : p # Current(c) => hc'[p] = hc[p] /\ gs'[p] = gs[p]
      BY <1>8, <2>1 DEF RunRegister
    <2>5. hc[Current(c)] = "none" /\ gs[Current(c)] = "none"
      BY <1>8, <2>1 DEF RunRegister
    <2>6. StatInv'
      BY <1>8, <2>1, <2>4, <2>5 DEF RunRegister
    <2>7. RoutineInv'
      BY <1>8, <2>1, <2>4, <2>5, PidPair DEF RunRegister
    <2> QED
      BY <1>8, <2>3, <2>6, <2>7 DEF RunRegister, SetCancelRoutine
  <1>9. CASE RunReap(c)
    <2>1. \A p \in alive : p[1] # c
      BY <1>9, PidPair DEF RunReap
    <2> QED
      BY <1>9, <2>1 DEF RunReap, RunPc
  <1>10. CASE RunIsKilled(c)
    BY <1>10 DEF RunIsKilled, RunPc, IsKilled
  <1>11. CASE RunCompletes(c)
    BY <1>11 DEF RunCompletes, RunPc, CancelRoutinesOf, IsShutdown
  <1>12. CASE RunNotShutdown(c)
    BY <1>12 DEF RunNotShutdown, RunPc, IsShutdown
  <1>13. CASE RunRecheck(c)
    BY <1>13 DEF RunRecheck, RunPc, IsShutdown
  <1>14. CASE RunRecheckKilled(c)
    BY <1>14 DEF RunRecheckKilled, RunPc, IsKilled
  <1>15. CASE RunClearKill(c)
    BY <1>15 DEF RunClearKill, RunPc, SetKillState
  <1>16. CASE RunBackoff(c)
    <2>1. Current(c) \in Pids
      BY <1>16 DEF RunBackoff
    <2>2. \A p \in Pids : p[1] = c /\ p[2] = starts[c] => p \in cancelled'
      BY <1>16, PidPair DEF RunBackoff, CancelRoutinesOf
    <2>3. RoutineInv'
      <3> SUFFICES ASSUME NEW p \in Pids, hc[p] # "none" \/ gs[p] # "none"
                   PROVE  /\ p[2] <= starts[p[1]]
                          /\ p[2] = starts[p[1]] => run'[p[1]] \notin {"started", "register"}
                          /\ hc[p] # "none" /\ (p[2] < starts[p[1]] \/ run'[p[1]] \in Starting \cup {"decide"})
                               => p \in cancelled'
        BY <1>16 DEF RunBackoff, CancelRoutinesOf
      <3>1. cancelled \subseteq cancelled'
        BY <1>16 DEF RunBackoff, CancelRoutinesOf
      <3>2. p[1] # c => run'[p[1]] = run[p[1]]
        BY <1>16, PidPair DEF RunBackoff
      <3>3. p[2] \in Nat /\ starts[p[1]] \in Nat
        BY PidPair
      <3> QED
        BY <1>16, <2>2, <3>1, <3>2, <3>3 DEF RunBackoff
    <2> QED
      BY <1>16, <2>1, <2>3 DEF RunBackoff, RunPc, CancelRoutinesOf
  <1>17. CASE RunRestart(c)
    BY <1>17 DEF RunRestart, RunPc, WgAdd, IsShutdown
  <1>18. CASE RunGivesUp(c)
    BY <1>18 DEF RunGivesUp, RunPc, IsShutdown
  <1>19. CASE RunUnwind(c)
    BY <1>19 DEF RunUnwind, RunPc, WgDone, Exit
  <1> QED
    BY <1>1, <1>2, <1>3, <1>4, <1>5, <1>6, <1>7, <1>8, <1>9, <1>10, <1>11, <1>12,
       <1>13, <1>14, <1>15, <1>16, <1>17, <1>18, <1>19
    DEF Run, RunStep

\* So does the end of a process, by itself or by its context.
LEMMA ProcessInv == ASSUME Inv, NEW p \in Pids, Process(p) PROVE Inv'
  <1>1. CASE ProcessExit(p)
    BY <1>1 DEF Process, ProcessExit
  <1>2. CASE ContextKill(p)
    BY <1>2 DEF Process, ContextKill
  <1> QED
    BY <1>1, <1>2 DEF Process

\* So does each step of a health checker (process.go:476-643).
LEMMA CheckerInv == ASSUME Inv, NEW p \in Pids, Checker(p), Elsewhere PROVE Inv'
  <1>1. CASE CheckerNoReadiness(p)
    BY <1>1 DEF CheckerNoReadiness, HcGoTo, HcPc
  <1>2. CASE CheckerBegin(p)
    BY <1>2 DEF CheckerBegin, HcGoTo, HcPc, SetState, Status
  <1>3. CASE CheckerWakes(p)
    BY <1>3 DEF CheckerWakes, HcGoTo, HcPc
  <1>4. CASE ProbeStops(p)
    BY <1>4 DEF ProbeStops, HcGoTo, HcPc
  <1>5. CASE ProbeRound(p)
    BY <1>5 DEF ProbeRound, HcGoTo, HcPc
  <1>6. CASE ProbesPass(p)
    BY <1>6 DEF ProbesPass, HcGoTo, HcPc, SetState, Status
  <1>7. CASE ProbesPassHook(p)
    BY <1>7 DEF ProbesPassHook, HcGoTo, HcPc
  <1>8. CASE ProbesPassAfterHook(p)
    BY <1>8 DEF ProbesPassAfterHook, HcGoTo, HcPc
  <1>9. CASE HookSucceeds(p)
    BY <1>9 DEF HookSucceeds, HcGoTo, HcPc, SetState, Status
  <1>10. CASE HookFails(p)
    BY <1>10 DEF HookFails, HcGoTo, HcPc, SetState, Status
  <1>11. CASE CondemnKilled(p)
    BY <1>11 DEF CondemnKilled, HcGoTo, HcPc, SetKillState
  <1>12. CASE CondemnCancel(p)
    BY <1>12 DEF CondemnCancel, HcGoTo, HcPc, CancelRoutinesOf
  <1>13. CASE CondemnKill(p)
    BY <1>13 DEF CondemnKill, HcGoTo, HcPc
  <1>14. CASE CondemnRemove(p)
    BY <1>14 DEF CondemnRemove, HcGoTo, HcPc, RemoveState, SetState, Status
  <1>15. ASSUME NEW ok \in BOOLEAN, OnlyHookDone(p, ok) PROVE Inv'
    BY <1>15 DEF OnlyHookDone, HcGoTo, HcPc, SetState, Status, Verdict
  <1>16. ASSUME NEW n \in 1..NumProbes, ProbesFail(p, n) PROVE Inv'
    <2>1. fails' \in [Pids -> 0..FailureThreshold] /\ hc' \in [Pids -> HcPc]
      BY <1>16 DEF ProbesFail, HcGoTo, HcPc
    <2>2. \A q \in Pids : hc'[q] # "none" => hc[q] # "none"
      BY <1>16 DEF ProbesFail, HcGoTo
    <2> QED
      BY <1>16, <2>1, <2>2 DEF ProbesFail, SetState, Status
  <1> QED
    BY <1>1, <1>2, <1>3, <1>4, <1>5, <1>6, <1>7, <1>8, <1>9, <1>10, <1>11, <1>12,
       <1>13, <1>14, <1>15, <1>16
    DEF Checker, CheckerStep, HookOutcome, ProbeOutcome

\* So does each step of a stats worker (process_stats.go:19).
LEMMA StatsInv == ASSUME Inv, NEW p \in Pids, GetStats(p), Elsewhere PROVE Inv'
  <1>1. CASE StatsStop(p)
    BY <1>1 DEF StatsStop, GsGoTo, GsPc
  <1>2. CASE StatsFail(p)
    BY <1>2 DEF StatsFail, GsGoTo, GsPc, GetStatsFailureThreshold
  <1>3. CASE StatsWithinLimit(p)
    BY <1>3 DEF StatsWithinLimit, GsGoTo, GsPc, GetStatsFailureThreshold
  <1>4. CASE StatsOverLimit(p)
    BY <1>4 DEF StatsOverLimit, GsGoTo, GsPc, GetStatsFailureThreshold
  <1>5. CASE StatsSetKilled(p)
    BY <1>5 DEF StatsSetKilled, GsGoTo, GsPc, SetKillState
  <1>6. CASE StatsKill(p)
    BY <1>6 DEF StatsKill, GsGoTo, GsPc
  <1> QED
    BY <1>1, <1>2, <1>3, <1>4, <1>5, <1>6 DEF GetStats, StatsStep

\* So does the goroutine that writes the readiness file (health.go:380).
LEMMA FileInv == ASSUME Inv, ReadinessFile PROVE Inv'
  <1> USE DEF ReadinessFile
  <1>1. CASE CreateReadinessFilePoll
    BY <1>1 DEF CreateReadinessFilePoll, FilePc
  <1>2. CASE CreateReadinessFileWrite
    BY <1>2 DEF CreateReadinessFileWrite, FilePc
  <1>3. CASE CreateReadinessFileFails
    BY <1>3 DEF CreateReadinessFileFails, FilePc
  <1> QED
    BY <1>1, <1>2, <1>3 DEF CreateReadinessFile

\* So does each step of the signal notifier (signals.go:27).
LEMMA SignalInv == ASSUME Inv, Signal PROVE Inv'
  <1> USE SignalsAssumption DEF Signal
  <1>1. CASE Receive
    BY <1>1 DEF Receive, Branch, NotifyPc
  <1>2. CASE NotifyCancelRoutines
    BY <1>2
    DEF NotifyCancelRoutines, NotifyGoTo, NotifyPc, CancelRoutinesOf,
       RegisteredRoutines
  <1>3. CASE NotifyRemoveFile
    BY <1>3 DEF NotifyRemoveFile, NotifyGoTo, NotifyPc, RemoveReadinessFile
  <1>4. CASE NotifySetShutdown
    BY <1>4 DEF NotifySetShutdown, NotifyGoTo, NotifyPc, SetShutdown
  <1>5. CASE TerminateProcess
    BY <1>5 DEF TerminateProcess, NotifyGoTo, NotifyPc
  <1>6. CASE ProcessKiller
    BY <1>6 DEF ProcessKiller, NotifyGoTo, NotifyPc, Cancel
  <1>7. CASE InterruptSetShutdown
    BY <1>7 DEF InterruptSetShutdown, NotifyGoTo, NotifyPc, SetShutdown
  <1>8. CASE InterruptRemoveFile
    BY <1>8 DEF InterruptRemoveFile, NotifyGoTo, NotifyPc, RemoveReadinessFile
  <1>9. CASE InterruptCancel
    BY <1>9 DEF InterruptCancel, NotifyGoTo, NotifyPc, Cancel
  <1>10. ASSUME NEW s \in Signals, Deliver(s) PROVE Inv'
    BY <1>10 DEF Deliver
  <1> QED
    BY <1>1, <1>2, <1>3, <1>4, <1>5, <1>6, <1>7, <1>8, <1>9, <1>10 DEF Notify

\* So do main, the end of NewSchedule, and the pod status controller.
LEMMA MainInv ==
  ASSUME Inv, MainAdd \/ MainCompletes \/ ScheduleEnds \/ ReadStatus
  PROVE  Inv'
  <1>1. CASE MainAdd
    BY <1>1 DEF MainAdd, WgAdd
  <1>2. CASE MainCompletes
    BY <1>2 DEF MainCompletes, Exit
  <1>3. CASE ScheduleEnds
    BY <1>3 DEF ScheduleEnds, WgDone, Exit
  <1>4. CASE ReadStatus
    BY <1>4 DEF ReadStatus, Cancel
  <1> QED
    BY <1>1, <1>2, <1>3, <1>4 DEF MainAdd

\* So does the launch of one command (process.go:125-133).
LEMMA ScheduleInv == ASSUME Inv, NEW c \in Commands, Schedule(c) PROVE Inv'
  BY DEF Schedule, RunPc, WgAdd

\* Hence every step of the wrapper does.
LEMMA NextInv == ASSUME Inv, [Next]_vars PROVE Inv'
  <1>1. CASE UNCHANGED vars
    BY <1>1 DEF vars
  <1>2. CASE Step
    <2>1. ASSUME NEW c \in Commands, Schedule(c) \/ Command(c) PROVE Inv'
      BY <2>1, ScheduleInv, RunInv DEF Command
    <2>2. ASSUME NEW p \in Pids, Process(p) \/ Watch(p) PROVE Inv'
      BY <2>2, ProcessInv, CheckerInv, StatsInv DEF Watch
    <2> QED
      BY <1>2, <2>1, <2>2, MainInv, FileInv, SignalInv DEF Step
  <1> QED
    BY <1>1, <1>2 DEF Next, Idle, Ended

\* The invariant holds in every reachable state of the wrapper.
THEOREM Invariance == Spec => []Inv
  BY InitInv, NextInv, PTL DEF Spec

\* Every variable keeps its type: the failure counters of the probes and of the
\* stats worker stop at their thresholds (process.go:581, process_stats.go:38),
\* and Run never nests deeper than the processes it has started.
THEOREM TypeCorrect == Spec => []TypeOK
  <1>1. Inv => TypeOK
    BY DEF Inv
  <1> QED
    BY Invariance, <1>1, PTL

\* A command never has two processes, and none that its Run goroutine does not
\* wait for (process.go:369-393).
THEOREM AtMostOneProcess == Spec => []OneProcess
  <1>1. Inv => OneProcess
    BY DEF Inv
  <1> QED
    BY Invariance, <1>1, PTL

\* After a shutdown has begun a command gets at most one more process
\* (process.go:427).
THEOREM OneLateStart == Spec => []LateStartOnce
  <1>1. Inv => LateStartOnce
    BY PidPair DEF LateStartOnce
  <1> QED
    BY Invariance, <1>1, PTL

\* No interleaving of the four reads of the flags makes Run give up a command
\* without a shutdown (process.go:413-433).
THEOREM NoneAbandoned == Spec => []NeverAbandoned
  <1>1. Inv => NeverAbandoned
    BY DEF NeverAbandoned
  <1> QED
    BY Invariance, <1>1, PTL

\* A step of Run does not move a checker that is at the head of its loop.
LEMMA RunKeepsRounds ==
  ASSUME Inv, NEW c \in Commands, Run(c), NEW p \in Pids, hc[p] = "loop"
  PROVE  hc'[p] = "loop"
  <1>1. CASE RunRegister(c)
    BY <1>1 DEF RunRegister
  <1>2. CASE UNCHANGED hc
    BY <1>2
  <1> QED
    BY <1>1, <1>2
    DEF Run, RunStep, NoSharedLock, AcquireSharedLock, LeaseGranted,
       LockWaitCancelled, Start, StartFails, RunSetPid, RunReap, RunIsKilled,
       RunCompletes, RunNotShutdown, RunRecheck, RunRecheckKilled, RunClearKill,
       RunBackoff, RunRestart, RunGivesUp, RunUnwind

\* A checker leaves the head of its loop for a round by ProbeRound only.
LEMMA CheckerRounds ==
  ASSUME Inv, NEW q \in Pids, Checker(q), NEW p \in Pids, hc[p] = "loop", hc'[p]
  \notin {"loop", "end"}
  PROVE  ProbeRound(p)
  <1>1. CASE ProbeStops(q)
    BY <1>1 DEF ProbeStops, HcGoTo
  <1>2. CASE ProbeRound(q)
    BY <1>2 DEF ProbeRound, HcGoTo
  <1> QED
    BY <1>1, <1>2 DEF Checker, CheckerStep, HookOutcome, ProbeOutcome, HcGoTo,
      CheckerNoReadiness, CheckerBegin, CheckerWakes, ProbesPass, ProbesPassHook,
      ProbesPassAfterHook, HookSucceeds, HookFails, CondemnKilled, CondemnCancel,
      CondemnKill, CondemnRemove, OnlyHookDone, ProbesFail

\* The other goroutines move no checker at all.
LEMMA OthersKeepRounds ==
  ASSUME \/ MainAdd \/ MainCompletes \/ ScheduleEnds
         \/ ReadStatus \/ ReadinessFile \/ Signal
         \/ \E c \in Commands : Schedule(c)
         \/ \E p \in Pids : Process(p) \/ GetStats(p)
  PROVE  UNCHANGED hc
  BY
  DEF MainAdd, MainCompletes, ScheduleEnds, ReadStatus, ReadinessFile, Signal,
     Schedule, Process,
     ProcessExit, ContextKill, GetStats, StatsStep, StatsStop, StatsFail,
     StatsWithinLimit, StatsOverLimit,
     StatsSetKilled, StatsKill, Notify, Deliver, Receive, NotifyCancelRoutines,
     NotifyRemoveFile, NotifySetShutdown,
     TerminateProcess, ProcessKiller, InterruptSetShutdown, InterruptRemoveFile,
     InterruptCancel

\* A round of probes begins for the current process of a command only: a
\* checker of an earlier process finds its context cancelled at the head of the
\* loop (process.go:426, 508-512).
THEOREM RoundsAreCurrent == Spec => NoStaleRound
  <1>1. ASSUME Inv, [Next]_vars, NEW p \in Pids, hc[p] = "loop", hc'[p] # "loop",
  hc'[p] # "end"
        PROVE  p = Current(Name(p))
    <2>1. ProbeRound(p)
      BY <1>1, RunKeepsRounds, CheckerRounds, OthersKeepRounds
      DEF Next, Step, Command, Watch, Idle, Ended, vars
    <2>2. p \notin cancelled
      BY <2>1 DEF ProbeRound
    <2>3. p[1] \in Commands /\ p[2] \in Nat /\ starts[p[1]] \in Nat
      BY <1>1, PidPair
    <2>4. p[2] <= starts[p[1]] /\ ~(p[2] < starts[p[1]])
      BY <1>1, <2>2
    <2> QED
      BY <2>3, <2>4, PidPair
  <1>2. Inv /\ [Next]_vars =>
          [\A p \in Pids : hc[p] = "loop" /\ hc'[p] # "loop" /\ hc'[p] # "end"
             => p = Current(Name(p))]_vars
    BY <1>1
  <1> QED
    BY Invariance, <1>2, PTL DEF Spec, NoStaleRound

\* The pending calls can be counted.
LEMMA PendingFinite == IsFiniteSet(Pending)
  <1>1. IsFiniteSet(1..MaxStarts + 1)
    <2>1. 1 \in Int /\ MaxStarts + 1 \in Int
      OBVIOUS
    <2> QED
      BY ONLY <2>1, FS_Interval
  <1>2. IsFiniteSet(Commands \X (1..MaxStarts + 1))
    BY ONLY <1>1, CommandsFinite, FS_Product
  <1> QED
    BY <1>2, FS_Subset DEF Pending

\* One more frame is one more pending call.
LEMMA PendingAdd ==
  ASSUME Inv, NEW c \in Commands, frames[c] <= MaxStarts,
         frames' = [frames EXCEPT ![c] = @ + 1]
  PROVE  Cardinality(Pending') = Cardinality(Pending) + 1
  <1> DEFINE t == <<c, frames[c] + 1>>
  <1>1. t \notin Pending
    BY DEF Pending
  <1>2. Pending' = Pending \cup {t}
    BY DEF Pending
  <1> QED
    BY <1>1, <1>2, PendingFinite, FS_AddElement

\* One frame less is one pending call less.
LEMMA PendingRemove ==
  ASSUME Inv, NEW c \in Commands, frames[c] >= 1,
         frames' = [frames EXCEPT ![c] = @ - 1]
  PROVE  Cardinality(Pending') \in Nat /\ Cardinality(Pending') + 1 = Cardinality(Pending)
  <1> DEFINE t == <<c, frames[c]>>
  <1>1. t \in Pending
    BY DEF Pending
  <1>2. Pending' = Pending \ {t}
    BY DEF Pending
  <1>3. Cardinality(Pending) \in Nat
    BY PendingFinite, FS_CardinalityType
  <1>4. Cardinality(Pending \ {t}) = Cardinality(Pending) - 1
    BY ONLY <1>1, PendingFinite, FS_RemoveElement, Zenon
  <1>5. IsFiniteSet(Pending \ {t})
    BY ONLY PendingFinite, FS_RemoveElement, Zenon
  <1>6. Cardinality(Pending \ {t}) \in Nat
    BY ONLY <1>5, FS_CardinalityType
  <1> QED
    BY <1>2, <1>3, <1>4, <1>6

\* The invariant behind the WaitGroup: what it counts, that NewSchedule ends
\* with every command launched, and what completion means.
CountInv ==
  /\ WaitGroupCounts
  /\ sched = "end" => \A c \in Commands : run[c] # "new"
  /\ CompletedMeansAllDone

\* A step that touches neither the WaitGroup nor what it counts.
Quiet == UNCHANGED <<frames, wg, exit, mainPc, sched>>
\* A command that was launched stays launched.
Launched == \A c \in Commands : run[c] # "new" => run'[c] # "new"

\* Such a step preserves the count.
LEMMA QuietCount == ASSUME Inv, CountInv, exit = "up", Quiet, Launched PROVE CountInv'
  <1>1. Pending' = Pending
    BY DEF Quiet, Pending
  <1> QED
    BY <1>1 DEF Quiet, Launched, CountInv, WaitGroupCounts, Count, CompletedMeansAllDone, Unit

\* The count is a number, and wg.Done takes one off it: below zero it panics.
LEMMA DoneCounts ==
  ASSUME Inv, CountInv, exit = "up", WgDone(1), Count' = Count - 1
  PROVE  WaitGroupCounts'
  <1>1. Count \in Int /\ wg \in Nat
    BY PendingFinite, FS_CardinalityType DEF Count, Unit
  <1>2. Count >= 0 /\ wg = Count
    BY <1>1 DEF CountInv, WaitGroupCounts
  <1> QED
    BY <1>1, <1>2 DEF WgDone, WaitGroupCounts

\* wg.Add and the deferred wg.Done of Run (process.go:335, 428) keep the count.
LEMMA RunCount ==
  ASSUME Inv, CountInv, exit = "up", NEW c \in Commands, Run(c), Elsewhere
  PROVE  CountInv'
  <1>0. Cardinality(Pending) \in Nat
    BY PendingFinite, FS_CardinalityType
  <1>1. CASE RunRestart(c)
    <2>0. frames[c] <= MaxStarts /\ frames' = [frames EXCEPT ![c] = @ + 1]
      BY <1>1 DEF RunRestart
    <2>1. Cardinality(Pending') = Cardinality(Pending) + 1
      BY <2>0, PendingAdd
    <2> QED
      BY <1>0, <1>1, <2>1
      DEF RunRestart, WgAdd, CountInv, WaitGroupCounts, Count, CompletedMeansAllDone, Unit
  <1>2. CASE RunUnwind(c)
    <2>0. frames[c] >= 1 /\ frames' = [frames EXCEPT ![c] = @ - 1]
      BY <1>2 DEF RunUnwind
    <2>1. Cardinality(Pending') \in Nat /\ Cardinality(Pending') + 1 = Cardinality(Pending)
      BY <2>0, PendingRemove
    <2>2. exit' = "panic" \/ (exit' = exit /\ wg' = wg - 1)
      BY <1>2 DEF RunUnwind, WgDone
    <2>3. WaitGroupCounts'
      <3>1. mainPc' = mainPc /\ sched' = sched
        OBVIOUS
      <3>2. Count' = Count - 1
        BY <1>0, <2>1, <3>1 DEF Count, Unit
      <3> QED
        BY <1>2, <3>2, DoneCounts DEF RunUnwind
    <2> QED
      BY <1>2, <2>2, <2>3 DEF RunUnwind, CountInv, CompletedMeansAllDone
  <1>3. CASE StartFails(c)
    <2>1. Pending' = Pending
      BY <1>3 DEF StartFails, Pending
    <2> QED
      BY <1>3, <2>1 DEF StartFails, CountInv, WaitGroupCounts, Count, CompletedMeansAllDone, Unit
  <1>4. CASE Quiet /\ Launched
    BY <1>4, QuietCount
  <1> QED
    <2>1. RunRestart(c) \/ RunUnwind(c) \/ StartFails(c) \/ (Quiet /\ Launched)
      BY DEF Run, RunStep, Quiet, Launched,
         NoSharedLock, AcquireSharedLock, LeaseGranted, LockWaitCancelled,
         Start, RunSetPid, RunRegister, RunReap, RunIsKilled, RunCompletes,
         RunNotShutdown, RunRecheck, RunRecheckKilled, RunClearKill,
         RunBackoff, RunGivesUp, RemoveState, SetState, SetPid,
         SetCancelRoutine, SetKillState, CancelRoutinesOf
    <2> QED
      BY <1>1, <1>2, <1>3, <1>4, <2>1

\* Processes and their watchers do not touch the WaitGroup.
LEMMA WatchQuiet == ASSUME NEW p \in Pids, Process(p) \/ Watch(p) PROVE Quiet /\ Launched
  <1>1. CASE Process(p)
    BY <1>1 DEF Process, ProcessExit, ContextKill, Quiet, Launched
  <1>2. CASE Checker(p) /\ Elsewhere
    BY <1>2 DEF Quiet, Launched, Checker, CheckerStep, HookOutcome, ProbeOutcome,
       CheckerNoReadiness, CheckerBegin, CheckerWakes, ProbeStops,
       ProbeRound, ProbesPass, ProbesPassHook, ProbesPassAfterHook,
       HookSucceeds, HookFails, CondemnKilled, CondemnCancel, CondemnKill,
       CondemnRemove, OnlyHookDone, ProbesFail
  <1>3. CASE GetStats(p) /\ Elsewhere
    BY <1>3 DEF Quiet, Launched, GetStats, StatsStep, StatsStop, StatsFail,
       StatsWithinLimit, StatsOverLimit, StatsSetKilled, StatsKill
  <1> QED
    BY <1>1, <1>2, <1>3 DEF Watch

\* Neither do the readiness file, the signals and the pod status controller.
LEMMA ServiceQuiet == ASSUME ReadinessFile \/ Signal \/ ReadStatus PROVE Quiet /\ Launched
  BY DEF Quiet, Launched, ReadinessFile, CreateReadinessFile, CreateReadinessFilePoll,
     CreateReadinessFileWrite, CreateReadinessFileFails, Signal, Notify, Deliver, Receive,
     NotifyGoTo, NotifyCancelRoutines, NotifyRemoveFile, NotifySetShutdown,
     TerminateProcess,
     ProcessKiller, InterruptSetShutdown, InterruptRemoveFile, InterruptCancel,
     ReadStatus,
     CancelRoutinesOf, RemoveReadinessFile, SetShutdown, Cancel

\* main and the end of NewSchedule keep the count, and main returns only when
\* nothing is pending (main.go:256-258, process.go:141).
LEMMA MainCount ==
  ASSUME Inv, CountInv, exit = "up", MainAdd \/ MainCompletes \/ ScheduleEnds
  PROVE  CountInv'
  <1>0. Cardinality(Pending) \in Nat
    BY PendingFinite, FS_CardinalityType
  <1>1. Pending' = Pending
    BY DEF MainAdd, MainCompletes, ScheduleEnds, Pending
  <1>2. CASE MainAdd
    BY <1>0, <1>1, <1>2
    DEF MainAdd, WgAdd, CountInv, WaitGroupCounts, Count, CompletedMeansAllDone, Unit
  <1>3. CASE ScheduleEnds
    <2>1. exit' = "panic" \/ (exit' = exit /\ wg' = wg - 1)
      BY <1>3 DEF ScheduleEnds, WgDone
    <2>2. WaitGroupCounts'
      <3>1. mainPc' = mainPc /\ sched = "launch" /\ sched' = "end"
        BY <1>3 DEF ScheduleEnds
      <3>2. Count' = Count - 1
        BY <1>0, <1>1, <3>1 DEF Count, Unit
      <3> QED
        BY <1>3, <3>2, DoneCounts DEF ScheduleEnds
    <2> QED
      BY <1>3, <2>1, <2>2 DEF ScheduleEnds, CountInv, CompletedMeansAllDone
  <1>4. CASE MainCompletes
    <2>1. Cardinality(Pending) = 0 /\ sched = "end"
      BY <1>0, <1>4 DEF MainCompletes, CountInv, WaitGroupCounts, Count, Unit
    <2>2. Pending = {}
      BY <2>1, PendingFinite, FS_EmptySet
    <2>3. ASSUME NEW c \in Commands PROVE frames[c] = 0
      <3>1. <<c, 1>> \notin Pending
        BY <2>2
      <3> QED
        BY <3>1 DEF Pending
    <2>4. ASSUME NEW c \in Commands PROVE run[c] = "done"
      <3>1. run[c] \in RunPc /\ run[c] # "new" /\ frames[c] = 0 /\ starts[c] \in Nat
        BY <2>1, <2>3 DEF CountInv
      <3> QED
        BY <3>1 DEF RunPc
    <2>5. alive = {}
      BY <2>4, PidPair
    <2> QED
      BY <1>1, <1>4, <2>3, <2>4, <2>5
      DEF MainCompletes, CountInv, WaitGroupCounts, Count, CompletedMeansAllDone, Unit
  <1> QED
    BY <1>2, <1>3, <1>4

\* The wg.Add before each go Run keeps the count (process.go:125, 132).
LEMMA ScheduleCount ==
  ASSUME Inv, CountInv, exit = "up", NEW c \in Commands, Schedule(c)
  PROVE  CountInv'
  <1>0. frames[c] = 0
    BY DEF Schedule
  <1>1. frames' = [frames EXCEPT ![c] = @ + 1] /\ frames[c] <= MaxStarts
    BY <1>0 DEF Schedule
  <1>2. Cardinality(Pending') = Cardinality(Pending) + 1
    BY <1>1, PendingAdd
  <1>3. Cardinality(Pending) \in Nat
    BY PendingFinite, FS_CardinalityType
  <1> QED
    BY <1>2, <1>3
    DEF Schedule, WgAdd, CountInv, WaitGroupCounts, Count, CompletedMeansAllDone, Unit

\* Nothing is pending at the start.
LEMMA InitCount == Init => CountInv
  <1> SUFFICES ASSUME Init PROVE CountInv
    OBVIOUS
  <1>1. Pending = {}
    BY DEF Pending, Init, CommandInit
  <1>2. Cardinality(Pending) = 0
    BY <1>1, FS_EmptySet
  <1> QED
    BY <1>2
    DEF Init, NewState, CommandInit, CountInv, WaitGroupCounts,
       Count, CompletedMeansAllDone, Unit

\* Every step of the wrapper keeps the count.
LEMMA NextCount == ASSUME Inv, CountInv, [Next]_vars PROVE CountInv'
  <1>1. CASE UNCHANGED vars
    <2>1. Pending' = Pending
      BY <1>1 DEF vars, Pending
    <2> QED
      BY <1>1, <2>1 DEF vars, CountInv, WaitGroupCounts, Count, CompletedMeansAllDone, Unit
  <1>2. CASE exit = "up" /\ Step
    <2>1. ASSUME NEW c \in Commands, Schedule(c) \/ Command(c) PROVE CountInv'
      BY <1>2, <2>1, ScheduleCount, RunCount DEF Command
    <2>2. ASSUME NEW p \in Pids, Process(p) \/ Watch(p) PROVE CountInv'
      BY <1>2, <2>2, WatchQuiet, QuietCount
    <2> QED
      BY <1>2, <2>1, <2>2, ServiceQuiet, QuietCount, MainCount DEF Step
  <1> QED
    BY <1>1, <1>2 DEF Next, Idle, Ended

\* The count is exact in every reachable state.
THEOREM Counting == Spec => []CountInv
  BY Invariance, InitCount, NextCount, PTL DEF Spec

\* WaitGroupCounts: for any number of commands and restarts the WaitGroup counts
\* the pending calls of Run and the unit of NewSchedule, and it panics exactly when
\* all of these are given back before main has added its unit (main.go:256-258).
THEOREM WaitGroupIsExact == Spec => []WaitGroupCounts
  <1>1. CountInv => WaitGroupCounts
    BY DEF CountInv
  <1> QED
    BY Counting, <1>1, PTL

\* When "All commands are completed" is logged no Run call is pending and no
\* process runs (main.go:258-259).
THEOREM CompletionIsComplete == Spec => []CompletedMeansAllDone
  <1>1. CountInv => CompletedMeansAllDone
    BY DEF CountInv
  <1> QED
    BY Counting, <1>1, PTL
=============================================================================
