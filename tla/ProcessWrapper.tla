--------------------------- MODULE ProcessWrapper ---------------------------
(***************************************************************************)
(* The whole wrapper: main (main.go), NewSchedule (pkg/process/process.go),*)
(* the pod status controller (pkg/process/container_state.go), and the     *)
(* goroutines of the other modules, interleaved.                           *)
(***************************************************************************)
EXTENDS HealthChecker, SignalNotifier

CONSTANT HandleTermination   \* HANDLE_TERMINATION: watch the other containers of the pod

ASSUME HandleTerminationAssumption == HandleTermination \in BOOLEAN

VARIABLES
  mainPc,   \* control point of main: before wg.Add(1), or in wg.Wait
  sched     \* control point of NewSchedule

progVars == <<mainPc, sched>>
vars == <<stateVars, commandVars, signalVars, progVars>>

TypeOK ==
  /\ StateTypeOK
  /\ CommandTypeOK
  /\ SignalTypeOK
  /\ mainPc \in {"add", "wait"}
  /\ sched \in {"launch", "end"}

Init ==
  /\ NewState
  /\ CommandInit
  /\ SignalInit
  /\ mainPc = "add"
  /\ sched = "launch"
-----------------------------------------------------------------------------
(* main and NewSchedule.  The goroutine of NewSchedule is started before    *)
(* main adds the unit that NewSchedule gives back.                          *)

MainAdd ==
  /\ mainPc = "add"
  /\ mainPc' = "wait"
  /\ WgAdd
  /\ UNCHANGED <<mapVars, fileVars, ctxVars, commandVars, signalVars, sched>>

\* wg.Wait returns and main with it.
MainCompletes ==
  /\ mainPc = "wait"
  /\ wg = 0
  /\ exit' = "completed"
  /\ UNCHANGED <<mapVars, fileVars, ctxVars, wg, commandVars, signalVars, progVars>>

\* Mutant of Schedule: wg.Add is left to the goroutine, which never calls it.
ScheduleUncounted(c) ==
  /\ sched = "launch"
  /\ GoTo(c, "new", "acquire")
  /\ frames' = [frames EXCEPT ![c] = 1]
  /\ UNCHANGED <<stateVars, osVars, starts, late, hcVars, gsVars, signalVars, progVars>>

\* wg.Add(1); go Run, for one command of the config.
Schedule(c) ==
  /\ sched = "launch"
  /\ GoTo(c, "new", "acquire")
  /\ frames' = [frames EXCEPT ![c] = 1]
  /\ WgAdd
  /\ UNCHANGED <<mapVars, fileVars, ctxVars, osVars, starts, late, hcVars, gsVars, signalVars, progVars>>

ScheduleEnds ==
  /\ sched = "launch"
  /\ \A c \in Commands : run[c] # "new"
  /\ sched' = "end"
  /\ WgDone(1)
  /\ UNCHANGED <<mapVars, fileVars, ctxVars, commandVars, signalVars, mainPc>>

\* ReadStatus sees a container of the pod completed: the root context is
\* cancelled, Shutdown stays as it is.
ReadStatus ==
  /\ HandleTermination
  /\ ~ctxDone
  /\ Cancel
  /\ UNCHANGED <<mapVars, fileVars, mainVars, commandVars, signalVars, progVars>>
-----------------------------------------------------------------------------
(* The steps of the other modules, framed. *)

Elsewhere == UNCHANGED <<signalVars, progVars>>

Command(c) == Run(c) /\ Elsewhere
Process(p) == (ProcessExit(p) \/ ContextKill(p)) /\ Elsewhere
Watch(p) == (Checker(p) \/ GetStats(p)) /\ Elsewhere
ReadinessFile == CreateReadinessFile /\ Elsewhere /\ UNCHANGED commandVars
Signal == (Notify \/ \E s \in Signals : Deliver(s)) /\ UNCHANGED progVars

Step ==
  \/ MainAdd \/ MainCompletes \/ ScheduleEnds \/ ReadStatus
  \/ \E c \in Commands : Schedule(c) \/ Command(c)
  \/ \E p \in Pids : Process(p) \/ Watch(p)
  \/ ReadinessFile
  \/ Signal

\* The wrapper has ended; nothing is left to happen.
Ended == exit # "up" /\ UNCHANGED vars

\* While a process runs the wrapper may have nothing to do.
Idle == alive # {} /\ UNCHANGED vars

Next == (exit = "up" /\ Step) \/ Idle \/ Ended

Spec == Init /\ [][Next]_vars

\* A goroutine that can run is run: the Go scheduler is fair, sleeps
\* end, and exec kills a process whose context is done.  Nothing is assumed of
\* probes, hooks, the lock server, the processes or the signals.
Up(A) == exit = "up" /\ A

Fairness ==
  /\ WF_vars(Up(MainAdd \/ MainCompletes))
  /\ WF_vars(Up(ScheduleEnds \/ \E c \in Commands : Schedule(c)))
  /\ WF_vars(Up(Notify /\ UNCHANGED progVars))
  /\ \A c \in Commands : WF_vars(Up(RunStep(c) /\ Elsewhere))
  /\ \A p \in Pids :
       /\ WF_vars(Up(ContextKill(p) /\ Elsewhere))
       /\ WF_vars(Up(CheckerStep(p) /\ Elsewhere))
       /\ WF_vars(Up(StatsStep(p) /\ Elsewhere))

FairSpec == Spec /\ Fairness
=============================================================================
