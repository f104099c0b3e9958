--------------------------- MODULE CommandRunner ---------------------------
(***************************************************************************)
(* One scheduled command (pkg/process/process.go, process_stats.go): the   *)
(* Run goroutine that starts, awaits and restarts its process, and the     *)
(* HealthChecker and GetStats goroutines each process gets.                *)
(*                                                                         *)
(* The goroutines of an old process outlive it: they are indexed by the    *)
(* process p = <<c, k>>, while the maps of State are indexed by the name c *)
(* and shared by every process the name has had.  Time is abstract: a      *)
(* sleep, a delay or a period is a control point others may overtake.      *)
(***************************************************************************)
EXTENDS WrapperState

CONSTANTS
  Probed,            \* commands with at least one readiness probe
  EmptyReadiness,    \* commands whose readiness section names no probe
  Hooked,            \* commands with a postStart hook
  Locked,            \* commands with a shared-lock probe
  Limited,           \* commands with a memory limit
  NumProbes,         \* probes run in one round
  FailureThreshold   \* Readiness.FailureThreshold

ASSUME ConfigAssumption ==
  /\ Probed \subseteq Commands
  /\ EmptyReadiness \subseteq Commands \ Probed
  /\ Hooked \subseteq Commands
  /\ Locked \subseteq Probed
  /\ Limited \subseteq Commands
  /\ NumProbes \in Nat \ {0}
  /\ FailureThreshold \in Nat \ {0}

GetStatsFailureThreshold == 3

VARIABLES
  alive,      \* processes that run
  termed,     \* processes SIGTERM was sent to while they ran
  run,        \* control point of each command's Run goroutine
  starts,     \* successful cmd.Start calls of each command
  frames,     \* nested Run calls that have not executed their wg.Done
  late,       \* history: processes started when Shutdown was already set
  hc,         \* control point of each process's HealthChecker goroutine
  fails,      \* ProbeRunner's failureThreshold counter
  hookRan,    \* processes whose ProbeRunner has hookExecuted set
  gs,         \* control point of each process's GetStats goroutine
  statFails   \* GetStats' failedStatCollection counter

osVars == <<alive, termed>>
runVars == <<run, starts, frames, late>>
hcVars == <<hc, fails, hookRan>>
gsVars == <<gs, statFails>>
commandVars == <<osVars, runVars, hcVars, gsVars>>

RunPc == {"new", "acquire", "lockWait", "start", "started", "register", "wait",
          "exited", "ifShutdown", "recheck", "recheckKilled", "clearKill",
          "backoff", "decide", "unwind", "done"}
HcPc == {"none", "begin", "onlyHook", "delay", "loop", "probing", "hook",
         "condemn", "cancel", "kill", "remove", "sleep", "end"}
GsPc == {"none", "loop", "over", "kill", "end"}

CommandTypeOK ==
  /\ alive \in SUBSET Pids
  /\ termed \in SUBSET Pids
  /\ run \in [Commands -> RunPc]
  /\ starts \in [Commands -> 0..MaxStarts]
  /\ frames \in [Commands -> 0..MaxStarts + 1]
  /\ late \in SUBSET Pids
  /\ hc \in [Pids -> HcPc]
  /\ fails \in [Pids -> 0..FailureThreshold]
  /\ hookRan \in SUBSET Pids
  /\ gs \in [Pids -> GsPc]
  /\ statFails \in [Pids -> 0..GetStatsFailureThreshold]

CommandInit ==
  /\ alive = {}
  /\ termed = {}
  /\ run = [c \in Commands |-> "new"]
  /\ starts = [c \in Commands |-> 0]
  /\ frames = [c \in Commands |-> 0]
  /\ late = {}
  /\ hc = [p \in Pids |-> "none"]
  /\ fails = [p \in Pids |-> 0]
  /\ hookRan = {}
  /\ gs = [p \in Pids |-> "none"]
  /\ statFails = [p \in Pids |-> 0]

\* The process Run is busy with.
Current(c) == <<c, starts[c]>>

\* Bound: the last process a command may start is never failed by its
\* environment, unless a shutdown makes sure it is not started again.
MayFail(p) == p[2] < MaxStarts \/ shutdown
-----------------------------------------------------------------------------
(* The operating system. *)

Kill(p) == alive' = alive \ {p} /\ UNCHANGED termed

\* The process ends by itself, of its own accord or obeying a SIGTERM.
ProcessExit(p) ==
  /\ p \in alive
  /\ MayFail(p)
  /\ Kill(p)
  /\ UNCHANGED <<stateVars, runVars, hcVars, gsVars>>

\* exec.CommandContext kills the process once the root context is done.
ContextKill(p) ==
  /\ p \in alive
  /\ ctxDone
  /\ Kill(p)
  /\ UNCHANGED <<stateVars, runVars, hcVars, gsVars>>
-----------------------------------------------------------------------------
(* Run. *)

GoTo(c, from, to) == run[c] = from /\ run' = [run EXCEPT ![c] = to]

\* AcquireSharedLock of a command without a lock returns at once.
NoSharedLock(c) ==
  /\ c \notin Locked
  /\ GoTo(c, "acquire", "start")
  /\ UNCHANGED <<stateVars, osVars, starts, frames, late, hcVars, gsVars>>

AcquireSharedLock(c) ==
  /\ c \in Locked
  /\ GoTo(c, "acquire", "lockWait")
  /\ RemoveState(c)
  /\ UNCHANGED <<fileVars, ctxVars, mainVars, osVars, starts, frames, late, hcVars, gsVars>>

\* The lock server granted a lease; until then the loop sleeps and asks again.
LeaseGranted(c) ==
  /\ ~ctxDone
  /\ GoTo(c, "lockWait", "start")
  /\ UNCHANGED <<stateVars, osVars, starts, frames, late, hcVars, gsVars>>

\* The wait for the lock gives up without a lease.
LockWaitCancelled(c) ==
  /\ ctxDone
  /\ GoTo(c, "lockWait", "start")
  /\ UNCHANGED <<stateVars, osVars, starts, frames, late, hcVars, gsVars>>

\* cmd.Start of the next process.  It refuses a context that is done.
Start(c) ==
  /\ ~ctxDone
  /\ starts[c] < MaxStarts
  /\ GoTo(c, "start", "started")
  /\ starts' = [starts EXCEPT ![c] = @ + 1]
  /\ alive' = alive \cup {<<c, starts[c] + 1>>}
  /\ late' = IF shutdown THEN late \cup {<<c, starts[c] + 1>>} ELSE late
  /\ UNCHANGED <<stateVars, termed, frames, hcVars, gsVars>>

\* The wrapper ends: MergeEnvs cannot open the EnvsFile, before the lock is asked
\* for, or cmd.Start fails, which it always does when the context is done.
StartFails(c) ==
  /\ run[c] \in {"acquire", "start"}
  /\ exit' = "fatal"
  /\ UNCHANGED <<mapVars, fileVars, ctxVars, wg, commandVars>>

RunSetPid(c) ==
  /\ GoTo(c, "started", "register")
  /\ SetPid(c, starts[c])
  /\ UNCHANGED <<fileVars, ctxVars, mainVars, osVars, starts, frames, late, hcVars, gsVars>>

\* SetCancelRoutine, then the goroutines of the new process.  GetStats matters
\* only to a command with a memory limit.
RunRegister(c) ==
  /\ GoTo(c, "register", "wait")
  /\ SetCancelRoutine(c, starts[c])
  /\ hc' = [hc EXCEPT ![Current(c)] = "begin"]
  /\ gs' = [gs EXCEPT ![Current(c)] = IF c \in Limited THEN "loop" ELSE "none"]
  /\ UNCHANGED <<fileVars, ctxVars, mainVars, osVars, starts, frames, late, fails, hookRan, statFails>>

\* Mutant of RunReap: Run does not wait for the process.
RunReapNoWait(c) ==
  /\ GoTo(c, "wait", "exited")
  /\ UNCHANGED <<stateVars, osVars, starts, frames, late, hcVars, gsVars>>

\* cmd.Wait returns.
RunReap(c) ==
  /\ Current(c) \notin alive
  /\ GoTo(c, "wait", "exited")
  /\ UNCHANGED <<stateVars, osVars, starts, frames, late, hcVars, gsVars>>

\* "if !IsKilled && IsShutdown": two separate reads.
RunIsKilled(c) ==
  /\ GoTo(c, "exited", IF IsKilled(c) THEN "recheck" ELSE "ifShutdown")
  /\ UNCHANGED <<stateVars, osVars, starts, frames, late, hcVars, gsVars>>

RunCompletes(c) ==
  /\ IsShutdown
  /\ GoTo(c, "ifShutdown", "unwind")
  /\ CancelRoutinesOf({Current(c)})
  /\ UNCHANGED <<mapVars, fileVars, mainVars, osVars, starts, frames, late, hcVars, gsVars>>

RunNotShutdown(c) ==
  /\ ~IsShutdown
  /\ GoTo(c, "ifShutdown", "recheck")
  /\ UNCHANGED <<stateVars, osVars, starts, frames, late, hcVars, gsVars>>

\* Mutant of RunRecheck: the left half of the condition is missing.
RunRecheckOnlyKilled(c) ==
  /\ GoTo(c, "recheck", "recheckKilled")
  /\ UNCHANGED <<stateVars, osVars, starts, frames, late, hcVars, gsVars>>

\* "if !IsShutdown || IsKilled": read again, and again separately.
RunRecheck(c) ==
  /\ GoTo(c, "recheck", IF IsShutdown THEN "recheckKilled" ELSE "clearKill")
  /\ UNCHANGED <<stateVars, osVars, starts, frames, late, hcVars, gsVars>>

RunRecheckKilled(c) ==
  /\ GoTo(c, "recheckKilled", IF IsKilled(c) THEN "clearKill" ELSE "unwind")
  /\ UNCHANGED <<stateVars, osVars, starts, frames, late, hcVars, gsVars>>

RunClearKill(c) ==
  /\ GoTo(c, "clearKill", "backoff")
  /\ SetKillState(c, FALSE)
  /\ UNCHANGED <<fileVars, ctxVars, mainVars, osVars, starts, frames, late, hcVars, gsVars>>

\* Mutant of RunBackoff: cancelRoutines is not called.
RunBackoffNoCancel(c) ==
  /\ GoTo(c, "backoff", "decide")
  /\ UNCHANGED <<stateVars, osVars, starts, frames, late, hcVars, gsVars>>

\* After a second of sleep the goroutines of the dead process are cancelled.
RunBackoff(c) ==
  /\ GoTo(c, "backoff", "decide")
  /\ CancelRoutinesOf({Current(c)})
  /\ UNCHANGED <<mapVars, fileVars, mainVars, osVars, starts, frames, late, hcVars, gsVars>>

\* Mutants of RunRestart: the shutdown is not looked at; wg.Add is missing.
RunRestartAlways(c) ==
  /\ GoTo(c, "decide", "acquire")
  /\ frames' = [frames EXCEPT ![c] = @ + 1]
  /\ WgAdd
  /\ UNCHANGED <<mapVars, fileVars, ctxVars, osVars, starts, late, hcVars, gsVars>>

RunRestartUncounted(c) ==
  /\ ~IsShutdown
  /\ GoTo(c, "decide", "acquire")
  /\ frames' = [frames EXCEPT ![c] = @ + 1]
  /\ UNCHANGED <<stateVars, osVars, starts, late, hcVars, gsVars>>

\* wg.Add(1) and the nested Run: its deferred call runs before the wg.Done of
\* the frames below it.
RunRestart(c) ==
  /\ ~IsShutdown
  /\ GoTo(c, "decide", "acquire")
  /\ frames' = [frames EXCEPT ![c] = @ + 1]
  /\ WgAdd
  /\ UNCHANGED <<mapVars, fileVars, ctxVars, osVars, starts, late, hcVars, gsVars>>

\* Mutant of RunGivesUp: Run returns although there is no shutdown.
RunGivesUpAnyway(c) ==
  /\ GoTo(c, "decide", "unwind")
  /\ UNCHANGED <<stateVars, osVars, starts, frames, late, hcVars, gsVars>>

RunGivesUp(c) ==
  /\ IsShutdown
  /\ GoTo(c, "decide", "unwind")
  /\ UNCHANGED <<stateVars, osVars, starts, frames, late, hcVars, gsVars>>

\* The deferred wg.Done of one frame.
RunUnwind(c) ==
  /\ GoTo(c, "unwind", IF frames[c] = 1 THEN "done" ELSE "unwind")
  /\ frames' = [frames EXCEPT ![c] = @ - 1]
  /\ WgDone(1)
  /\ UNCHANGED <<mapVars, fileVars, ctxVars, osVars, starts, late, hcVars, gsVars>>

\* The steps the Run goroutine takes by itself, and the ones others may deny it.
RunStep(c) ==
  \/ NoSharedLock(c) \/ AcquireSharedLock(c) \/ LockWaitCancelled(c)
  \/ Start(c) \/ (ctxDone /\ StartFails(c))
  \/ RunSetPid(c) \/ RunRegister(c) \/ RunReap(c)
  \/ RunIsKilled(c) \/ RunCompletes(c) \/ RunNotShutdown(c)
  \/ RunRecheck(c) \/ RunRecheckKilled(c) \/ RunClearKill(c)
  \/ RunBackoff(c) \/ RunRestart(c) \/ RunGivesUp(c) \/ RunUnwind(c)

Run(c) == RunStep(c) \/ LeaseGranted(c) \/ StartFails(c)
=============================================================================
