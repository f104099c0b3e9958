------------------------- MODULE WrapperProperties -------------------------
(***************************************************************************)
(* What the wrapper guarantees, and what its documentation claims.         *)
(***************************************************************************)
EXTENDS ProcessWrapper, Integers, FiniteSets

ASSUME CommandsFinite == IsFiniteSet(Commands)

-----------------------------------------------------------------------------
(* Safety. *)

\* A command never has two processes, and has one only while its Run goroutine
\* looks after it: not while it waits for the shared lock, backs off, or has
\* returned (process.go, Run: cmd.Start to cmd.Wait).
OneProcess ==
  \A p \in alive :
    p = Current(Name(p)) /\ run[Name(p)] \in {"started", "register", "wait"}

\* A health checker begins a round of probes, or runs the hook of a command
\* without probes, only for the process its command currently has: the
\* checkers of earlier processes have been cancelled by then (process.go, Run
\* cancels the routines before it recurses; ProbeRunner looks before a round).
NoStaleRound ==
  [][\A p \in Pids :
       hc[p] = "loop" /\ hc'[p] # "loop" /\ hc'[p] # "end"
         => p = Current(Name(p))]_vars

\* During a shutdown a command gets at most one more process: Run looks at
\* Shutdown before each restart, so only a start that was already past that
\* look can slip through (process.go:427).
LateStartOnce ==
  \A p, q \in late : Name(p) = Name(q) => p = q

\* A Run goroutine returns only once a shutdown has begun, whichever way the
\* four separate reads of the killed and shutdown flags interleave with the
\* goroutines that set them (process.go:413-433).
NeverAbandoned ==
  \A c \in Commands : run[c] \in {"unwind", "done"} => shutdown

\* The calls of Run that have yet to execute their wg.Done.
Pending == {t \in Commands \X (1..MaxStarts + 1) : t[2] <= frames[t[1]]}

Unit(condition) == IF condition THEN 1 ELSE 0

\* What main's WaitGroup should stand at: the calls of Run that are pending and
\* the unit of NewSchedule until it is given back, less the unit main owes while
\* it has not reached wg.Add(1).
Count == Cardinality(Pending) + Unit(sched = "launch") - Unit(mainPc = "add")

\* The WaitGroup stands at Count, and nothing but a Count below zero makes it
\* panic: NewSchedule is launched before main adds the unit that NewSchedule gives
\* back, so the wrapper panics if every command has returned before main gets to
\* wg.Add(1), and in no other case, however restarts interleave (main.go:256-258).
WaitGroupCounts ==
  IF Count < 0 THEN exit = "panic" ELSE exit # "panic" /\ wg = Count

\* "All commands are completed" is true when it is logged: no command's
\* goroutine is left and no process runs (main.go:258-259).
CompletedMeansAllDone ==
  exit = "completed" =>
    /\ alive = {}
    /\ \A c \in Commands : run[c] = "done" /\ frames[c] = 0

\* The wrapper implements Supervision.
Phase(c) ==
  IF run[c] \in {"unwind", "done"} THEN "retired"
  ELSE IF Current(c) \in alive THEN "up" ELSE "down"

Abstract == INSTANCE Supervision WITH
  phase <- [c \in Commands |-> Phase(c)],
  stopping <- shutdown,
  spare <- {c \in Commands : \A p \in late : Name(p) # c},
  outcome <- exit

Supervises == Abstract!Spec
-----------------------------------------------------------------------------
(* Liveness. *)

\* A shutdown, and a cancelled root context, end the wrapper, whatever the
\* processes, hooks, probes and further signals do in the meantime.
ShutdownTerminates == shutdown \/ ctxDone ~> exit # "up"

\* What may keep a command from getting its next process.
Excused(c) == shutdown \/ ctxDone \/ exit # "up" \/ run[c] = "lockWait"

\* A process that its probes, its hook or its memory limit condemned, or that
\* ended by itself, is replaced by the next process of its command.
CondemnedIsReplaced ==
  \A p \in Pids :
    \/ hc[p] = "condemn" \/ gs[p] = "over"
    \/ p = Current(Name(p)) /\ run[Name(p)] = "wait" /\ p \notin alive
    ~> starts[Name(p)] > p[2] \/ Excused(Name(p))

\* The goroutines that watched a process that was replaced end for good; only
\* a probe or a hook that never returns can keep one.
OldRoutinesEnd ==
  \A p \in Pids :
    starts[Name(p)] > p[2] ~>
      [](/\ hc[p] \in {"none", "end", "probing", "hook", "onlyHook"} \/ exit # "up"
         /\ gs[p] \in {"none", "end"} \/ exit # "up")
-----------------------------------------------------------------------------
(* Claims of the documentation that the code does not keep. *)

\* README.md:17: "process-wrapper creates file /tmp/started [...] and removes it
\* after shutdown".
FileRemovedAfterShutdown == exit = "completed" => ~readinessFile

\* README.md:42: the graceful shutdown deadline is the "time between
\* SIGTERM/SIGQUIT and SIGKILL": what the deadline kills was asked to stop.
TermBeforeKill ==
  [][notify = "killer" /\ ~ctxDone /\ ctxDone' => alive \subseteq termed]_vars

\* process.go:610: "If all health checks are successfully done, execute
\* postStart hook and set state to healthy".  A round without a failed probe
\* is one that does not raise the failure counter.
PassedRoundIsHealthy ==
  [][\A p \in Pids :
       hc[p] = "probing" /\ hc'[p] = "sleep" /\ fails'[p] <= fails[p]
         => statusMap'[Name(p)] = "healthy"]_vars

\* process.go:490: "Set default readiness state to false before first health run".
UnhealthyBeforeFirstRound ==
  \A c \in Commands :
    starts[c] > 0 /\ hc[Current(c)] = "delay" => statusMap[c] # "healthy"
=============================================================================
