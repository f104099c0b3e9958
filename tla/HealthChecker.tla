--------------------------- MODULE HealthChecker ---------------------------
(***************************************************************************)
(* The two goroutines that watch one process p = <<c, k>>: HealthChecker   *)
(* with its ProbeRunner loop and postStart hook (pkg/process/process.go),  *)
(* and GetStats with its memory limit (pkg/process/process_stats.go).      *)
(*                                                                         *)
(* Both kill p by the pid they were started with and mark the command's    *)
(* name as killed first, so that Run starts it again.                      *)
(***************************************************************************)
EXTENDS CommandRunner

HcGoTo(p, from, to) == hc[p] = from /\ hc' = [hc EXCEPT ![p] = to]
GsGoTo(p, from, to) == gs[p] = from /\ gs' = [gs EXCEPT ![p] = to]

Name(p) == p[1]
Verdict(ok) == IF ok THEN "healthy" ELSE "unhealthy"
-----------------------------------------------------------------------------
(* HealthChecker and ProbeRunner. *)

\* Without a readiness section only the hook runs.
CheckerNoReadiness(p) ==
  /\ Name(p) \notin Probed \cup EmptyReadiness
  /\ HcGoTo(p, "begin", "onlyHook")
  /\ UNCHANGED <<stateVars, osVars, runVars, fails, hookRan, gsVars>>

\* Otherwise the name is unhealthy until the first round.
CheckerBegin(p) ==
  /\ Name(p) \in Probed \cup EmptyReadiness
  /\ HcGoTo(p, "begin", "delay")
  /\ SetState(Name(p), "unhealthy")
  /\ UNCHANGED <<fileVars, ctxVars, mainVars, osVars, runVars, fails, hookRan, gsVars>>

\* The readiness delay, or the period between two rounds, has passed.
CheckerWakes(p) ==
  /\ HcGoTo(p, "delay", "loop") \/ HcGoTo(p, "sleep", "loop")
  /\ UNCHANGED <<stateVars, osVars, runVars, fails, hookRan, gsVars>>

\* The head of the loop: a cancelled context or a shutdown ends the routine.
\* Both flags only ever become true, so reading them together loses nothing.
ProbeStops(p) ==
  /\ p \in cancelled \/ IsShutdown
  /\ HcGoTo(p, "loop", "end")
  /\ UNCHANGED <<stateVars, osVars, runVars, fails, hookRan, gsVars>>

ProbeRound(p) ==
  /\ p \notin cancelled /\ ~IsShutdown
  /\ HcGoTo(p, "loop", IF Name(p) \in Probed THEN "probing" ELSE "onlyHook")
  /\ UNCHANGED <<stateVars, osVars, runVars, fails, hookRan, gsVars>>

\* PostStartHookRunner of a command without probes; a missing hook succeeds.
OnlyHookDone(p, ok) ==
  /\ Name(p) \in Hooked \/ ok
  /\ HcGoTo(p, "onlyHook", "end")
  /\ SetState(Name(p), Verdict(ok))
  /\ UNCHANGED <<fileVars, ctxVars, mainVars, osVars, runVars, fails, hookRan, gsVars>>

\* Mutant of ProbesFail: the threshold has to be exceeded.
ProbesFailOffByOne(p, n) ==
  /\ SetState(Name(p), "unhealthy")
  /\ \/ /\ fails[p] + n <= FailureThreshold
        /\ HcGoTo(p, "probing", "sleep")
        /\ fails' = [fails EXCEPT ![p] = @ + n]
     \/ /\ fails[p] + n > FailureThreshold /\ MayFail(p)
        /\ HcGoTo(p, "probing", "condemn")
        /\ fails' = [fails EXCEPT ![p] = FailureThreshold + 1]
  /\ UNCHANGED <<fileVars, ctxVars, mainVars, osVars, runVars, hookRan, gsVars>>

\* A round came back with n failed probes: the name is unhealthy and every
\* failed probe counts; at the threshold the process is condemned.
ProbesFail(p, n) ==
  /\ SetState(Name(p), "unhealthy")
  /\ \/ /\ fails[p] + n < FailureThreshold
        /\ HcGoTo(p, "probing", "sleep")
        /\ fails' = [fails EXCEPT ![p] = @ + n]
     \/ /\ fails[p] + n >= FailureThreshold /\ MayFail(p)
        /\ HcGoTo(p, "probing", "condemn")
        /\ fails' = [fails EXCEPT ![p] = FailureThreshold]
  /\ UNCHANGED <<fileVars, ctxVars, mainVars, osVars, runVars, hookRan, gsVars>>

\* Every probe succeeded and there is no hook: healthy, and the counter restarts.
ProbesPass(p) ==
  /\ Name(p) \notin Hooked
  /\ HcGoTo(p, "probing", "sleep")
  /\ SetState(Name(p), "healthy")
  /\ fails' = [fails EXCEPT ![p] = 0]
  /\ UNCHANGED <<fileVars, ctxVars, mainVars, osVars, runVars, hookRan, gsVars>>

\* Every probe succeeded for the first time: the hook runs.
ProbesPassHook(p) ==
  /\ Name(p) \in Hooked /\ p \notin hookRan
  /\ HcGoTo(p, "probing", "hook")
  /\ UNCHANGED <<stateVars, osVars, runVars, fails, hookRan, gsVars>>

\* Every probe succeeded after the hook has run: neither the status nor the
\* counter is touched.
ProbesPassAfterHook(p) ==
  /\ Name(p) \in Hooked /\ p \in hookRan
  /\ HcGoTo(p, "probing", "sleep")
  /\ UNCHANGED <<stateVars, osVars, runVars, fails, hookRan, gsVars>>

HookSucceeds(p) ==
  /\ HcGoTo(p, "hook", "sleep")
  /\ SetState(Name(p), "healthy")
  /\ fails' = [fails EXCEPT ![p] = 0]
  /\ hookRan' = hookRan \cup {p}
  /\ UNCHANGED <<fileVars, ctxVars, mainVars, osVars, runVars, gsVars>>

\* The hook failed, missed its deadline, or its context (a child of the
\* routines' context) was cancelled: the process is condemned.
HookFails(p) ==
  /\ MayFail(p) \/ p \in cancelled
  /\ HcGoTo(p, "hook", "condemn")
  /\ SetState(Name(p), "unhealthy")
  /\ hookRan' = hookRan \cup {p}
  /\ UNCHANGED <<fileVars, ctxVars, mainVars, osVars, runVars, fails, gsVars>>

CondemnKilled(p) ==
  /\ HcGoTo(p, "condemn", "cancel")
  /\ SetKillState(Name(p), TRUE)
  /\ UNCHANGED <<fileVars, ctxVars, mainVars, osVars, runVars, fails, hookRan, gsVars>>

CondemnCancel(p) ==
  /\ HcGoTo(p, "cancel", "kill")
  /\ CancelRoutinesOf({p})
  /\ UNCHANGED <<mapVars, fileVars, mainVars, osVars, runVars, fails, hookRan, gsVars>>

\* Mutant of CondemnKill: SIGKILL is only sent while the routines are not cancelled.
CondemnKillUncancelled(p) ==
  /\ HcGoTo(p, "kill", "end")
  /\ IF p \in cancelled THEN UNCHANGED osVars ELSE Kill(p)
  /\ UNCHANGED <<stateVars, runVars, fails, hookRan, gsVars>>

\* SIGKILL, two seconds later when probes condemned the process and at once
\* when its hook did.  Only the probes' path drops a lock holder's status; it
\* is the one that left the counter at the threshold.
CondemnKill(p) ==
  /\ HcGoTo(p, "kill", IF Name(p) \in Locked /\ fails[p] = FailureThreshold
                       THEN "remove" ELSE "end")
  /\ Kill(p)
  /\ UNCHANGED <<stateVars, runVars, fails, hookRan, gsVars>>

CondemnRemove(p) ==
  /\ HcGoTo(p, "remove", "end")
  /\ RemoveState(Name(p))
  /\ UNCHANGED <<fileVars, ctxVars, mainVars, osVars, runVars, fails, hookRan, gsVars>>

\* What the routine does by itself; how a round of probes or a hook comes out,
\* and whether it does, is up to the endpoints asked.
CheckerStep(p) ==
  \/ CheckerNoReadiness(p) \/ CheckerBegin(p) \/ CheckerWakes(p)
  \/ ProbeStops(p) \/ ProbeRound(p)
  \/ CondemnKilled(p) \/ CondemnCancel(p) \/ CondemnKill(p) \/ CondemnRemove(p)

HookOutcome(p) ==
  HookSucceeds(p) \/ HookFails(p) \/ \E ok \in BOOLEAN : OnlyHookDone(p, ok)

ProbeOutcome(p) ==
  \/ \E n \in 1..NumProbes : ProbesFail(p, n)
  \/ ProbesPass(p) \/ ProbesPassHook(p) \/ ProbesPassAfterHook(p)

Checker(p) == CheckerStep(p) \/ HookOutcome(p) \/ ProbeOutcome(p)
-----------------------------------------------------------------------------
(* GetStats. *)

StatsStop(p) ==
  /\ p \in cancelled
  /\ GsGoTo(p, "loop", "end")
  /\ UNCHANGED <<stateVars, osVars, runVars, hcVars, statFails>>

\* /proc could not be read: retry, and give up at the third failure in a row.
StatsFail(p) ==
  /\ p \notin cancelled
  /\ GsGoTo(p, "loop", IF statFails[p] + 1 >= GetStatsFailureThreshold THEN "end" ELSE "loop")
  /\ statFails' = [statFails EXCEPT ![p] = @ + 1]
  /\ UNCHANGED <<stateVars, osVars, runVars, hcVars>>

\* /proc has an entry for p until cmd.Wait has reaped it.
InProc(p) == p = Current(Name(p)) /\ run[Name(p)] \in {"started", "register", "wait"}

StatsWithinLimit(p) ==
  /\ p \notin cancelled
  /\ InProc(p)
  /\ GsGoTo(p, "loop", "loop")
  /\ statFails' = [statFails EXCEPT ![p] = 0]
  /\ UNCHANGED <<stateVars, osVars, runVars, hcVars>>

\* The process was measured above its memory limit.
StatsOverLimit(p) ==
  /\ p \notin cancelled
  /\ p \in alive
  /\ MayFail(p)
  /\ GsGoTo(p, "loop", "over")
  /\ statFails' = [statFails EXCEPT ![p] = 0]
  /\ UNCHANGED <<stateVars, osVars, runVars, hcVars>>

StatsSetKilled(p) ==
  /\ GsGoTo(p, "over", "kill")
  /\ SetKillState(Name(p), TRUE)
  /\ UNCHANGED <<fileVars, ctxVars, mainVars, osVars, runVars, hcVars, statFails>>

StatsKill(p) ==
  /\ GsGoTo(p, "kill", "loop")
  /\ Kill(p)
  /\ UNCHANGED <<stateVars, runVars, hcVars, statFails>>

\* What the worker does whatever it measures.
StatsStep(p) ==
  StatsStop(p) \/ (~InProc(p) /\ StatsFail(p)) \/ StatsSetKilled(p) \/ StatsKill(p)

GetStats(p) == StatsStep(p) \/ StatsFail(p) \/ StatsWithinLimit(p) \/ StatsOverLimit(p)
=============================================================================
