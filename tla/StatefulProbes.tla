--------------------------- MODULE StatefulProbes ---------------------------
(***************************************************************************)
(* The probes that judge by what is remembered from round to round, and    *)
(* from process to process: floatingPid by the times of the last starts,   *)
(* heartBeat by the time of the last beat, amqp by the connection it keeps;*)
(* and exec, whose command can outlive the process it was to judge.        *)
(* One command, its Run and its ProbeRunner with their delays and the      *)
(* postStart hook, and the process, which may crash, hang or beat.         *)
(*                                                                         *)
(* Time is counted in seconds; a moment is recorded as its age.  Rounds    *)
(* take no time but for the exec probe and the hook.  The                  *)
(* checker of a crashed process lives until Run cancels it before the      *)
(* restart; it has neither the counter nor the pid of its successor, and   *)
(* all that is followed of it is a round that falls into Run's pause.      *)
(***************************************************************************)
EXTENDS Integers, Sequences, FiniteSets

CONSTANTS
  Delay, Period, FailureThreshold,   \* of the readiness section
  FloatingPeriod, Threshold,         \* of the floatingPid probe, defaults filled in
  FloatingPidHistory,                \* starts that are remembered, 10 in the code
  HeartPeriod,                       \* of the heartBeat probe
  BeatEvery,                         \* a steady process beats at least this often
  MaxStall,                          \* how long a request with a beat may take
  ExecProbeTimeout,                  \* of the exec probe, 30 in the code
  HookDeadline,                      \* of the postStart hook, by default 30
  MaxCrashes                         \* bound: how often the process crashes or its hook fails

KillDelay == 2   \* ProbeRunner sleeps between cancelRoutines and SIGKILL
Backoff == 1     \* Run sleeps before it starts the command again

ASSUME ProbesAssumption ==
  /\ {Delay, Period, FailureThreshold, ExecProbeTimeout} \subseteq Nat \ {0}
  /\ {FloatingPeriod, Threshold, FloatingPidHistory} \subseteq Nat \ {0}
  /\ {HeartPeriod, BeatEvery, MaxStall, HookDeadline, MaxCrashes} \subseteq Nat

VARIABLES
  probe,     \* which of the probes the command has
  steady,    \* does the process beat every BeatEvery seconds?
  pc,        \* the process runs, also while an exec probe asks, is condemned, or gone;
             \* or the wrapper has panicked
  old,       \* seconds to a round of the crashed process's checker in Run's pause
  timer,     \* seconds to the next round, to the probe's timeout, to SIGKILL, to the restart
  fails,     \* ProbeRunner's failureThreshold counter
  hook,      \* there is no PostStart, or hookExecuted is false or true
  history,   \* State.floatingPid: ages of the last starts, followed up to FloatingPeriod
  recent,    \* history: the ages below FloatingPeriod of all starts
  beat,      \* State.heartBeat: age of the recorded beat; Never or older look alike
  inflight,  \* ages of the beats whose handlers have yet to record them
  silence,   \* history: seconds the process has been running without a beat
  crashes,   \* history: crashes and failures of the hook so far
  reuse,     \* AMQPProbe.ReuseConn
  dsn,       \* are the variables set that AMQPProbe.DSN is made of?
  broker,    \* does the broker accept connections?
  amqp,      \* AMQPProbe.connection
  calm,      \* history: a round has gone by since something happened to broker or connection
  execs      \* ages of the commands that exec probes have started and that still run

loopVars == <<probe, steady, pc, timer, old, fails, hook>>
startVars == <<history, recent>>
beatVars == <<beat, inflight, silence>>
amqpVars == <<reuse, dsn, broker, amqp, calm>>
probeVars == <<loopVars, startVars, beatVars, crashes, amqpVars, execs>>

Kinds == {"floatingPid", "heartBeat", "amqp", "exec"}

Never == HeartPeriod + 1
NoRound == Backoff + 1
Running == pc \in {"run", "probing", "condemned"}
Larger(m, n) == IF m > n THEN m ELSE n
Capped(t, cap) == IF t < cap THEN t + 1 ELSE cap

\* The age at which the last round before a condemnation finds the process.
LastRound == Delay + (FailureThreshold - 1) * Period

\* The time from start to start when every round fails.
KillCycle == LastRound + KillDelay + Backoff

\* How long the hook keeps ProbeRunner from its next round.
HookTime == IF hook = "none" THEN 0 ELSE HookDeadline

\* The longest silence of a running process: up to the first round that finds
\* the beat too old, then the rounds to the threshold, then the kill delay.
HungBound ==
  Larger(Delay, HeartPeriod + HookTime + Period) + (FailureThreshold - 1) * Period + KillDelay

ProbesTypeOK ==
  /\ probe \in Kinds /\ steady \in BOOLEAN
  /\ pc \in {"run", "probing", "condemned", "backoff", "panic"}
  /\ timer \in 0..Delay \cup 0..Period + HookDeadline \cup 0..KillDelay \cup 0..ExecProbeTimeout
  /\ old \in 0..NoRound
  /\ fails \in 0..FailureThreshold /\ hook \in {"none", "pending", "executed"}
  /\ history \in Seq(0..FloatingPeriod) /\ Len(history) <= FloatingPidHistory
  /\ recent \in SUBSET (0..FloatingPeriod - 1)
  /\ beat \in 0..Never
  /\ inflight \in SUBSET (0..MaxStall)
  /\ silence \in 0..HungBound + 1
  /\ crashes \in 0..MaxCrashes
  /\ {reuse, dsn, broker, calm} \subseteq BOOLEAN
  /\ amqp \in {"nil", "open", "closed"}
  /\ execs \in SUBSET (0..ExecProbeTimeout)

ProbesInit ==
  /\ probe \in Kinds
  /\ steady \in BOOLEAN
  /\ pc = "backoff" /\ timer = 0 /\ old = NoRound
  /\ fails = 0 /\ hook \in {"none", "pending"}
  /\ history = <<>> /\ recent = {}
  /\ beat = Never /\ inflight = {} /\ silence = 0
  /\ crashes = 0
  /\ reuse \in {probe = "amqp", FALSE} /\ dsn \in {probe # "amqp", TRUE}
  /\ broker = FALSE /\ amqp = "nil" /\ calm = FALSE
  /\ execs = {}
-----------------------------------------------------------------------------
(* Run: the starts of the process and its end. *)

\* Mutant of Remember: the slice keeps its first entries.
RememberFirst(s) ==
  IF Len(s) >= FloatingPidHistory THEN s ELSE Append(s, 0)

\* SetPid: the start is appended, and the slice cut to its last entries.
Remember(s) ==
  IF Len(s) < FloatingPidHistory
  THEN Append(s, 0)
  ELSE Append(SubSeq(s, Len(s) - FloatingPidHistory + 2, Len(s)), 0)

\* The old checker is cancelled; cmd.Start, SetPid and a new checker, whose
\* counter is 0 and which has not run the hook.  The starts are followed for the
\* probe that looks at them.
Restart ==
  /\ pc = "backoff" /\ timer = 0
  /\ pc' = "run" /\ timer' = Delay /\ old' = NoRound
  /\ fails' = 0
  /\ hook' = IF hook = "none" THEN "none" ELSE "pending"
  /\ silence' = 0
  /\ IF probe = "floatingPid"
     THEN history' = Remember(history) /\ recent' = recent \cup {0}
     ELSE UNCHANGED startVars
  /\ UNCHANGED <<probe, steady, beat, inflight, crashes, amqpVars, execs>>

\* The process is gone: Run sleeps and starts the command again.
Gone ==
  /\ pc' = "backoff" /\ timer' = Backoff
  /\ silence' = 0
  /\ UNCHANGED <<probe, steady, fails, hook, startVars, beat, inflight, amqpVars, execs>>

Crash ==
  /\ Running
  /\ crashes < MaxCrashes
  /\ crashes' = crashes + 1
  /\ old' = IF pc = "run" /\ timer <= Backoff /\ probe \in {"amqp", "exec"} THEN timer ELSE NoRound
  /\ Gone

\* SIGKILL, two seconds after the probes have condemned the process, or as soon as
\* its hook has failed.
Kill ==
  /\ pc = "condemned" /\ timer = 0
  /\ Gone
  /\ UNCHANGED <<old, crashes>>
-----------------------------------------------------------------------------
(* The probes, and the rounds of ProbeRunner. *)

NumOfRestarts == Cardinality({i \in DOMAIN history : history[i] < FloatingPeriod})

\* FloatingPid.Run
FloatingPidRun == NumOfRestarts <= Threshold

\* Mutant of HeartBeatRun: a beat of exactly the period is too old.
HeartBeatRunStrict == beat < HeartPeriod

\* HeartBeat.Run
HeartBeatRun == beat <= HeartPeriod

\* AMQPProbe.Run: an open connection passes, a closed one fails and leaves
\* forgotten, and without one the broker is dialled.  amqp.Dial may return a
\* connection along with its error, when the handshake fails.  A connection that
\* is not to be kept is closed; when that fails it stays.
AmqpRound(ok, forgotten) ==
  /\ \/ amqp = "open" /\ ok /\ UNCHANGED amqp
     \/ amqp = "closed" /\ ~ok /\ amqp' = forgotten
     \/ amqp = "nil" /\ dsn /\ broker /\ ok /\ amqp' = IF reuse THEN "open" ELSE "nil"
     \/ amqp = "nil" /\ dsn /\ ~broker /\ ~ok /\ amqp' \in {"nil", "open", "closed"}
  /\ calm' = TRUE
  /\ UNCHANGED <<reuse, dsn, broker>>

\* Mutant of AmqpRun: a closed connection is not forgotten.
AmqpRunKeeps(ok) == AmqpRound(ok, "closed")

AmqpRun(ok) == AmqpRound(ok, "nil")

AmqpCloseFails ==
  /\ amqp = "nil" /\ dsn /\ broker /\ ~reuse
  /\ amqp' = "closed"
  /\ calm' = FALSE
  /\ UNCHANGED <<reuse, dsn, broker>>

\* DSN, when a variable is missing: it reports that to p.logger, which nobody sets,
\* and the nil pointer panics.  Run's "return false" is not reached.
AmqpPanics ==
  /\ probe = "amqp" /\ amqp = "nil" /\ ~dsn
  /\ (pc = "run" /\ timer = 0) \/ (pc = "backoff" /\ old = 0)
  /\ pc' = "panic"
  /\ UNCHANGED <<probe, steady, timer, old, fails, hook, startVars, beatVars, crashes>>
  /\ UNCHANGED <<amqpVars, execs>>

\* ExecProbe.Run starts the command in a goroutine and waits for the exit code or
\* for its ticker.
ExecBegin ==
  /\ probe = "exec"
  /\ pc = "run" /\ timer = 0
  /\ pc' = "probing" /\ timer' = ExecProbeTimeout
  /\ execs' = execs \cup {0}
  /\ UNCHANGED <<probe, steady, old, fails, hook, startVars, beatVars, crashes, amqpVars>>

\* The round's command ends, by itself or killed by its context, and its exit
\* code arrives, which may be any.
ExecExits ==
  /\ ExecProbeTimeout - timer \in execs
  /\ execs' = execs \ {ExecProbeTimeout - timer}

\* Or the ticker fires first; the channel has room for the exit code that comes later.
ExecTicker == timer = 0 /\ UNCHANGED execs

\* A command whose probe is gone ends: by itself, or when its context kills it.
ExecEnds(t) ==
  /\ t \in execs
  /\ ~(pc = "probing" /\ t = ExecProbeTimeout - timer)
  /\ execs' = execs \ {t}
  /\ UNCHANGED <<loopVars, startVars, beatVars, crashes, amqpVars>>

\* The verdict of the command's probe.
ProbeRun(ok) ==
  \/ /\ pc = "run" /\ timer = 0
     /\ \/ probe = "floatingPid" /\ (FloatingPidRun <=> ok) /\ UNCHANGED amqpVars
        \/ probe = "heartBeat" /\ (HeartBeatRun <=> ok) /\ UNCHANGED amqpVars
        \/ probe = "amqp" /\ (AmqpRun(ok) \/ (~ok /\ AmqpCloseFails))
     /\ UNCHANGED execs
  \/ /\ pc = "probing"
     /\ ExecExits \/ (~ok /\ ExecTicker)
     /\ UNCHANGED amqpVars

\* A round passes, and no hook has to run: the counter restarts if there is none,
\* and is left as it is if it has run.
RoundPasses ==
  /\ ProbeRun(TRUE)
  /\ hook # "pending"
  /\ fails' = IF hook = "none" THEN 0 ELSE fails
  /\ pc' = "run" /\ timer' = Period
  /\ UNCHANGED <<probe, steady, old, hook, startVars, beatVars, crashes>>

\* The first round that passes runs the hook, which takes t seconds and succeeds.
HookSucceeds(t) ==
  /\ ProbeRun(TRUE)
  /\ hook = "pending" /\ hook' = "executed"
  /\ fails' = 0
  /\ pc' = "run" /\ timer' = t + Period
  /\ UNCHANGED <<probe, steady, old, startVars, beatVars, crashes>>

\* Or fails after t seconds, and the process is killed without a grace period.
HookFails(t) ==
  /\ ProbeRun(TRUE)
  /\ hook = "pending" /\ hook' = "executed"
  /\ crashes < MaxCrashes /\ crashes' = crashes + 1
  /\ pc' = "condemned" /\ timer' = t
  /\ UNCHANGED <<probe, steady, old, fails, startVars, beatVars>>

\* A round fails: at the threshold the process is condemned, to be killed after a
\* grace period.
FailedRound(threshold, grace) ==
  /\ ProbeRun(FALSE)
  /\ fails' = fails + 1
  /\ IF fails + 1 >= threshold
     THEN pc' = "condemned" /\ timer' = grace
     ELSE pc' = "run" /\ timer' = Period
  /\ UNCHANGED <<probe, steady, old, hook, startVars, beatVars, crashes>>

\* Mutants of RoundFails: one failure too many; the process is killed at once.
RoundFailsOffByOne == FailedRound(FailureThreshold + 1, KillDelay)
RoundFailsNoPause == FailedRound(FailureThreshold, 0)

RoundFails == FailedRound(FailureThreshold, KillDelay)

\* Mutant of LateRound: the checkers of crashed processes are not cancelled.
LateRoundAlways ==
  /\ probe = "exec" /\ crashes > 0 /\ pc \in {"run", "backoff"}
  /\ old' = NoRound
  /\ execs' = execs \cup {0}
  /\ UNCHANGED <<probe, steady, pc, timer, fails, hook, startVars, beatVars, crashes, amqpVars>>

\* The checker of the crashed process begins a round before Run cancels it: its
\* verdict is of no consequence here, but not what its probe leaves behind.
LateRound ==
  /\ pc = "backoff" /\ old = 0
  /\ old' = NoRound
  /\ \/ probe = "exec" /\ execs' = execs \cup {0} /\ UNCHANGED amqpVars
     \/ probe = "amqp" /\ (AmqpCloseFails \/ \E ok \in BOOLEAN : AmqpRun(ok)) /\ UNCHANGED execs
  /\ UNCHANGED <<probe, steady, pc, timer, fails, hook, startVars, beatVars, crashes>>
-----------------------------------------------------------------------------
(* The beats. *)

\* The process sends PATCH /heartbeat; the handler takes the time.
SendBeat ==
  /\ probe = "heartBeat" /\ Running
  /\ 0 \notin inflight
  /\ inflight' = inflight \cup {0}
  /\ silence' = 0
  /\ UNCHANGED <<loopVars, startVars, beat, crashes, amqpVars, execs>>

\* SetHeartBeat writes a time, whichever beat was recorded before.
Record(t, time) ==
  /\ t \in inflight
  /\ beat' = IF time < Never THEN time ELSE Never
  /\ inflight' = inflight \ {t}
  /\ UNCHANGED <<loopVars, startVars, silence, crashes, amqpVars, execs>>

\* Mutant of SetHeartBeat: the time is taken when the beat is recorded.
SetHeartBeatNow(t) == Record(t, 0)

\* The time is that of the request.
SetHeartBeat(t) == Record(t, t)

\* The broker goes away or comes back, or a connection breaks.
Disturb ==
  /\ probe = "amqp"
  /\ broker' \in BOOLEAN
  /\ amqp' = IF amqp = "open" THEN "closed" ELSE amqp
  /\ calm' = FALSE
  /\ UNCHANGED <<loopVars, startVars, beatVars, crashes, reuse, dsn, execs>>

\* A second passes.  No sleep and no handler lasts longer than it does, and a
\* steady process is not late with its beat.
ProbesTick ==
  /\ timer > 0 /\ old > 0
  /\ MaxStall \notin inflight /\ ExecProbeTimeout \notin execs
  /\ ~(probe = "heartBeat" /\ steady /\ Running /\ silence >= BeatEvery)
  /\ timer' = timer - 1
  /\ old' = IF old = NoRound THEN NoRound ELSE old - 1
  /\ history' = [i \in DOMAIN history |-> Capped(history[i], FloatingPeriod)]
  /\ recent' = {t + 1 : t \in recent} \ {FloatingPeriod}
  /\ beat' = Capped(beat, Never)
  /\ inflight' = {t + 1 : t \in inflight}
  /\ execs' = {t + 1 : t \in execs}
  /\ silence' = IF probe = "heartBeat" /\ Running THEN Capped(silence, HungBound + 1) ELSE 0
  /\ UNCHANGED <<probe, steady, pc, fails, hook, crashes, amqpVars>>

Round ==
  \/ RoundPasses \/ RoundFails
  \/ \E t \in 0..HookDeadline : HookSucceeds(t) \/ HookFails(t)

RunStep == Restart \/ Kill \/ ExecBegin \/ Round \/ LateRound \/ AmqpPanics

ProbesNext ==
  \/ ProbesTick \/ RunStep \/ Crash \/ SendBeat \/ Disturb
  \/ \E t \in 0..MaxStall : SetHeartBeat(t)
  \/ \E t \in 0..ExecProbeTimeout : ExecEnds(t)

ProbesSpec == ProbesInit /\ [][ProbesNext]_probeVars

\* Sleeps end and time passes, whatever beats are sent in between; nothing is
\* assumed of crashes and, unless it is steady, of the beats of the process.
ProbesFairSpec ==
  /\ ProbesSpec
  /\ SF_probeVars(ProbesTick)
  /\ WF_probeVars(RunStep)
  /\ WF_probeVars(\E t \in 0..MaxStall : SetHeartBeat(t))
  /\ WF_probeVars(steady /\ SendBeat)
-----------------------------------------------------------------------------
(* Properties. *)

\* A threshold below the length of the history is judged as if every start
\* were remembered (health.go:149, probe_floating_pid.go:30; the example says
\* "must be <10").
HistorySuffices ==
  Threshold < FloatingPidHistory =>
    (FloatingPidRun <=> Cardinality(recent) <= Threshold)

\* A process that beats often enough never fails a round, although beats may be
\* recorded late and over newer ones: SetHeartBeat does not compare the times, so
\* the stall counts twice (health.go:113-125).
SteadyPasses ==
  /\ probe = "heartBeat" /\ steady
  /\ HeartPeriod >= BeatEvery + 2 * MaxStall
  /\ Delay > BeatEvery + MaxStall
  => fails = 0

\* A process that no longer beats is killed in time: neither late beats nor those of
\* its predecessor, which count for it, put off the kill beyond the bound, nor does a
\* hook, which holds up the rounds once (probe_heartbeat.go:18, process.go:581, 620).
HungKilled == silence <= HungBound

\* Whatever outages, broken connections and restarts came before, the second round
\* after the last of them does not fail if the broker is there, and lets go of a
\* connection that is not to be kept: a connection that was lost costs one round,
\* and is not found again (probe_amqp.go:33-63).
AmqpRecovers ==
  [][probe = "amqp" /\ dsn /\ broker /\ calm /\ calm' => fails' <= fails]_probeVars

\* The commands of exec probes do not pile up, however the process crashes while
\* they run: none outlives its context, a new checker waits before its first, and
\* an old one starts at most one after the crash (probe_exec.go:29; process.go:425, 493).
ExecsBounded ==
  Period > Backoff => Cardinality(execs) <= 1 + ExecProbeTimeout \div Delay

\* Once the crashes and the failures of the hook end the kills end: the restarts a
\* floatingPid probe brings about do not keep it failing, provided that its window
\* does not reach back over Threshold kill cycles.  With a wider one each kill would
\* be the reason for the next (probe_floating_pid.go:30, health.go:177).
Settles ==
  FloatingPeriod <= Threshold * KillCycle + LastRound =>
    (probe = "floatingPid" => <>[](pc = "run"))
=============================================================================
