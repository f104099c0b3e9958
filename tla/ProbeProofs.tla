---------------------------- MODULE ProbeProofs ----------------------------
(***************************************************************************)
(* Proofs about the probes that remember: the restart history, the beats,  *)
(* the AMQP connection and the commands of exec probes.                    *)
(*                                                                         *)
(* The rounds of ProbeRunner and the restarts of Run are common to all     *)
(* (LoopInv); on top of them each probe has an invariant of its own.       *)
(***************************************************************************)
EXTENDS StatefulProbes, FiniteSetTheorems, TLAPS

\* The control points of Run and ProbeRunner with their counters.
LoopInv ==
  /\ probe \in Kinds /\ steady \in BOOLEAN
  /\ pc \in {"run", "probing", "condemned", "backoff", "panic"}
  /\ timer \in 0..Delay \cup 0..Period + HookDeadline \cup 0..KillDelay \cup 0..ExecProbeTimeout
  /\ old \in 0..NoRound /\ (Running => old = NoRound)
  /\ fails \in 0..FailureThreshold
  /\ pc \in {"run", "probing"} => fails < FailureThreshold
  /\ pc = "probing" => probe = "exec"
  /\ hook \in {"none", "pending", "executed"}
  /\ crashes \in 0..MaxCrashes

\* The constants are numbers.
LEMMA ProbeConstants ==
  /\ Delay \in Nat \ {0} /\ Period \in Nat \ {0} /\ FailureThreshold \in Nat \ {0}
  /\ ExecProbeTimeout \in Nat \ {0} /\ FloatingPeriod \in Nat \ {0} /\ Threshold \in Nat \ {0}
  /\ FloatingPidHistory \in Nat \ {0}
  /\ HeartPeriod \in Nat /\ BeatEvery \in Nat /\ MaxStall \in Nat /\ MaxCrashes \in Nat
  /\ HookDeadline \in Nat
  /\ KillDelay = 2 /\ Backoff = 1 /\ NoRound = 2
BY ProbesAssumption DEF KillDelay, Backoff, NoRound

\* And so is the time of the hook.
LEMMA HookTimes == HookTime \in Nat /\ HookTime <= HookDeadline
BY ProbeConstants DEF HookTime

\* A round is made when its time has come, or when the exec probe has an answer.
LEMMA RoundIsDue ==
  ASSUME Round
  PROVE  \/ pc = "run" /\ timer = 0 /\ probe # "exec" /\ UNCHANGED execs
         \/ pc = "probing" /\ (ExecExits \/ ExecTicker) /\ UNCHANGED amqpVars
<1> DEFINE Other == pc = "run" /\ timer = 0 /\ probe # "exec" /\ UNCHANGED execs
<1> DEFINE Exec == pc = "probing" /\ (ExecExits \/ ExecTicker) /\ UNCHANGED amqpVars
<1>1. "floatingPid" # "exec" /\ "heartBeat" # "exec" /\ "amqp" # "exec"
  OBVIOUS
<1>2. ASSUME NEW ok, ProbeRun(ok) PROVE Other \/ Exec
  BY <1>1, <1>2, Zenon DEF ProbeRun
<1>3. ProbeRun(TRUE) \/ ProbeRun(FALSE)
  BY Zenon DEF Round, RoundPasses, HookSucceeds, HookFails, RoundFails, FailedRound
<1> QED
  BY <1>2, <1>3, Zenon

\* Run starts the command with nothing counted.
LEMMA LoopStarts == ProbesInit => LoopInv
<1> SUFFICES ASSUME ProbesInit PROVE LoopInv
  OBVIOUS
<1>1. steady \in BOOLEAN
  BY DEF ProbesInit
<1> QED
  BY <1>1, ProbeConstants DEF ProbesInit, LoopInv, Running

\* A round that passes goes on, at the latest after the hook, or the hook fails; one
\* that fails is counted.
Passed ==
  \/ pc' = "run" /\ fails' \in {0, fails} /\ timer' \in Period..Period + HookTime
  \/ pc' = "condemned" /\ fails' = fails /\ timer' \in 0..HookTime

Failed ==
  /\ fails' = fails + 1
  /\ \/ fails + 1 < FailureThreshold /\ pc' = "run" /\ timer' = Period
     \/ pc' = "condemned" /\ timer' = KillDelay

\* What a round does, whichever probe it asks.
LEMMA RoundDoes ==
  ASSUME LoopInv, Round
  PROVE  /\ UNCHANGED <<probe, steady, old, startVars, beatVars>>
         /\ hook' \in {"none", "pending", "executed"} /\ HookTime' = HookTime
         /\ crashes' \in 0..MaxCrashes
         /\ pc \in {"run", "probing"} /\ fails < FailureThreshold
         /\ (ProbeRun(TRUE) /\ Passed) \/ (ProbeRun(FALSE) /\ Failed)
<1> USE ProbeConstants
<1>1. /\ pc \in {"run", "probing"} /\ fails < FailureThreshold /\ fails \in Nat
      /\ crashes \in 0..MaxCrashes /\ hook \in {"none", "pending", "executed"}
  BY RoundIsDue DEF LoopInv
<1>2. CASE RoundPasses
  <2>1. /\ ProbeRun(TRUE) /\ UNCHANGED <<probe, steady, old, hook, startVars, beatVars, crashes>>
        /\ fails' \in {0, fails} /\ pc' = "run" /\ timer' = Period
    BY <1>2 DEF RoundPasses
  <2>2. HookTime' = HookTime
    BY <2>1 DEF HookTime
  <2>3. timer' \in Period..Period + HookTime
    BY <2>1, HookTimes
  <2>4. Passed
    BY <2>1, <2>3 DEF Passed
  <2> QED
    BY <1>1, <2>1, <2>2, <2>4
<1>3. CASE RoundFails
  <2>1. /\ ProbeRun(FALSE) /\ UNCHANGED <<probe, steady, old, hook, startVars, beatVars, crashes>>
        /\ fails' = fails + 1
    BY <1>3 DEF RoundFails, FailedRound
  <2>2. \/ fails + 1 < FailureThreshold /\ pc' = "run" /\ timer' = Period
        \/ pc' = "condemned" /\ timer' = KillDelay
    BY <1>1, <1>3 DEF RoundFails, FailedRound
  <2> QED
    BY <1>1, <2>1, <2>2 DEF Failed, HookTime
<1>4. ASSUME NEW t \in 0..HookDeadline, HookSucceeds(t)
      PROVE  /\ ProbeRun(TRUE) /\ Passed /\ hook' = "executed" /\ HookTime' = HookTime
             /\ UNCHANGED <<probe, steady, old, startVars, beatVars, crashes>>
  <2>1. /\ ProbeRun(TRUE) /\ UNCHANGED <<probe, steady, old, startVars, beatVars, crashes>>
        /\ hook = "pending" /\ hook' = "executed"
        /\ fails' = 0 /\ pc' = "run" /\ timer' = t + Period
    BY <1>4 DEF HookSucceeds
  <2>2. HookTime = HookDeadline /\ HookTime' = HookDeadline
    BY <2>1 DEF HookTime
  <2>3. timer' \in Period..Period + HookTime
    BY <2>1, <2>2
  <2> QED
    BY <2>1, <2>2, <2>3 DEF Passed
<1>5. ASSUME NEW t \in 0..HookDeadline, HookFails(t)
      PROVE  /\ ProbeRun(TRUE) /\ Passed /\ hook' = "executed" /\ HookTime' = HookTime
             /\ UNCHANGED <<probe, steady, old, startVars, beatVars>>
             /\ crashes' \in 0..MaxCrashes
  <2>1. /\ ProbeRun(TRUE) /\ UNCHANGED <<probe, steady, old, fails, startVars, beatVars>>
        /\ hook = "pending" /\ hook' = "executed"
        /\ crashes < MaxCrashes /\ crashes' = crashes + 1
        /\ pc' = "condemned" /\ timer' = t
    BY <1>5 DEF HookFails
  <2>2. HookTime = HookDeadline /\ HookTime' = HookDeadline
    BY <2>1 DEF HookTime
  <2>3. timer' \in 0..HookTime /\ crashes' \in 0..MaxCrashes
    BY <1>1, <2>1, <2>2
  <2> QED
    BY <2>1, <2>2, <2>3 DEF Passed
<1> QED
  BY <1>1, <1>2, <1>3, <1>4, <1>5 DEF Round

\* The verdict of a round is that of the probe.
LEMMA RoundVerdict ==
  ASSUME LoopInv
  PROVE  /\ ProbeRun(TRUE) /\ probe = "heartBeat" => HeartBeatRun
         /\ ProbeRun(FALSE) /\ probe = "heartBeat" => ~HeartBeatRun
         /\ ProbeRun(TRUE) /\ probe = "amqp" => AmqpRun(TRUE)
         /\ ProbeRun(FALSE) /\ probe = "amqp" => AmqpRun(FALSE) \/ AmqpCloseFails
         /\ (ProbeRun(TRUE) \/ ProbeRun(FALSE)) /\ probe # "amqp" => UNCHANGED amqpVars
<1>1. "floatingPid" # "heartBeat" /\ "floatingPid" # "amqp" /\ "heartBeat" # "amqp"
  OBVIOUS
<1>2. pc = "probing" => probe # "heartBeat" /\ probe # "amqp"
  BY DEF LoopInv
<1>3. ASSUME ProbeRun(TRUE)
      PROVE  /\ probe = "heartBeat" => HeartBeatRun
             /\ probe = "amqp" => AmqpRun(TRUE)
             /\ probe # "amqp" => UNCHANGED amqpVars
  BY <1>1, <1>2, <1>3, Zenon DEF ProbeRun
<1>4. ASSUME ProbeRun(FALSE)
      PROVE  /\ probe = "heartBeat" => ~HeartBeatRun
             /\ probe = "amqp" => AmqpRun(FALSE) \/ AmqpCloseFails
             /\ probe # "amqp" => UNCHANGED amqpVars
  BY <1>1, <1>2, <1>4, Zenon DEF ProbeRun
<1> QED
  BY <1>3, <1>4, Zenon

\* The loop's invariant is inductive.
LEMMA LoopStep ==
  ASSUME LoopInv, [ProbesNext]_probeVars
  PROVE  LoopInv'
<1> USE ProbeConstants DEF LoopInv, Running, loopVars
<1>1. CASE ProbesTick
  BY <1>1 DEF ProbesTick
<1>2. CASE Restart
  BY <1>2 DEF Restart
<1>3. CASE Kill
  BY <1>3 DEF Kill, Gone
<1>4. CASE Crash
  BY <1>4 DEF Crash, Gone
<1>5. CASE ExecBegin
  BY <1>5 DEF ExecBegin
<1>6. CASE Round
  <2>1. /\ UNCHANGED <<probe, steady, old>> /\ hook' \in {"none", "pending", "executed"}
        /\ crashes' \in 0..MaxCrashes /\ pc \in {"run", "probing"} /\ fails < FailureThreshold
        /\ Passed \/ Failed
    BY <1>6, RoundDoes
  <2>2. old = NoRound /\ fails \in Nat /\ probe \in Kinds /\ steady \in BOOLEAN
    BY <2>1
  <2>3. /\ pc' \in {"run", "condemned"} /\ fails' \in 0..FailureThreshold
        /\ pc' = "run" => fails' < FailureThreshold
    BY <2>1, <2>2 DEF Passed, Failed
  <2>4. timer' \in 0..Period + HookDeadline \cup 0..KillDelay
    <3>1. CASE Passed
      BY <3>1, HookTimes DEF Passed
    <3>2. CASE Failed
      BY <3>2 DEF Failed
    <3> QED
      BY <2>1, <3>1, <3>2
  <2> QED
    BY <2>1, <2>2, <2>3, <2>4
<1>7. CASE LateRound \/ AmqpPanics
  BY <1>7 DEF LateRound, AmqpPanics
<1>8. CASE UNCHANGED <<loopVars, crashes>>
  BY <1>8
<1>9. CASE SendBeat \/ Disturb \/ (\E t \in 0..MaxStall : SetHeartBeat(t))
            \/ (\E t \in 0..ExecProbeTimeout : ExecEnds(t)) \/ UNCHANGED probeVars
  BY <1>8, <1>9 DEF SendBeat, Disturb, SetHeartBeat, Record, ExecEnds, probeVars
<1> QED
  BY <1>1, <1>2, <1>3, <1>4, <1>5, <1>6, <1>7, <1>9 DEF ProbesNext, RunStep

\* Whether a command has a hook is settled.
LEMMA HookTimeFixed == ASSUME LoopInv, [ProbesNext]_probeVars PROVE HookTime' = HookTime
<1>1. CASE Round
  BY <1>1, RoundDoes
<1>2. CASE Restart
  BY <1>2 DEF Restart, HookTime
<1>3. CASE UNCHANGED hook
  BY <1>3 DEF HookTime
<1>4. CASE Kill \/ Crash \/ ExecBegin \/ LateRound \/ AmqpPanics
  BY <1>3, <1>4 DEF Kill, Crash, Gone, ExecBegin, LateRound, AmqpPanics
<1>5. CASE ProbesTick
  BY <1>3, <1>5 DEF ProbesTick
<1>6. CASE SendBeat \/ Disturb \/ UNCHANGED probeVars
            \/ (\E t \in 0..MaxStall : SetHeartBeat(t))
            \/ (\E t \in 0..ExecProbeTimeout : ExecEnds(t))
  BY <1>3, <1>6 DEF SendBeat, Disturb, SetHeartBeat, Record, ExecEnds, probeVars, loopVars
<1> QED
  BY <1>1, <1>2, <1>4, <1>5, <1>6 DEF ProbesNext, RunStep
-----------------------------------------------------------------------------
(* The beats. *)

\* How long a process can have been silent when its round after n failures is due,
\* and a hook has held it up for h seconds.
SilentRounds(n, h) == Larger(Delay, HeartPeriod + h + Period) + n * Period

\* Every beat that is recorded or on its way is older than the silence, also that
\* of a predecessor; the rounds that find it too old are counted.
BeatInv ==
  /\ beat \in 0..Never /\ inflight \in SUBSET (0..MaxStall) /\ silence \in Nat
  /\ silence # 0 => probe = "heartBeat" /\ Running
  /\ \A t \in inflight : silence <= t
  /\ beat = Never \/ silence <= beat
  /\ probe = "heartBeat" /\ pc = "run" => silence + timer <= SilentRounds(fails, HookTime)
  /\ pc = "condemned" => silence + timer <= HungBound
  /\ silence <= HungBound

\* Each failed round takes one period, and the threshold ends them.
LEMMA SilenceAddsUp ==
  ASSUME NEW n \in Nat
  PROVE  /\ SilentRounds(n, HookTime) \in Nat /\ HungBound \in Nat /\ Never = HeartPeriod + 1
         /\ SilentRounds(n, HookTime) >= Delay
         /\ SilentRounds(n, HookTime) >= HeartPeriod + HookTime + Period
         /\ SilentRounds(n + 1, HookTime) = SilentRounds(n, HookTime) + Period
         /\ n < FailureThreshold => SilentRounds(n, HookTime) + KillDelay <= HungBound
         /\ HungBound >= HeartPeriod + HookTime + Period
<1> DEFINE first == Larger(Delay, HeartPeriod + HookTime + Period)
<1>1. first \in Nat /\ first >= Delay /\ first >= HeartPeriod + HookTime + Period
  BY ProbeConstants, HookTimes DEF Larger
<1> HIDE DEF first
<1>2. n * Period \in Nat /\ (n + 1) * Period = n * Period + Period
  BY ProbeConstants
<1>3. ASSUME n < FailureThreshold
      PROVE  n * Period <= (FailureThreshold - 1) * Period
  <2> DEFINE d == FailureThreshold - 1 - n
  <2>1. d \in Nat /\ FailureThreshold - 1 = n + d
    BY <1>3, ProbeConstants
  <2> HIDE DEF d
  <2>2. (n + d) * Period = n * Period + d * Period /\ d * Period \in Nat
    BY <2>1, ProbeConstants
  <2> QED
    BY <1>2, <2>1, <2>2
<1>4. (FailureThreshold - 1) * Period \in Nat
  BY ProbeConstants
<1>5. /\ SilentRounds(n, HookTime) = first + n * Period
      /\ SilentRounds(n + 1, HookTime) = first + (n + 1) * Period
      /\ HungBound = first + (FailureThreshold - 1) * Period + KillDelay
  BY DEF SilentRounds, HungBound, first
<1> QED
  BY <1>1, <1>2, <1>3, <1>4, <1>5, ProbeConstants, HookTimes DEF Never

\* The bounds stay as they are.
LEMMA BoundsFixed ==
  ASSUME LoopInv, [ProbesNext]_probeVars
  PROVE  HungBound' = HungBound /\ HookTime' = HookTime
BY HookTimeFixed DEF HungBound

\* What fits after a tick if it fitted before.
LEMMA SumsFit ==
  ASSUME NEW a \in Nat, NEW b \in Nat, NEW c \in Nat, NEW d \in Nat, NEW m \in Nat,
         a + b <= c + d, c + d <= m
  PROVE  a + b <= m
OBVIOUS

\* A silence and a time to wait, each within its bound.
LEMMA SumsAdd ==
  ASSUME NEW a \in Nat, NEW b \in Nat, NEW c \in Nat, NEW d \in Nat, NEW e \in Nat,
         NEW m \in Nat, a <= c, b <= e + d, c + d + e <= m
  PROVE  a + b <= m
OBVIOUS

\* No beat has been sent or recorded at the start.
LEMMA BeatStarts == ProbesInit => BeatInv
<1>1. 0 \in Nat /\ HungBound \in Nat /\ Never \in Nat
  BY SilenceAddsUp, ProbeConstants
<1> QED
  BY <1>1, ProbeConstants DEF ProbesInit, BeatInv, Running

\* The invariant of the beats is inductive.
LEMMA BeatStep ==
  ASSUME LoopInv, BeatInv, [ProbesNext]_probeVars
  PROVE  BeatInv'
<1> USE ProbeConstants
<1>0. /\ HungBound \in Nat /\ Never = HeartPeriod + 1 /\ fails \in Nat /\ timer \in Nat
      /\ HungBound >= HeartPeriod + HookTime + Period /\ SilentRounds(fails, HookTime) \in Nat
      /\ silence \in Nat /\ beat \in Nat /\ HungBound' = HungBound
      /\ HookTime' = HookTime /\ HookTime \in Nat
  BY SilenceAddsUp, BoundsFixed, HookTimes DEF LoopInv, BeatInv
<1>1. CASE ProbesTick
  <2>1. /\ timer > 0 /\ timer' = timer - 1 /\ beat' = Capped(beat, Never)
        /\ inflight' = {t + 1 : t \in inflight} /\ MaxStall \notin inflight
        /\ silence' = IF probe = "heartBeat" /\ Running THEN Capped(silence, HungBound + 1) ELSE 0
        /\ UNCHANGED <<probe, pc, fails>>
    BY <1>1 DEF ProbesTick
  <2>2. silence' \in Nat /\ silence' <= silence + 1
    BY <1>0, <2>1 DEF BeatInv, Capped
  <2>3. beat' \in 0..Never /\ (beat' = Never \/ silence' <= beat')
    BY <1>0, <2>1, <2>2 DEF BeatInv, Capped
  <2>4. inflight' \in SUBSET (0..MaxStall) /\ \A t \in inflight' : silence' <= t
    BY <2>1, <2>2 DEF BeatInv
  <2>5. silence' # 0 => probe' = "heartBeat" /\ Running'
    BY <2>1 DEF Running
  <2>6. silence' + timer' <= silence + timer /\ timer' \in Nat
    BY <1>0, <2>1, <2>2 DEF BeatInv
  <2>7. /\ probe = "heartBeat" /\ pc = "run" => silence' + timer' <= SilentRounds(fails, HookTime)
        /\ pc = "condemned" => silence' + timer' <= HungBound
    <3>1. /\ probe = "heartBeat" /\ pc = "run" => silence + timer <= SilentRounds(fails, HookTime)
          /\ pc = "condemned" => silence + timer <= HungBound
      BY DEF BeatInv
    <3> QED
      BY <1>0, <2>2, <2>6, <3>1, SumsFit
  <2>8. silence' <= HungBound
    <3>1. pc = "run" => fails < FailureThreshold
      BY DEF LoopInv
    <3>2. silence' # 0 => pc \in {"run", "condemned"}
      BY <2>1, <2>5 DEF Running, LoopInv
    <3> QED
      BY <1>0, <2>1, <2>2, <2>5, <2>6, <2>7, <3>1, <3>2, SilenceAddsUp
  <2> QED
    BY <1>0, <2>1, <2>2, <2>3, <2>4, <2>5, <2>7, <2>8 DEF BeatInv
<1>2. CASE Restart
  <2>1. Delay <= SilentRounds(0, HookTime)
    BY SilenceAddsUp
  <2> QED
    BY <1>0, <1>2, <2>1 DEF Restart, BeatInv
<1>3. CASE Kill \/ Crash
  <2>1. pc' = "backoff" /\ silence' = 0 /\ UNCHANGED <<probe, beat, inflight>>
    BY <1>3 DEF Kill, Crash, Gone
  <2> QED
    BY <1>0, <2>1 DEF BeatInv
<1>4. CASE ExecBegin
  BY <1>0, <1>4 DEF ExecBegin, BeatInv, beatVars, Running
<1>5. CASE Round
  <2>1. /\ UNCHANGED <<probe, beat, inflight, silence>> /\ pc \in {"run", "probing"}
        /\ fails < FailureThreshold
        /\ (ProbeRun(TRUE) /\ Passed) \/ (ProbeRun(FALSE) /\ Failed)
    BY <1>5, RoundDoes DEF beatVars
  <2>2. pc' \in {"run", "condemned"} /\ fails' \in Nat /\ timer' \in Nat
    <3>1. CASE Passed
      BY <1>0, <3>1 DEF Passed
    <3>2. CASE Failed
      BY <1>0, <3>2 DEF Failed
    <3> QED
      BY <2>1, <3>1, <3>2
  <2>3. probe = "heartBeat" => pc = "run" /\ timer = 0
    BY <1>5, RoundIsDue, <2>1 DEF LoopInv
  <2>4. probe # "heartBeat" => silence = 0
    BY DEF BeatInv
  <2>5. /\ probe = "heartBeat" /\ pc' = "run" => silence + timer' <= SilentRounds(fails', HookTime)
        /\ pc' = "condemned" => silence + timer' <= HungBound
    <3>1. CASE ProbeRun(TRUE) /\ Passed
      <4>1. probe = "heartBeat" => silence <= HeartPeriod
        BY <1>0, <3>1, RoundVerdict DEF HeartBeatRun, BeatInv
      <4>2. SilentRounds(fails', HookTime) >= HeartPeriod + HookTime + Period
        BY <2>2, SilenceAddsUp
      <4>3. SilentRounds(fails', HookTime) \in Nat
        BY <2>2, SilenceAddsUp
      <4>4. \/ pc' = "run" /\ timer' <= Period + HookTime
            \/ pc' = "condemned" /\ timer' <= HookTime
        BY <1>0, <3>1 DEF Passed
      <4>5. silence <= HeartPeriod
        BY <2>4, <4>1
      <4>6. CASE pc' = "run" /\ timer' <= Period + HookTime
        <5>1. silence + timer' <= SilentRounds(fails', HookTime)
          BY <1>0, <2>2, <4>2, <4>3, <4>5, <4>6, SumsAdd
        <5> QED
          BY <4>6, <5>1
      <4>7. CASE pc' = "condemned" /\ timer' <= HookTime
        <5>1. timer' <= Period + HookTime
          BY <1>0, <2>2, <4>7
        <5>2. silence + timer' <= HungBound
          BY <1>0, <2>2, <4>5, <5>1, SumsAdd
        <5> QED
          BY <4>7, <5>2
      <4> QED
        BY <4>4, <4>6, <4>7
    <3>2. CASE Failed
      <4>1. probe = "heartBeat" => silence <= SilentRounds(fails, HookTime)
        BY <1>0, <2>3 DEF BeatInv
      <4>2. /\ SilentRounds(fails + 1, HookTime) = SilentRounds(fails, HookTime) + Period
            /\ SilentRounds(fails, HookTime) + KillDelay <= HungBound
        BY <1>0, <2>1, SilenceAddsUp
      <4>3. \/ pc' = "run" /\ timer' = Period /\ fails' = fails + 1
            \/ pc' = "condemned" /\ timer' = KillDelay
        BY <3>2 DEF Failed
      <4> QED
        BY <1>0, <2>4, <4>1, <4>2, <4>3
    <3> QED
      BY <2>1, <3>1, <3>2
  <2> QED
    BY <1>0, <2>1, <2>2, <2>5 DEF BeatInv, Running
<1>6. CASE UNCHANGED <<probe, pc, timer, fails, beatVars>>
  BY <1>0, <1>6 DEF beatVars, BeatInv, Running
<1>7. CASE LateRound \/ Disturb \/ UNCHANGED probeVars \/ \E t \in 0..ExecProbeTimeout : ExecEnds(t)
  BY <1>6, <1>7 DEF LateRound, Disturb, ExecEnds, probeVars, loopVars
<1>8. CASE AmqpPanics
  <2>1. probe = "amqp" /\ pc' = "panic" /\ UNCHANGED <<probe, timer, fails, beat, inflight, silence>>
    BY <1>8 DEF AmqpPanics, beatVars
  <2>2. silence = 0
    BY <2>1 DEF BeatInv
  <2> QED
    BY <1>0, <2>1, <2>2 DEF BeatInv
<1>9. CASE SendBeat
  <2>1. /\ inflight' = inflight \cup {0} /\ silence' = 0
        /\ UNCHANGED <<probe, pc, timer, fails, beat>>
    BY <1>9 DEF SendBeat, loopVars
  <2>2. /\ probe = "heartBeat" /\ pc = "run" => 0 + timer <= SilentRounds(fails, HookTime)
        /\ pc = "condemned" => 0 + timer <= HungBound
    BY <1>0 DEF BeatInv
  <2> QED
    BY <1>0, <2>1, <2>2 DEF BeatInv
<1>10. CASE \E t \in 0..MaxStall : SetHeartBeat(t)
  BY <1>0, <1>10 DEF SetHeartBeat, Record, BeatInv, loopVars, Running
<1> QED
  BY <1>1, <1>2, <1>3, <1>4, <1>5, <1>7, <1>8, <1>9, <1>10 DEF ProbesNext, RunStep

\* HungKilled: a process that no longer beats is killed within the bound, whatever
\* beats were late and however it was restarted (probe_heartbeat.go:18, process.go:581).
THEOREM HungIsKilled == ProbesSpec => []HungKilled
<1>1. LoopInv /\ BeatInv /\ [ProbesNext]_probeVars => (LoopInv /\ BeatInv)'
  BY LoopStep, BeatStep
<1>2. BeatInv => HungKilled
  BY DEF BeatInv, HungKilled
<1> QED
  BY <1>1, <1>2, LoopStarts, BeatStarts, PTL DEF ProbesSpec
-----------------------------------------------------------------------------
(* The beats of a steady process. *)

\* The process beats often enough, and no stall makes a beat too old or too late
\* for the first round.
Steady ==
  /\ probe = "heartBeat" /\ steady
  /\ HeartPeriod >= BeatEvery + 2 * MaxStall
  /\ Delay > BeatEvery + MaxStall

\* The first round is so far away that the first beat will have been recorded.
Early ==
  \/ timer + silence >= Delay
  \/ \E t \in inflight : timer + BeatEvery + t >= Delay

\* The recorded beat is at most a stall older than the last one, or than the one
\* before a beat that is still on its way.
Fresh ==
  \/ inflight = {} /\ beat <= silence + MaxStall
  \/ \E t \in inflight : beat <= t + BeatEvery + MaxStall

\* No round of a steady process has failed, and the next one will not.
SteadyInv ==
  Steady =>
    /\ fails = 0
    /\ pc = "run" => silence <= BeatEvery /\ (Early \/ Fresh)

\* The round that is due finds a young beat.
LEMMA SteadyRound ==
  ASSUME LoopInv, BeatInv, SteadyInv, Steady, pc = "run", timer = 0
  PROVE  Fresh /\ HeartBeatRun
<1> USE ProbeConstants
<1>1. /\ silence \in Nat /\ silence <= BeatEvery /\ beat \in Nat
      /\ \A t \in inflight : t \in Nat /\ t <= MaxStall
  BY DEF BeatInv, SteadyInv, Never
<1>2. HeartPeriod >= BeatEvery + MaxStall + MaxStall /\ Delay > BeatEvery + MaxStall
  BY DEF Steady
<1>3. ~Early
  BY <1>1, <1>2 DEF Early
<1>4. Fresh
  BY <1>3 DEF SteadyInv
<1>5. beat <= HeartPeriod
  BY <1>1, <1>2, <1>4 DEF Fresh
<1> QED
  BY <1>4, <1>5 DEF HeartBeatRun

\* The invariant of a steady process is inductive.
LEMMA SteadyStep ==
  ASSUME LoopInv, BeatInv, SteadyInv, [ProbesNext]_probeVars
  PROVE  SteadyInv'
<1> USE ProbeConstants
<1>0. SUFFICES ASSUME Steady'
               PROVE  /\ fails' = 0
                      /\ pc' = "run" => silence' <= BeatEvery /\ (Early' \/ Fresh')
  BY DEF SteadyInv
<1>1. UNCHANGED <<probe, steady>>
  <2>1. UNCHANGED probeVars => UNCHANGED <<probe, steady>>
    BY DEF probeVars, loopVars
  <2>2. Round => UNCHANGED <<probe, steady>>
    BY RoundDoes
  <2>3. Kill \/ Crash \/ Restart \/ ExecBegin => UNCHANGED <<probe, steady>>
    BY DEF Kill, Crash, Gone, Restart, ExecBegin
  <2>4. ProbesTick \/ SendBeat \/ Disturb => UNCHANGED <<probe, steady>>
    BY DEF ProbesTick, SendBeat, Disturb, loopVars
  <2>5. LateRound \/ AmqpPanics => UNCHANGED <<probe, steady>>
    BY DEF LateRound, AmqpPanics
  <2> QED
    BY <2>1, <2>2, <2>3, <2>4, <2>5 DEF ProbesNext, RunStep, SetHeartBeat, Record, ExecEnds, loopVars
<1>2. Steady
  BY <1>0, <1>1 DEF Steady
<1>3. /\ fails = 0 /\ probe = "heartBeat" /\ steady
      /\ pc = "run" => silence <= BeatEvery /\ (Early \/ Fresh)
  BY <1>2 DEF SteadyInv, Steady
<1>4. /\ silence \in Nat /\ beat \in Nat /\ timer \in Nat /\ HungBound \in Nat
      /\ \A t \in inflight : t \in Nat /\ t <= MaxStall
      /\ silence <= HungBound
  BY SilenceAddsUp DEF BeatInv, LoopInv, Never
<1>5. CASE ProbesTick
  <2>1. /\ timer > 0 /\ timer' = timer - 1 /\ beat' = Capped(beat, Never)
        /\ inflight' = {t + 1 : t \in inflight}
        /\ UNCHANGED <<pc, fails>>
    BY <1>5 DEF ProbesTick
  <2>2. pc = "run" => silence < BeatEvery /\ silence' = silence + 1
    BY <1>3, <1>4, <1>5 DEF ProbesTick, Running, Capped
  <2>3. beat' <= beat + 1 /\ beat' \in Nat
    BY <1>4, <2>1 DEF Capped, Never
  <2>4. ASSUME pc = "run", Early PROVE Early'
    <3>1. CASE timer + silence >= Delay
      BY <1>4, <2>1, <2>2, <2>4, <3>1 DEF Early
    <3>2. ASSUME NEW t \in inflight, timer + BeatEvery + t >= Delay
          PROVE  t + 1 \in inflight' /\ timer' + BeatEvery + (t + 1) >= Delay
      BY <1>4, <2>1, <3>2
    <3> QED
      BY <2>4, <3>1, <3>2 DEF Early
  <2>5. pc = "run" /\ Fresh => Fresh'
    BY <1>4, <2>1, <2>2, <2>3 DEF Fresh
  <2> QED
    BY <1>3, <1>4, <2>1, <2>2, <2>4, <2>5
<1>6. CASE Restart
  BY <1>6 DEF Restart, Early
<1>7. CASE Kill \/ Crash
  BY <1>3, <1>7 DEF Kill, Crash, Gone
<1>8. CASE ExecBegin
  BY <1>3, <1>8 DEF ExecBegin
<1>9. CASE Round
  <2>1. pc = "run" /\ timer = 0
    BY <1>3, <1>9, RoundIsDue DEF LoopInv
  <2>2. Fresh /\ ~ProbeRun(FALSE)
    BY <1>2, <1>3, <2>1, SteadyRound, RoundVerdict
  <2>3. fails' = 0 /\ UNCHANGED <<beat, inflight, silence>>
    BY <1>3, <1>9, <2>2, RoundDoes DEF Passed, beatVars
  <2>4. Fresh'
    BY <2>2, <2>3 DEF Fresh
  <2> QED
    BY <1>3, <2>1, <2>3, <2>4
<1>10. CASE LateRound \/ AmqpPanics
  BY <1>3, <1>10 DEF LateRound, AmqpPanics
<1>11. CASE Disturb \/ UNCHANGED probeVars \/ \E t \in 0..ExecProbeTimeout : ExecEnds(t)
  <2>1. UNCHANGED <<pc, fails, timer, beat, inflight, silence>>
    BY <1>11 DEF Disturb, ExecEnds, probeVars, loopVars, beatVars
  <2> QED
    BY <1>3, <2>1 DEF Early, Fresh
<1>12. CASE SendBeat
  <2>1. /\ 0 \in inflight' /\ inflight \subseteq inflight' /\ silence' = 0
        /\ UNCHANGED <<pc, fails, timer, beat>>
    BY <1>12 DEF SendBeat, loopVars
  <2>2. pc = "run" /\ Early => Early'
    BY <1>3, <1>4, <2>1 DEF Early
  <2>3. pc = "run" /\ Fresh => Fresh'
    BY <1>3, <1>4, <2>1 DEF Fresh
  <2> QED
    BY <1>3, <2>1, <2>2, <2>3
<1>13. CASE \E t \in 0..MaxStall : SetHeartBeat(t)
  <2>1. PICK u \in 0..MaxStall : SetHeartBeat(u)
    BY <1>13
  <2>2. /\ beat' <= u /\ beat' \in Nat /\ inflight' = inflight \ {u}
        /\ UNCHANGED <<pc, fails, timer, silence>>
    BY <2>1 DEF SetHeartBeat, Record, loopVars, Never
  <2>3. Fresh'
    BY <1>4, <2>2 DEF Fresh
  <2> QED
    BY <1>3, <2>2, <2>3
<1> QED
  BY <1>5, <1>6, <1>7, <1>8, <1>9, <1>10, <1>11, <1>12, <1>13 DEF ProbesNext, RunStep

\* SteadyPasses: a process that beats often enough never fails a round, although
\* beats may be recorded late and over newer ones (health.go:113-125).
THEOREM SteadyAlwaysPasses == ProbesSpec => []SteadyPasses
<1>1. ProbesInit => SteadyInv
  BY DEF ProbesInit, SteadyInv
<1>2. LoopInv /\ BeatInv /\ SteadyInv /\ [ProbesNext]_probeVars
        => (LoopInv /\ BeatInv /\ SteadyInv)'
  BY LoopStep, BeatStep, SteadyStep
<1>3. SteadyInv => SteadyPasses
  BY DEF SteadyInv, Steady, SteadyPasses
<1> QED
  BY <1>1, <1>2, <1>3, LoopStarts, BeatStarts, PTL DEF ProbesSpec
-----------------------------------------------------------------------------
(* The connection of the AMQP probe. *)

\* While the broker is there, a round leaves no closed connection behind, and
\* without one the next round passes.
AmqpInv ==
  /\ reuse \in BOOLEAN /\ dsn \in BOOLEAN /\ broker \in BOOLEAN /\ calm \in BOOLEAN
  /\ amqp \in {"nil", "open", "closed"}
  /\ broker /\ calm => amqp # "closed"

\* A round of the AMQP probe fails only without the broker or on a closed connection.
LEMMA AmqpRoundDoes ==
  ASSUME AmqpInv, NEW ok \in BOOLEAN, AmqpRun(ok)
  PROVE  /\ UNCHANGED <<reuse, dsn, broker>> /\ calm' = TRUE
         /\ amqp' \in {"nil", "open", "closed"}
         /\ broker => amqp' # "closed"
         /\ broker /\ amqp # "closed" => ok
<1>1. "nil" # "open" /\ "nil" # "closed" /\ "open" # "closed"
  OBVIOUS
<1>2. amqp \in {"nil", "open", "closed"}
  BY DEF AmqpInv
<1> QED
  BY <1>1, <1>2, Zenon DEF AmqpRun, AmqpRound

\* The steps outside the rounds do not touch the connection.
LEMMA AmqpIdle ==
  ASSUME \/ ProbesTick \/ Restart \/ Kill \/ Crash \/ ExecBegin \/ SendBeat \/ AmqpPanics
         \/ UNCHANGED probeVars
         \/ \E t \in 0..MaxStall : SetHeartBeat(t)
         \/ \E t \in 0..ExecProbeTimeout : ExecEnds(t)
  PROVE  UNCHANGED amqpVars
<1>1. ProbesTick \/ Restart \/ Kill \/ Crash => UNCHANGED amqpVars
  BY DEF ProbesTick, Restart, Kill, Crash, Gone
<1>2. ExecBegin \/ SendBeat \/ AmqpPanics \/ UNCHANGED probeVars => UNCHANGED amqpVars
  BY DEF ExecBegin, SendBeat, AmqpPanics, probeVars
<1>3. (\E t \in 0..MaxStall : SetHeartBeat(t)) => UNCHANGED amqpVars
  BY DEF SetHeartBeat, Record
<1>4. (\E t \in 0..ExecProbeTimeout : ExecEnds(t)) => UNCHANGED amqpVars
  BY DEF ExecEnds
<1> QED
  BY <1>1, <1>2, <1>3, <1>4

\* The invariant of the connection is inductive.
LEMMA AmqpStep ==
  ASSUME LoopInv, AmqpInv, [ProbesNext]_probeVars
  PROVE  AmqpInv'
<1>0. /\ reuse \in BOOLEAN /\ dsn \in BOOLEAN /\ broker \in BOOLEAN /\ calm \in BOOLEAN
      /\ amqp \in {"nil", "open", "closed"}
      /\ broker /\ calm => amqp # "closed"
  BY Zenon DEF AmqpInv
<1>1. ASSUME UNCHANGED amqpVars PROVE AmqpInv'
  <2>1. UNCHANGED <<reuse, dsn, broker, amqp, calm>>
    BY <1>1 DEF amqpVars
  <2> QED
    BY <1>0, <2>1, Zenon DEF AmqpInv
<1>2. CASE Disturb
  <2>1. /\ reuse' = reuse /\ dsn' = dsn /\ broker' \in BOOLEAN /\ calm' = FALSE
        /\ amqp' = IF amqp = "open" THEN "closed" ELSE amqp
    BY <1>2 DEF Disturb
  <2>2. amqp' \in {"nil", "open", "closed"}
    BY <1>0, <2>1
  <2> QED
    BY <1>0, <2>1, <2>2, Zenon DEF AmqpInv
<1>3. ASSUME AmqpCloseFails PROVE AmqpInv'
  <2>1. UNCHANGED <<reuse, dsn, broker>> /\ calm' = FALSE /\ amqp' \in {"nil", "open", "closed"}
    BY <1>3 DEF AmqpCloseFails
  <2> QED
    BY <1>0, <2>1, Zenon DEF AmqpInv
<1>4. ASSUME NEW ok \in BOOLEAN, AmqpRun(ok) PROVE AmqpInv'
  <2>1. /\ UNCHANGED <<reuse, dsn, broker>> /\ calm' = TRUE
        /\ amqp' \in {"nil", "open", "closed"} /\ (broker => amqp' # "closed")
    BY <1>4, AmqpRoundDoes
  <2> QED
    BY <1>0, <2>1, Zenon DEF AmqpInv
<1>5. CASE Round
  <2>1. ProbeRun(TRUE) \/ ProbeRun(FALSE)
    BY <1>5, RoundDoes, Zenon
  <2>2. UNCHANGED amqpVars \/ AmqpCloseFails \/ AmqpRun(TRUE) \/ AmqpRun(FALSE)
    BY <2>1, RoundVerdict, Zenon
  <2> QED
    BY <1>1, <1>3, <1>4, <2>2, Zenon
<1>6. CASE LateRound
  <2>1. UNCHANGED amqpVars \/ AmqpCloseFails \/ \E ok \in BOOLEAN : AmqpRun(ok)
    BY <1>6, Zenon DEF LateRound
  <2> QED
    BY <1>1, <1>3, <1>4, <2>1, Zenon
<1> QED
  BY <1>1, <1>2, <1>5, <1>6, AmqpIdle DEF ProbesNext, RunStep

\* There is neither a connection nor a broker at the start.
LEMMA AmqpStarts == ProbesInit => AmqpInv
<1> SUFFICES ASSUME ProbesInit PROVE AmqpInv
  OBVIOUS
<1>1. reuse \in BOOLEAN /\ dsn \in BOOLEAN
  BY Zenon DEF ProbesInit
<1>2. ~broker /\ broker \in BOOLEAN /\ calm \in BOOLEAN
  BY Zenon DEF ProbesInit
<1>3. amqp \in {"nil", "open", "closed"}
  BY DEF ProbesInit
<1> QED
  BY <1>1, <1>2, <1>3, Zenon DEF AmqpInv

\* A round that fails although the broker is there found the connection closed, or
\* leaves one that it could not close.
LEMMA AmqpFails ==
  ASSUME LoopInv, AmqpInv, Round, probe = "amqp", broker, calm, calm'
  PROVE  fails' <= fails
<1>1. amqp # "closed"
  BY Zenon DEF AmqpInv
<1>2. ~AmqpRun(FALSE)
  BY <1>1, AmqpRoundDoes, Zenon
<1>3. ~AmqpCloseFails
  BY Zenon DEF AmqpCloseFails
<1>4. ~ProbeRun(FALSE)
  BY <1>2, <1>3, RoundVerdict, Zenon
<1>5. Passed /\ fails \in Nat
  <2>1. Passed
    BY <1>4, RoundDoes, Zenon
  <2> QED
    BY <2>1, ProbeConstants DEF LoopInv
<1>6. fails' = 0 \/ fails' = fails
  BY <1>5, Zenon DEF Passed
<1> QED
  BY <1>5, <1>6

\* AmqpRecovers: the second round after the last disturbance does not fail, whatever
\* outages, broken connections and restarts came before, and whether or not the
\* command has a hook (probe_amqp.go:33-63, process.go:613-637).
THEOREM AmqpAlwaysRecovers == ProbesSpec => AmqpRecovers
<1>1. LoopInv /\ AmqpInv /\ [ProbesNext]_probeVars => (LoopInv /\ AmqpInv)'
  BY LoopStep, AmqpStep
<1>2. ASSUME LoopInv, AmqpInv, [ProbesNext]_probeVars
      PROVE  probe = "amqp" /\ dsn /\ broker /\ calm /\ calm' => fails' <= fails
  <2>1. fails \in Nat
    BY <1>2, ProbeConstants DEF LoopInv
  <2>2. Restart => fails' <= fails
    BY <2>1 DEF Restart
  <2>3. UNCHANGED fails => fails' <= fails
    BY <2>1
  <2>4. Kill \/ Crash \/ ExecBegin \/ LateRound \/ AmqpPanics => UNCHANGED fails
    BY DEF Kill, Crash, Gone, ExecBegin, LateRound, AmqpPanics
  <2>5. ProbesTick \/ SendBeat \/ Disturb \/ UNCHANGED probeVars => UNCHANGED fails
    BY DEF ProbesTick, SendBeat, Disturb, probeVars, loopVars
  <2>6. \/ \E t \in 0..MaxStall : SetHeartBeat(t)
        \/ \E t \in 0..ExecProbeTimeout : ExecEnds(t)
        => UNCHANGED fails
    BY DEF SetHeartBeat, Record, ExecEnds, loopVars
  <2>7. Round => (probe = "amqp" /\ broker /\ calm /\ calm' => fails' <= fails)
    BY <1>2, AmqpFails, Zenon
  <2> QED
    BY <1>2, <2>2, <2>3, <2>4, <2>5, <2>6, <2>7, Zenon DEF ProbesNext, RunStep
<1> QED
  BY <1>1, <1>2, LoopStarts, AmqpStarts, PTL DEF ProbesSpec, AmqpRecovers
-----------------------------------------------------------------------------
(* The commands of exec probes. *)

\* Any two of them were started at least the delay apart, and so will the next one
\* be: at the round that is due, or at the late round of the old checker.
ExecInv ==
  /\ execs \in SUBSET (0..ExecProbeTimeout)
  /\ Period > Backoff =>
       /\ \A s, t \in execs : s < t => t - s >= Delay
       /\ pc = "run" =>
            \A t \in execs : t + timer >= Delay \/ (t = ExecProbeTimeout /\ timer >= Period)
       /\ pc = "probing" => \A t \in execs : t = ExecProbeTimeout - timer \/ t >= Delay
       /\ pc = "backoff" /\ old # NoRound => \A t \in execs : t + old >= Delay

\* The quotient of natural numbers.
LEMMA Quotient ==
  ASSUME NEW a \in Nat, NEW d \in Nat \ {0}
  PROVE  a \div d \in Nat /\ d * (a \div d) <= a /\ a < d * (a \div d) + d
OBVIOUS

\* Smaller numbers have smaller quotients, and numbers d apart different ones.
LEMMA Quotients ==
  ASSUME NEW a \in Nat, NEW b \in Nat, NEW d \in Nat \ {0}, a <= b
  PROVE  a \div d <= b \div d /\ (b - a >= d => a \div d # b \div d)
<1> DEFINE p == a \div d
           q == b \div d
<1>1. p \in Nat /\ q \in Nat /\ d * p <= a /\ b < d * q + d /\ a < d * p + d /\ d * q <= b
  BY Quotient
<1> HIDE DEF p, q
<1>2. ASSUME q < p PROVE FALSE
  <2> DEFINE r == p - q - 1
  <2>1. r \in Nat /\ p = q + 1 + r
    BY <1>1, <1>2
  <2> HIDE DEF r
  <2>2. d * p = d * q + d + d * r /\ d * r \in Nat
    BY <1>1, <2>1
  <2> QED
    BY <1>1, <2>2
<1>3. b - a >= d => p # q
  BY <1>1
<1> QED
  BY <1>1, <1>2, <1>3 DEF p, q

\* At most 1 + m \div d moments up to m are at least d apart.
LEMMA SpacedOut ==
  ASSUME NEW m \in Nat, NEW d \in Nat \ {0}, NEW S \in SUBSET (0..m),
         \A s, t \in S : s < t => t - s >= d
  PROVE  IsFiniteSet(S) /\ Cardinality(S) <= 1 + m \div d
<1> DEFINE f == [t \in S |-> t \div d]
           n == m \div d
<1>1. n \in Nat
  BY Quotient
<1>2. \A t \in S : t \in Nat /\ t <= m /\ t \div d \in Nat /\ t \div d <= n
  BY Quotient, Quotients
<1>3. \A s, t \in S : s \div d = t \div d => s = t
  <2> SUFFICES ASSUME NEW s \in S, NEW t \in S, s < t PROVE s \div d # t \div d
    BY <1>2
  <2>1. t - s >= d /\ s \in Nat /\ t \in Nat /\ s <= t
    BY <1>2
  <2> QED
    BY <2>1, Quotients
<1> HIDE DEF n
<1>4. f \in Injection(S, 0..n)
  BY <1>1, <1>2, <1>3 DEF Injection, IsInjective
<1>5. IsFiniteSet(0..n) /\ Cardinality(0..n) = n + 1
  BY <1>1, FS_Interval
<1> HIDE DEF f
<1>6. IsFiniteSet(S) /\ Cardinality(S) <= Cardinality(0..n)
  BY <1>4, <1>5, FS_Injection
<1>7. Cardinality(S) \in Nat
  BY <1>6, FS_CardinalityType
<1> QED
  BY <1>1, <1>5, <1>6, <1>7 DEF n

\* A command that is started when all others are old enough.
LEMMA ExecStarted ==
  ASSUME ExecInv, Period > Backoff, \A t \in execs : t >= Delay, execs' = execs \cup {0}
  PROVE  \A s, t \in execs' : s < t => t - s >= Delay
BY ProbeConstants DEF ExecInv

\* The invariant of the commands is inductive.
LEMMA ExecStep ==
  ASSUME LoopInv, ExecInv, [ProbesNext]_probeVars
  PROVE  ExecInv'
<1> USE ProbeConstants
<1>0. /\ timer \in Nat /\ old \in Nat /\ (Running => old = NoRound)
      /\ \A t \in execs : t \in Nat /\ t <= ExecProbeTimeout
  BY DEF LoopInv, ExecInv
<1>1. CASE ProbesTick
  <2>1. /\ timer > 0 /\ old > 0 /\ timer' = timer - 1
        /\ old' = IF old = NoRound THEN NoRound ELSE old - 1
        /\ execs' = {t + 1 : t \in execs} /\ ExecProbeTimeout \notin execs
        /\ pc' = pc
    BY <1>1 DEF ProbesTick
  <2>2. execs' \in SUBSET (0..ExecProbeTimeout)
    BY <1>0, <2>1
  <2>3. ASSUME Period > Backoff
        PROVE  \A s, t \in execs' : s < t => t - s >= Delay
    BY <1>0, <2>1, <2>3 DEF ExecInv
  <2>4. ASSUME Period > Backoff, pc = "run" PROVE \A t \in execs' : t + timer' >= Delay
    <3>1. \A t \in execs : t + timer >= Delay
      BY <2>1, <2>4 DEF ExecInv
    <3> QED
      BY <1>0, <2>1, <3>1
  <2>5. ASSUME Period > Backoff, pc = "probing"
        PROVE  \A t \in execs' : t = ExecProbeTimeout - timer' \/ t >= Delay
    <3>1. \A t \in execs : t = ExecProbeTimeout - timer \/ t >= Delay
      BY <2>5 DEF ExecInv
    <3> QED
      BY <1>0, <2>1, <3>1
  <2>6. ASSUME Period > Backoff, pc = "backoff", old' # NoRound
        PROVE  \A t \in execs' : t + old' >= Delay
    <3>1. \A t \in execs : t + old >= Delay
      BY <2>1, <2>6 DEF ExecInv
    <3> QED
      BY <1>0, <2>1, <2>6, <3>1
  <2> QED
    BY <2>1, <2>2, <2>3, <2>4, <2>5, <2>6 DEF ExecInv
<1>2. CASE Restart
  <2>1. pc' = "run" /\ timer' = Delay /\ execs' = execs
    BY <1>2 DEF Restart
  <2> QED
    BY <1>0, <2>1 DEF ExecInv
<1>3. CASE Kill
  <2>1. pc' = "backoff" /\ execs' = execs /\ old' = NoRound
    BY <1>0, <1>3 DEF Kill, Gone, Running
  <2> QED
    BY <2>1 DEF ExecInv
<1>4. CASE Crash
  <2>1. /\ pc' = "backoff" /\ execs' = execs
        /\ old' # NoRound => pc = "run" /\ old' = timer /\ timer <= Backoff
    BY <1>4 DEF Crash, Gone
  <2> QED
    BY <1>0, <2>1 DEF ExecInv
<1>5. CASE ExecBegin
  <2>1. /\ pc = "run" /\ timer = 0 /\ pc' = "probing" /\ timer' = ExecProbeTimeout
        /\ execs' = execs \cup {0}
    BY <1>5 DEF ExecBegin
  <2>2. Period > Backoff => \A t \in execs : t >= Delay
    BY <1>0, <2>1 DEF ExecInv
  <2> QED
    BY <1>0, <2>1, <2>2, ExecStarted DEF ExecInv
<1>6. CASE Round
  <2>1. pc' = "condemned" \/ (pc' = "run" /\ timer' \in Nat /\ timer' >= Period)
    <3>1. CASE Passed
      BY <3>1, HookTimes DEF Passed
    <3>2. CASE Failed
      BY <3>2 DEF Failed
    <3> QED
      BY <1>6, <3>1, <3>2, RoundDoes
  <2>2. \/ pc = "run" /\ timer = 0 /\ execs' = execs
        \/ pc = "probing" /\ execs' = execs \ {ExecProbeTimeout - timer}
        \/ pc = "probing" /\ timer = 0 /\ execs' = execs
    BY <1>6, RoundIsDue DEF ExecExits, ExecTicker
  <2>3. execs' \subseteq execs
    BY <2>2
  <2>4. ASSUME Period > Backoff, NEW t \in execs'
        PROVE  t >= Delay \/ t = ExecProbeTimeout
    <3>1. CASE pc = "run" /\ timer = 0
      <4>1. t + timer >= Delay \/ (t = ExecProbeTimeout /\ timer >= Period)
        BY <2>3, <2>4, <3>1 DEF ExecInv
      <4> QED
        BY <1>0, <2>3, <3>1, <4>1
    <3>2. CASE pc = "probing"
      <4>1. t = ExecProbeTimeout - timer \/ t >= Delay
        BY <2>3, <2>4, <3>2 DEF ExecInv
      <4> QED
        BY <1>0, <2>2, <2>4, <3>2, <4>1
    <3> QED
      BY <2>2, <3>1, <3>2
  <2> QED
    BY <1>0, <2>1, <2>3, <2>4 DEF ExecInv
<1>7. CASE LateRound
  <2>1. /\ pc = "backoff" /\ old = 0 /\ pc' = "backoff" /\ old' = NoRound
        /\ execs' = execs \/ execs' = execs \cup {0}
    BY <1>7 DEF LateRound
  <2>2. Period > Backoff => \A t \in execs : t >= Delay
    BY <1>0, <2>1 DEF ExecInv
  <2>3. Period > Backoff => \A s, t \in execs' : s < t => t - s >= Delay
    BY <2>1, <2>2, ExecStarted DEF ExecInv
  <2>4. execs' \in SUBSET (0..ExecProbeTimeout)
    <3>1. execs \in SUBSET (0..ExecProbeTimeout) /\ 0 \in 0..ExecProbeTimeout
      BY DEF ExecInv
    <3> QED
      BY <2>1, <3>1
  <2> QED
    BY <2>1, <2>3, <2>4 DEF ExecInv
<1>8. CASE SendBeat \/ Disturb \/ UNCHANGED probeVars
            \/ (\E t \in 0..MaxStall : SetHeartBeat(t))
            \/ (\E t \in 0..ExecProbeTimeout : ExecEnds(t))
  <2>1. UNCHANGED <<pc, timer, old>> /\ execs' \subseteq execs
    BY <1>8 DEF SendBeat, Disturb, SetHeartBeat, Record, ExecEnds, probeVars, loopVars
  <2> QED
    BY <1>0, <2>1 DEF ExecInv
<1>9. CASE AmqpPanics
  BY <1>9 DEF AmqpPanics, ExecInv
<1> QED
  BY <1>1, <1>2, <1>3, <1>4, <1>5, <1>6, <1>7, <1>8, <1>9 DEF ProbesNext, RunStep

\* ExecsBounded: the commands of exec probes do not pile up, however the process
\* crashes while they run (probe_exec.go:29; process.go:425, 493).
THEOREM ExecsAreBounded == ProbesSpec => []ExecsBounded
<1>1. ProbesInit => ExecInv
  BY DEF ProbesInit, ExecInv
<1>2. LoopInv /\ ExecInv /\ [ProbesNext]_probeVars => (LoopInv /\ ExecInv)'
  BY LoopStep, ExecStep
<1>3. ExecInv => ExecsBounded
  BY SpacedOut, ProbeConstants DEF ExecInv, ExecsBounded
<1> QED
  BY <1>1, <1>2, <1>3, LoopStarts, PTL DEF ProbesSpec
-----------------------------------------------------------------------------
(* The restart history of the floatingPid probe. *)

\* The history holds the last starts in their order; what it lacks is older than
\* all that it holds, and then it is full.
StartInv ==
  /\ history \in Seq(0..FloatingPeriod) /\ Len(history) <= FloatingPidHistory
  /\ recent \in SUBSET (0..FloatingPeriod - 1)
  /\ \A i, j \in 1..Len(history) :
       i < j => history[i] = FloatingPeriod \/ history[j] < history[i]
  /\ \A i \in 1..Len(history) : history[i] < FloatingPeriod => history[i] \in recent
  /\ \A t \in recent :
       \/ \E i \in 1..Len(history) : history[i] = t
       \/ Len(history) = FloatingPidHistory /\ \A i \in 1..Len(history) : history[i] < t
  /\ pc = "backoff" /\ timer = 0 => 0 \notin recent

\* SetPid appends the start and drops at most the first of those before it.
LEMMA Remembered ==
  ASSUME NEW s \in Seq(0..FloatingPeriod), Len(s) <= FloatingPidHistory
  PROVE  \E k \in {0, 1} :
           /\ k = 1 <=> Len(s) = FloatingPidHistory
           /\ Remember(s) \in Seq(0..FloatingPeriod)
           /\ Len(Remember(s)) = Len(s) + 1 - k
           /\ Remember(s)[Len(Remember(s))] = 0
           /\ \A i \in 1..Len(s) - k : Remember(s)[i] = s[i + k]
<1> USE ProbeConstants
<1>1. CASE Len(s) < FloatingPidHistory
  BY <1>1 DEF Remember
<1>2. CASE Len(s) = FloatingPidHistory
  <2> DEFINE r == SubSeq(s, 2, Len(s))
  <2>1. Remember(s) = Append(r, 0)
    BY <1>2 DEF Remember
  <2>2. /\ r \in Seq(0..FloatingPeriod) /\ Len(r) = Len(s) - 1
        /\ \A i \in 1..Len(s) - 1 : r[i] = s[i + 1]
    BY <1>2
  <2> HIDE DEF r
  <2> QED
    BY <1>2, <2>1, <2>2
<1> QED
  BY <1>1, <1>2

\* The invariant of the history is inductive.
LEMMA StartStep ==
  ASSUME LoopInv, StartInv, [ProbesNext]_probeVars
  PROVE  StartInv'
<1> USE ProbeConstants
<1>0. /\ history \in Seq(0..FloatingPeriod) /\ Len(history) \in Nat
      /\ \A i \in 1..Len(history) : history[i] \in Nat /\ history[i] <= FloatingPeriod
      /\ \A t \in recent : t \in Nat /\ t < FloatingPeriod
      /\ timer \in Nat
  BY DEF StartInv, LoopInv
<1>1. CASE ProbesTick
  <2>1. /\ history' = [i \in 1..Len(history) |-> Capped(history[i], FloatingPeriod)]
        /\ recent' = {t + 1 : t \in recent} \ {FloatingPeriod}
    BY <1>0, <1>1 DEF ProbesTick
  <2>2. /\ history' \in Seq(0..FloatingPeriod) /\ Len(history') = Len(history)
        /\ \A i \in 1..Len(history) : history'[i] = Capped(history[i], FloatingPeriod)
    BY <1>0, <2>1 DEF Capped
  <2>3. ASSUME NEW i \in 1..Len(history), NEW j \in 1..Len(history), i < j
        PROVE  history'[i] = FloatingPeriod \/ history'[j] < history'[i]
    <3>1. history[i] = FloatingPeriod \/ history[j] < history[i]
      BY <2>3 DEF StartInv
    <3> QED
      BY <1>0, <2>2, <3>1 DEF Capped
  <2>4. ASSUME NEW i \in 1..Len(history), history'[i] < FloatingPeriod
        PROVE  history'[i] \in recent'
    <3>1. history[i] < FloatingPeriod /\ history'[i] = history[i] + 1
      BY <1>0, <2>2, <2>4 DEF Capped
    <3>2. history[i] \in recent
      BY <3>1 DEF StartInv
    <3> QED
      BY <2>1, <2>4, <3>1, <3>2
  <2>5. ASSUME NEW t \in recent'
        PROVE  \/ \E i \in 1..Len(history) : history'[i] = t
               \/ /\ Len(history) = FloatingPidHistory
                  /\ \A i \in 1..Len(history) : history'[i] < t
    <3>1. PICK u \in recent : t = u + 1 /\ t # FloatingPeriod
      BY <2>1
    <3>2. CASE \E i \in 1..Len(history) : history[i] = u
      BY <1>0, <2>2, <3>1, <3>2 DEF Capped
    <3>3. CASE /\ Len(history) = FloatingPidHistory
               /\ \A i \in 1..Len(history) : history[i] < u
      BY <1>0, <2>2, <3>1, <3>3 DEF Capped
    <3> QED
      BY <3>2, <3>3 DEF StartInv
  <2>6. recent' \in SUBSET (0..FloatingPeriod - 1) /\ 0 \notin recent'
    BY <1>0, <2>1
  <2> QED
    BY <2>2, <2>3, <2>4, <2>5, <2>6 DEF StartInv
<1>2. CASE Restart /\ probe = "floatingPid"
  <2>1. /\ pc' = "run" /\ history' = Remember(history) /\ recent' = recent \cup {0}
        /\ pc = "backoff" /\ timer = 0
    BY <1>2 DEF Restart
  <2>2. 0 \notin recent /\ Len(history) <= FloatingPidHistory
    BY <2>1 DEF StartInv
  <2>3. PICK k \in {0, 1} :
          /\ k = 1 <=> Len(history) = FloatingPidHistory
          /\ history' \in Seq(0..FloatingPeriod)
          /\ Len(history') = Len(history) + 1 - k
          /\ history'[Len(history')] = 0
          /\ \A i \in 1..Len(history) - k : history'[i] = history[i + k]
    BY <1>0, <2>1, <2>2, Remembered
  <2>4. ASSUME NEW i \in 1..Len(history'), i # Len(history')
        PROVE  /\ i \in 1..Len(history) - k /\ i + k \in 1..Len(history)
               /\ history'[i] = history[i + k]
    <3>1. Len(history') = Len(history) + 1 - k /\ (k = 0 \/ k = 1) /\ Len(history) \in Nat
      BY <1>0, <2>3
    <3>2. i \in Nat /\ 1 <= i /\ i <= Len(history) - k
      BY <2>4, <3>1
    <3>3. i \in 1..Len(history) - k /\ i + k \in 1..Len(history)
      BY <3>1, <3>2
    <3> QED
      BY <2>3, <3>3
  <2>5. \A i \in 1..Len(history) : history[i] # 0
    BY <1>0, <2>2 DEF StartInv
  <2>6. ASSUME NEW i \in 1..Len(history'), NEW j \in 1..Len(history'), i < j
        PROVE  history'[i] = FloatingPeriod \/ history'[j] < history'[i]
    <3>1. i # Len(history')
      BY <1>0, <2>3, <2>6
    <3>2. i + k \in 1..Len(history) /\ history'[i] = history[i + k]
      BY <2>4, <3>1
    <3>3. CASE j = Len(history')
      <4>1. history'[j] = 0
        BY <2>3, <3>3
      <4>2. history[i + k] \in Nat /\ history[i + k] # 0
        BY <1>0, <2>5, <3>2
      <4> QED
        BY <3>2, <4>1, <4>2
    <3>4. CASE j + k \in 1..Len(history) /\ history'[j] = history[j + k]
      <4>1. i + k < j + k
        BY <1>0, <2>3, <2>6
      <4> QED
        BY <3>2, <3>4, <4>1 DEF StartInv
    <3> QED
      BY <2>4, <3>3, <3>4
  <2>7. \A i \in 1..Len(history') : history'[i] < FloatingPeriod => history'[i] \in recent'
    BY <2>1, <2>3, <2>4 DEF StartInv
  <2>8. ASSUME NEW t \in recent'
        PROVE  \/ \E i \in 1..Len(history') : history'[i] = t
               \/ /\ Len(history') = FloatingPidHistory
                  /\ \A i \in 1..Len(history') : history'[i] < t
    <3>1. CASE t = 0
      BY <1>0, <2>3, <3>1
    <3>2. ASSUME t \in recent, NEW i \in 1..Len(history), history[i] = t, i > k
          PROVE  \E j \in 1..Len(history') : history'[j] = t
      <4>1. i - k \in 1..Len(history) - k /\ i - k \in 1..Len(history') /\ (i - k) + k = i
        BY <1>0, <2>3, <3>2
      <4> QED
        BY <2>3, <3>2, <4>1
    <3>3. ASSUME t \in recent, k = 1, \A i \in 2..Len(history) : history[i] < t
          PROVE  \A i \in 1..Len(history') : history'[i] < t
      <4>1. t \in Nat /\ t # 0
        BY <1>0, <2>2, <3>3
      <4>2. \A i \in 1..Len(history) - k : i + k \in 2..Len(history)
        BY <1>0, <3>3
      <4>3. ASSUME NEW i \in 1..Len(history'), i # Len(history') PROVE history'[i] < t
        BY <2>4, <3>3, <4>2, <4>3
      <4>4. history'[Len(history')] < t
        BY <2>3, <4>1
      <4> QED
        BY <4>3, <4>4
    <3>4. ASSUME t \in recent, k = 1, Len(history) >= 1, history[1] = t
          PROVE  \A i \in 2..Len(history) : history[i] < t
      <4>1. t # FloatingPeriod
        BY <1>0, <3>4
      <4> QED
        BY <1>0, <3>4, <4>1 DEF StartInv
    <3>5. CASE t \in recent /\ \E i \in 1..Len(history) : history[i] = t
      <4>1. PICK i \in 1..Len(history) : history[i] = t
        BY <3>5
      <4>2. CASE i > k
        BY <3>2, <3>5, <4>1, <4>2
      <4>3. CASE i = 1 /\ k = 1
        BY <1>0, <2>3, <3>3, <3>4, <3>5, <4>1, <4>3
      <4> QED
        BY <1>0, <4>1, <4>2, <4>3
    <3>6. CASE t \in recent /\ Len(history) = FloatingPidHistory
               /\ \A i \in 1..Len(history) : history[i] < t
      BY <1>0, <2>3, <3>3, <3>6
    <3> QED
      BY <2>1, <2>8, <3>1, <3>5, <3>6 DEF StartInv
  <2>9. Len(history') <= FloatingPidHistory /\ recent' \in SUBSET (0..FloatingPeriod - 1)
    BY <1>0, <2>1, <2>2, <2>3
  <2> QED
    BY <2>1, <2>3, <2>6, <2>7, <2>8, <2>9 DEF StartInv
<1>3. ASSUME UNCHANGED <<history, recent>>,
             pc' = "backoff" /\ timer' = 0 => pc = "backoff" /\ timer = 0
      PROVE  StartInv'
  BY <1>3 DEF StartInv
<1>4. CASE Restart /\ probe # "floatingPid"
  BY <1>3, <1>4 DEF Restart, startVars
<1>5. CASE Kill \/ Crash
  BY <1>3, <1>5 DEF Kill, Crash, Gone, startVars
<1>6. CASE Round
  BY <1>3, <1>6, RoundDoes DEF Passed, Failed, startVars
<1>7. CASE ExecBegin \/ LateRound \/ AmqpPanics
  BY <1>3, <1>7 DEF ExecBegin, LateRound, AmqpPanics, startVars
<1>8. CASE SendBeat \/ Disturb \/ UNCHANGED probeVars
            \/ (\E t \in 0..MaxStall : SetHeartBeat(t))
            \/ (\E t \in 0..ExecProbeTimeout : ExecEnds(t))
  BY <1>3, <1>8
  DEF SendBeat, Disturb, SetHeartBeat, Record, ExecEnds, probeVars, loopVars, startVars
<1> QED
  BY <1>1, <1>2, <1>4, <1>5, <1>6, <1>7, <1>8 DEF ProbesNext, RunStep

\* No start has been made at the start.
LEMMA StartStarts == ProbesInit => StartInv
BY ProbeConstants DEF ProbesInit, StartInv

\* The recent starts in the history are recent starts, and all of them unless the
\* history is full of them.
LEMMA HistoryCounts ==
  ASSUME StartInv
  PROVE  /\ IsFiniteSet(recent) /\ NumOfRestarts <= Cardinality(recent)
         /\ NumOfRestarts \in Nat /\ Cardinality(recent) \in Nat
         /\ NumOfRestarts = Cardinality(recent) \/ NumOfRestarts = FloatingPidHistory
<1> USE ProbeConstants
<1> DEFINE A == {i \in DOMAIN history : history[i] < FloatingPeriod}
           f == [i \in A |-> history[i]]
<1>1. DOMAIN history = 1..Len(history) /\ Len(history) \in Nat
  BY DEF StartInv
<1>2. \A i \in A : i \in 1..Len(history) /\ history[i] \in recent /\ history[i] \in Nat
                   /\ history[i] < FloatingPeriod
  <2> SUFFICES ASSUME NEW i \in A
               PROVE  i \in 1..Len(history) /\ history[i] \in recent /\ history[i] \in Nat
    OBVIOUS
  <2>1. i \in 1..Len(history) /\ history[i] < FloatingPeriod
    BY <1>1
  <2> QED
    BY <2>1 DEF StartInv
<1>3. \A i, j \in A : history[i] = history[j] => i = j
  <2> SUFFICES ASSUME NEW i \in A, NEW j \in A, i < j PROVE history[i] # history[j]
    BY <1>1, <1>2
  <2> QED
    BY <1>2 DEF StartInv
<1>4. f \in Injection(A, recent)
  BY <1>2, <1>3 DEF Injection, IsInjective
<1>5. IsFiniteSet(recent)
  <2>1. IsFiniteSet(0..FloatingPeriod - 1)
    BY FS_Interval
  <2>2. recent \in SUBSET (0..FloatingPeriod - 1)
    BY DEF StartInv
  <2> QED
    BY <2>1, <2>2, FS_Subset
<1>6. /\ IsFiniteSet(A) /\ Cardinality(A) <= Cardinality(recent)
      /\ Cardinality(A) = Cardinality(recent) <=> f \in Surjection(A, recent)
  <2> HIDE DEF f, A
  <2> QED
    BY <1>4, <1>5, FS_Injection
<1>7. CASE \A t \in recent : \E i \in 1..Len(history) : history[i] = t
  <2>1. \A t \in recent : t < FloatingPeriod
    BY DEF StartInv
  <2>2. \A t \in recent : \E i \in A : f[i] = t
    BY <1>1, <1>7, <2>1
  <2>3. f \in Surjection(A, recent)
    BY <1>4, <2>2 DEF Injection, Surjection
  <2> QED
    BY <1>5, <1>6, <2>3, FS_CardinalityType DEF NumOfRestarts
<1>8. CASE \E t \in recent : Len(history) = FloatingPidHistory
                              /\ \A i \in 1..Len(history) : history[i] < t
  <2>1. \A t \in recent : t \in Nat /\ t < FloatingPeriod
    BY DEF StartInv
  <2>2. \A i \in 1..Len(history) : history[i] \in Nat
    BY DEF StartInv
  <2>3. A = 1..FloatingPidHistory
    BY <1>1, <1>8, <2>1, <2>2
  <2>4. Cardinality(1..FloatingPidHistory) = FloatingPidHistory
    BY FS_Interval
  <2> QED
    BY <1>5, <1>6, <2>3, <2>4, FS_CardinalityType DEF NumOfRestarts
<1> QED
  BY <1>7, <1>8 DEF StartInv

\* HistorySuffices: the floatingPid probe judges as if every start were remembered,
\* as long as its threshold is below the length of the history (health.go:149,
\* probe_floating_pid.go:30).
THEOREM HistoryAlwaysSuffices == ProbesSpec => []HistorySuffices
<1>1. LoopInv /\ StartInv /\ [ProbesNext]_probeVars => (LoopInv /\ StartInv)'
  BY LoopStep, StartStep
<1>2. StartInv => HistorySuffices
  BY HistoryCounts, ProbeConstants DEF HistorySuffices, FloatingPidRun
<1> QED
  BY <1>1, <1>2, LoopStarts, StartStarts, PTL DEF ProbesSpec
-----------------------------------------------------------------------------

\* ProbesTypeOK: the counters, ages and states of the probes keep their ranges.
THEOREM ProbesTypeCorrect == ProbesSpec => []ProbesTypeOK
<1> DEFINE Inv == LoopInv /\ BeatInv /\ AmqpInv /\ ExecInv /\ StartInv
<1>1. ProbesInit => Inv
  BY LoopStarts, BeatStarts, AmqpStarts, StartStarts DEF ProbesInit, ExecInv
<1>2. Inv /\ [ProbesNext]_probeVars => Inv'
  BY LoopStep, BeatStep, AmqpStep, ExecStep, StartStep
<1>3. Inv => ProbesTypeOK
  <2> SUFFICES ASSUME Inv PROVE ProbesTypeOK
    OBVIOUS
  <2>1. silence \in 0..HungBound + 1 /\ beat \in 0..Never /\ inflight \in SUBSET (0..MaxStall)
    BY SilenceAddsUp DEF BeatInv
  <2>2. {reuse, dsn, broker, calm} \subseteq BOOLEAN /\ amqp \in {"nil", "open", "closed"}
    BY Zenon DEF AmqpInv
  <2> QED
    BY <2>1, <2>2 DEF LoopInv, ExecInv, StartInv, ProbesTypeOK
<1> QED
  BY <1>1, <1>2, <1>3, PTL DEF ProbesSpec
=============================================================================
