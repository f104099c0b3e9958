# A TLA+ verification of process-wrapper

process-wrapper runs several processes in one container: it starts them, probes
them, restarts them, shuts them down on a signal, and can let several pods share
one running instance through a lease in etcd.  This directory holds a model of
that program in TLA+, the TLC runs that check it on small instances, and proofs
that TLAPS checks for every instance.

## The system

| part | source | state | operations | interacts with |
|---|---|---|---|---|
| main | `main.go` | WaitGroup, root context | start everything, `wg.Wait` | all |
| shared state | `pkg/process/health.go` | `Shutdown`, `killedMap`, `statusMap`, `pidsMap`, `cancelRoutineMap`, `floatingPid`, `heartBeat`, `Preempted`, readiness file | one method per access, each under the RWMutex | every goroutine |
| command runner | `process.go` `Run` | call stack of nested `Run`s, the process | acquire lock, start, wait, decide, back off, restart | state, OS, lock server |
| health checker | `process.go` `HealthChecker`, `ProbeRunner`, `hook.go` | failure counter, `hookExecuted` | rounds of probes, hook, condemn the process | state, OS |
| stats worker | `process_stats.go`, `stat.go` | failure counter | read `/proc`, enforce the memory limit | state, OS |
| signal notifier | `signals.go` | channel of one signal | graceful and fast shutdown | state, OS, root context |
| pod status controller | `container_state.go` | last pod status | cancel when a container completed | root context |
| readiness file routine | `health.go` `CreateReadinessFile` | the file | poll the statuses, write once | state |
| shared lock | `pkg/lease`, `probe_lock.go`, `AcquireSharedLock` | etcd lease and key, `LockProbe.Lease` | acquire, renew | etcd, health checker |
| preemption, envoy drain | `health.go` `WaitPreemptionState`, `PreemptionChecker`, `DrainEnvoyListeners` | `Preempted`, the event channel | long polls of the metadata server, mark, drain | readiness endpoint, metadata server, envoy |
| HTTP endpoints | `health.go` `HealthEndpoint` | one goroutine per request | `/readiness` and `/liveness`, with `?wait` in a loop; `PATCH /heartbeat` writes a map; the others copy one | state, clients |
| wait mode | `main.go` `WaitReadiness` | deadline timer | poll the readiness file | the file, from another process |
| stateful probes | `probe_floating_pid.go`, `probe_heartbeat.go`, `probe_amqp.go`, `probe_exec.go`, `health.go` | restart history, time of the last beat, kept connection, commands under way | one verdict per round | health checker, state, broker |
| process output | `process.go` `ProcessOutput`, `Run` | pipe, `bufio.Reader` | read lines, print them; `cmd.Wait` closes the pipe | the process and its children |
| other probes, metrics, config, environment | other files | - | requests, parsing, formatting | - |

What is hard here: every process has three goroutines of its own, and those of a
dead process live on beside those of its successor while all maps are indexed by
the *name* they share.  The flags that decide between restart and return are read
separately from where they are set.  Shutdown is a sequence of steps of a
goroutine that interleaves with every restart.  Requests to the lock server fail,
are slow, and take three separate calls to etcd.  A preemption can be announced
between two long polls.  Some probes judge by what earlier rounds, or earlier
processes, left behind: beats that are recorded late, restarts that their own
verdicts caused, a connection that was lost meanwhile, a command that has not
ended.  The pipe of a process is closed while its last lines are being read.

What makes the parts correct: a command has one process at a time and always one
coming, until a shutdown; a shutdown ends the wrapper and does not start processes
over and over; main waits for exactly the calls of `Run` there are; only the
current process is probed; a condemned process is replaced; one pod holds a key; a
preempted node is not ready, and is known to be preempted in time; a healthy
process is not killed and a hung one is, whatever is remembered; output arrives in
order.

## Modules

| module | models | notes |
|---|---|---|
| `WrapperState` | `State`, contexts, WaitGroup, readiness file | one operator per method of `State`; a method holds the lock for its whole body, so it is atomic |
| `CommandRunner` | `Run`, `AcquireSharedLock` (as seen by the wrapper), the OS process | one action between two accesses to shared state |
| `HealthChecker` | `HealthChecker`, `ProbeRunner`, `PostStartHookRunner`, `GetStats` | indexed by process, because they outlive it |
| `SignalNotifier` | `Notify`, `TerminateProcess`, `ProcessKiller` | |
| `ProcessWrapper` | `StartProcessWrapper`, `NewSchedule`, `ReadStatus`; the composition | `Spec`, `FairSpec` |
| `Supervision` | abstract specification | what the wrapper promises about its commands |
| `WrapperProperties` | the properties | and the refinement mapping |
| `SharedLock` | client, server and etcd of the shared lock | time in seconds |
| `Preemption` | the metadata poll, `PreemptionChecker`, `DrainEnvoyListeners` | time in ticks, which the composing module lets pass |
| `HealthEndpoint` | `/readiness`, `/liveness`, `?wait`, the write timeout, `-wait` | composes `WrapperState` and `Preemption`; statuses change at will |
| `StatefulProbes` | floating pid, heartbeat, AMQP and exec probes over the restart cycle | time in seconds; a moment is kept as its age |
| `ProcessOutput` | one output stream and `cmd.Wait` | a write is a piece with or without a newline |
| `WrapperProofs`, `RefinementProofs`, `LockProofs`, `LockTimeProofs`, `EndpointProofs`, `ProbeProofs`, `OutputProofs` | the proofs | |
| `MCWrapper`, `MCSharedLock`, `MCHealthEndpoint`, `MCStatefulProbes`, `MCProcessOutput` | for TLC | |

How state corresponds: a process is `<<c, k>>`, the `k`-th start of command `c`;
it stands for the pid the code carries around.  `pidsMap[c] = k` means the map
holds that pid, `cancelRoutineMap[c] = k` that it holds the cancel function of
that process's context, `cancelled` is the set of processes whose context is
cancelled.  `run[c]`, `hc[p]`, `gs[p]`, `notify`, `fileRoutine`, `sched` and
`mainPc` are the control points of the goroutines.  `frames[c]` is the depth of
the recursion of `Run` (`defer c.Run(ctx, wg)`); the deferred `wg.Done` of all
frames run when the innermost returns.  A `wg.Done` below zero panics (`exit =
"panic"`): that happens when every command has returned before main reaches
`wg.Add(1)`, because `NewSchedule` is launched first (main.go:256-257).
`WaitGroupCounts` says that it happens in that case and in no other.  `late`, `lapse` in `SharedLock` and the
variables marked so in the other modules are history variables.

In `HealthEndpoint` a reader is a client with one request, or one process in
`-wait` mode; `reader[r]` is its control point between two accesses to the state
or the file.  In `Preemption`, `poll` and `checker` are the two goroutines, which
meet in one step on the unbuffered channel.  The long poll answers when the value
differs from what it was when the request came in, or at its timeout: the code
sends no `last_etag`, so a change between two requests is seen only by the next
answer.  In `StatefulProbes` one command has one of the four probes, with or without
a postStart hook; `Restart`, `Round`, `Kill` are the parts of `Run` and `ProbeRunner`
that matter to it.  As in the code, a round that passes after the hook has run does
not reset the failure counter, and a hook that fails kills the process.  A command
whose environment lacks one of the variables of the AMQP probe panics the wrapper in
its first round (`AmqpPanics`): `DSN` reports the missing variable to `p.logger`, a
field that nothing sets (probe_amqp.go:76, 82, 88).  In
`ProcessOutput`, `buffer` is what `bufio` and the unfinished line hold together.

Abstractions.  Sleeps, delays and periods are control points; in `SharedLock`,
`HealthEndpoint` and `StatefulProbes` they are counted.  There steps that do not
sleep take no time, with these exceptions: the requests named in `Slow`, in
`SharedLock` also whatever keeps a checker between two renewals besides its sleep,
the postStart hook (30 s by default) and the other probes of the round, up to
`Slack`; in `StatefulProbes` the exec probe, up to `ExecProbeTimeout`, and the hook,
up to `HookDeadline`.  The bounds of `LapseBounded` and `HungKilled` and the premise
`Prompt` of mutual exclusion contain these times, so a hook or a slow probe that takes
longer than they allow breaks them in the code too; the probes without a timeout of
their own have no such limit.  A beat is taken as sent when its handler takes the
time, so a delay in front of the handler is not part of the silence.  How many probes of a round fail, whether a hook succeeds,
whether `/proc` can be read, whether the lock is granted, and when a process
exits are free choices.  Several idempotent calls in a row to one setter are one
step.  `CancelRoutines` and the loop of `TerminateProcess` are one step each: the
contexts and signals they reach are independent.  Pids are not reused.  The
replicas of a command are commands of their own; `NewSchedule` gives a replica no
hook, so a replica is never in `Hooked`.  What a fatal exit leaves behind is the
container runtime's business.

## Runs

| run | instance | shows |
|---|---|---|
| `WrapperSolo` | 1 command, 2 probes, threshold 2, hook, lock, SIGTERM | `TypeOK`, `OneProcess`, `NeverAbandoned`, `NoStaleRound` |
| `WrapperMemory` | 1 command with a memory limit, SIGTERM | `LateStartOnce`, `NeverAbandoned` |
| `WrapperPair` | 2 interchangeable commands, SIGINT | `WaitGroupCounts`, `CompletedMeansAllDone`, `Supervises` |
| `WrapperShutdown` | 1 command with only a hook, SIGTERM, SIGUSR, pod status | `ShutdownTerminates` |
| `WrapperReplace` | 1 command with probe, hook and memory limit | `CondemnedIsReplaced`, `OldRoutinesEnd` |
| `LockRace` | 2 pods, failing and slow requests, a hook or probe that takes a second | `LockTypeOK`, `LeaseExclusive`, `LapseBounded` |
| `LockPrompt` | 2 pods, prompt requests, TTL 5 > delay 3 + slack 1, period 2 | `MutualExclusion`, `TakenOver` |
| `Endpoints` | 1 command, 1 reader, 1 failing metadata request | `EndpointTypeOK`, `NoticedInTime`, `NotReadyOncePreempted`, `PreemptionHandled`, `WaitAnswered`, `WaitFailsOnlyLate` |
| `Probes` | each of the four probes, with and without a hook, up to 4 crashes or failures of the hook | `ProbesTypeOK`, `HistorySuffices`, `SteadyPasses`, `HungKilled`, `AmqpRecovers`, `ExecsBounded`, `Settles` |
| `Output` | a pipe of 3 pieces, 7 writes | `OutputTypeOK`, `OutputInOrder`, `ReadLinesPrinted`, `NeverBlockedForGood`, `ReaderEnds` |

Two more runs state what the documentation, or a comment, says and the code does
not keep; TLC finds the counterexample:

| run | claim | what happens |
|---|---|---|
| `DocPassedRound` | a round without failures sets the state healthy (process.go:610) | not once the hook has run: the status stays unhealthy and the failure counter is never reset |
| `LockDefaults` | the lock is a lock (README.md:48) | default TTL 2 s, first renewal after 5 s: two pods run the process |

Four further claims are stated as definitions, without a run of their own; the
models have a counterexample to each:

| definition | claim | what happens |
|---|---|---|
| `FileRemovedAfterShutdown` | the readiness file is removed after shutdown (README.md:17) | the file routine has read the statuses, the handler removes the file, the routine writes it |
| `TermBeforeKill` | SIGTERM, then the deadline, then SIGKILL (README.md:42) | a process started after the pids were read only gets the SIGKILL |
| `UnhealthyBeforeFirstRound` | unhealthy before the first round (process.go:490) | the old checker's last verdict overwrites it |
| `WaitNeverCut` | `readiness?wait` waits until all are healthy (README.md:16) | the server's write timeout ends the connection; the handler goes on and its answer is lost |

The notifier's channel holds one signal, so a SIGTERM right behind a SIGUSR1 is
dropped (`Deliver`); no document claims otherwise and no run is spent on it.

`WaitAnswered` says when who waits is answered, not that the answer is right: a
command that has not reported is not in the status map, and `Readiness` and
`Liveness` count it as healthy, so `?wait` may answer before every process has
started.  Nor does it say that the answer arrives, see `WaitNeverCut`.

Setting `SharedProbe = TRUE` and two keys in `SharedLock` shows one more way to
two running pods: the replicas of a command share one `LockProbe`
(process.go:117, 320), so one replica renews the lease of another.

Each property of a passing run has a mutant: a definition named in comments as
"Mutant of ..." that replaces a modelled operation by a plausible bug, with which
TLC finds the property violated.  Where operation and mutant differ in one value,
both are instances of one definition with that value as its parameter
(`RenewalFails`, `FailedRound`, `ReadOn`).

### Bounds

`MaxStarts` bounds the processes of a command.  The last one of them is not failed
by its environment (`MayFail`) unless a shutdown has begun, so that the bound never
looks like a deadlock.  Two processes are enough for every encounter of an old
process's goroutines with a new one, and for a second late start.  Each signal is
sent at most once; two different ones are enough to fill the channel.  `LeaseIds`
bounds the leases referred to at one time; an id is used again when nothing refers
to it.  `MaxLapse` stops the history counter just above the bound it is compared
with.  `LockRace` has a `Slack` of one second, `LockDefaults` none, which is the case
of a command without a hook.  In `LockRace` only the requests for a lease are slow: a renewal has no
timeout in the code, so a server that never answers it would let a process run on
without bound.

In `Endpoints` the write timeout falls into a pause of `?wait`, and the deadline of
`-wait` on the end of one of its sleeps, where the file may just have appeared; one
failing request shows both kinds of failure, and the bound of `NoticedInTime`
is reached.  One command is enough, since the readers see the conjunction of the
statuses only; one reader is enough for TLC, since readers do not see each other,
and the proofs are for any number of them.

`Probes` sits on the boundaries the properties name: `HeartPeriod` is exactly
`BeatEvery + 2 * MaxStall`, `FloatingPeriod` exactly `Threshold * KillCycle +
LastRound`, `Threshold` one below `FloatingPidHistory`, and as many exec commands
run at a time as `ExecsBounded` allows.  The premises of `SteadyPasses` and `Settles`
cannot be weakened: with a heartbeat period one second shorter a steady process
fails a round, with a window one second wider each kill is the reason for the next.
`MaxCrashes`, which counts the failures of the hook too, is large enough to fill the
history and to exceed the threshold.  `HookDeadline` is longer than the period, so
that a hook swallows a round.

In `Output` a line can be longer than the pipe, two lines can be read at once, and
seven pieces fill the pipe twice.

`Idle`, `Ended` and `Quiet` are the stuttering steps of a wrapper whose processes just run,
or which has ended; with them TLC's deadlock check is on in every run.

### Fairness

`FairSpec` assumes weak fairness of each goroutine's own steps: the Go scheduler
runs a goroutine that can run, `time.Sleep` ends, and `os/exec` kills a process
whose context is done.  It assumes nothing of what depends on others: that a probe
or a hook returns, that the lock is granted, that a process ends, that a signal
arrives, or that the readiness file is written.  `LockFairSpec` assumes that time
passes and that no contender stops for ever; nothing has to go wrong.

`EndpointFairSpec` and `ProbesFairSpec` have strong fairness of the tick: time
passes, since clients and checkers do finitely many things in a second, while a
tick is disabled again and again by what has to be done at once.  The other
conditions are weak, one per goroutine.  The metadata server is assumed to answer
a long poll at its timeout, or the request to fail; the client has no timeout of
its own.  Crashes, beats (unless the process is steady), outages, statuses, the
readiness file and clients are not assumed to happen.  `OutputFairSpec` assumes
that the reader and `cmd.Wait` go on, and nothing of the process.

`ShutdownTerminates` therefore holds although processes may ignore SIGTERM and
hooks may hang.  `OldRoutinesEnd` excepts goroutines stuck in a probe or a hook:
those have no deadline the code can rely on.  `CondemnedIsReplaced` excepts a
command that waits for the shared lock.

## Proofs

For all constants that satisfy the named assumptions (`MaxStartsAssumption`,
`ConfigAssumption`, `SignalsAssumption`, `HandleTerminationAssumption`,
`CommandsFinite`, `LockAssumption`, `PreemptionAssumption`, `EndpointAssumption`,
`OutputAssumption`, `ProbesAssumption`):

* `WrapperProofs` proves `TypeOK`, `OneProcess`, `LateStartOnce`,
  `NeverAbandoned` and `NoStaleRound` from one inductive invariant, `Inv`.
  `FrameInv` ties the depth of the recursion to the starts (needed for the type of
  `frames` and for counting); `RoutineInv` says that every checker is cancelled
  once `Run` has passed `cancelRoutines()`, which is what makes a stale round
  impossible; `LateInv` says a process started during a shutdown is the last one,
  because the only way back to a start is through a look at `Shutdown`;
  `AbandonInv` names the point between the two reads of one condition.  None of
  the properties is inductive without these.
* On top of it `CountInv` proves `WaitGroupCounts`: the counter is the number of
  pending calls of `Run`, plus the unit of `NewSchedule`, minus the unit main has
  yet to add (`Count`), and the wrapper has panicked exactly if that is below zero.  `CompletedMeansAllDone` follows: when the counter is zero in
  `wg.Wait` nothing is pending, so every command is done and, by `OneProcess`, no
  process runs.
* `RefinementProofs` proves `Spec => Supervises`: each action is one action of
  `Supervision` or changes none of its variables.  `Retire` needs `AbandonInv`,
  `Spawn` needs `LateInv`, `Die` needs `OneProcess`, `Complete` needs `CountInv`.
* `LockProofs` proves `LockTypeOK` and `LeaseExclusive`, for any pods, keys,
  timing and failures, shared probes included.  The invariant says that whoever
  put the key and has a lease in force is attached to the key, and that no two
  requests have the same lease.
* `LockTimeProofs` adds the time.  `LapseBounded` is proved under `OwnProbe`: each
  contender has a probe of its own, and a renewal is answered, or fails, at once.
  `TimeInv` says that the probe renews the lease that was granted, that there is no
  lapse while the lease is in force (etcd does not revive a lease, so from the loss
  on every renewal fails), and that the lapse plus the rest of the sleep is what the
  failures counted so far account for; the threshold turns that into the bound, in
  which every round may be late by `Slack`.
  `MutualExclusion` is proved under `Prompt`: besides, no request fails, the answer
  to the client is not delayed, and the TTL exceeds the delay and the period, each
  with `Slack` added.  Then
  the lease outlives each sleep of the checker (`Covered`), so whoever runs a process
  holds its lease, and `LeaseExclusive` does the rest.  Neither hypothesis can be
  dropped: `LockDefaults` is the counterexample for a TTL below the delay, and
  replicas that share a `LockProbe` break `OwnProbe`.
* `EndpointProofs` proves `NoticedInTime`, `NotReadyOncePreempted`,
  `WaitFailsOnlyLate` and `EndpointTypeOK`.  `HandshakeInv` says that poll and
  checker go through their control points together; `BudgetInv`, that the time a
  preemption has gone unnoticed plus what is left of the request or the pause
  (`TimeLeft`) stays within the bound: a failing request gives the bound what it
  takes.  `FreshInv` says that a reader that began on a marked node has not passed
  `IsPreempted`, which needs that the mark is never taken back.  `WaitInv` says that
  the rest of a sleep of `WaitReadiness` and the age of the file together are at
  most one pause; it holds because the sleep begins when there is no file.
* `ProbeProofs` proves all invariants of the stateful probes, for every delay,
  period, threshold, stall and length of the history, and any number of crashes.
  `LoopInv` has the control points that all probes share; each probe adds its own.
  `BeatInv` (`HungKilled`): every beat recorded or on its way is older than the
  silence, and the silence plus the time to the next round is what the failed rounds
  and one run of the hook account for.  `SteadyInv` (`SteadyPasses`): either the first round is so far away
  that the first beat will be there (`Early`), or the recorded beat is at most a stall
  older than the last one, or than the one before a beat on its way (`Fresh`), which
  is where the stall counts twice.  `AmqpInv` (`AmqpRecovers`, an action
  property): while the broker is there a round leaves no closed connection behind, and
  then the next one does not fail; it says nothing of the counter being reset, which
  after the hook it is not.  `ExecInv` (`ExecsBounded`): any
  two commands were started at least the delay apart, and so will the next be, also
  that of an old checker; numbers that far apart have different quotients by the
  delay, which bounds how many there are.  `StartInv` (`HistorySuffices`): the history
  is in order, and a recent start that it lacks is older than all it holds; then
  the recent entries and the recent starts are as many, or both more than the
  threshold.
* `OutputProofs` proves `OutputInOrder`, `ReadLinesPrinted` and `OutputTypeOK`, for
  every size of the pipe and number of writes.  The invariant is conservation
  (what was printed, returned, buffered, left in the pipe and thrown away is what
  was written, in this order) with what the control points say of it; that the
  first newline exists whenever `ReadString` returns comes from the naturals being
  well-founded.

Only model-checked: the liveness properties (`ShutdownTerminates`,
`CondemnedIsReplaced`, `OldRoutinesEnd`, `TakenOver`, `PreemptionHandled`,
`WaitAnswered`, `Settles`, `NeverBlockedForGood`, `ReaderEnds`), which are out of
the prover's reach: they need fairness and ENABLED.  Every invariant and the
refinement are proved.

## Not modelled

* The HTTP, TCP, file, environment, MySQL and Postgres probes: one request or one
  look each, without state of the program's own; their outcome is a free choice in
  `HealthChecker`.
* `/pidof`, `/pids`, `/status`, `GET /heartbeat` and `/prommerge`, which copy a map
  once and format it.
* What `MergeEnvs` and `ConvertEnvs` compute (that `MergeEnvs` ends the wrapper when
  the EnvsFile cannot be opened is part of `StartFails`), the configuration, the metrics, and the columns of
  `/proc/<pid>/stat`: parsing and formatting that shares no state with the rest.
* A `METADATA_URL` that no request can be built for: `WaitPreemptionState` would try
  again at once and for ever (health.go:280-283).
* Requests that are accepted and never answered: the lease, lock probe, metadata and
  HTTP probe clients have no timeout, and nothing can be promised then.
* The unlocked accesses of two goroutines to one value (the pod status of two
  controllers, the AMQP connection of replicas that share a probe).

## Plan

1. Done: the state, the command runner, the watchers, the signals, their
   composition and its abstraction; the shared lock; the preemption and the readers
   of the state; the stateful probes; the output; the proofs of every invariant.
2. The safety half of the liveness properties as theorems: what can no longer happen
   once a shutdown has begun, or once the crashes have ended (for `Settles`: a kill
   of the floatingPid probe needs more than `Threshold` starts within its window).
3. Replicas of locked commands (`SharedProbe`) with a property of their own; the
   truncation of the TTL to seconds.
