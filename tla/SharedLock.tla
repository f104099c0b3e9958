----------------------------- MODULE SharedLock -----------------------------
(***************************************************************************)
(* The shared lock: pods that run the same commands, the lock server       *)
(* (pkg/lease) they ask for a lease on the command's key, etcd behind it,  *)
(* and the probe that keeps the lease alive (pkg/process/probe_lock.go).   *)
(*                                                                         *)
(* Time is discrete and counted in seconds.  A contender <<pod, key>> is   *)
(* one command of one pod; the others of its key wait while it runs.  A    *)
(* lease that nobody refers to any more gives its id back.                 *)
(*                                                                         *)
(* The command may have other probes, which come before the lock in every  *)
(* round, and a postStart hook, which runs once after a round has passed.  *)
(* They take time, and that is all they do here: the other probes pass, and*)
(* a hook that fails is a crash of the process.                            *)
(***************************************************************************)
EXTENDS Naturals

CONSTANTS
  Pods, Keys,
  LeaseIds,           \* bound: leases that are referred to at one time
  TTL,                \* lock.ttlDuration, also the pause between two requests
  Delay, Period,      \* readiness delay and period
  Slack,              \* how long hook and other probes keep a checker between two renewals
  FailureThreshold,   \* failed renewals that condemn the process
  SharedProbe,        \* do the commands of a pod share one LockProbe, as replicas do?
  RpcFails,           \* may a request to the server or to etcd fail?
  Slow                \* control points at which the answer to a request may take time

KillDelay == 2      \* ProbeRunner sleeps between cancelRoutines and SIGKILL
Backoff == 1        \* Run sleeps before it starts the command again

ASSUME LockAssumption ==
  /\ LeaseIds \subseteq Nat \ {0}
  /\ {TTL, Delay, Period, FailureThreshold} \subseteq Nat \ {0}
  /\ Slack \in Nat
  /\ {SharedProbe, RpcFails} \subseteq BOOLEAN
  /\ Slow \subseteq {"get", "grant", "txn", "keep", "reply", "run"}

Contenders == Pods \X Keys
Key(i) == i[2]
NoLease == 0

\* The LockProbe object a contender stores its lease in: NewSchedule hands every
\* replica of a command the same Readiness.
Probe(i) == IF SharedProbe THEN i[1] ELSE i
Probes == {Probe(i) : i \in Contenders}

VARIABLES
  ttl,         \* etcd: seconds each lease has left, 0 when it does not exist
  keyLease,    \* etcd: the lease each key is attached to
  pc,          \* control point of each contender, the server's handler included
  timer,       \* seconds left of the contender's current sleep
  granted,     \* the lease of the contender's request under way
  probeLease,  \* LockProbe.Lease
  fails,       \* ProbeRunner's failureThreshold counter
  lapse        \* history: seconds the process has run without a lease on its key

etcdVars == <<ttl, keyLease>>
clientVars == <<pc, timer, granted, probeLease, fails, lapse>>
lockVars == <<etcdVars, clientVars>>

Pc == {"get", "grant", "txn", "keep", "reply", "wait", "run", "condemned", "backoff"}
Running(i) == pc[i] \in {"run", "condemned"}

\* What may have gone by, at most, between the loss of a lease and SIGKILL.
FirstRenewal == (IF Delay > Period THEN Delay ELSE Period) + Slack
LapseBound == FirstRenewal + (FailureThreshold - 1) * (Period + Slack) + KillDelay

\* The lapse counter is not followed beyond the bound it is compared with.
MaxLapse == LapseBound + 1
MaxTimer == FirstRenewal + TTL + KillDelay

LockTypeOK ==
  /\ ttl \in [LeaseIds -> 0..TTL]
  /\ keyLease \in [Keys -> LeaseIds \cup {NoLease}]
  /\ pc \in [Contenders -> Pc]
  /\ timer \in [Contenders -> 0..MaxTimer]
  /\ granted \in [Contenders -> LeaseIds \cup {NoLease}]
  /\ probeLease \in [Probes -> LeaseIds \cup {NoLease}]
  /\ fails \in [Contenders -> 0..FailureThreshold]
  /\ lapse \in [Contenders -> 0..MaxLapse]

LockInit ==
  /\ ttl = [l \in LeaseIds |-> 0]
  /\ keyLease = [k \in Keys |-> NoLease]
  /\ pc = [i \in Contenders |-> "get"]
  /\ timer = [i \in Contenders |-> 0]
  /\ granted = [i \in Contenders |-> NoLease]
  /\ probeLease = [o \in Probes |-> NoLease]
  /\ fails = [i \in Contenders |-> 0]
  /\ lapse = [i \in Contenders |-> 0]

\* Contender i leaves a control point and sleeps for s seconds at the next.
Goes(i, from, to, s) ==
  /\ pc[i] = from
  /\ timer[i] = 0
  /\ pc' = [pc EXCEPT ![i] = to]
  /\ timer' = [timer EXCEPT ![i] = s]

\* ProbeRunner of contender i sleeps, and the rest of the round may take time too.
NextRound(i, from, sleep) == \E s \in 0..Slack : Goes(i, from, "run", sleep + s)
-----------------------------------------------------------------------------
(* etcd. *)

Alive(l) == l # NoLease /\ ttl[l] > 0

\* An id no lease, key, request or probe uses.
Unused(l) ==
  /\ ~Alive(l)
  /\ l \notin {granted[i] : i \in Contenders} \cup {probeLease[o] : o \in Probes}

\* Mutant of Tick: a key outlives its lease.
TickKeepsKeys ==
  /\ \A i \in Contenders : timer[i] > 0 \/ pc[i] \in Slow
  /\ ttl' = [l \in LeaseIds |-> IF ttl[l] > 0 THEN ttl[l] - 1 ELSE 0]
  /\ timer' = [i \in Contenders |-> IF timer[i] > 0 THEN timer[i] - 1 ELSE 0]
  /\ UNCHANGED <<keyLease, pc, granted, probeLease, fails, lapse>>

\* One second passes: leases that run out are revoked with their key.  Nobody
\* oversleeps, and only a slow request is under way meanwhile.
Tick ==
  /\ \A i \in Contenders : timer[i] > 0 \/ pc[i] \in Slow
  /\ ttl' = [l \in LeaseIds |-> IF ttl[l] > 0 THEN ttl[l] - 1 ELSE 0]
  /\ keyLease' = [k \in Keys |->
       IF keyLease[k] # NoLease /\ ttl[keyLease[k]] > 1 THEN keyLease[k] ELSE NoLease]
  /\ timer' = [i \in Contenders |-> IF timer[i] > 0 THEN timer[i] - 1 ELSE 0]
  /\ lapse' = [i \in Contenders |->
       IF Running(i) /\ ~(granted[i] # NoLease /\ keyLease'[Key(i)] = granted[i])
       THEN IF lapse[i] < MaxLapse THEN lapse[i] + 1 ELSE MaxLapse
       ELSE lapse[i]]
  /\ UNCHANGED <<pc, granted, probeLease, fails>>
-----------------------------------------------------------------------------
(* AcquireSharedLock, and GetLease in the server it asks. *)

\* Get: an existing key turns the request down.
GetLeaseHeld(i) ==
  /\ keyLease[Key(i)] # NoLease
  /\ Goes(i, "get", "wait", TTL)
  /\ UNCHANGED <<etcdVars, granted, probeLease, fails, lapse>>

GetLeaseFree(i) ==
  /\ keyLease[Key(i)] = NoLease
  /\ Goes(i, "get", "grant", 0)
  /\ UNCHANGED <<etcdVars, granted, probeLease, fails, lapse>>

Grant(i) ==
  /\ Goes(i, "grant", "txn", 0)
  /\ \E l \in LeaseIds :
       /\ Unused(l)
       /\ granted' = [granted EXCEPT ![i] = l]
       /\ ttl' = [ttl EXCEPT ![l] = TTL]
  /\ UNCHANGED <<keyLease, probeLease, fails, lapse>>

\* OpPut with the lease; one that has expired in the meantime fails it.
TxnPuts(i) ==
  /\ Alive(granted[i])
  /\ Goes(i, "txn", "keep", 0)
  /\ keyLease' = [keyLease EXCEPT ![Key(i)] = granted[i]]
  /\ UNCHANGED <<ttl, granted, probeLease, fails, lapse>>

\* Mutant of TxnSucceeds: the key is put without the comparison.
TxnSucceedsBlindly(i) == TxnPuts(i)

\* The transaction puts the key if its create revision is still 0.
TxnSucceeds(i) == keyLease[Key(i)] = NoLease /\ TxnPuts(i)

\* "Lease race", or an error of etcd: the request is turned down.
TxnLoses(i) ==
  /\ keyLease[Key(i)] # NoLease \/ ~Alive(granted[i])
  /\ Goes(i, "txn", "wait", TTL)
  /\ granted' = [granted EXCEPT ![i] = NoLease]
  /\ UNCHANGED <<etcdVars, probeLease, fails, lapse>>

KeepLeaseOnce(i) ==
  /\ Alive(granted[i])
  /\ Goes(i, "keep", "reply", 0)
  /\ ttl' = [ttl EXCEPT ![granted[i]] = TTL]
  /\ UNCHANGED <<keyLease, granted, probeLease, fails, lapse>>

KeepLeaseExpired(i) ==
  /\ ~Alive(granted[i])
  /\ Goes(i, "keep", "wait", TTL)
  /\ granted' = [granted EXCEPT ![i] = NoLease]
  /\ UNCHANGED <<etcdVars, probeLease, fails, lapse>>

\* A step of the request fails, or its answer is lost: the client asks again
\* after its pause.  A key that was put stays until its lease runs out.
AcquireFails(i) ==
  /\ RpcFails
  /\ \E at \in {"get", "grant", "txn", "keep", "reply"} : Goes(i, at, "wait", TTL)
  /\ granted' = [granted EXCEPT ![i] = NoLease]
  /\ UNCHANGED <<etcdVars, probeLease, fails, lapse>>

AskAgain(i) ==
  /\ Goes(i, "wait", "get", 0)
  /\ UNCHANGED <<etcdVars, granted, probeLease, fails, lapse>>

\* The lease is stored in the probe and the process started.
Acquired(i) ==
  /\ NextRound(i, "reply", Delay)
  /\ probeLease' = [probeLease EXCEPT ![Probe(i)] = granted[i]]
  /\ fails' = [fails EXCEPT ![i] = 0]
  /\ lapse' = [lapse EXCEPT ![i] = 0]
  /\ UNCHANGED <<etcdVars, granted>>
-----------------------------------------------------------------------------
(* LockProbe.Run in the rounds of ProbeRunner, and the end of the process. *)

\* /keepalive renews the lease the probe holds.
Renewed(i) ==
  /\ Alive(probeLease[Probe(i)])
  /\ ttl' = [ttl EXCEPT ![probeLease[Probe(i)]] = TTL]

\* The round passes.  The counter restarts, and stays as it is once a hook has run.
RenewalPasses(i) ==
  /\ NextRound(i, "run", Period)
  /\ \E n \in {0, fails[i]} : fails' = [fails EXCEPT ![i] = n]
  /\ UNCHANGED <<keyLease, granted, probeLease, lapse>>

\* Mutant of RenewLease: the probe looks at the lease and does not renew it.
RenewLeaseLooksOnly(i) ==
  Alive(probeLease[Probe(i)]) /\ UNCHANGED ttl /\ RenewalPasses(i)

RenewLease(i) == Renewed(i) /\ RenewalPasses(i)

\* The lease has expired, or the request or its answer is lost; at the threshold
\* the process is condemned.
RenewalFails(i, threshold) ==
  /\ \/ ~Alive(probeLease[Probe(i)]) /\ UNCHANGED ttl
     \/ RpcFails /\ UNCHANGED ttl
     \/ RpcFails /\ Renewed(i)
  /\ fails' = [fails EXCEPT ![i] = @ + 1]
  /\ \/ fails[i] + 1 < threshold /\ NextRound(i, "run", Period)
     \/ fails[i] + 1 >= threshold /\ Goes(i, "run", "condemned", KillDelay)
  /\ UNCHANGED <<keyLease, granted, probeLease, lapse>>

\* Mutants of RenewFails: one failure too many is tolerated; a request that fails
\* counts as passed.
RenewFailsOffByOne(i) == RenewalFails(i, FailureThreshold + 1)
RenewFailsUncounted(i) ==
  (~Alive(probeLease[Probe(i)]) \/ RpcFails) /\ UNCHANGED ttl /\ RenewalPasses(i)

RenewFails(i) == RenewalFails(i, FailureThreshold)

\* SIGKILL; Run starts over after its pause.  The lease is not given back.
KillProcess(i) ==
  /\ Goes(i, "condemned", "backoff", Backoff)
  /\ granted' = [granted EXCEPT ![i] = NoLease]
  /\ UNCHANGED <<etcdVars, probeLease, fails, lapse>>

\* The process ends by itself, at any moment of a sleep of its checker.
Crash(i) ==
  /\ Running(i)
  /\ pc' = [pc EXCEPT ![i] = "backoff"]
  /\ timer' = [timer EXCEPT ![i] = Backoff]
  /\ granted' = [granted EXCEPT ![i] = NoLease]
  /\ UNCHANGED <<etcdVars, probeLease, fails, lapse>>

\* Run cancels the checker of a crashed process only after its pause: until
\* then the checker may renew the lease once more.
RenewAfterCrash(i) ==
  /\ pc[i] = "backoff"
  /\ fails[i] < FailureThreshold
  /\ Renewed(i)
  /\ UNCHANGED <<keyLease, clientVars>>

RunAgain(i) ==
  /\ Goes(i, "backoff", "get", 0)
  /\ UNCHANGED <<etcdVars, granted, probeLease, fails, lapse>>

\* What a contender does by itself, and what may befall it.
Contend(i) ==
  \/ GetLeaseHeld(i) \/ GetLeaseFree(i) \/ Grant(i) \/ TxnSucceeds(i) \/ TxnLoses(i)
  \/ KeepLeaseOnce(i) \/ KeepLeaseExpired(i) \/ AskAgain(i) \/ Acquired(i)
  \/ RenewLease(i) \/ RenewFails(i) \/ KillProcess(i) \/ RunAgain(i)

Mishap(i) == AcquireFails(i) \/ Crash(i) \/ RenewAfterCrash(i)

LockNext == Tick \/ \E i \in Contenders : Contend(i) \/ Mishap(i)

LockSpec == LockInit /\ [][LockNext]_lockVars

\* Time passes and no contender stops; nothing has to go wrong.
LockFairSpec ==
  LockSpec /\ WF_lockVars(Tick) /\ \A i \in Contenders : WF_lockVars(Contend(i))
-----------------------------------------------------------------------------
(* Properties. *)

\* The contender's request put the key, and the lease it got is in force.
Holds(i) == pc[i] \in {"keep", "reply", "run", "condemned"} /\ Alive(granted[i])

\* However requests for a key interleave, fail or take their time, at most one
\* contender holds a lease in force on it (lock.go, GetLease: Get, Grant and Txn
\* are separate calls, and only the transaction decides).
LeaseExclusive ==
  \A i, j \in Contenders : Key(i) = Key(j) /\ Holds(i) /\ Holds(j) => i = j

\* At most one pod runs the process of a key.
MutualExclusion ==
  \A i, j \in Contenders : Key(i) = Key(j) /\ Running(i) /\ Running(j) => i = j

\* A process outlives the lease of its key by the time its checker needs to
\* notice and to kill it, and not longer, whatever hook and other probes take up of
\* that time (process.go:581-591, 620).
LapseBounded == \A i \in Contenders : lapse[i] <= LapseBound

\* A key that nobody runs a process for is taken over, also when its holder
\* died with the lease in force (process.go:305-328, lease/lock/lock.go:90-113).
TakenOver ==
  \A k \in Keys :
    (\A i \in Contenders : Key(i) = k => ~Running(i))
      ~> \E i \in Contenders : Key(i) = k /\ Running(i)
=============================================================================
