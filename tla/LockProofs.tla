----------------------------- MODULE LockProofs -----------------------------
(***************************************************************************)
(* Proofs about the shared lock, for any pods, keys, leases and timing.    *)
(*                                                                         *)
(* LeaseExclusive is not inductive: it needs that a lease in force is the  *)
(* one its key is attached to, and that no two requests have one lease.    *)
(***************************************************************************)
EXTENDS SharedLock, TLAPS

\* Control points behind the transaction that put the key.
Committed == {"keep", "reply", "run", "condemned"}

\* The failure counter is below the threshold while it is being counted.
CountingInv == \A i \in Contenders : pc[i] = "run" => fails[i] < FailureThreshold

\* etcd never hands out a lease somebody still refers to.
DistinctLeases ==
  \A i, j \in Contenders : granted[i] = granted[j] /\ granted[i] # NoLease => i = j

\* Whoever put the key and whose lease is in force has the key.
Attached ==
  \A i \in Contenders :
    pc[i] \in Committed /\ Alive(granted[i]) => keyLease[Key(i)] = granted[i]

\* The inductive invariant.
LockInv == LockTypeOK /\ CountingInv /\ DistinctLeases /\ Attached

\* The sums and the product of the delays that bound the counters are numbers.
LEMMA Bounds ==
  /\ TTL \in Nat \ {0} /\ Delay \in Nat \ {0} /\ Period \in Nat \ {0}
  /\ FailureThreshold \in Nat \ {0} /\ Slack \in Nat
  /\ FirstRenewal \in Nat /\ Delay + Slack <= FirstRenewal /\ Period + Slack <= FirstRenewal
  /\ FirstRenewal <= MaxTimer /\ LapseBound \in Nat /\ MaxLapse \in Nat \ {0}
  /\ MaxTimer \in Nat /\ TTL <= MaxTimer /\ Delay <= MaxTimer /\ Period <= MaxTimer
  /\ KillDelay \in Nat /\ Backoff \in Nat /\ KillDelay <= MaxTimer /\ Backoff <= MaxTimer
  <1>1. /\ TTL \in Nat \ {0} /\ Delay \in Nat \ {0} /\ Period \in Nat \ {0}
        /\ FailureThreshold \in Nat \ {0} /\ Slack \in Nat
    BY LockAssumption
  <1>2. /\ FirstRenewal \in Nat
        /\ Delay + Slack <= FirstRenewal /\ Period + Slack <= FirstRenewal
    BY <1>1 DEF FirstRenewal
  <1>3. LapseBound \in Nat /\ MaxLapse \in Nat \ {0}
    <2>1. (FailureThreshold - 1) * (Period + Slack) \in Nat
      <3>1. FailureThreshold - 1 \in Nat /\ Period + Slack \in Nat
        BY <1>1
      <3> QED
        BY <1>1, <3>1
    <2> QED
      BY <1>2, <2>1 DEF LapseBound, MaxLapse, KillDelay
  <1> QED
    BY <1>1, <1>2, <1>3 DEF MaxTimer, KillDelay, Backoff

\* A contender has a key and a probe.
LEMMA HasKey == \A i \in Contenders : Key(i) \in Keys /\ Probe(i) \in Probes
  BY DEF Contenders, Key, Probes

\* The lock starts with the invariant.
LEMMA LockInitInv == LockInit => LockInv
  <1> SUFFICES ASSUME LockInit PROVE LockInv
    OBVIOUS
  <1>1. LockTypeOK
    BY Bounds DEF LockInit, LockTypeOK, Pc
  <1>2. CountingInv /\ DistinctLeases /\ Attached
    BY DEF LockInit, CountingInv, DistinctLeases, Attached, Committed
  <1> QED
    BY <1>1, <1>2 DEF LockInv

\* A round comes after the sleep, and at most Slack later.
LEMMA RoundComes ==
  ASSUME NEW i \in Contenders, NEW from, NEW sleep \in {Delay, Period}, NextRound(i, from, sleep)
  PROVE  \E n \in 0..MaxTimer :
           sleep <= n /\ n <= sleep + Slack /\ n <= FirstRenewal /\ Goes(i, from, "run", n)
  <1>1. PICK s \in 0..Slack : Goes(i, from, "run", sleep + s)
    BY DEF NextRound
  <1>2. /\ sleep + s \in 0..MaxTimer /\ sleep <= sleep + s
        /\ sleep + s <= sleep + Slack /\ sleep + s <= FirstRenewal
    BY Bounds
  <1> QED
    BY <1>1, <1>2

USE DEF LockInv, LockTypeOK, CountingInv, DistinctLeases, Attached, Committed,
        Alive, NoLease, Goes, etcdVars, clientVars

\* A second passing preserves the invariant: a lease runs out with its key.
LEMMA TickInv == ASSUME LockInv, Tick PROVE LockInv'
  <1>1. /\ ttl' \in [LeaseIds -> 0..TTL]
        /\ keyLease' \in [Keys -> LeaseIds \cup {NoLease}]
        /\ timer' \in [Contenders -> 0..MaxTimer]
    BY Bounds DEF Tick
  <1>2. lapse' \in [Contenders -> 0..MaxLapse]
    BY Bounds DEF Tick
  <1>3. Attached'
    <2> SUFFICES ASSUME NEW i \in Contenders, pc[i] \in Committed, Alive(granted[i])'
                 PROVE  keyLease'[Key(i)] = granted[i]
      BY DEF Tick
    <2>1. granted[i] \in LeaseIds /\ granted[i] # NoLease /\ ttl[granted[i]] > 1
      BY Bounds DEF Tick
    <2>2. ttl[granted[i]] \in Nat
      BY <2>1, Bounds
    <2>3. Alive(granted[i])
      BY ONLY <2>1, <2>2 DEF Alive
    <2>4. keyLease[Key(i)] = granted[i]
      BY <2>3
    <2> QED
      BY <2>1, <2>4, HasKey DEF Tick
  <1> QED
    BY <1>1, <1>2, <1>3 DEF Tick

\* So does each step of a request for a lease (process.go:284-330, lock.go:90-152).
LEMMA AcquireInv ==
  ASSUME LockInv, NEW i \in Contenders,
         \/ GetLeaseHeld(i) \/ GetLeaseFree(i) \/ Grant(i) \/ TxnSucceeds(i) \/ TxnLoses(i)
         \/ KeepLeaseOnce(i) \/ KeepLeaseExpired(i) \/ AskAgain(i) \/ Acquired(i)
         \/ AcquireFails(i)
  PROVE  LockInv'
  <1> USE Bounds, HasKey DEF Pc
  <1>1. CASE GetLeaseHeld(i) \/ GetLeaseFree(i) \/ AskAgain(i)
    BY <1>1 DEF GetLeaseHeld, GetLeaseFree, AskAgain
  <1>2. CASE Grant(i)
    BY <1>2 DEF Grant, Unused
  <1>3. CASE TxnSucceeds(i)
    BY <1>3 DEF TxnSucceeds, TxnPuts
  <1>4. CASE TxnLoses(i) \/ KeepLeaseExpired(i) \/ AcquireFails(i)
    BY <1>4 DEF TxnLoses, KeepLeaseExpired, AcquireFails
  <1>5. CASE KeepLeaseOnce(i)
    BY <1>5 DEF KeepLeaseOnce
  <1>6. CASE Acquired(i)
    <2>1. PICK n \in 0..MaxTimer : Goes(i, "reply", "run", n)
      BY <1>6, RoundComes DEF Acquired
    <2> QED
      BY <1>6, <2>1 DEF Acquired
  <1> QED
    BY <1>1, <1>2, <1>3, <1>4, <1>5, <1>6

\* So does each renewal, and each way the process ends (process.go:581-599).
LEMMA HoldInv ==
  ASSUME LockInv, NEW i \in Contenders,
         \/ RenewLease(i) \/ RenewFails(i) \/ KillProcess(i) \/ RunAgain(i)
         \/ Crash(i) \/ RenewAfterCrash(i)
  PROVE  LockInv'
  <1> USE Bounds, HasKey DEF Pc, Running, Renewed
  <1>1. CASE RenewLease(i)
    <2>1. PICK n \in 0..MaxTimer : Goes(i, "run", "run", n)
      BY <1>1, RoundComes DEF RenewLease, RenewalPasses
    <2>2. PICK m \in {0, fails[i]} : fails' = [fails EXCEPT ![i] = m]
      BY <1>1 DEF RenewLease, RenewalPasses
    <2> QED
      BY <1>1, <2>1, <2>2 DEF RenewLease, RenewalPasses
  <1>2. CASE RenewFails(i)
    <2>0. \/ fails[i] + 1 < FailureThreshold /\ \E n \in 0..MaxTimer : Goes(i, "run", "run", n)
          \/ fails[i] + 1 >= FailureThreshold /\ Goes(i, "run", "condemned", KillDelay)
      BY <1>2, RoundComes DEF RenewFails, RenewalFails
    <2>1. \A l \in LeaseIds : Alive(l)' <=> Alive(l)
      BY <1>2 DEF RenewFails, RenewalFails
    <2>2. fails' \in [Contenders -> 0..FailureThreshold] /\ CountingInv'
      BY <1>2, <2>0 DEF RenewFails, RenewalFails
    <2>3. /\ timer' \in [Contenders -> 0..MaxTimer] /\ pc' \in [Contenders -> Pc]
          /\ \A j \in Contenders : pc'[j] \in Committed => pc[j] \in Committed
      BY <2>0
    <2>4. ttl' \in [LeaseIds -> 0..TTL] /\ UNCHANGED <<keyLease, granted, probeLease, lapse>>
      BY <1>2 DEF RenewFails, RenewalFails
    <2>5. Attached'
      BY <2>1, <2>3, <2>4
    <2> QED
      BY <2>2, <2>3, <2>4, <2>5
  <1>3. CASE KillProcess(i)
    BY <1>3 DEF KillProcess
  <1>4. CASE RunAgain(i)
    BY <1>4 DEF RunAgain
  <1>5. CASE Crash(i)
    BY <1>5 DEF Crash
  <1>6. CASE RenewAfterCrash(i)
    BY <1>6 DEF RenewAfterCrash
  <1> QED
    BY <1>1, <1>2, <1>3, <1>4, <1>5, <1>6

\* Every step of the lock preserves the invariant.
LEMMA LockStep == ASSUME LockInv, [LockNext]_lockVars PROVE LockInv'
  <1>1. CASE UNCHANGED lockVars
    BY <1>1 DEF lockVars
  <1>2. CASE LockNext
    BY <1>2, TickInv, AcquireInv, HoldInv DEF LockNext, Contend, Mishap
  <1> QED
    BY <1>1, <1>2

\* The invariant holds in every reachable state of the lock.
THEOREM LockInvariance == LockSpec => []LockInv
  BY LockInitInv, LockStep, PTL DEF LockSpec

\* Every variable of the lock keeps its type; the failures counted reach the
\* threshold and never pass it (process.go:579-581).
THEOREM LockTypeCorrect == LockSpec => []LockTypeOK
  <1>1. LockInv => LockTypeOK
    BY DEF LockInv
  <1> QED
    BY LockInvariance, <1>1, PTL

\* Two leases in force on one key are one, and have one owner.
LEMMA LockExclusion == LockInv => LeaseExclusive
  BY DEF LeaseExclusive, Holds

\* At most one contender holds a lease in force on a key, however the three
\* calls of GetLease interleave, fail or are delayed (lock.go:103-129).
THEOREM LeaseIsExclusive == LockSpec => []LeaseExclusive
  BY LockInvariance, LockExclusion, PTL
=============================================================================
