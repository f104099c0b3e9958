--------------------------- MODULE LockTimeProofs ---------------------------
(***************************************************************************)
(* Proofs about the time of the shared lock: how long a process outlives   *)
(* its lease, and when a lease keeps the other pods out.                   *)
(*                                                                         *)
(* Both need that a renewal is answered at once, and that each contender   *)
(* has a probe of its own: a renewal that is never answered, or renews     *)
(* the lease of another replica, lets the process run on without bound.    *)
(***************************************************************************)
EXTENDS LockProofs

\* Each contender renews its own lease, and is answered at once.
OwnProbe == ~SharedProbe /\ "run" \notin Slow

\* No request fails, the answer to the client is not delayed, and a lease lasts
\* beyond the next renewal, however long the hook or another probe takes.
Prompt ==
  /\ OwnProbe /\ ~RpcFails /\ "reply" \notin Slow
  /\ TTL > Delay + Slack /\ TTL > Period + Slack

\* When the last round after n failures is over, at the latest.
RoundsEnd(n) == FirstRenewal + n * (Period + Slack)

\* Whoever has a lease to renew renews the one it was granted.
OwnLease(i) ==
  /\ pc[i] \in {"txn", "keep", "reply", "run", "condemned"} => granted[i] \in LeaseIds
  /\ pc[i] \in {"run", "condemned"} => probeLease[Probe(i)] = granted[i]

\* A process has run without its lease no longer than its checker, which fails
\* ever since, has had to count.
LapseInv(i) ==
  /\ pc[i] \in {"run", "condemned"} /\ Alive(granted[i]) => lapse[i] = 0
  /\ pc[i] = "run" => lapse[i] + timer[i] <= RoundsEnd(fails[i])
  /\ pc[i] = "condemned" => lapse[i] + timer[i] <= LapseBound
  /\ lapse[i] <= LapseBound

TimeInv == LockInv /\ \A i \in Contenders : OwnLease(i) /\ LapseInv(i)

-----------------------------------------------------------------------------
\* Each failed round takes one period, and the threshold ends them.
LEMMA RoundsAddUp ==
  ASSUME NEW n \in Nat
  PROVE  /\ RoundsEnd(n) \in Nat
         /\ RoundsEnd(n) >= FirstRenewal
         /\ RoundsEnd(n + 1) = RoundsEnd(n) + Period + Slack
         /\ n < FailureThreshold => RoundsEnd(n) + KillDelay <= LapseBound
<1> DEFINE turn == Period + Slack
<1>1. FirstRenewal \in Nat /\ turn \in Nat /\ FailureThreshold \in Nat \ {0}
  BY Bounds
<1>2. turn = Period + Slack
  OBVIOUS
<1> HIDE DEF turn
<1>3. n * turn \in Nat /\ (n + 1) * turn = n * turn + turn
  BY <1>1
<1>4. ASSUME n < FailureThreshold
      PROVE  n * turn <= (FailureThreshold - 1) * turn
  <2> DEFINE d == FailureThreshold - 1 - n
  <2>1. d \in Nat /\ FailureThreshold - 1 = n + d
    BY <1>1, <1>4
  <2> HIDE DEF d
  <2>2. (n + d) * turn = n * turn + d * turn /\ d * turn \in Nat
    BY <1>1, <2>1
  <2> QED
    BY <1>3, <2>1, <2>2
<1>5. (FailureThreshold - 1) * turn \in Nat
  BY <1>1
<1>6. /\ RoundsEnd(n) = FirstRenewal + n * turn
      /\ RoundsEnd(n + 1) = FirstRenewal + (n + 1) * turn
      /\ LapseBound = FirstRenewal + (FailureThreshold - 1) * turn + KillDelay
  BY <1>2 DEF RoundsEnd, LapseBound
<1> QED
  BY <1>1, <1>2, <1>3, <1>4, <1>5, <1>6, Bounds DEF KillDelay

\* Nobody has a lease when the pods start.
LEMMA TimeStarts == LockInit => TimeInv
<1> SUFFICES ASSUME LockInit PROVE TimeInv
  OBVIOUS
<1>1. \A i \in Contenders : OwnLease(i) /\ LapseInv(i)
  BY Bounds DEF LockInit, OwnLease, LapseInv
<1> QED
  BY <1>1, LockInitInv DEF TimeInv

\* The facts a step needs of one contender.
LEMMA ContenderFacts ==
  ASSUME LockInv, NEW i \in Contenders
  PROVE  /\ lapse[i] \in Nat /\ timer[i] \in Nat /\ fails[i] \in 0..FailureThreshold
         /\ granted[i] \in LeaseIds \cup {NoLease} /\ pc[i] \in Pc
         /\ pc[i] = "run" => fails[i] < FailureThreshold
         /\ \A l \in LeaseIds : l # NoLease /\ ttl[l] \in Nat
BY Bounds, LockAssumption DEF LockInv, LockTypeOK, CountingInv, NoLease

\* A second passing: the lapse grows while the timer runs down.
LEMMA LapseTick ==
  ASSUME OwnProbe, TimeInv, Tick, NEW i \in Contenders
  PROVE  LapseInv(i)'
<1> USE ContenderFacts, Bounds DEF TimeInv
<1>1. lapse'[i] <= lapse[i] + 1 /\ lapse'[i] \in Nat
  BY DEF Tick
<1>2. CASE pc[i] \in {"run", "condemned"}
  <2>1. timer[i] > 0 /\ timer'[i] = timer[i] - 1
    BY <1>2, LockAssumption DEF Tick, OwnProbe, LockInv, LockTypeOK
  <2>2. lapse'[i] + timer'[i] <= lapse[i] + timer[i] /\ timer'[i] \in Nat
    BY <1>1, <2>1
  <2>3. ASSUME Alive(granted[i])' PROVE lapse'[i] = 0
    <3>1. granted[i] \in LeaseIds /\ ttl[granted[i]] > 1
      BY <1>2, <2>3 DEF Tick, Alive, OwnLease
    <3>2. Alive(granted[i])
      BY <3>1 DEF Alive
    <3>3. keyLease[Key(i)] = granted[i] /\ lapse[i] = 0
      BY <1>2, <3>2 DEF LockInv, Attached, Committed, LapseInv
    <3>4. keyLease'[Key(i)] = granted[i]
      BY <3>1, <3>3, HasKey DEF Tick
    <3> QED
      BY <3>1, <3>3, <3>4 DEF Tick
  <2>4. /\ pc[i] = "run" => lapse'[i] + timer'[i] <= RoundsEnd(fails[i])
        /\ pc[i] = "condemned" => lapse'[i] + timer'[i] <= LapseBound
    BY <1>1, <2>2, RoundsAddUp DEF LapseInv
  <2>5. lapse'[i] <= LapseBound
    BY <1>1, <1>2, <2>2, <2>4, RoundsAddUp DEF KillDelay
  <2>6. UNCHANGED <<pc, granted, fails>>
    BY DEF Tick
  <2> QED
    BY <2>3, <2>4, <2>5, <2>6 DEF LapseInv, RoundsEnd, LapseBound
<1>3. CASE pc[i] \notin {"run", "condemned"}
  BY <1>3 DEF Tick, LapseInv, Running
<1> QED
  BY <1>2, <1>3

\* The leases: a lease is granted before the transaction, and stored in the
\* contender's own probe.
LEMMA OwnLeaseStep ==
  ASSUME OwnProbe, TimeInv, [LockNext]_lockVars, NEW j \in Contenders
  PROVE  OwnLease(j)'
<1> USE ContenderFacts DEF TimeInv, OwnLease, OwnProbe
<1>1. CASE Tick
  BY <1>1 DEF Tick
<1>2. CASE UNCHANGED lockVars
  BY <1>2 DEF lockVars, clientVars
<1>3. ASSUME NEW i \in Contenders, Contend(i) \/ Mishap(i)
      PROVE  OwnLease(j)'
  <2> USE <1>3 DEF LockInv, LockTypeOK, Goes, NoLease
  <2>1. CASE GetLeaseHeld(i) \/ GetLeaseFree(i) \/ AskAgain(i) \/ RunAgain(i)
    BY <2>1 DEF GetLeaseHeld, GetLeaseFree, AskAgain, RunAgain
  <2>2. CASE Grant(i)
    BY <2>2 DEF Grant
  <2>3. CASE TxnSucceeds(i) \/ KeepLeaseOnce(i)
    BY <2>3 DEF TxnSucceeds, TxnPuts, KeepLeaseOnce
  <2>4. CASE TxnLoses(i) \/ KeepLeaseExpired(i) \/ AcquireFails(i)
    BY <2>4 DEF TxnLoses, KeepLeaseExpired, AcquireFails
  <2>5. CASE Acquired(i)
    BY <2>5, HasKey DEF Acquired, NextRound, Probe
  <2>6. CASE RenewLease(i) \/ RenewFails(i)
    <3>1. /\ pc[i] = "run" /\ UNCHANGED <<granted, probeLease>>
          /\ pc' \in {[pc EXCEPT ![i] = "run"], [pc EXCEPT ![i] = "condemned"]}
      BY <2>6 DEF RenewLease, RenewalPasses, RenewFails, RenewalFails, NextRound
    <3> QED
      BY <3>1
  <2>7. CASE KillProcess(i) \/ Crash(i)
    BY <2>7 DEF KillProcess, Crash
  <2>8. CASE RenewAfterCrash(i)
    BY <2>8 DEF RenewAfterCrash, clientVars
  <2> QED
    BY <2>1, <2>2, <2>3, <2>4, <2>5, <2>6, <2>7, <2>8 DEF Contend, Mishap
<1> QED
  BY <1>1, <1>2, <1>3 DEF LockNext

\* A lease that has run out does not come back while somebody refers to it.
LEMMA DeadStaysDead ==
  ASSUME TimeInv, NEW i \in Contenders, Contend(i) \/ Mishap(i),
         NEW j \in Contenders, j # i \/ ~Grant(i),
         granted'[j] = granted[j], Alive(granted[j])'
  PROVE  Alive(granted[j])
<1> USE ContenderFacts DEF TimeInv, LockInv, LockTypeOK, Alive, Goes
<1>1. CASE Grant(i)
  BY <1>1 DEF Grant, Unused
<1>2. CASE KeepLeaseOnce(i)
  BY <1>2 DEF KeepLeaseOnce
<1>3. CASE RenewLease(i) \/ RenewFails(i) \/ RenewAfterCrash(i)
  BY <1>3
  DEF RenewLease, RenewalPasses, RenewFails, RenewalFails, RenewAfterCrash, Renewed, clientVars
<1>4. CASE UNCHANGED ttl
  BY <1>4
<1> QED
  BY <1>1, <1>2, <1>3, <1>4
  DEF Contend, Mishap, GetLeaseHeld, GetLeaseFree, TxnSucceeds, TxnPuts, TxnLoses, KeepLeaseExpired,
      AskAgain, Acquired, KillProcess, RunAgain, AcquireFails, Crash, etcdVars

\* A contender's step takes no time: a failed round pays for the next one.
LEMMA LapseStep ==
  ASSUME OwnProbe, TimeInv, NEW i \in Contenders, Contend(i) \/ Mishap(i),
         NEW j \in Contenders
  PROVE  LapseInv(j)'
<1> USE ContenderFacts, Bounds DEF TimeInv
<1>1. CASE j # i
  <2>1. /\ pc'[j] = pc[j] /\ timer'[j] = timer[j] /\ granted'[j] = granted[j]
        /\ fails'[j] = fails[j] /\ lapse'[j] = lapse[j]
    BY <1>1
    DEF Contend, Mishap, GetLeaseHeld, GetLeaseFree, Grant, TxnSucceeds, TxnPuts,
        TxnLoses, KeepLeaseOnce,
        KeepLeaseExpired, AskAgain, Acquired, RenewLease, RenewalPasses, RenewFails,
        RenewalFails, NextRound, KillProcess, RunAgain,
        AcquireFails, Crash, RenewAfterCrash, Goes, clientVars, LockInv, LockTypeOK
  <2>2. Alive(granted[j])' => Alive(granted[j])
    BY <1>1, <2>1, DeadStaysDead
  <2> QED
    BY <2>1, <2>2 DEF LapseInv, RoundsEnd, Alive
<1>2. CASE j = i
  <2> USE <1>2 DEF LockInv, LockTypeOK, Goes, LapseInv
  <2>1. CASE \/ GetLeaseHeld(i) \/ GetLeaseFree(i) \/ Grant(i) \/ TxnSucceeds(i) \/ TxnLoses(i)
             \/ KeepLeaseOnce(i) \/ KeepLeaseExpired(i) \/ AskAgain(i) \/ AcquireFails(i)
             \/ RunAgain(i)
    BY <2>1
    DEF GetLeaseHeld, GetLeaseFree, Grant, TxnSucceeds, TxnPuts,
        TxnLoses, KeepLeaseOnce, KeepLeaseExpired,
        AskAgain, AcquireFails, RunAgain
  <2>2. CASE KillProcess(i) \/ Crash(i)
    BY <2>2 DEF KillProcess, Crash
  <2>3. CASE RenewAfterCrash(i)
    BY <2>3 DEF RenewAfterCrash, clientVars
  <2>4. CASE Acquired(i)
    <3>1. PICK n \in 0..MaxTimer : n <= FirstRenewal /\ Goes(i, "reply", "run", n)
      BY <2>4, RoundComes DEF Acquired
    <3>2. n <= RoundsEnd(0) /\ RoundsEnd(0) \in Nat
      BY <3>1, RoundsAddUp
    <3>3. fails'[i] = 0 /\ lapse'[i] = 0 /\ pc'[i] = "run" /\ timer'[i] = n
      BY <2>4, <3>1 DEF Acquired
    <3> QED
      BY <3>2, <3>3
  <2>5. CASE RenewLease(i)
    <3>1. Alive(granted[i]) /\ pc[i] = "run"
      BY <2>5 DEF RenewLease, RenewalPasses, NextRound, Renewed, OwnLease
    <3>2. lapse[i] = 0
      BY <3>1
    <3>3. PICK n \in 0..MaxTimer : n <= FirstRenewal /\ Goes(i, "run", "run", n)
      BY <2>5, RoundComes DEF RenewLease, RenewalPasses
    <3>4. PICK m \in {0, fails[i]} : fails' = [fails EXCEPT ![i] = m]
      BY <2>5 DEF RenewLease, RenewalPasses
    <3>5. n <= RoundsEnd(m) /\ RoundsEnd(m) \in Nat
      BY <3>3, <3>4, RoundsAddUp
    <3>6. fails'[i] = m /\ lapse'[i] = 0 /\ pc'[i] = "run" /\ timer'[i] = n
      BY <2>5, <3>2, <3>3, <3>4 DEF RenewLease, RenewalPasses
    <3> QED
      BY <3>5, <3>6
  <2>6. CASE RenewFails(i)
    <3>1. /\ pc[i] = "run" /\ timer[i] = 0 /\ fails'[i] = fails[i] + 1
          /\ lapse'[i] = lapse[i] /\ granted'[i] = granted[i]
      BY <2>6 DEF RenewFails, RenewalFails, NextRound
    <3>2. lapse[i] <= RoundsEnd(fails[i])
      BY <3>1
    <3>3. Alive(granted[i])' => lapse[i] = 0
      BY <2>6, <3>1, DeadStaysDead DEF Grant
    <3>4. CASE pc'[i] = "run" /\ timer'[i] \in Nat /\ timer'[i] <= Period + Slack
      <4>1. lapse'[i] + timer'[i] <= RoundsEnd(fails'[i])
        BY <3>1, <3>2, <3>4, RoundsAddUp
      <4> QED
        BY <3>1, <3>3, <3>4, <4>1
    <3>5. CASE pc'[i] = "condemned" /\ timer'[i] = KillDelay
      <4>1. lapse'[i] + timer'[i] <= LapseBound
        BY <3>1, <3>2, <3>5, RoundsAddUp
      <4> QED
        BY <3>1, <3>3, <3>5, <4>1
    <3>6. \/ \E n \in 0..MaxTimer : n <= Period + Slack /\ Goes(i, "run", "run", n)
          \/ Goes(i, "run", "condemned", KillDelay)
      BY <2>6, RoundComes DEF RenewFails, RenewalFails
    <3>7. \/ pc'[i] = "run" /\ timer'[i] \in Nat /\ timer'[i] <= Period + Slack
          \/ pc'[i] = "condemned" /\ timer'[i] = KillDelay
      BY <3>6
    <3> QED
      BY <3>4, <3>5, <3>7
  <2> QED
    BY <2>1, <2>2, <2>3, <2>4, <2>5, <2>6 DEF Contend, Mishap
<1> QED
  BY <1>1, <1>2

\* The invariant is inductive if every contender has its own probe.
LEMMA TimeStep ==
  ASSUME OwnProbe, TimeInv, [LockNext]_lockVars
  PROVE  TimeInv'
<1>1. LockInv'
  BY LockStep DEF TimeInv
<1>2. ASSUME NEW j \in Contenders PROVE LapseInv(j)'
  <2>1. CASE UNCHANGED lockVars
    BY <1>2, <2>1 DEF lockVars, etcdVars, clientVars, TimeInv, LapseInv, Alive, RoundsEnd
  <2>2. CASE Tick
    BY <1>2, <2>2, LapseTick
  <2>3. CASE \E i \in Contenders : Contend(i) \/ Mishap(i)
    BY <1>2, <2>3, LapseStep
  <2> QED
    BY <2>1, <2>2, <2>3 DEF LockNext
<1> QED
  BY <1>1, <1>2, OwnLeaseStep DEF TimeInv

\* With a probe of its own that is answered at once, a process never outlives its
\* lease by more than one delay, the rounds to the threshold and the kill delay,
\* whatever requests fail, whenever the lease runs out and however long, up to
\* Slack, a hook or another probe holds up the rounds (process.go:581-591, 620).
THEOREM LapseIsBounded == OwnProbe /\ LockSpec => []LapseBounded
<1>1. OwnProbe /\ TimeInv /\ [LockNext]_lockVars => TimeInv'
  BY TimeStep
<1>2. TimeInv => LapseBounded
  BY DEF TimeInv, LapseInv, LapseBounded
<1> SUFFICES ASSUME OwnProbe PROVE LockSpec => []LapseBounded
  OBVIOUS
<1> QED
  BY TimeStarts, <1>1, <1>2, PTL DEF LockSpec
-----------------------------------------------------------------------------
(* Mutual exclusion. *)

\* The lease of a running process outlasts the sleep of its checker.
Covered(i) ==
  /\ pc[i] = "reply" => ttl[granted[i]] = TTL /\ timer[i] = 0
  /\ pc[i] = "run" => ttl[granted[i]] > timer[i]
  /\ pc[i] # "condemned"

ExclusionInv == TimeInv /\ \A i \in Contenders : Covered(i)

\* A request that is answered at once finds the lease as it was granted.
LEMMA CoveredTick ==
  ASSUME Prompt, ExclusionInv, Tick, NEW i \in Contenders
  PROVE  Covered(i)'
<1> USE ContenderFacts DEF ExclusionInv, TimeInv, Covered
<1>1. granted[i] \in LeaseIds \/ pc[i] \notin {"reply", "run"}
  BY DEF OwnLease
<1>2. pc[i] \in {"reply", "run"} => timer[i] > 0
  BY DEF Prompt, OwnProbe, Tick
<1>3. pc[i] # "reply"
  BY <1>2
<1> QED
  BY <1>1, <1>2, <1>3 DEF Tick, LockInv, LockTypeOK

\* Other leases in force are only made to last longer.
LEMMA LeaseGrows ==
  ASSUME ExclusionInv, NEW i \in Contenders, Contend(i) \/ Mishap(i), NEW l \in LeaseIds
  PROVE  ttl'[l] = ttl[l] \/ ttl'[l] = TTL
BY DEF ExclusionInv, TimeInv, LockInv, LockTypeOK, Contend, Mishap, GetLeaseHeld, GetLeaseFree,
   Grant, TxnSucceeds, TxnPuts, TxnLoses, KeepLeaseOnce, KeepLeaseExpired, AskAgain, Acquired,
   RenewLease, RenewalPasses, RenewFails, RenewalFails, NextRound, KillProcess, RunAgain,
   AcquireFails, Crash, RenewAfterCrash, Renewed, etcdVars

\* A renewal finds the lease in force, and no process is condemned.
LEMMA CoveredStep ==
  ASSUME Prompt, ExclusionInv, NEW i \in Contenders, Contend(i) \/ Mishap(i),
         NEW j \in Contenders
  PROVE  Covered(j)'
<1> USE ContenderFacts, Bounds DEF ExclusionInv, TimeInv, Prompt
<1>0. /\ granted[j] \in LeaseIds \/ pc[j] \notin {"reply", "run"}
      /\ \A l \in LeaseIds : ttl[l] <= TTL
  BY DEF OwnLease, LockInv, LockTypeOK
<1>1. CASE j # i
  <2>1. pc'[j] = pc[j] /\ timer'[j] = timer[j] /\ granted'[j] = granted[j]
    BY <1>1
    DEF Contend, Mishap, GetLeaseHeld, GetLeaseFree, Grant, TxnSucceeds, TxnPuts,
        TxnLoses, KeepLeaseOnce,
        KeepLeaseExpired, AskAgain, Acquired, RenewLease, RenewalPasses, RenewFails,
        RenewalFails, NextRound, KillProcess, RunAgain,
        AcquireFails, Crash, RenewAfterCrash, Goes, clientVars, LockInv, LockTypeOK
  <2> QED
    BY <1>0, <2>1, LeaseGrows DEF Covered
<1>2. CASE j = i
  <2> USE <1>0, <1>2 DEF LockInv, LockTypeOK, Goes, Covered
  <2>1. CASE \/ GetLeaseHeld(i) \/ GetLeaseFree(i) \/ Grant(i) \/ TxnSucceeds(i) \/ TxnLoses(i)
             \/ KeepLeaseExpired(i) \/ AskAgain(i) \/ AcquireFails(i) \/ RunAgain(i)
             \/ KillProcess(i) \/ Crash(i)
    BY <2>1
    DEF GetLeaseHeld, GetLeaseFree, Grant, TxnSucceeds, TxnPuts,
        TxnLoses, KeepLeaseExpired, AskAgain,
        AcquireFails, RunAgain, KillProcess, Crash
  <2>2. CASE KeepLeaseOnce(i)
    BY <2>2 DEF KeepLeaseOnce, OwnLease
  <2>3. CASE Acquired(i)
    <3>1. PICK n \in 0..MaxTimer : n <= Delay + Slack /\ Goes(i, "reply", "run", n)
      BY <2>3, RoundComes DEF Acquired
    <3> QED
      BY <2>3, <3>1 DEF Acquired, etcdVars
  <2>4. CASE RenewLease(i)
    <3>1. PICK n \in 0..MaxTimer : n <= Period + Slack /\ Goes(i, "run", "run", n)
      BY <2>4, RoundComes DEF RenewLease, RenewalPasses
    <3> QED
      BY <2>4, <3>1 DEF RenewLease, RenewalPasses, Renewed, OwnLease
  <2>5. CASE RenewFails(i)
    <3>1. Alive(probeLease[Probe(i)])
      BY <2>5 DEF RenewFails, RenewalFails, NextRound, OwnLease, Alive
    <3> QED
      BY <2>5, <3>1 DEF RenewFails, RenewalFails
  <2>6. CASE RenewAfterCrash(i)
    BY <2>6 DEF RenewAfterCrash, clientVars
  <2> QED
    BY <2>1, <2>2, <2>3, <2>4, <2>5, <2>6 DEF Contend, Mishap
<1> QED
  BY <1>1, <1>2

\* If requests are prompt and a lease lasts beyond the next renewal, at most one
\* pod runs the process of a key: its lease is always in force, and leases are
\* exclusive.  The time a hook takes, up to 30 seconds by default, counts against the
\* TTL (process.go:620); the defaults of process.go:24, 294 do not meet the condition.
THEOREM PodsExcludeEachOther == Prompt /\ LockSpec => []MutualExclusion
<1>1. LockInit => ExclusionInv
  BY TimeStarts DEF ExclusionInv, Covered, LockInit
<1>2. Prompt /\ ExclusionInv /\ [LockNext]_lockVars => ExclusionInv'
  <2> SUFFICES ASSUME Prompt, ExclusionInv, [LockNext]_lockVars PROVE ExclusionInv'
    OBVIOUS
  <2>1. TimeInv'
    BY TimeStep DEF ExclusionInv, Prompt
  <2>2. ASSUME NEW j \in Contenders PROVE Covered(j)'
    <3>1. CASE UNCHANGED lockVars
      BY <2>2, <3>1 DEF lockVars, etcdVars, clientVars, ExclusionInv, Covered
    <3>2. CASE Tick
      BY <2>2, <3>2, CoveredTick
    <3>3. CASE \E i \in Contenders : Contend(i) \/ Mishap(i)
      BY <2>2, <3>3, CoveredStep
    <3> QED
      BY <3>1, <3>2, <3>3 DEF LockNext
  <2> QED
    BY <2>1, <2>2 DEF ExclusionInv
<1>3. ExclusionInv => MutualExclusion
  <2> SUFFICES ASSUME ExclusionInv, NEW i \in Contenders, NEW j \in Contenders,
                      Key(i) = Key(j), Running(i), Running(j)
               PROVE  i = j
    BY DEF MutualExclusion
  <2>1. ASSUME NEW x \in Contenders, Running(x) PROVE Holds(x)
    BY <2>1, ContenderFacts DEF ExclusionInv, TimeInv, Covered, OwnLease, Running, Holds, Alive
  <2>2. LeaseExclusive
    BY LockExclusion DEF ExclusionInv, TimeInv
  <2> QED
    BY <2>1, <2>2 DEF LeaseExclusive
<1> SUFFICES ASSUME Prompt PROVE LockSpec => []MutualExclusion
  OBVIOUS
<1> QED
  BY <1>1, <1>2, <1>3, PTL DEF LockSpec
=============================================================================
