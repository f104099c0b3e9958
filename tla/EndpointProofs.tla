--------------------------- MODULE EndpointProofs ---------------------------
(***************************************************************************)
(* Proofs about Preemption and HealthEndpoint: how late a preemption is    *)
(* noticed, what /readiness answers after it, and when -wait fails.        *)
(***************************************************************************)
EXTENDS HealthEndpoint, Integers, TLAPS

-----------------------------------------------------------------------------
(* The preemption. *)

\* What is left of the time to notice a preemption, if no further request fails.
TimeLeft ==
  CASE poll = "ask" -> PollTimeout
    [] poll = "backoff" -> pollTimer + PollTimeout
    [] poll = "answer" /\ pollSeen -> pollTimer
    [] OTHER -> 0

\* The two goroutines go through their control points together.
HandshakeInv ==
  /\ poll \in {"ask", "answer", "backoff", "send"} => checker = "select" /\ ~preempted
  /\ poll = "end" => checker # "select"
  /\ checker \in {"select", "mark"} <=> ~preempted
  /\ poll \in {"send", "end"} \/ pollSeen => preempting
  /\ poll = "backoff" => pollTimer <= RetryDelay
  /\ poll = "answer" => pollTimer <= PollTimeout

\* The time used and the time left stay within what the errors so far allow.
BudgetInv ==
  /\ ~preempting => notice = 0 /\ errors = 0
  /\ notice <= NoticeBound(errors)
  /\ preempting /\ ~preempted => notice + TimeLeft <= NoticeBound(errors)

PreemptionInv == PreemptionTypeOK /\ HandshakeInv /\ BudgetInv

\* The steps of the preemption, and a tick that finds nothing urgent.
PreemptionNext ==
  \/ Preempt \/ WaitPreemptionState \/ MetadataFails \/ PreemptionChecker \/ DrainEnds
  \/ ~PreemptionUrgent /\ PreemptionTick

\* Each error adds one poll and one pause to the bound.
LEMMA NoticeBoundGrows ==
  ASSUME NEW n \in Nat
  PROVE  /\ NoticeBound(n) \in Nat
         /\ NoticeBound(n) >= RetryDelay + PollTimeout
         /\ NoticeBound(n + 1) = NoticeBound(n) + RetryDelay + PollTimeout
<1> DEFINE k == RetryDelay + PollTimeout
<1>1. k \in Nat
  BY PreemptionAssumption
<1> HIDE DEF k
<1>2. n * k \in Nat /\ (1 + n) * k = k + n * k /\ (1 + (n + 1)) * k = (1 + n) * k + k
  BY <1>1
<1>3. (1 + n) * k >= k
  BY <1>1, <1>2
<1>4. (1 + n) * k \in Nat
  BY <1>1, <1>2
<1> QED
  BY <1>1, <1>2, <1>3, <1>4, PreemptionAssumption DEF k, NoticeBound

\* PreemptionChecker waits and the first request is about to be made.
LEMMA PreemptionStarts == PreemptionInit => PreemptionInv
<1> SUFFICES ASSUME PreemptionInit PROVE PreemptionInv
  OBVIOUS
<1>1. NoticeBound(0) \in Nat /\ NoticeBound(MaxErrors) \in Nat
  BY NoticeBoundGrows, PreemptionAssumption
<1>2. PreemptionTypeOK
  <2>1. {preempting, pollSeen, preempted} \subseteq BOOLEAN
    BY Zenon DEF PreemptionInit
  <2>2. pollTimer \in 0..PollTimeout /\ errors \in 0..MaxErrors /\ notice \in 0..MaxNotice
    BY <1>1, PreemptionAssumption DEF PreemptionInit, MaxNotice
  <2>3. /\ poll \in {"ask", "answer", "backoff", "send", "end"}
        /\ checker \in {"select", "mark", "drain", "end"}
        /\ drain \in {"off", "idle", "asked", "drained", "failed"}
    BY DEF PreemptionInit
  <2> QED
    BY <2>1, <2>2, <2>3 DEF PreemptionTypeOK
<1>3. HandshakeInv
  BY DEF PreemptionInit, HandshakeInv
<1>4. BudgetInv
  BY <1>1 DEF PreemptionInit, BudgetInv
<1> QED
  BY <1>2, <1>3, <1>4 DEF PreemptionInv

\* The facts about the bound that a step needs.
LEMMA BoundFacts ==
  ASSUME PreemptionInv
  PROVE  /\ errors \in Nat /\ notice \in Nat /\ pollTimer \in Nat
         /\ PollTimeout \in Nat \ {0} /\ RetryDelay \in Nat \ {0} /\ MaxErrors \in Nat
         /\ NoticeBound(errors) \in Nat
         /\ NoticeBound(errors) >= RetryDelay + PollTimeout
         /\ NoticeBound(errors + 1) = NoticeBound(errors) + RetryDelay + PollTimeout
         /\ NoticeBound(MaxErrors) \in Nat
<1>1. errors \in Nat /\ notice \in Nat /\ pollTimer \in Nat
  <2>1. NoticeBound(MaxErrors) \in Nat
    BY NoticeBoundGrows, PreemptionAssumption
  <2> QED
    BY <2>1, PreemptionAssumption DEF PreemptionInv, PreemptionTypeOK, MaxNotice
<1> QED
  BY <1>1, NoticeBoundGrows, PreemptionAssumption

\* The steps of the two goroutines are well typed, the retry timer included.
LEMMA PreemptionTypes ==
  ASSUME PreemptionInv, PreemptionNext
  PROVE  PreemptionTypeOK'
<1> USE BoundFacts DEF PreemptionInv, PreemptionTypeOK, MaxNotice
<1>1. CASE Preempt
  BY <1>1 DEF Preempt, pollVars
<1>2. CASE MetadataAsk \/ MetadataAnswer \/ MetadataRetry
  BY <1>2 DEF MetadataAsk, MetadataAnswer, MetadataRetry
<1>3. CASE MetadataError \/ MetadataBadAnswer
  BY <1>3 DEF MetadataError, MetadataBadAnswer, MetadataFailed, CountError
<1>4. CASE PreemptedEvent \/ MarkPreempted
  BY <1>4 DEF PreemptedEvent, MarkPreempted, pollVars
<1>5. CASE DrainStart \/ DrainEnds
  BY <1>5 DEF DrainStart, DrainWhen, DrainEnds, pollVars
<1>6. CASE PreemptionTick
  BY <1>6 DEF PreemptionTick
<1> QED
  BY <1>1, <1>2, <1>3, <1>4, <1>5, <1>6
  DEF PreemptionNext, WaitPreemptionState, MetadataFails, PreemptionChecker

\* The poll sends once, and the checker marks the State once.
LEMMA PreemptionHandshake ==
  ASSUME PreemptionInv, PreemptionNext
  PROVE  HandshakeInv'
<1> USE BoundFacts DEF PreemptionInv, HandshakeInv
<1>0. PreemptionTypeOK
  OBVIOUS
<1>1. CASE Preempt
  BY <1>1 DEF Preempt, pollVars
<1>2. CASE MetadataAsk \/ MetadataAnswer \/ MetadataRetry
  BY <1>0, <1>2 DEF MetadataAsk, MetadataAnswer, MetadataRetry, PreemptionTypeOK
<1>3. CASE MetadataError \/ MetadataBadAnswer
  BY <1>3 DEF MetadataError, MetadataBadAnswer, MetadataFailed
<1>4. CASE PreemptedEvent \/ MarkPreempted
  BY <1>0, <1>4 DEF PreemptedEvent, MarkPreempted, pollVars, PreemptionTypeOK
<1>5. CASE DrainStart \/ DrainEnds
  BY <1>0, <1>5 DEF DrainStart, DrainWhen, DrainEnds, pollVars, PreemptionTypeOK
<1>6. CASE PreemptionTick
  BY <1>6 DEF PreemptionTick
<1> QED
  BY <1>1, <1>2, <1>3, <1>4, <1>5, <1>6
  DEF PreemptionNext, WaitPreemptionState, MetadataFails, PreemptionChecker

\* Each step uses no more time than it gives up.
LEMMA PreemptionBudget ==
  ASSUME PreemptionInv, PreemptionNext
  PROVE  BudgetInv'
<1> USE DEF PreemptionInv
<1>0. /\ {preempting, pollSeen, preempted} \subseteq BOOLEAN
      /\ poll \in {"ask", "answer", "backoff", "send", "end"}
  BY DEF PreemptionTypeOK
<1> USE BoundFacts, <1>0 DEF BudgetInv, HandshakeInv, TimeLeft
<1>1. CASE Preempt
  BY <1>1 DEF Preempt, pollVars
<1>2. CASE MetadataAsk
  BY <1>2 DEF MetadataAsk
<1>3. CASE MetadataAnswer
  BY <1>3 DEF MetadataAnswer, AnswerDue
<1>4. CASE MetadataRetry
  BY <1>4 DEF MetadataRetry
<1>5. CASE MetadataError
  BY <1>5 DEF MetadataError, MetadataFailed, CountError
<1>6. CASE MetadataBadAnswer
  BY <1>6 DEF MetadataBadAnswer, MetadataFailed, CountError
<1>7. CASE PreemptedEvent
  BY <1>7 DEF PreemptedEvent
<1>8. CASE MarkPreempted
  BY <1>8 DEF MarkPreempted, pollVars
<1>9. CASE DrainStart \/ DrainEnds
  BY <1>9 DEF DrainStart, DrainWhen, DrainEnds, pollVars
<1>10. CASE ~PreemptionUrgent /\ PreemptionTick
  BY <1>10 DEF PreemptionUrgent, PreemptionTick, AnswerDue, PreemptionTypeOK
<1> QED
  BY <1>1, <1>2, <1>3, <1>4, <1>5, <1>6, <1>7, <1>8, <1>9, <1>10
  DEF PreemptionNext, WaitPreemptionState, MetadataFails, PreemptionChecker

\* A step of the readers' specification is one of the preemption or leaves it alone.
LEMMA PreemptionOfStep ==
  ASSUME [EndpointNext]_endpointVars
  PROVE  PreemptionNext \/ UNCHANGED preemptionVars
<1>1. CASE EndpointTick
  BY <1>1 DEF EndpointTick, PreemptionNext
<1>2. CASE PreemptionStep(
             Preempt \/ WaitPreemptionState \/ MetadataFails \/ PreemptionChecker
             \/ DrainEnds)
  BY <1>2 DEF PreemptionStep, PreemptionNext
<1>3. CASE \E r \in Readers : ReaderStep(Read(r) \/ Client(r))
  BY <1>3 DEF ReaderStep
<1>4. CASE \E c \in Commands, status \in Status : Report(c, status)
  BY <1>4 DEF Report
<1>5. CASE FileRoutine \/ FileRemoved
  BY <1>5 DEF FileRoutine, FileRemoved
<1>6. CASE UNCHANGED endpointVars
  BY <1>6 DEF endpointVars
<1> QED
  BY <1>1, <1>2, <1>3, <1>4, <1>5, <1>6 DEF EndpointNext

\* The preemption's invariant is inductive (WaitPreemptionState and PreemptionChecker).
LEMMA PreemptionInvStep ==
  ASSUME PreemptionInv, [EndpointNext]_endpointVars
  PROVE  PreemptionInv'
<1>1. CASE PreemptionNext
  BY <1>1, PreemptionTypes, PreemptionHandshake, PreemptionBudget DEF PreemptionInv
<1>2. CASE UNCHANGED preemptionVars
  BY <1>2 DEF preemptionVars, pollVars, PreemptionInv, PreemptionTypeOK, HandshakeInv, BudgetInv,
     TimeLeft, MaxNotice, NoticeBound
<1> QED
  BY <1>1, <1>2, PreemptionOfStep

\* WaitPreemptionState and PreemptionChecker go through their control points
\* together, and the time a preemption has gone unnoticed plus what is left of
\* the request under way stays within the bound.
THEOREM PreemptionInvariance == EndpointSpec => []PreemptionInv
<1>1. EndpointInit => PreemptionInv
  BY PreemptionStarts DEF EndpointInit
<1>2. PreemptionInv /\ [EndpointNext]_endpointVars => PreemptionInv'
  BY PreemptionInvStep
<1> QED
  BY <1>1, <1>2, PTL DEF EndpointSpec

\* However the requests of WaitPreemptionState fail, a preemption is noticed
\* within one poll and one retry, and as much again for each error.
THEOREM PreemptionIsNoticed == EndpointSpec => []NoticedInTime
<1>1. PreemptionInv => NoticedInTime
  BY DEF PreemptionInv, BudgetInv, NoticedInTime
<1> QED
  BY <1>1, PreemptionInvariance, PTL
-----------------------------------------------------------------------------
(* The readers. *)

\* The parts of EndpointTypeOK that are the readers', with their domains.
ReaderTypes ==
  /\ reader \in [Readers -> {"idle", "check", "copy", "stat", "pause",
                             "ok", "unavailable", "cut", "failed"}]
  /\ path \in [Readers -> Paths]
  /\ waits \in [Readers -> BOOLEAN] /\ stale \in [Readers -> BOOLEAN]
  /\ pause \in [Readers -> 0..WaitPause + FilePause]
  /\ age \in [Readers -> Nat]
  /\ fileAge \in 0..FilePause + 1

\* A reader that began its check on a marked node has not passed IsPreempted.
FreshInv(r) ==
  /\ reader[r] = "check" /\ stale[r] => preempted
  /\ path[r] = "readiness" /\ reader[r] = "copy" => ~stale[r]

\* WaitReadiness sleeps no longer than the file may already exist.
WaitInv(r) ==
  /\ reader[r] = "idle" => age[r] = 0
  /\ age[r] <= Limit(path[r])
  /\ reader[r] = "stat" => path[r] = "file" /\ (age[r] = 0 \/ fileAge <= FilePause)
  /\ reader[r] \in {"check", "copy"} => path[r] # "file"
  /\ reader[r] = "pause" /\ path[r] = "file" => fileAge + pause[r] <= FilePause

\* The State as the readers see it.
FileInv == StateTypeOK /\ (~readinessFile => fileAge = 0)

ReaderInv ==
  /\ PreemptionInv /\ ReaderTypes /\ FileInv
  /\ \A r \in Readers : FreshInv(r) /\ WaitInv(r)

\* Every wait has a limit.
LEMMA LimitIsPositive ==
  ASSUME NEW p
  PROVE  Limit(p) \in Nat /\ Limit(p) > 0
BY EndpointAssumption DEF Limit

\* The readers start idle, without a readiness file.
LEMMA ReadersStart == EndpointInit => ReaderInv
<1> SUFFICES ASSUME EndpointInit PROVE ReaderInv
  OBVIOUS
<1>1. PreemptionInv
  BY PreemptionStarts DEF EndpointInit
<1>2. ReaderTypes
  BY EndpointAssumption DEF EndpointInit, ReaderTypes, Paths
<1>3. StateTypeOK
  <2>1. /\ shutdown \in BOOLEAN /\ readinessFile \in BOOLEAN /\ ctxDone \in BOOLEAN
        /\ killedMap \in SUBSET Commands /\ cancelled \in SUBSET Pids
    BY DEF EndpointInit, NewState
  <2>2. /\ statusMap \in [Commands -> Status] /\ fileRoutine \in FilePc
        /\ wg \in Nat /\ exit \in Exit
    BY DEF EndpointInit, NewState, Status, FilePc, Exit
  <2>3. /\ pidsMap \in [Commands -> 0..MaxStarts]
        /\ cancelRoutineMap \in [Commands -> 0..MaxStarts]
    BY MaxStartsAssumption DEF EndpointInit, NewState
  <2> QED
    BY <2>1, <2>2, <2>3 DEF StateTypeOK
<1>4. FileInv
  BY <1>3 DEF EndpointInit, FileInv
<1>5. \A r \in Readers : FreshInv(r) /\ WaitInv(r)
  BY LimitIsPositive DEF EndpointInit, FreshInv, WaitInv
<1> QED
  BY <1>1, <1>2, <1>4, <1>5 DEF ReaderInv

\* What the other goroutines do to State is well typed, and the history of the
\* file follows the file.
LEMMA FileStep ==
  ASSUME ReaderInv, [EndpointNext]_endpointVars
  PROVE  FileInv'
<1> USE DEF ReaderInv, FileInv
<1>1. CASE EndpointTick
  BY <1>1 DEF EndpointTick, stateVars, mapVars, fileVars, ctxVars, mainVars, StateTypeOK
<1>2. CASE \/ UNCHANGED <<stateVars, fileAge>>
           \/ UNCHANGED endpointVars
  BY <1>2 DEF endpointVars, stateVars, mapVars, fileVars, ctxVars, mainVars, StateTypeOK
<1>3. ASSUME NEW c \in Commands, NEW status \in Status, Report(c, status)
      PROVE  FileInv'
  BY <1>3 DEF Report, SetState, fileVars, ctxVars, mainVars, StateTypeOK
<1>4. CASE FileRoutine
  BY <1>4 DEF FileRoutine, CreateReadinessFile, CreateReadinessFilePoll,
     CreateReadinessFileWrite, CreateReadinessFileFails, mapVars, ctxVars, mainVars,
     StateTypeOK, FilePc
<1>5. CASE FileRemoved
  BY <1>5 DEF FileRemoved, RemoveReadinessFile, mapVars, ctxVars, mainVars, StateTypeOK
<1> QED
  BY <1>1, <1>2, <1>3, <1>4, <1>5 DEF EndpointNext, PreemptionStep, ReaderStep

\* State.Preempted is never taken back.
LEMMA MarkStays ==
  ASSUME ReaderInv, [EndpointNext]_endpointVars
  PROVE  preempted => preempted'
<1>1. CASE PreemptionNext
  BY <1>1 DEF PreemptionNext, Preempt, WaitPreemptionState, MetadataAsk, MetadataAnswer,
     MetadataRetry, MetadataFails, MetadataError, MetadataBadAnswer, MetadataFailed, PreemptionChecker,
     PreemptedEvent, MarkPreempted, DrainStart, DrainWhen, DrainEnds, PreemptionTick
<1>2. CASE UNCHANGED preemptionVars
  BY <1>2 DEF preemptionVars
<1> QED
  BY <1>1, <1>2, PreemptionOfStep

\* One reader's step is well typed.
LEMMA ReaderTypesStep ==
  ASSUME ReaderInv, NEW r \in Readers, Read(r) \/ Client(r), UNCHANGED fileAge
  PROVE  ReaderTypes'
<1> USE EndpointAssumption DEF ReaderInv, ReaderTypes, Paths
<1>0. preempted \in BOOLEAN
  BY DEF PreemptionInv, PreemptionTypeOK
<1>1. CASE ReadPreempted(r) \/ ReadStatuses(r)
  BY <1>1 DEF ReadPreempted, ReadStatuses, NotHealthy, SleepFor, Respond
<1>2. CASE WaitFails(r) \/ WaitStat(r)
  BY <1>2 DEF WaitFails, WaitStat, SleepFor
<1>3. CASE Resume(r)
  BY <1>0, <1>3 DEF Resume, BeginCheck
<1>4. CASE Answered(r)
  BY <1>4 DEF Answered
<1>5. ASSUME NEW p \in Paths, NEW w \in BOOLEAN, Arrive(r, p, w)
      PROVE  ReaderTypes'
  BY <1>0, <1>5 DEF Arrive, BeginCheck
<1> QED
  BY <1>1, <1>2, <1>3, <1>4, <1>5 DEF Read, Client

\* One reader's step preserves what is said of it, and touches no other reader.
LEMMA ReaderStepKeeps ==
  ASSUME ReaderInv, NEW r \in Readers, Read(r) \/ Client(r),
         UNCHANGED <<preempted, readinessFile, fileAge>>,
         NEW q \in Readers
  PROVE  FreshInv(q)' /\ WaitInv(q)'
<1> USE EndpointAssumption, LimitIsPositive DEF ReaderInv, ReaderTypes, FreshInv, WaitInv
<1>0. preempted \in BOOLEAN
  BY DEF PreemptionInv, PreemptionTypeOK
<1>1. CASE ReadPreempted(r)
  BY <1>0, <1>1 DEF ReadPreempted, NotHealthy, SleepFor, Respond, Limit
<1>2. CASE ReadStatuses(r)
  BY <1>2 DEF ReadStatuses, NotHealthy, SleepFor, Respond, Limit
<1>3. CASE WaitFails(r)
  BY <1>3 DEF WaitFails, Limit
<1>4. CASE WaitStat(r)
  BY <1>4 DEF WaitStat, SleepFor, FileInv, Limit
<1>5. CASE Resume(r)
  BY <1>0, <1>5 DEF Resume, BeginCheck, Paths, Limit
<1>6. CASE Answered(r)
  BY <1>6 DEF Answered, Limit
<1>7. ASSUME NEW p \in Paths, NEW w \in BOOLEAN, Arrive(r, p, w)
      PROVE  FreshInv(q)' /\ WaitInv(q)'
  BY <1>0, <1>7 DEF Arrive, BeginCheck, Paths, Limit
<1> QED
  BY <1>1, <1>2, <1>3, <1>4, <1>5, <1>6, <1>7 DEF Read, Client

\* A tick: WaitReadiness sleeps less as the file gets older.
LEMMA TickKeeps ==
  ASSUME ReaderInv, EndpointTick
  PROVE  ReaderTypes' /\ \A r \in Readers : FreshInv(r)' /\ WaitInv(r)'
<1> USE EndpointAssumption, LimitIsPositive DEF ReaderInv, ReaderTypes, EndpointTick
<1>1. ReaderTypes'
  OBVIOUS
<1>2. ASSUME NEW r \in Readers PROVE FreshInv(r)'
  BY <1>2 DEF FreshInv
<1>3. ASSUME NEW r \in Readers PROVE WaitInv(r)'
  BY <1>3 DEF WaitInv, Busy, Limit
<1> QED
  BY <1>1, <1>2, <1>3

\* The invariant of the readers is inductive.
LEMMA ReaderInvStep ==
  ASSUME ReaderInv, [EndpointNext]_endpointVars
  PROVE  ReaderInv'
<1>1. PreemptionInv' /\ FileInv' /\ (preempted => preempted')
  BY PreemptionInvStep, FileStep, MarkStays DEF ReaderInv
<1>2. ReaderTypes' /\ \A r \in Readers : FreshInv(r)' /\ WaitInv(r)'
  <2>1. CASE EndpointTick
    BY <2>1, TickKeeps
  <2>2. ASSUME UNCHANGED readerVars, UNCHANGED fileAge \/ fileAge' = 0
        PROVE  ReaderTypes' /\ \A r \in Readers : FreshInv(r)' /\ WaitInv(r)'
    <3>1. ReaderTypes'
      BY <2>2, EndpointAssumption DEF ReaderInv, ReaderTypes, readerVars
    <3>2. ASSUME NEW r \in Readers PROVE FreshInv(r)' /\ WaitInv(r)'
      BY <1>1, <2>2, <3>2, EndpointAssumption
      DEF ReaderInv, ReaderTypes, FreshInv, WaitInv, Limit, readerVars
    <3> QED
      BY <3>1, <3>2
  <2>3. ASSUME NEW r \in Readers, ReaderStep(Read(r) \/ Client(r))
        PROVE  ReaderTypes' /\ \A q \in Readers : FreshInv(q)' /\ WaitInv(q)'
    <3>1. Read(r) \/ Client(r)
      BY <2>3 DEF ReaderStep
    <3>2. UNCHANGED <<preempted, readinessFile, fileAge>>
      BY <2>3 DEF ReaderStep, preemptionVars, stateVars, fileVars
    <3> QED
      BY <3>1, <3>2, ReaderTypesStep, ReaderStepKeeps
  <2>4. CASE \E c \in Commands, status \in Status : Report(c, status)
    BY <2>2, <2>4 DEF Report
  <2>5. CASE FileRoutine \/ FileRemoved
    BY <2>2, <2>5 DEF FileRoutine, FileRemoved
  <2>6. CASE PreemptionStep(
               Preempt \/ WaitPreemptionState \/ MetadataFails \/ PreemptionChecker
               \/ DrainEnds)
    BY <2>2, <2>6 DEF PreemptionStep
  <2>7. CASE UNCHANGED endpointVars
    BY <2>2, <2>7 DEF endpointVars
  <2> QED
    BY <2>1, <2>3, <2>4, <2>5, <2>6, <2>7 DEF EndpointNext
<1> QED
  BY <1>1, <1>2 DEF ReaderInv

\* Type correctness of the endpoints, -wait mode and the preemption: a wait is
\* never older than its limit, and no sleep is longer than the loops' pauses.
THEOREM EndpointTypeCorrect == EndpointSpec => []EndpointTypeOK
<1>1. ReaderInv /\ [EndpointNext]_endpointVars => ReaderInv'
  BY ReaderInvStep
<1>2. ReaderInv => EndpointTypeOK
  <2> SUFFICES ASSUME ReaderInv PROVE EndpointTypeOK
    OBVIOUS
  <2>1. \A r \in Readers : age[r] \in 0..Limit(path[r])
    BY LimitIsPositive DEF ReaderInv, ReaderTypes, WaitInv
  <2>2. \A r \in Readers : pause[r] \in 0..WaitPause + FilePause
    BY DEF ReaderInv, ReaderTypes
  <2>3. {waits, stale} \subseteq [Readers -> BOOLEAN]
    BY DEF ReaderInv, ReaderTypes
  <2> QED
    BY <2>1, <2>2, <2>3 DEF ReaderInv, ReaderTypes, FileInv, PreemptionInv, EndpointTypeOK
<1> QED
  BY <1>1, <1>2, ReadersStart, PTL DEF EndpointSpec

\* /readiness never answers 200 to a check that began on a marked node: the mark
\* is read first and never taken back.
THEOREM PreemptedIsNotReady == EndpointSpec => NotReadyOncePreempted
<1> DEFINE Safe(r) == path[r] = "readiness" /\ reader[r] = "copy" /\ reader'[r] = "ok" => ~stale[r]
<1>1. ReaderInv /\ [EndpointNext]_endpointVars => ReaderInv'
  BY ReaderInvStep
<1>2. ReaderInv => [\A r \in Readers : Safe(r)]_endpointVars
  BY DEF ReaderInv, FreshInv
<1> QED
  BY <1>1, <1>2, ReadersStart, PTL DEF EndpointSpec, NotReadyOncePreempted

\* WaitReadiness fails only if the file was not there one poll before: its
\* sleep and the file's age together never exceed one pause.
THEOREM WaitMissesOnlyLateFiles == EndpointSpec => WaitFailsOnlyLate
<1> DEFINE Late(r) == reader[r] = "stat" /\ reader'[r] = "failed" => fileAge <= FilePause
<1>1. ReaderInv /\ [EndpointNext]_endpointVars => ReaderInv'
  BY ReaderInvStep
<1>2. ReaderInv /\ [EndpointNext]_endpointVars => [\A r \in Readers : Late(r)]_endpointVars
  <2> SUFFICES ASSUME ReaderInv, EndpointNext, NEW r \in Readers,
                      reader[r] = "stat", reader'[r] = "failed"
               PROVE  fileAge <= FilePause
    BY DEF ReaderInv
  <2>1. PICK q \in Readers : Read(q) \/ Client(q)
    BY DEF EndpointNext, EndpointTick, PreemptionStep, ReaderStep, Report, FileRoutine, FileRemoved,
       readerVars
  <2>2. age[r] = WaitDeadline
    <3> USE <2>1 DEF ReaderInv, ReaderTypes
    <3>1. CASE WaitFails(q)
      BY <3>1 DEF WaitFails
    <3>2. CASE ReadPreempted(q) \/ ReadStatuses(q) \/ WaitStat(q)
      BY <3>2 DEF ReadPreempted, ReadStatuses, WaitStat, NotHealthy, SleepFor, Respond
    <3>3. CASE Resume(q) \/ Client(q)
      BY <3>3 DEF Resume, Client, Answered, Arrive, BeginCheck, Paths
    <3> QED
      BY <3>1, <3>2, <3>3 DEF Read
  <2> QED
    BY <2>2, EndpointAssumption DEF ReaderInv, WaitInv
<1> QED
  BY <1>1, <1>2, ReadersStart, PTL DEF EndpointSpec, WaitFailsOnlyLate
=============================================================================
