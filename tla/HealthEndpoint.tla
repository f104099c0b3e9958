--------------------------- MODULE HealthEndpoint ---------------------------
(***************************************************************************)
(* The readers of the shared State: the handlers of /readiness and         *)
(* /liveness, with and without ?wait, and the -wait mode of a second       *)
(* process, which watches the readiness file.  The statuses are set by the *)
(* health checkers; here they change at will.                              *)
(*                                                                         *)
(* Time is counted in ticks.  Steps that do not sleep take no time.        *)
(***************************************************************************)
EXTENDS WrapperState, Preemption

CONSTANTS
  Readers,        \* clients; each has one request, or one -wait process, at a time
  WaitPause,      \* pause of the ?wait loops
  WriteTimeout,   \* http.Server.WriteTimeout
  FilePause,      \* pause of the loop of WaitReadiness
  WaitDeadline    \* -wait-deadline

ASSUME EndpointAssumption ==
  {WaitPause, WriteTimeout, FilePause, WaitDeadline} \subseteq Nat \ {0}

VARIABLES
  reader,   \* control point of each reader
  path,     \* what it reads: an endpoint, or the readiness file
  waits,    \* does the query have "wait"?
  pause,    \* ticks left of its sleep
  age,      \* ticks since it began, up to its limit
  stale,    \* history: was the State marked when it last began a check?
  fileAge   \* history: ticks the readiness file has existed, up to FilePause + 1

readerVars == <<reader, path, waits, pause, age, stale>>
endpointVars == <<stateVars, preemptionVars, readerVars, fileAge>>

Paths == {"readiness", "liveness", "file"}
Limit(p) == IF p = "file" THEN WaitDeadline ELSE WriteTimeout
Busy(r) == reader[r] \in {"check", "copy", "stat", "pause"}

EndpointTypeOK ==
  /\ StateTypeOK
  /\ PreemptionTypeOK
  /\ reader \in [Readers -> {"idle", "check", "copy", "stat", "pause",
                             "ok", "unavailable", "cut", "failed"}]
  /\ path \in [Readers -> Paths]
  /\ {waits, stale} \subseteq [Readers -> BOOLEAN]
  /\ \A r \in Readers :
       pause[r] \in 0..WaitPause + FilePause /\ age[r] \in 0..Limit(path[r])
  /\ fileAge \in 0..FilePause + 1

EndpointInit ==
  /\ NewState
  /\ PreemptionInit
  /\ reader = [r \in Readers |-> "idle"]
  /\ path = [r \in Readers |-> "liveness"]
  /\ waits = [r \in Readers |-> FALSE]
  /\ pause = [r \in Readers |-> 0]
  /\ age = [r \in Readers |-> 0]
  /\ stale = [r \in Readers |-> FALSE]
  /\ fileAge = 0

\* A check begins: Readiness asks IsPreempted first, Liveness does not, and
\* WaitReadiness looks for the file.
BeginCheck(r, p) ==
  /\ reader' = [reader EXCEPT ![r] =
       CASE p = "readiness" -> "check" [] p = "liveness" -> "copy" [] p = "file" -> "stat"]
  /\ stale' = [stale EXCEPT ![r] = preempted]

\* A request comes in, or a process is started with -wait.
Arrive(r, p, w) ==
  /\ reader[r] = "idle"
  /\ BeginCheck(r, p)
  /\ path' = [path EXCEPT ![r] = p]
  /\ waits' = [waits EXCEPT ![r] = w]
  /\ UNCHANGED <<pause, age>>

\* Another check after a pause.
SleepFor(r, ticks) ==
  /\ reader' = [reader EXCEPT ![r] = "pause"]
  /\ pause' = [pause EXCEPT ![r] = ticks]
-----------------------------------------------------------------------------
(* The handlers. *)

\* The answer reaches the client unless the connection's write deadline has passed.
Respond(r, code) ==
  /\ reader' = [reader EXCEPT ![r] = IF age[r] < WriteTimeout THEN code ELSE "cut"]
  /\ UNCHANGED pause

\* A check came out false: 503, or with ?wait another check.
NotHealthy(r) == IF waits[r] THEN SleepFor(r, WaitPause) ELSE Respond(r, "unavailable")

\* Readiness: s.IsPreempted()
ReadPreempted(r) ==
  /\ reader[r] = "check"
  /\ IF preempted
     THEN NotHealthy(r)
     ELSE reader' = [reader EXCEPT ![r] = "copy"] /\ UNCHANGED pause
  /\ UNCHANGED <<path, waits, age, stale>>

\* Mutant of ReadStatuses: the copy is made once, before the ?wait loop.
ReadStatusesOnce(r) ==
  /\ reader[r] = "copy"
  /\ IF Liveness /\ age[r] = 0 THEN Respond(r, "ok") ELSE NotHealthy(r)
  /\ UNCHANGED <<path, waits, age, stale>>

\* Readiness, Liveness: the verdict over a copy of the statuses.
ReadStatuses(r) ==
  /\ reader[r] = "copy"
  /\ IF Liveness THEN Respond(r, "ok") ELSE NotHealthy(r)
  /\ UNCHANGED <<path, waits, age, stale>>

\* Mutant of Resume: the ?wait loop looks at the statuses only.
ResumeStatuses(r) ==
  /\ reader[r] = "pause" /\ pause[r] = 0
  /\ reader' = [reader EXCEPT ![r] = IF path[r] = "file" THEN "stat" ELSE "copy"]
  /\ stale' = [stale EXCEPT ![r] = preempted]
  /\ UNCHANGED <<path, waits, pause, age>>

\* The next turn of a loop.  Those of ?wait do not look at the request's context.
Resume(r) ==
  /\ reader[r] = "pause" /\ pause[r] = 0
  /\ BeginCheck(r, path[r])
  /\ UNCHANGED <<path, waits, pause, age>>

\* The client has its answer, or a closed connection, and may ask again.
Answered(r) ==
  /\ reader[r] \notin {"idle", "check", "copy", "stat", "pause"}
  /\ reader' = [reader EXCEPT ![r] = "idle"]
  /\ path' = [path EXCEPT ![r] = "liveness"]
  /\ waits' = [waits EXCEPT ![r] = FALSE]
  /\ stale' = [stale EXCEPT ![r] = FALSE]
  /\ age' = [age EXCEPT ![r] = 0]
  /\ UNCHANGED pause
-----------------------------------------------------------------------------
(* WaitReadiness. *)

\* The timer has fired: the select takes its case, whether or not the file exists.
WaitFails(r) ==
  /\ reader[r] = "stat" /\ age[r] = WaitDeadline
  /\ reader' = [reader EXCEPT ![r] = "failed"]
  /\ UNCHANGED <<path, waits, pause, age, stale>>

\* Mutant of WaitStat: one look at the beginning.
WaitStatOnce(r) ==
  /\ reader[r] = "stat" /\ age[r] < WaitDeadline
  /\ IF readinessFile /\ age[r] = 0
     THEN reader' = [reader EXCEPT ![r] = "ok"] /\ UNCHANGED pause
     ELSE SleepFor(r, FilePause)
  /\ UNCHANGED <<path, waits, age, stale>>

\* os.Stat, and a sleep if there is no file.
WaitStat(r) ==
  /\ reader[r] = "stat" /\ age[r] < WaitDeadline
  /\ IF readinessFile
     THEN reader' = [reader EXCEPT ![r] = "ok"] /\ UNCHANGED pause
     ELSE SleepFor(r, FilePause)
  /\ UNCHANGED <<path, waits, age, stale>>

Read(r) == ReadPreempted(r) \/ ReadStatuses(r) \/ WaitFails(r) \/ WaitStat(r) \/ Resume(r)
Client(r) == Answered(r) \/ \E p \in Paths, w \in BOOLEAN : (p = "file" => w) /\ Arrive(r, p, w)
-----------------------------------------------------------------------------
(* The rest of the wrapper, as far as the readers see it. *)

\* A health checker reports a status, or removes it.
Report(c, status) ==
  /\ status # statusMap[c]
  /\ SetState(c, status)
  /\ UNCHANGED <<fileVars, ctxVars, mainVars, preemptionVars, readerVars, fileAge>>

FileRoutine == CreateReadinessFile /\ UNCHANGED <<preemptionVars, readerVars, fileAge>>

\* The signal handler removes the file.
FileRemoved ==
  /\ readinessFile
  /\ RemoveReadinessFile
  /\ fileAge' = 0
  /\ UNCHANGED <<mapVars, ctxVars, mainVars, preemptionVars, readerVars>>

\* Nothing that takes no time is left to do, and a tick passes.
EndpointTick ==
  /\ ~PreemptionUrgent
  /\ \A r \in Readers :
       reader[r] \notin {"check", "copy", "stat"} /\ (reader[r] = "pause" => pause[r] > 0)
  /\ PreemptionTick
  /\ pause' = [r \in Readers |-> IF pause[r] > 0 THEN pause[r] - 1 ELSE 0]
  /\ age' = [r \in Readers |->
       IF Busy(r) /\ age[r] < Limit(path[r]) THEN age[r] + 1 ELSE age[r]]
  /\ fileAge' = IF readinessFile /\ fileAge <= FilePause THEN fileAge + 1 ELSE fileAge
  /\ UNCHANGED <<stateVars, reader, path, waits, stale>>

PreemptionStep(A) == A /\ UNCHANGED <<stateVars, readerVars, fileAge>>
ReaderStep(A) == A /\ UNCHANGED <<stateVars, preemptionVars, fileAge>>

EndpointNext ==
  \/ EndpointTick
  \/ PreemptionStep(Preempt \/ WaitPreemptionState \/ MetadataFails \/ PreemptionChecker \/ DrainEnds)
  \/ \E r \in Readers : ReaderStep(Read(r) \/ Client(r))
  \/ \E c \in Commands, status \in Status : Report(c, status)
  \/ FileRoutine \/ FileRemoved

EndpointSpec == EndpointInit /\ [][EndpointNext]_endpointVars

\* No goroutine stops, and time passes: the clients and the checkers cannot do
\* infinitely many things in one tick, hence the strong fairness.  Nothing is
\* assumed of what they do, nor of the file or the cloud, except that the
\* metadata server answers.
EndpointFairSpec ==
  /\ EndpointSpec
  /\ SF_endpointVars(EndpointTick)
  /\ WF_endpointVars(PreemptionStep(WaitPreemptionState))
  /\ WF_endpointVars(PreemptionStep(PreemptionChecker))
  /\ \A r \in Readers : WF_endpointVars(ReaderStep(Read(r)))
-----------------------------------------------------------------------------
(* Properties. *)

\* No check that begins on a node marked as preempted ends in 200 from
\* /readiness, in whichever turn of a ?wait loop it takes place (health.go:412,
\* 446: the mark and the statuses are read under two locks, turn after turn).
NotReadyOncePreempted ==
  [][\A r \in Readers :
       path[r] = "readiness" /\ reader[r] = "copy" /\ reader'[r] = "ok" => ~stale[r]]_endpointVars

\* The preemption is noticed at most one poll and one retry after it is
\* announced, and as much later for every request that fails: also when it is
\* announced between two requests, where no long poll sees it change (health.go:284).
NoticedInTime == notice <= NoticeBound(errors)

\* A preemption ends in the mark that /readiness looks at and, with
\* -envoy-drain, in a request to drain the listeners, whatever requests fail
\* (health.go:307-333).
PreemptionHandled == preempting ~> preempted /\ drain # "idle"

\* Every command has reported, and reported healthy.
AllHealthy == \A c \in Commands : statusMap[c] = "healthy"

\* Nobody waits for ever.  -wait ends with or without the file, whatever the
\* statuses do (main.go:197-205).  A request with ?wait comes to its 200 once all
\* commands stay healthy, unless it asks for the readiness of a preempted node; by
\* then the client may have been cut off by the write timeout (health.go:446-454).
WaitAnswered ==
  \A r \in Readers :
    /\ Busy(r) /\ path[r] = "file" ~> reader[r] \in {"ok", "failed"}
    /\ <>[]AllHealthy =>
         (Busy(r) /\ path[r] # "file" /\ waits[r]
            ~> reader[r] \in {"ok", "cut"} \/ (path[r] = "readiness" /\ preempted))

\* -wait fails only if there was no readiness file a poll before its deadline:
\* a file that appears during the last sleep is not looked for (main.go:197-205).
WaitFailsOnlyLate ==
  [][\A r \in Readers :
       reader[r] = "stat" /\ reader'[r] = "failed" => fileAge <= FilePause]_endpointVars

\* README.md:16: "readiness?wait waits until all processes become healthy".
WaitNeverCut == \A r \in Readers : reader[r] # "cut"
=============================================================================
