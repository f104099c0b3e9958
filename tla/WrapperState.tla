---------------------------- MODULE WrapperState ----------------------------
(***************************************************************************)
(* The State object every goroutine of the wrapper shares                  *)
(* (pkg/process/health.go), the contexts that stop goroutines, and the     *)
(* wrapper process itself: its WaitGroup and how it ends.                  *)
(*                                                                         *)
(* A method of State holds the RWMutex for its whole body, so each method  *)
(* is one atomic operator here.  An operator that writes says what it      *)
(* leaves alone among the State fields; the actions built from it frame    *)
(* the other variables.                                                    *)
(***************************************************************************)
EXTENDS Naturals

CONSTANTS
  Commands,   \* names of the scheduled commands (replicas are names of their own)
  MaxStarts   \* bound: how often one command's process is started

ASSUME MaxStartsAssumption == MaxStarts \in Nat \ {0}

\* The process started by the k-th cmd.Start of command c.  The code knows it
\* by its pid; the operating system does not reuse one within the bound.
Pids == Commands \X (1..MaxStarts)

VARIABLES
  shutdown,          \* State.Shutdown
  killedMap,         \* State.killedMap: the names mapped to true
  statusMap,         \* State.statusMap; "absent" is a missing key
  pidsMap,           \* State.pidsMap: k for process <<c, k>>, 0 is a missing key
  cancelRoutineMap,  \* State.cancelRoutineMap: k for the routines of <<c, k>>, 0 missing
  readinessFile,     \* does State.ReadinessFile exist?
  fileRoutine,       \* control point of the CreateReadinessFile goroutine
  ctxDone,           \* the root context handed to every Run is cancelled
  cancelled,         \* processes whose ctxRoutines context is cancelled
  wg,                \* counter of the WaitGroup main waits on
  exit               \* how the wrapper process ended, "up" while it has not

mapVars == <<shutdown, killedMap, statusMap, pidsMap, cancelRoutineMap>>
fileVars == <<readinessFile, fileRoutine>>
ctxVars == <<ctxDone, cancelled>>
mainVars == <<wg, exit>>
stateVars == <<mapVars, fileVars, ctxVars, mainVars>>

Status == {"absent", "unhealthy", "healthy"}
FilePc == {"poll", "write", "end"}
Exit == {"up", "completed", "fatal", "panic"}

StateTypeOK ==
  /\ shutdown \in BOOLEAN
  /\ killedMap \in SUBSET Commands
  /\ statusMap \in [Commands -> Status]
  /\ pidsMap \in [Commands -> 0..MaxStarts]
  /\ cancelRoutineMap \in [Commands -> 0..MaxStarts]
  /\ readinessFile \in BOOLEAN
  /\ fileRoutine \in FilePc
  /\ ctxDone \in BOOLEAN
  /\ cancelled \in SUBSET Pids
  /\ wg \in Nat
  /\ exit \in Exit

\* NewState: empty maps, and the goroutine that will write the readiness file.
NewState ==
  /\ shutdown = FALSE
  /\ killedMap = {}
  /\ statusMap = [c \in Commands |-> "absent"]
  /\ pidsMap = [c \in Commands |-> 0]
  /\ cancelRoutineMap = [c \in Commands |-> 0]
  /\ readinessFile = FALSE
  /\ fileRoutine = "poll"
  /\ ctxDone = FALSE
  /\ cancelled = {}
  /\ wg = 0
  /\ exit = "up"
-----------------------------------------------------------------------------
(* Methods of State. *)

IsShutdown == shutdown

SetShutdown ==
  /\ shutdown' = TRUE
  /\ UNCHANGED <<killedMap, statusMap, pidsMap, cancelRoutineMap>>

SetState(c, status) ==
  /\ statusMap' = [statusMap EXCEPT ![c] = status]
  /\ UNCHANGED <<shutdown, killedMap, pidsMap, cancelRoutineMap>>

RemoveState(c) == SetState(c, "absent")

SetPid(c, k) ==
  /\ pidsMap' = [pidsMap EXCEPT ![c] = k]
  /\ UNCHANGED <<shutdown, killedMap, statusMap, cancelRoutineMap>>

SetCancelRoutine(c, k) ==
  /\ cancelRoutineMap' = [cancelRoutineMap EXCEPT ![c] = k]
  /\ UNCHANGED <<shutdown, killedMap, statusMap, pidsMap>>

SetKillState(c, killed) ==
  /\ killedMap' = IF killed THEN killedMap \cup {c} ELSE killedMap \ {c}
  /\ UNCHANGED <<shutdown, statusMap, pidsMap, cancelRoutineMap>>

IsKilled(c) == c \in killedMap

\* GetPids: the pid of every name that ever had a process, dead ones included.
GetPids == {p \in Pids : pidsMap[p[1]] = p[2]}

\* The processes whose cancel function CancelRoutines calls.
RegisteredRoutines == {p \in Pids : cancelRoutineMap[p[1]] = p[2]}

\* Liveness: the verdict of /liveness, and of /readiness on a node that is not
\* preempted.  A name without a status does not count.
Liveness == \A c \in Commands : statusMap[c] # "unhealthy"
-----------------------------------------------------------------------------
(* The contexts. *)

\* cancel(): the root context, from which exec.CommandContext kills processes.
Cancel == ctxDone' = TRUE /\ UNCHANGED cancelled

\* cancelRoutines(): stop the health checker and the stats worker of S.
CancelRoutinesOf(S) == cancelled' = cancelled \cup S /\ UNCHANGED ctxDone

\* WaitGroup.Add(1) and n times WaitGroup.Done, which panics below zero.
WgAdd == wg' = wg + 1 /\ UNCHANGED exit

WgDone(n) ==
  \/ wg >= n /\ wg' = wg - n /\ UNCHANGED exit
  \/ wg < n /\ exit' = "panic" /\ UNCHANGED wg
-----------------------------------------------------------------------------
(* The readiness file. *)

\* The status every scheduled name has reported, all of them healthy, at least one.
AllReportedHealthy ==
  /\ \E c \in Commands : statusMap[c] # "absent"
  /\ Liveness

\* CreateReadinessFile reads a copy of the status map; when every entry is
\* healthy it goes on to write the file, otherwise it sleeps and reads again.
CreateReadinessFilePoll ==
  /\ fileRoutine = "poll"
  /\ AllReportedHealthy
  /\ fileRoutine' = "write"
  /\ UNCHANGED <<mapVars, readinessFile, ctxVars, mainVars>>

CreateReadinessFileWrite ==
  /\ fileRoutine = "write"
  /\ readinessFile' = TRUE
  /\ fileRoutine' = "end"
  /\ UNCHANGED <<mapVars, ctxVars, mainVars>>

\* os.WriteFile failed: the loop polls again.
CreateReadinessFileFails ==
  /\ fileRoutine = "write"
  /\ fileRoutine' = "poll"
  /\ UNCHANGED <<mapVars, readinessFile, ctxVars, mainVars>>

CreateReadinessFile ==
  CreateReadinessFilePoll \/ CreateReadinessFileWrite \/ CreateReadinessFileFails

RemoveReadinessFile == readinessFile' = FALSE /\ UNCHANGED fileRoutine
=============================================================================
