---------------------------- MODULE Supervision ----------------------------
(***************************************************************************)
(* What the wrapper promises about the commands it supervises, with none   *)
(* of the goroutines that bring it about: a command has at most one        *)
(* process, a process that dies is replaced, only a shutdown retires a     *)
(* command, and once a shutdown has begun a command gets at most one more  *)
(* process.  The wrapper completes when every command is retired.          *)
(***************************************************************************)
CONSTANT Commands

VARIABLES
  phase,      \* of each command: "down", "up" (its one process runs) or "retired"
  stopping,   \* a shutdown has begun
  spare,      \* commands that may still get a process during the shutdown
  outcome     \* "up" while the wrapper runs, otherwise how it ended

supervisionVars == <<phase, stopping, spare, outcome>>

Init ==
  /\ phase = [c \in Commands |-> "down"]
  /\ stopping = FALSE
  /\ spare = Commands
  /\ outcome = "up"

Spawn(c) ==
  /\ phase[c] = "down"
  /\ stopping => c \in spare
  /\ phase' = [phase EXCEPT ![c] = "up"]
  /\ spare' = IF stopping THEN spare \ {c} ELSE spare
  /\ UNCHANGED <<stopping, outcome>>

Die(c) ==
  /\ phase[c] = "up"
  /\ phase' = [phase EXCEPT ![c] = "down"]
  /\ UNCHANGED <<stopping, spare, outcome>>

Retire(c) ==
  /\ phase[c] = "down"
  /\ stopping
  /\ phase' = [phase EXCEPT ![c] = "retired"]
  /\ UNCHANGED <<stopping, spare, outcome>>

Stop ==
  /\ stopping' = TRUE
  /\ UNCHANGED <<phase, spare, outcome>>

Complete ==
  /\ \A c \in Commands : phase[c] = "retired"
  /\ outcome' = "completed"
  /\ UNCHANGED <<phase, stopping, spare>>

\* A process could not be started, or the wrapper panicked.
Abort ==
  /\ outcome' \in {"fatal", "panic"}
  /\ UNCHANGED <<phase, stopping, spare>>

Next ==
  /\ outcome = "up"
  /\ \/ \E c \in Commands : Spawn(c) \/ Die(c) \/ Retire(c)
     \/ Stop \/ Complete \/ Abort

Spec == Init /\ [][Next]_supervisionVars
=============================================================================
