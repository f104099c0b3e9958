--------------------------- MODULE SignalNotifier ---------------------------
(***************************************************************************)
(* The goroutine that handles the wrapper's own signals                    *)
(* (pkg/signals/signals.go).  It handles one signal at a time; the channel *)
(* it reads has room for one more, and the runtime drops a signal that     *)
(* finds the channel full.                                                 *)
(***************************************************************************)
EXTENDS CommandRunner

CONSTANT Signals   \* bound: the signals the environment sends, each at most once

ASSUME SignalsAssumption == Signals \subseteq {"TERM", "QUIT", "INT", "USR"}

VARIABLES
  sent,    \* signals sent to the wrapper
  sigs,    \* content of the channel
  notify   \* control point of Notify

signalVars == <<sent, sigs, notify>>

NotifyPc == {"recv", "cancelRoutines", "removeFile", "setShutdown", "terminate",
             "killer", "intShutdown", "intFile", "intCancel"}

SignalTypeOK ==
  /\ sent \in SUBSET Signals
  /\ sigs \in Signals \cup {"none"}
  /\ notify \in NotifyPc

SignalInit ==
  /\ sent = {}
  /\ sigs = "none"
  /\ notify = "recv"

\* The kernel delivers a signal: signal.Notify never blocks on the channel.
Deliver(s) ==
  /\ s \notin sent
  /\ sent' = sent \cup {s}
  /\ sigs' = IF sigs = "none" THEN s ELSE sigs
  /\ UNCHANGED <<stateVars, commandVars, notify>>

NotifyGoTo(from, to) ==
  notify = from /\ notify' = to /\ UNCHANGED <<sent, sigs>>

\* The branch of each signal; SIGUSR1 and SIGUSR2 only print.
Branch(s) == CASE s \in {"TERM", "QUIT"} -> "cancelRoutines"
               [] s = "INT" -> "intShutdown"
               [] s = "USR" -> "recv"

Receive ==
  /\ notify = "recv"
  /\ sigs # "none"
  /\ notify' = Branch(sigs)
  /\ sigs' = "none"
  /\ UNCHANGED <<stateVars, commandVars, sent>>

\* SIGTERM, SIGQUIT: graceful shutdown.
NotifyCancelRoutines ==
  /\ NotifyGoTo("cancelRoutines", "removeFile")
  /\ CancelRoutinesOf(RegisteredRoutines)
  /\ UNCHANGED <<mapVars, fileVars, mainVars, commandVars>>

NotifyRemoveFile ==
  /\ NotifyGoTo("removeFile", "setShutdown")
  /\ RemoveReadinessFile
  /\ UNCHANGED <<mapVars, ctxVars, mainVars, commandVars>>

NotifySetShutdown ==
  /\ NotifyGoTo("setShutdown", "terminate")
  /\ SetShutdown
  /\ UNCHANGED <<fileVars, ctxVars, mainVars, commandVars>>

\* A second later: SIGTERM to every pid in the map.  A signal to a process
\* that is gone has no effect.
TerminateProcess ==
  /\ NotifyGoTo("terminate", "killer")
  /\ termed' = termed \cup (GetPids \cap alive)
  /\ UNCHANGED <<stateVars, alive, runVars, hcVars, gsVars>>

\* Mutant of ProcessKiller: cancel is not called.
ProcessKillerNoCancel ==
  /\ NotifyGoTo("killer", "recv")
  /\ UNCHANGED <<stateVars, commandVars>>

\* The graceful shutdown deadline has passed.
ProcessKiller ==
  /\ NotifyGoTo("killer", "recv")
  /\ Cancel
  /\ UNCHANGED <<mapVars, fileVars, mainVars, commandVars>>

\* SIGINT: fast shutdown.
InterruptSetShutdown ==
  /\ NotifyGoTo("intShutdown", "intFile")
  /\ SetShutdown
  /\ UNCHANGED <<fileVars, ctxVars, mainVars, commandVars>>

InterruptRemoveFile ==
  /\ NotifyGoTo("intFile", "intCancel")
  /\ RemoveReadinessFile
  /\ UNCHANGED <<mapVars, ctxVars, mainVars, commandVars>>

InterruptCancel ==
  /\ NotifyGoTo("intCancel", "recv")
  /\ Cancel
  /\ UNCHANGED <<mapVars, fileVars, mainVars, commandVars>>

Notify ==
  \/ Receive
  \/ NotifyCancelRoutines \/ NotifyRemoveFile \/ NotifySetShutdown
  \/ TerminateProcess \/ ProcessKiller
  \/ InterruptSetShutdown \/ InterruptRemoveFile \/ InterruptCancel
=============================================================================
