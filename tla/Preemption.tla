----------------------------- MODULE Preemption -----------------------------
(***************************************************************************)
(* How the wrapper learns that its node is being preempted                 *)
(* (pkg/process/health.go): WaitPreemptionState asks the metadata server   *)
(* in long polls and hands the event over to PreemptionChecker, which      *)
(* marks the State and has the envoy listeners drained.                    *)
(*                                                                         *)
(* Time is counted in ticks; the module that composes this one says when   *)
(* they pass.  HANDLE_PREEMPTION is set.                                   *)
(***************************************************************************)
EXTENDS Naturals

CONSTANTS
  PollTimeout,   \* timeout_sec of the metadata request
  RetryDelay,    \* pause after a failed request
  MaxErrors      \* bound: requests that fail once the node is being preempted

ASSUME PreemptionAssumption ==
  PollTimeout \in Nat \ {0} /\ RetryDelay \in Nat \ {0} /\ MaxErrors \in Nat

VARIABLES
  preempting,   \* the metadata server's value: the node is being preempted
  poll,         \* control point of WaitPreemptionState
  pollTimer,    \* ticks left of the request, or of the pause after an error
  pollSeen,     \* the value when the request under way reached the server
  checker,      \* control point of PreemptionChecker
  preempted,    \* State.Preempted
  drain,        \* DrainEnvoyListeners; "off" without -envoy-drain
  notice,       \* history: ticks from the preemption to State.Preempted
  errors        \* history: requests that failed meanwhile

pollVars == <<poll, pollTimer, pollSeen>>
preemptionVars == <<preempting, pollVars, checker, preempted, drain, notice, errors>>

\* The time the wrapper may take to learn of the preemption after n errors: the
\* change falls between two requests, or each request fails when it is due.
NoticeBound(n) == (1 + n) * (RetryDelay + PollTimeout)
MaxNotice == NoticeBound(MaxErrors) + 1   \* the history is not followed further

PreemptionTypeOK ==
  /\ {preempting, pollSeen, preempted} \subseteq BOOLEAN
  /\ poll \in {"ask", "answer", "backoff", "send", "end"}
  /\ pollTimer \in 0..PollTimeout \cup 0..RetryDelay
  /\ checker \in {"select", "mark", "drain", "end"}
  /\ drain \in {"off", "idle", "asked", "drained", "failed"}
  /\ notice \in 0..MaxNotice
  /\ errors \in 0..MaxErrors

PreemptionInit ==
  /\ preempting = FALSE
  /\ poll = "ask" /\ pollTimer = 0 /\ pollSeen = FALSE
  /\ checker = "select"
  /\ preempted = FALSE
  /\ drain \in {"off", "idle"}
  /\ notice = 0 /\ errors = 0

\* The cloud announces the preemption.
Preempt ==
  /\ ~preempting
  /\ preempting' = TRUE
  /\ UNCHANGED <<pollVars, checker, preempted, drain, notice, errors>>
-----------------------------------------------------------------------------
(* WaitPreemptionState. *)

\* client.Do: the request reaches the server.  METADATA_URL, or the default, is one
\* that a request can be built for; with another the loop would spin for ever.
MetadataAsk ==
  /\ poll = "ask"
  /\ poll' = "answer"
  /\ pollTimer' = PollTimeout
  /\ pollSeen' = preempting
  /\ UNCHANGED <<preempting, checker, preempted, drain, notice, errors>>

\* Mutant of AnswerDue: the request is made without timeout_sec.
AnswerDueOnChange == preempting # pollSeen

\* wait_for_change=true&timeout_sec=60, and no last_etag: the server answers when
\* the value differs from what it was when the request came in, or at the timeout.
AnswerDue == preempting # pollSeen \/ pollTimer = 0

MetadataAnswer ==
  /\ poll = "answer"
  /\ AnswerDue
  /\ poll' = IF preempting THEN "send" ELSE "ask"
  /\ pollTimer' = 0
  /\ UNCHANGED <<preempting, pollSeen, checker, preempted, drain, notice, errors>>

\* Failures are counted, and bounded, once the node is being preempted.
CountError ==
  IF preempting THEN errors < MaxErrors /\ errors' = errors + 1 ELSE UNCHANGED errors

\* The request has failed; how the loop goes on depends on the failure.
MetadataFailed(next, pause) ==
  /\ poll = "answer"
  /\ CountError
  /\ poll' = next
  /\ pollTimer' = pause
  /\ UNCHANGED <<preempting, pollSeen, checker, preempted, drain, notice>>

\* Mutant of MetadataError: the pause is added to what is left of the request.
MetadataErrorAddsUp == MetadataFailed("backoff", pollTimer + RetryDelay)

\* client.Do failed: try again after a pause.
MetadataError == MetadataFailed("backoff", RetryDelay)

\* The body could not be read or closed, or the status is not 2xx: ask again at once.
MetadataBadAnswer == MetadataFailed("ask", 0)

MetadataRetry ==
  /\ poll = "backoff"
  /\ pollTimer = 0
  /\ poll' = "ask"
  /\ UNCHANGED <<preempting, pollTimer, pollSeen, checker, preempted, drain, notice, errors>>
-----------------------------------------------------------------------------
(* PreemptionChecker and DrainEnvoyListeners. *)

\* The unbuffered channel: sender and receiver meet.  The checker is the only
\* caller of PreemptedCancel, so the other case of its select never happens.
PreemptedEvent ==
  /\ poll = "send" /\ checker = "select"
  /\ poll' = "end"
  /\ checker' = "mark"
  /\ UNCHANGED <<preempting, pollTimer, pollSeen, preempted, drain, notice, errors>>

MarkPreempted ==
  /\ checker = "mark"
  /\ preempted' = TRUE
  /\ checker' = "drain"
  /\ UNCHANGED <<preempting, pollVars, drain, notice, errors>>

\* go DrainEnvoyListeners, which asks envoy or returns, as it is told to.
DrainWhen(switch) ==
  /\ checker = "drain"
  /\ checker' = "end"
  /\ drain' = IF drain = switch THEN "asked" ELSE drain
  /\ UNCHANGED <<preempting, pollVars, preempted, notice, errors>>

\* Mutant of DrainStart: the switch -envoy-drain is taken the wrong way round.
DrainStartInverted == DrainWhen("off")

\* Nothing is asked without -envoy-drain.
DrainStart == DrainWhen("idle")

\* The one request to envoy succeeds or fails; it is not repeated.
DrainEnds ==
  /\ drain = "asked"
  /\ drain' \in {"drained", "failed"}
  /\ UNCHANGED <<preempting, pollVars, checker, preempted, notice, errors>>

WaitPreemptionState == MetadataAsk \/ MetadataAnswer \/ MetadataRetry
MetadataFails == MetadataError \/ MetadataBadAnswer
PreemptionChecker == PreemptedEvent \/ MarkPreempted \/ DrainStart

\* What happens at once: a tick waits for it.
PreemptionUrgent ==
  \/ poll = "ask"
  \/ poll = "answer" /\ AnswerDue
  \/ poll = "backoff" /\ pollTimer = 0
  \/ poll = "send" /\ checker = "select"
  \/ checker \in {"mark", "drain"}

PreemptionTick ==
  /\ pollTimer' = IF pollTimer > 0 THEN pollTimer - 1 ELSE 0
  /\ notice' = IF preempting /\ ~preempted /\ notice < MaxNotice THEN notice + 1 ELSE notice
  /\ UNCHANGED <<preempting, poll, pollSeen, checker, preempted, drain, errors>>
=============================================================================
