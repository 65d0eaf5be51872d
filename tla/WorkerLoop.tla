----------------------------- MODULE WorkerLoop -----------------------------
(***************************************************************************)
(* The polling loop of the maintenance and Calendar workers and its        *)
(* heartbeat (maintenance_worker.py, calendar_worker.py,                   *)
(* operational_health.py).  A signal handler may stop the loop at any      *)
(* moment; a poll may take any time, and its outcome may come after.       *)
(***************************************************************************)
EXTENDS Naturals

CONSTANTS
  StaleAfter,   \* stale_after_seconds, in ticks
  MaxMisses     \* bound: consecutive failures told apart

ASSUME LoopAssumption == StaleAfter \in Nat \ {0} /\ MaxMisses \in Nat \ {0}

VARIABLES
  loop,      \* "checking" the stop event, "polling", "waiting" or "ended"
  stop,      \* the stop event, and the heartbeat's _stopped
  silence,   \* ticks since the last success or the start, up to StaleAfter + 1
  worked,    \* _last_success is not None
  misses     \* _consecutive_failures

loopVars == <<loop, stop, silence, worked, misses>>

LoopInit ==
  /\ loop = "checking" /\ stop = FALSE
  /\ silence = 0 /\ worked = FALSE /\ misses = 0

\* Mutant of Status: only outcomes count, not how long ago the last one was.
StatusOfOutcomes ==
  IF stop THEN "unhealthy" ELSE IF misses > 0 THEN "degraded" ELSE "healthy"

\* WorkerHeartbeat.snapshot
Status ==
  IF stop \/ silence > StaleAfter THEN "unhealthy"
  ELSE IF misses > 0 THEN "degraded" ELSE "healthy"

ReadyToServe == Status = "healthy" /\ worked

Silence ==
  /\ silence <= StaleAfter
  /\ silence' = silence + 1
  /\ UNCHANGED <<loop, stop, worked, misses>>

\* while not stop_event.is_set()
CheckStop ==
  /\ loop = "checking"
  /\ loop' = IF stop THEN "ended" ELSE "polling"
  /\ UNCHANGED <<stop, silence, worked, misses>>

PollSucceeds ==
  /\ loop = "polling"
  /\ loop' = "waiting"
  /\ silence' = 0 /\ worked' = TRUE /\ misses' = 0
  /\ UNCHANGED stop

\* An exception, or for the maintenance worker one account that failed: the
\* error is counted, the time of the last success kept.
PollFails ==
  /\ loop = "polling"
  /\ loop' = "waiting"
  /\ misses' = IF misses < MaxMisses THEN misses + 1 ELSE misses
  /\ UNCHANGED <<stop, silence, worked>>

\* wait(poll_seconds) returns when it has elapsed, or at once when stopped.
EndWait ==
  /\ loop = "waiting"
  /\ loop' = "checking"
  /\ UNCHANGED <<stop, silence, worked, misses>>

\* stop(): the heartbeat first, then the event.
Stop ==
  /\ ~stop
  /\ stop' = TRUE
  /\ UNCHANGED <<loop, silence, worked, misses>>

LoopStep == CheckStop \/ EndWait
LoopNext == Silence \/ LoopStep \/ PollSucceeds \/ PollFails \/ Stop

-----------------------------------------------------------------------------
\* A worker that only fails, or hangs in a poll, is noticed: whatever its
\* earlier polls did and however its failures and silences alternate, without
\* a new success it does not stay ready.
SilenceIsNoticed == []<>(silence = 0 \/ ~ReadyToServe)
=============================================================================
