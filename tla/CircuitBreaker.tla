--------------------------- MODULE CircuitBreaker ---------------------------
(***************************************************************************)
(* CircuitBreaker and call_with_resilience (external_resilience.py): any   *)
(* number of threads call a provider through one breaker, each with its    *)
(* own bounded retries.  A call may take longer than the recovery period,  *)
(* so that its answer meets a breaker others have opened, probed or closed.*)
(***************************************************************************)
EXTENDS Naturals

CONSTANTS
  Threads,       \* callers
  Threshold,     \* failure_threshold
  CallAttempts,  \* RetryPolicy.max_attempts
  MaxFailures    \* bound: counted failures

ASSUME BreakerAssumption ==
  Threshold \in Nat \ {0} /\ CallAttempts \in Nat \ {0} /\ MaxFailures \in Nat

VARIABLES
  opened,    \* _opened_at: "never", "recent", or "past" the recovery period
  failures,  \* _failures
  probe,     \* _probe_in_flight
  thread,    \* what each caller is doing
  probes     \* calls let through since the breaker last (re)opened

breakerVars == <<opened, failures, probe, thread, probes>>

Retryable == {"rate_limited", "transient", "unknown"}
FailureClasses == Retryable \cup {"authentication", "permanent", "configuration"}

Thread == [pc: {"idle", "calling", "waiting"}, attempt: 0 .. CallAttempts]
AtRest == [pc |-> "idle", attempt |-> 0]

BreakerInit ==
  /\ opened = "never" /\ failures = 0 /\ probe = FALSE
  /\ thread = [t \in Threads |-> AtRest]
  /\ probes = 0

\* Time passes: the breaker's recovery period, or a caller's pause.
Cool ==
  /\ opened = "recent"
  /\ opened' = "past"
  /\ UNCHANGED <<failures, probe, thread, probes>>

\* before_call: refuse while open; past the period let one probe through.
BeforeCall(t) ==
  /\ thread[t].pc \in {"idle", "waiting"}
  /\ IF opened = "recent" \/ (opened = "past" /\ probe)
     THEN /\ thread' = [thread EXCEPT ![t] = AtRest]
          /\ UNCHANGED <<probe, probes>>
     ELSE /\ thread' = [thread EXCEPT ![t] = [pc |-> "calling", attempt |-> @.attempt + 1]]
          /\ probe' = (probe \/ opened = "past")
          /\ probes' = IF opened = "past" THEN probes + 1 ELSE probes
  /\ UNCHANGED <<opened, failures>>

Succeeded(t) ==
  /\ thread[t].pc = "calling"
  /\ opened' = "never" /\ failures' = 0 /\ probe' = FALSE /\ probes' = 0
  /\ thread' = [thread EXCEPT ![t] = AtRest]

\* Mutant of Reopened: a breaker that is open keeps the time of its opening.
ReopenedOnce(count) ==
  IF count >= Threshold /\ opened = "never" THEN "recent" ELSE opened

\* Every failure at or beyond the threshold renews the opening.
Reopened(count) == IF count >= Threshold THEN "recent" ELSE opened

\* Mutant of ProbeAfterFailure: a failed probe is never taken back.
ProbeStays == probe

ProbeAfterFailure == FALSE

\* failed(), then the retry of call_with_resilience or its end.
Failed(t, class) ==
  /\ thread[t].pc = "calling"
  /\ failures < MaxFailures
  /\ failures' = failures + 1
  /\ probe' = ProbeAfterFailure
  /\ opened' = Reopened(failures + 1)
  /\ probes' = IF Reopened(failures + 1) = "recent" THEN 0 ELSE probes
  /\ thread' = [thread EXCEPT ![t] =
       IF class \in Retryable /\ @.attempt < CallAttempts
       THEN [@ EXCEPT !.pc = "waiting"] ELSE AtRest]

BreakerNext ==
  \/ Cool
  \/ \E t \in Threads : \/ BeforeCall(t)
                        \/ Succeeded(t)
                        \/ \E class \in FailureClasses : Failed(t, class)

\* Calls carry a timeout, threads run, and time passes.
BreakerFairness ==
  /\ WF_breakerVars(Cool)
  /\ \A t \in Threads :
       WF_breakerVars(Succeeded(t) \/ \E class \in FailureClasses : Failed(t, class))

-----------------------------------------------------------------------------
\* A provider that is down is probed once per opening: whatever answers come
\* late, from calls begun before the breaker opened, they let no second call
\* through until the recovery period has passed again.
OneProbePerOpening == opened # "never" => probes <= 1

\* The breaker does not stay shut on a probe whose answer has come: a probe
\* flag is cleared in the end, by its own answer or by another.
ProbeEnds == probe ~> ~probe
=============================================================================
