----------------------------- MODULE MCControls -----------------------------
(***************************************************************************)
(* The small state machines of the backend, and the two queues whose       *)
(* workers call a provider under a lease, checked in one run: a behaviour  *)
(* is one of the machine that "part" names, the variables of the others    *)
(* keep their initial values.  The machines share nothing in the code      *)
(* either (one Database object, one limiter, one breaker, one table, ...). *)
(*                                                                         *)
(* "token" is the push queue with applications that are installed anew and *)
(* one delivery at most, "push" the same without them and with as many     *)
(* deliveries as there are targets.                                        *)
(***************************************************************************)
EXTENDS TransactionScope, RateLimits, CircuitBreaker, CalendarAccount, WorkerLoop,
        CalendarSync, PushDelivery, Accounts, Assistant

VARIABLE part

smallVars == <<scopeVars, limitVars, breakerVars, accountVars, loopVars>>
controls == <<smallVars, syncVars, pushVars, entryVars, chatVars, part>>

MCEmailOf == CHOOSE f \in [Subjects -> Emails] : TRUE

Parts == {"scope", "sliding", "fixed", "breaker", "account", "loop", "sync", "push", "token", "entry", "chat"}

NobodyAsks ==
  /\ user = [i \in Ids |-> NoUser] /\ entry = [c \in Callers |-> AtDoor]
  /\ web = [c \in Callers |-> Somebody] /\ held = {} /\ served = Subjects /\ crashes = 0

Init ==
  /\ part \in Parts
  /\ ScopeInit /\ LimitInit /\ BreakerInit /\ AccountInit /\ LoopInit
  /\ SyncInit /\ PushInit /\ ChatInit
  /\ \/ part = "entry" /\ EntryInit
     \/ part # "entry" /\ NobodyAsks

SmallNext ==
  \/ /\ part = "scope" /\ ScopeNext
     /\ UNCHANGED <<limitVars, breakerVars, accountVars, loopVars>>
  \/ /\ \/ part = "sliding" /\ SlidingNext
        \/ part = "fixed" /\ FixedNext
     /\ UNCHANGED <<scopeVars, breakerVars, accountVars, loopVars>>
  \/ /\ part = "breaker" /\ BreakerNext
     /\ UNCHANGED <<scopeVars, limitVars, accountVars, loopVars>>
  \/ /\ part = "account" /\ AccountNext
     /\ UNCHANGED <<scopeVars, limitVars, breakerVars, loopVars>>
  \/ /\ part = "loop" /\ LoopNext
     /\ UNCHANGED <<scopeVars, limitVars, breakerVars, accountVars>>

QueueNext ==
  \/ part = "sync" /\ SyncNext /\ UNCHANGED pushVars
  \/ part = "push" /\ PushNext /\ UNCHANGED <<dead, syncVars>>
  \/ /\ part = "token" /\ PushNext /\ UNCHANGED syncVars
     /\ Cardinality({t \in Targets : delivery'[t].status # "none"}) <= 1

Next ==
  /\ UNCHANGED part
  /\ \/ SmallNext /\ UNCHANGED <<syncVars, pushVars, entryVars, chatVars>>
     \/ QueueNext /\ UNCHANGED <<smallVars, entryVars, chatVars>>
     \/ part = "entry" /\ EntryNext /\ UNCHANGED <<smallVars, syncVars, pushVars, chatVars>>
     \/ part = "chat" /\ ChatNext /\ UNCHANGED <<smallVars, syncVars, pushVars, entryVars>>

\* Threads run, a provider's calls end (they carry timeouts), time passes; a
\* worker's poll may hang.  SyncFairness and PushFairness, each for its part.
Fairness ==
  /\ BreakerFairness
  /\ WF_loopVars(part = "loop" /\ Silence)
  /\ WF_loopVars(part = "loop" /\ LoopStep)
  /\ \A w \in CalendarWorkers : WF_syncVars(part = "sync" /\ Works(w))
  /\ \A r \in SyncRequests : /\ WF_syncVars(part = "sync" /\ BackoffEnds(r))
                             /\ WF_syncVars(part = "sync" /\ LeaseLapses(r))
  /\ \A w \in PushWorkers : WF_pushVars(part \in {"push", "token"} /\ Pushes(w))
  /\ \A n \in Notices : WF_pushVars(part \in {"push", "token"} /\ NoticeEnds(n))
  /\ \A t \in Targets : /\ WF_pushVars(part \in {"push", "token"} /\ PushLapses(t))
                        /\ WF_pushVars(part \in {"push", "token"} /\ PushBackoffEnds(t))
  /\ \A p \in Subjects : WF_entryVars(part = "entry" /\ \E c \in Callers : Ask(c, p))
  /\ \A c \in Callers : WF_entryVars(part = "entry" /\ Ends(c))

\* What costs is bounded: the limiters, and the requests to the AI provider that
\* prompts of the chat cost.
UsageIsBounded == LimitsHold /\ ChatIsBounded

\* Every accepted Calendar operation ends, and so does every push delivery.
EveryQueueSettles == EveryOperationEnds /\ EveryDeliverySettles

Spec == Init /\ [][Next]_controls /\ Fairness
=============================================================================
