---------------------------- MODULE CalendarSync ----------------------------
(***************************************************************************)
(* The Calendar operation queue and the sync.range operations it carries   *)
(* (calendar_security.py, calendar_worker.py, application_services.py):    *)
(* a user asks for ranges of one Google calendar to be read; workers claim *)
(* batches of the operations under leases, read Google outside every       *)
(* transaction, and store what they read, the state of the calendar and    *)
(* the operation's end in one.                                             *)
(*                                                                         *)
(* What Google holds is a version that grows; the events stored for a      *)
(* range are the version they were read at.  Leases lapse and backoffs     *)
(* elapse in steps of the environment.                                     *)
(***************************************************************************)
EXTENDS Naturals, FiniteSets

CONSTANTS
  SyncRequests,   \* operations, by their id
  Ranges,         \* date ranges
  NoRange,
  CalendarWorkers,
  Nobody,         \* locked_by IS NULL
  SyncAttempts,   \* max_attempts
  MaxVersion,     \* bound: changes made in Google
  SyncFaults      \* bound: crashes and leases outlived

ASSUME SyncAssumption ==
  /\ Nobody \notin CalendarWorkers /\ NoRange \notin Ranges
  /\ SyncAttempts \in Nat \ {0} /\ MaxVersion \in Nat \ {0} /\ SyncFaults \in Nat

VARIABLES
  op,         \* calendar_operations
  sync,       \* calendar_sync_state of the calendar
  version,    \* what Google holds
  cache,      \* google_calendar_events by range, 0 before the first read
  holder,     \* what each worker has in memory
  syncFaults,
  stored,     \* history: operations whose events have been stored
  crossed     \* history: two ranges were asked for, two workers read at once, or
              \* the account was disconnected

syncVars == <<op, sync, version, cache, holder, syncFaults, stored, crossed>>

Absent == [status |-> "absent", range |-> NoRange, attempts |-> 0, owner |-> Nobody,
           due |-> FALSE, lapsed |-> FALSE]

\* batch: operations claimed and not done with; at: the one being processed;
\* seen: the version read from Google.
HandsFree == [pc |-> "idle", batch |-> {}, at |-> {}, seen |-> 0]

SyncInit ==
  /\ op = [r \in SyncRequests |-> Absent]
  /\ sync = [status |-> "none", range |-> NoRange, asked |-> 0]
  /\ version = 1
  /\ cache = [g \in Ranges |-> 0]
  /\ holder = [w \in CalendarWorkers |-> HandsFree]
  /\ syncFaults = 0 /\ stored = {} /\ crossed = FALSE

-----------------------------------------------------------------------------
(* The user, and time *)

\* request_sync: mark_pending and enqueue in one transaction.
RequestSync(r, g) ==
  /\ op[r].status = "absent"
  /\ op' = [op EXCEPT ![r] = [Absent EXCEPT !.status = "queued", !.range = g, !.due = TRUE]]
  /\ sync' = [status |-> "pending", range |-> g, asked |-> version]
  /\ crossed' = (crossed \/ sync.range \notin {NoRange, g})
  /\ UNCHANGED <<version, cache, holder, syncFaults, stored>>

\* cancel
CancelSync(r) ==
  /\ op[r].status \in {"queued", "failed"}
  /\ op' = [op EXCEPT ![r].status = "cancelled"]
  /\ UNCHANGED <<sync, version, cache, holder, syncFaults, stored, crossed>>

\* disconnect: the events and the operations that wait go; the state of the
\* calendar stays, and so does what workers have claimed.
DisconnectAccount ==
  /\ sync.status # "none"
  /\ op' = [r \in SyncRequests |->
       IF op[r].status \in {"queued", "failed"}
       THEN [op[r] EXCEPT !.status = "cancelled"] ELSE op[r]]
  /\ cache' = [g \in Ranges |-> 0]
  /\ crossed' = TRUE
  /\ UNCHANGED <<sync, version, holder, syncFaults, stored>>

GoogleChanges ==
  /\ version < MaxVersion
  /\ version' = version + 1
  /\ UNCHANGED <<op, sync, cache, holder, syncFaults, stored, crossed>>

BackoffEnds(r) ==
  /\ op[r].status = "failed" /\ ~op[r].due
  /\ op' = [op EXCEPT ![r].due = TRUE]
  /\ UNCHANGED <<sync, version, cache, holder, syncFaults, stored, crossed>>

HasLeft(r) == \A w \in CalendarWorkers : op[r].owner = w => r \notin holder[w].batch

\* The lease is not renewed and nothing bounds a batch by it: a slow worker
\* outlives it.
LeaseLapses(r) ==
  /\ op[r].status = "processing" /\ ~op[r].lapsed
  /\ HasLeft(r) \/ syncFaults < SyncFaults
  /\ op' = [op EXCEPT ![r].lapsed = TRUE]
  /\ syncFaults' = IF HasLeft(r) THEN syncFaults ELSE syncFaults + 1
  /\ UNCHANGED <<sync, version, cache, holder, stored, crossed>>

-----------------------------------------------------------------------------
(* CalendarOperationQueue *)

\* Mutant of ReadyForClaim: stale leases are not taken up.
ReadyUnlocked(o) ==
  /\ o.attempts < SyncAttempts
  /\ o.status \in {"queued", "failed"} /\ o.due

\* The condition of claim_ready's SELECT and again of its UPDATE.
ReadyForClaim(o) ==
  /\ o.attempts < SyncAttempts
  /\ \/ o.status \in {"queued", "failed"} /\ o.due
     \/ o.status = "processing" /\ o.lapsed

\* Mutant of Leased: the UPDATE names the operation only.
LeasedAnyhow(o, w) == o.status # "absent"

\* The condition of mark_completed's and mark_failed's UPDATEs.
Leased(o, w) == o.status = "processing" /\ o.owner = w

Freed(o, status) ==
  [o EXCEPT !.status = status, !.owner = Nobody, !.lapsed = FALSE, !.due = FALSE]

\* mark_failed: without a retry no attempt is left.
FailedRow(o, retryable) ==
  [Freed(o, "failed") EXCEPT !.attempts = IF retryable THEN @ ELSE SyncAttempts]

\* claim_ready; the batch size is not reached.
ClaimSync(w) ==
  LET ready == {r \in SyncRequests : ReadyForClaim(op[r])} IN
  /\ holder[w].pc = "idle" /\ ready # {}
  /\ op' = [r \in SyncRequests |->
       IF r \in ready
       THEN [op[r] EXCEPT !.status = "processing", !.owner = w, !.lapsed = FALSE,
                          !.attempts = @ + 1]
       ELSE op[r]]
  /\ holder' = [holder EXCEPT ![w] = [HandsFree EXCEPT !.pc = "next", !.batch = ready]]
  /\ UNCHANGED <<sync, version, cache, syncFaults, stored, crossed>>

-----------------------------------------------------------------------------
(* CalendarWorker.run_once and _sync_range *)

Reading(w) == holder[w].pc \in {"fetching", "storing"}

\* _load_client has succeeded; mark_running, from any status but running.
BeginSync(w, r) ==
  /\ holder[w].pc = "next" /\ r \in holder[w].batch
  /\ holder' = [holder EXCEPT ![w].pc = "fetching", ![w].at = {r}]
  /\ sync' = [sync EXCEPT !.status = "running"]
  /\ crossed' = (crossed \/ \E v \in CalendarWorkers \ {w} : Reading(v))
  /\ UNCHANGED <<op, version, cache, syncFaults, stored>>

\* fetch_events_range
FetchRange(w) ==
  /\ holder[w].pc = "fetching"
  /\ holder' = [holder EXCEPT ![w].pc = "storing", ![w].seen = version]
  /\ UNCHANGED <<op, sync, version, cache, syncFaults, stored, crossed>>

Done(h) == IF h.batch = h.at THEN HandsFree
           ELSE [HandsFree EXCEPT !.pc = "next", !.batch = h.batch \ h.at]

\* Mutant of MayBeFresh: a state that is asked for again is overwritten.
MayBeFreshAnyhow(status) == status \in {"pending", "running", "fresh"}

\* The condition of mark_fresh.
MayBeFresh(status) == status \in {"running", "fresh"}

\* One transaction: the events, mark_fresh, the change and mark_completed.
StoreRange(w, r) ==
  /\ holder[w].pc = "storing" /\ r \in holder[w].at
  /\ MayBeFresh(sync.status) /\ Leased(op[r], w)
  /\ cache' = [cache EXCEPT ![op[r].range] = holder[w].seen]
  /\ sync' = [sync EXCEPT !.status = "fresh"]
  /\ op' = [op EXCEPT ![r] = Freed(@, "completed")]
  /\ stored' = stored \cup {r}
  /\ holder' = [holder EXCEPT ![w] = Done(@)]
  /\ UNCHANGED <<version, syncFaults, crossed>>

\* The account is not connected, Google fails, or the transaction is rolled
\* back; _fail begins with mark_error, in a transaction of its own.
FailSync(w, r) ==
  /\ \/ holder[w].pc = "next" /\ r \in holder[w].batch
     \/ holder[w].pc \in {"fetching", "storing"} /\ r \in holder[w].at
  /\ sync' = [sync EXCEPT !.status = "error"]
  /\ holder' = [holder EXCEPT ![w].pc = "failing", ![w].at = {r}]
  /\ UNCHANGED <<op, version, cache, syncFaults, stored, crossed>>

\* mark_failed; a lease that is lost raises out of run_once, and the rest of
\* the batch is left to its leases.
ReportFailure(w, r) ==
  /\ holder[w].pc = "failing" /\ r \in holder[w].at
  /\ \/ /\ Leased(op[r], w)
        /\ \E retryable \in BOOLEAN : op' = [op EXCEPT ![r] = FailedRow(@, retryable)]
        /\ holder' = [holder EXCEPT ![w] = Done(@)]
     \/ /\ ~Leased(op[r], w)
        /\ holder' = [holder EXCEPT ![w] = HandsFree]
        /\ UNCHANGED op
  /\ UNCHANGED <<sync, version, cache, syncFaults, stored, crossed>>

CalendarWorkerDies(w) ==
  /\ holder[w].pc # "idle"
  /\ syncFaults < SyncFaults
  /\ syncFaults' = syncFaults + 1
  /\ holder' = [holder EXCEPT ![w] = HandsFree]
  /\ UNCHANGED <<op, sync, version, cache, stored, crossed>>

Works(w) ==
  \/ ClaimSync(w) \/ FetchRange(w)
  \/ \E r \in SyncRequests : \/ BeginSync(w, r) \/ StoreRange(w, r)
                             \/ FailSync(w, r) \/ ReportFailure(w, r)

SyncNext ==
  \/ GoogleChanges \/ DisconnectAccount
  \/ \E r \in SyncRequests : \/ \E g \in Ranges : RequestSync(r, g)
                             \/ CancelSync(r) \/ BackoffEnds(r) \/ LeaseLapses(r)
  \/ \E w \in CalendarWorkers : Works(w) \/ CalendarWorkerDies(w)

\* Workers poll, and time passes.
SyncFairness ==
  /\ \A w \in CalendarWorkers : WF_syncVars(Works(w))
  /\ \A r \in SyncRequests : WF_syncVars(BackoffEnds(r)) /\ WF_syncVars(LeaseLapses(r))

SyncSpec == SyncInit /\ [][SyncNext]_syncVars

SyncFairSpec == SyncSpec /\ SyncFairness

-----------------------------------------------------------------------------
(* Properties *)

\* The queue is a durable queue, slow workers included: events are stored in
\* the one step that completes their operation, and what is completed or
\* cancelled is never taken up again.
SyncStage(o) ==
  CASE o.status = "absent"               -> "absent"
    [] o.status \in {"queued", "failed"} -> "waiting"
    [] o.status = "processing"           -> "leased"
    [] o.status = "completed"            -> "finished"
    [] o.status = "cancelled"            -> "dropped"

CalendarQueue == INSTANCE DurableQueue WITH
  Jobs <- SyncRequests, state <- [r \in SyncRequests |-> SyncStage(op[r])], done <- stored

ImplementsCalendarQueue == CalendarQueue!Spec

\* A state that says fresh: the events stored for its range are no older than
\* the request that asked for them.
Covered == sync.status = "fresh" => cache[sync.range] >= sync.asked

\* However requests, cancellations, failures, crashes and lost leases follow
\* each other, that holds while all requests are for one range, no two workers
\* read the calendar at a time and the account stays connected.
FreshIsRecent == ~crossed => Covered

\* An operation ends: completed, cancelled, failed for good; or it is left
\* processing by a worker that died or lost its lease in the last attempt,
\* which no worker takes up.
Ended(o) ==
  \/ o.status \in {"completed", "cancelled"}
  \/ o.attempts = SyncAttempts /\ (o.status = "failed" \/ o.lapsed)
EveryOperationEnds ==
  <>[](\A r \in SyncRequests : op[r].status # "absent" => Ended(op[r]))
=============================================================================
