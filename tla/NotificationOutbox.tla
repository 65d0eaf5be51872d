------------------------- MODULE NotificationOutbox -------------------------
(***************************************************************************)
(* The notification outbox (notifications/repository.py) and the worker    *)
(* processes that drain it (notifications/service.py, process_outbox).     *)
(*                                                                         *)
(* Producers insert an event in the transaction of the change it reports.  *)
(* A worker claims a batch, processes each event in a transaction of its   *)
(* own, and reports a failure in two more statements.  Claiming reads the  *)
(* candidates and updates them one by one later; reporting reads the row   *)
(* and updates it later: other workers may commit between.                 *)
(*                                                                         *)
(* Time is abstracted: a lease lapses, a backoff elapses and a reminder    *)
(* expires in environment steps.  A claim's LIMIT is not reached.          *)
(***************************************************************************)
EXTENDS Naturals

CONSTANTS
  Events,       \* events by idempotency key: one row for each at most
  Reminders,    \* TASK_REMINDER_DUE events of a task; the others never expire
  Endings,      \* events that make its reminders moot: started, finished, deleted ...
  Workers,      \* worker processes, by worker_id
  NoWorker,     \* locked_by IS NULL
  MaxAttempts,  \* max_attempts
  SlowWorkers,  \* whether a worker may outlive its lease
  MaxFaults     \* bound: crashes and outlived leases

ASSUME AttemptsAssumption == MaxAttempts \in Nat \ {0}
ASSUME FaultsAssumption   == MaxFaults \in Nat /\ SlowWorkers \in BOOLEAN
ASSUME EventsAssumption   == Reminders \subseteq Events /\ Endings \subseteq Events \ Reminders
ASSUME WorkerAssumption   == NoWorker \notin Workers

VARIABLES
  row,          \* notification_outbox
  notified,     \* events whose notification was created
  worker,       \* what each worker holds in memory
  faults        \* crashes and outlived leases so far

vars == <<row, notified, worker, faults>>

Statuses == {"absent", "queued", "processing", "failed", "processed", "expired", "cancelled"}

\* due: available_at has come; lapsed: locked_at is older than the lease;
\* late: expires_at has passed.
Row == [status: Statuses, attempts: Nat, owner: Workers \cup {NoWorker},
        due: BOOLEAN, lapsed: BOOLEAN, late: BOOLEAN]

NoRow == [status |-> "absent", attempts |-> 0, owner |-> NoWorker,
          due |-> FALSE, lapsed |-> FALSE, late |-> FALSE]

\* ready and stale: the candidates a claim has read; batch: the events claimed
\* and not done with; failing: the event whose failure is being reported.
Worker == [pc: {"idle", "claiming", "working", "failing", "marking"},
           ready: SUBSET Events, stale: SUBSET Events, batch: SUBSET Events,
           failing: SUBSET Events, permanent: BOOLEAN, seen: Nat]

Idle == [pc |-> "idle", ready |-> {}, stale |-> {}, batch |-> {},
         failing |-> {}, permanent |-> FALSE, seen |-> 0]

Init ==
  /\ row = [e \in Events |-> NoRow]
  /\ notified = {}
  /\ worker = [w \in Workers |-> Idle]
  /\ faults = 0

-----------------------------------------------------------------------------
(* The conditions of the UPDATEs, and what they set *)

Waiting(r) == r.status \in {"queued", "failed"}

\* Candidates of a claim: waiting, with attempts left, not backing off.
Ready(r) == Waiting(r) /\ r.attempts < MaxAttempts /\ r.due

\* Mutant of Stale: an abandoned row with no attempt left is overlooked.
StaleWithAttempts(r) == r.status = "processing" /\ r.lapsed /\ r.attempts < MaxAttempts

\* An abandoned row: processing under a lease that has lapsed.
Stale(r) == r.status = "processing" /\ r.lapsed

\* Mutant of Claimable: the claim trusts the candidates it has read.
ClaimableUnchecked(r) == r.status # "absent"

\* What a claim checks again when it takes a candidate; neither the attempts
\* nor the backoff are among it.
Claimable(r) == Waiting(r) /\ r.owner = NoWorker

Owned(r, w) == r.status = "processing" /\ r.owner = w

\* Mutant of Closed: the lock is left behind.
ClosedLocked(r, status) == [r EXCEPT !.status = status]

\* A row leaves the queue, or goes back to it: the lock is cleared.
Closed(r, status) == [r EXCEPT !.status = status, !.owner = NoWorker, !.lapsed = FALSE]

Recovered(r) == [Closed(r, "failed") EXCEPT !.due = TRUE]

Taken(r, w) ==
  [r EXCEPT !.status = "processing", !.owner = w, !.lapsed = FALSE,
            !.attempts = @ + 1, !.due = TRUE]

\* The UPDATE of mark_outbox_failed sets every column from what was read.
Returned(r, c) ==
  [Closed(r, "failed") EXCEPT
     !.due = FALSE,
     !.attempts = IF c.permanent \/ c.seen >= MaxAttempts THEN MaxAttempts ELSE c.seen]

\* Mutant of Cancellable: a reminder already shown is cancelled too.
CancellableAny(r) == r.status # "absent"

Cancellable(r) == Waiting(r)

\* The worker goes on with the rest of its batch; after it, it polls again.
Rest(c, e) ==
  IF c.batch = {e} THEN Idle ELSE [Idle EXCEPT !.pc = "working", !.batch = c.batch \ {e}]

-----------------------------------------------------------------------------
(* Producers and time *)

\* enqueue_event: ON CONFLICT(user_id, idempotency_key) DO NOTHING.
Enqueue(e) ==
  /\ row[e].status = "absent"
  /\ row' = [row EXCEPT ![e] = [NoRow EXCEPT !.status = "queued", !.due = TRUE]]
  /\ UNCHANGED <<notified, worker, faults>>

Elapse(e) ==
  /\ row[e].status = "failed" /\ ~row[e].due
  /\ row' = [row EXCEPT ![e].due = TRUE]
  /\ UNCHANGED <<notified, worker, faults>>

Expire(e) ==
  /\ e \in Reminders
  /\ row[e].status # "absent" /\ ~row[e].late
  /\ row' = [row EXCEPT ![e].late = TRUE]
  /\ UNCHANGED <<notified, worker, faults>>

\* No process is working on the row any more.
Abandoned(e) == \A w \in Workers : row[e].owner = w => e \notin worker[w].batch

\* The lease must cover the slowest batch (NotificationWorkerConfig), so only
\* a lease nobody works under lapses, unless workers may be slow.
Lapse(e) ==
  /\ row[e].status = "processing" /\ ~row[e].lapsed
  /\ Abandoned(e) \/ (SlowWorkers /\ faults < MaxFaults)
  /\ row' = [row EXCEPT ![e].lapsed = TRUE]
  /\ faults' = IF Abandoned(e) THEN faults ELSE faults + 1
  /\ UNCHANGED <<notified, worker>>

-----------------------------------------------------------------------------
(* A worker *)

\* claim_outbox up to its SELECT: the rows it will recover, and the ready ones.
ClaimRead(w) ==
  LET ready == {e \in Events : Ready(row[e]) /\ ~row[e].late}
      stale == {e \in Events : Stale(row[e])}
      swept == {e \in Events : Waiting(row[e]) /\ row[e].late}
  IN
  /\ worker[w].pc = "idle"
  /\ ready \cup stale \cup swept # {}
  /\ worker' = [worker EXCEPT ![w] =
       [Idle EXCEPT !.pc = "claiming", !.ready = ready, !.stale = stale]]
  /\ UNCHANGED <<row, notified, faults>>

\* claim_outbox's UPDATEs: expired rows are swept, stale leases recovered,
\* and the candidates taken that still are claimable.
ClaimWrite(w) ==
  LET c     == worker[w]
      fresh == {e \in c.ready : Claimable(row[e])}
      again == {e \in c.stale : Stale(row[e])}
      taken == fresh \cup {e \in again : row[e].attempts < MaxAttempts}
      swept == {e \in Events \ (c.ready \cup c.stale) : Waiting(row[e]) /\ row[e].late}
  IN
  /\ c.pc = "claiming"
  /\ row' = [e \in Events |->
       CASE e \in taken -> Taken(row[e], w)
         [] e \in again \ taken -> Recovered(row[e])
         [] e \in swept -> Closed(row[e], "expired")
         [] OTHER -> row[e]]
  /\ worker' = [worker EXCEPT ![w] =
       IF taken = {} THEN Idle ELSE [Idle EXCEPT !.pc = "working", !.batch = taken]]
  /\ UNCHANGED <<notified, faults>>

\* One transaction: create the notification, cancel the reminders of a task
\* that needs none any more, mark_outbox_processed.
Process(w, e) ==
  LET moot == IF e \in Endings THEN {r \in Reminders : Cancellable(row[r])} ELSE {} IN
  /\ worker[w].pc = "working" /\ e \in worker[w].batch
  /\ Owned(row[e], w)
  /\ ~row[e].late
  /\ row' = [f \in Events |->
       IF f = e THEN Closed(row[f], "processed")
       ELSE IF f \in moot THEN Closed(row[f], "cancelled")
       ELSE row[f]]
  /\ notified' = notified \cup {e}
  /\ worker' = [worker EXCEPT ![w] = Rest(@, e)]
  /\ UNCHANGED faults

\* mark_outbox_expired: too late, or a reminder the schedule no longer backs.
Discard(w, e) ==
  /\ worker[w].pc = "working" /\ e \in worker[w].batch
  /\ Owned(row[e], w)
  /\ e \in Reminders
  /\ row' = [row EXCEPT ![e] = Closed(@, "expired")]
  /\ worker' = [worker EXCEPT ![w] = Rest(@, e)]
  /\ UNCHANGED <<notified, faults>>

\* Any exception rolls the transaction back; a lease that is lost raises
\* OwnershipError, which counts as permanent.
Fail(w, e) ==
  /\ worker[w].pc = "working" /\ e \in worker[w].batch
  /\ \E permanent \in BOOLEAN :
       /\ ~Owned(row[e], w) => permanent
       /\ worker' = [worker EXCEPT ![w].pc = "failing", ![w].failing = {e},
                                   ![w].permanent = permanent]
  /\ UNCHANGED <<row, notified, faults>>

\* mark_outbox_failed's SELECT.  A row leased by nobody or by another worker
\* raises again, out of process_outbox: the rest of the batch is left.
FailRead(w, e) ==
  /\ worker[w].pc = "failing" /\ e \in worker[w].failing
  /\ worker' = [worker EXCEPT ![w] =
       IF row[e].owner = w THEN [@ EXCEPT !.pc = "marking", !.seen = row[e].attempts]
       ELSE Idle]
  /\ UNCHANGED <<row, notified, faults>>

\* mark_outbox_failed's UPDATE, which names the row and nothing else.
FailWrite(w, e) ==
  /\ worker[w].pc = "marking" /\ e \in worker[w].failing
  /\ row' = [row EXCEPT ![e] = Returned(@, worker[w])]
  /\ worker' = [worker EXCEPT ![w] = Rest(@, e)]
  /\ UNCHANGED <<notified, faults>>

\* The process dies or loses its connection; it starts again with nothing.
Crash(w) ==
  /\ worker[w].pc # "idle"
  /\ faults < MaxFaults
  /\ worker' = [worker EXCEPT ![w] = Idle]
  /\ faults' = faults + 1
  /\ UNCHANGED <<row, notified>>

Poll(w) ==
  \/ ClaimRead(w)
  \/ ClaimWrite(w)
  \/ \E e \in Events : Process(w, e) \/ Discard(w, e) \/ Fail(w, e)
                       \/ FailRead(w, e) \/ FailWrite(w, e)

Next ==
  \/ \E e \in Events : Enqueue(e) \/ Elapse(e) \/ Expire(e) \/ Lapse(e)
  \/ \E w \in Workers : Poll(w) \/ Crash(w)

Spec == Init /\ [][Next]_vars

\* Some worker is always polling, and time passes.
Fairness ==
  /\ \A w \in Workers : WF_vars(Poll(w))
  /\ \A e \in Events : WF_vars(Elapse(e)) /\ WF_vars(Lapse(e))

FairSpec == Spec /\ Fairness
-----------------------------------------------------------------------------
(* Properties *)

\* Types, and the two facts every claim relies on: a row is locked exactly
\* while it is processing, and only such a row has a lease that can lapse.
TypeOK ==
  /\ row \in [Events -> Row]
  /\ notified \subseteq Events
  /\ worker \in [Workers -> Worker]
  /\ faults \in Nat
  /\ \A e \in Events :
       /\ (row[e].owner # NoWorker) = (row[e].status = "processing")
       /\ row[e].lapsed => row[e].status = "processing"

\* Leases prevent concurrent claims: an event some worker is working on is
\* leased to that worker, under a lease that has not lapsed.
WorkIsLeased ==
  \A w \in Workers : \A e \in worker[w].batch : Owned(row[e], w) /\ ~row[e].lapsed

\* At most five attempts (MaxAttempts here) are made at an event.
BoundedAttempts == \A e \in Events : row[e].attempts <= MaxAttempts

\* An event that will not be taken up again.
Settled(e) ==
  \/ row[e].status \in {"processed", "expired", "cancelled"}
  \/ row[e].status = "failed" /\ row[e].attempts >= MaxAttempts

\* No event is lost: each that is enqueued is in the end processed, dropped as
\* expired or cancelled, or dead-lettered, for good, whatever fails or crashes.
EveryEventSettles ==
  \A e \in Events : <>[](row[e].status = "absent" \/ Settled(e))

\* The outbox is a durable queue: a notification is created in the one step
\* that finishes its event, and nothing finished or dropped comes back.
Stage(r) ==
  CASE r.status = "absent"                   -> "absent"
    [] r.status \in {"queued", "failed"}     -> "waiting"
    [] r.status = "processing"               -> "leased"
    [] r.status = "processed"                -> "finished"
    [] r.status \in {"expired", "cancelled"} -> "dropped"

Queue == INSTANCE DurableQueue WITH
           Jobs <- Events, state <- [e \in Events |-> Stage(row[e])], done <- notified
ImplementsQueue == Queue!Spec
=============================================================================
