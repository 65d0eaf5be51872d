---------------------------- MODULE TaskCommands ----------------------------
(***************************************************************************)
(* The task commands of one user (task_application.py), their idempotency  *)
(* records and the feed of changes they publish (mobile_repository.py),    *)
(* and the clean-up that fails the tasks of past days                      *)
(* (close_out_stale_tasks, run by maintenance_worker.py and by a page).    *)
(*                                                                         *)
(* A command is one PostgreSQL READ COMMITTED transaction: it inserts its  *)
(* idempotency record, reads the task and checks it, then updates it if    *)
(* its version is still the expected one, publishes it and commits.  From  *)
(* its UPDATE to its COMMIT it holds the row, so what others see of it is  *)
(* one step, Commit; what happened since its reads is Begin's concern.     *)
(* The transaction of the maintenance worker reads between its writes and  *)
(* is several steps, in which it holds the rows it has closed.             *)
(*                                                                         *)
(* A command has a fresh key, and a key stands for one request: a retry    *)
(* that finds a record answers from it and changes nothing.  The changes   *)
(* published for plans are left out: the feed holds those of tasks.        *)
(***************************************************************************)
EXTENDS Naturals, Sequences, FiniteSets

CONSTANTS
  Tasks,        \* task ids, the ones still to be created included
  Keys,         \* idempotency keys of the commands; bound: one command each
  Sessions,     \* database sessions that serve commands
  Offered,      \* the commands the clients of this instance issue
  CleanUps,     \* who fails the tasks of past days: "worker", "page"
  MaxDay,       \* bound: the last day
  None          \* no key, no task

Commands == {"create", "update", "delete", "start", "pause", "resume",
             "complete", "fail", "defer"}

ASSUME TasksAssumption    == IsFiniteSet(Tasks)
ASSUME CleanUpsAssumption == CleanUps \subseteq {"worker", "page"}
ASSUME OfferedAssumption  == Offered \subseteq Commands
ASSUME MaxDayAssumption   == MaxDay \in Nat
ASSUME NoneAssumption     == None \notin Tasks /\ None \notin Keys

VARIABLES
  row,          \* tasks
  today,        \* the user's local date
  record,       \* idempotency_records of the commands: key to response
  feed,         \* application_changes of tasks, by sync_revision
  sess,         \* the command each session has begun
  worker,       \* the transaction of the maintenance worker
  page,         \* the tasks a page is about to close
  cleaned       \* dates with a record of maintenance.close_stale_tasks

vars == <<row, today, record, feed, sess, worker, page, cleaned>>

Days == 0..MaxDay

\* timer stands for timer_segment_started_at (running) and paused_at (paused);
\* day is the date of the task's plan.
Row == [status: {"unborn", "pending", "in_progress", "completed", "failed", "gone"},
        timer: {"stopped", "running", "paused"}, version: Nat, day: Days]

Unborn == [status |-> "unborn", timer |-> "stopped", version |-> 0, day |-> 0]

Change == [task: Tasks, row: Row]

\* The request of a key and the version it led to; cmd is "none" before that.
Response == [cmd: Commands \cup {"none"}, task: Tasks \cup {None}, expected: Nat, version: Nat]

NoResponse == [cmd |-> "none", task |-> None, expected |-> 0, version |-> 0]

\* A command that has inserted its record and read its task.
Session == [cmd: Commands \cup {"none"}, key: Keys \cup {None},
            task: Tasks \cup {None}, expected: Nat]

NoSession == [cmd |-> "none", key |-> None, task |-> None, expected |-> 0]

NoWorker == [pc |-> "idle", date |-> 0, items |-> {}, closed |-> {},
             seen |-> [t \in Tasks |-> Unborn]]

\* items: the tasks listed to be published; seen: rows as read, to be closed
\* and then to be published; closed: rows closed and not committed.
Worker == [pc: {"idle", "listed", "scanned", "closed", "publishing"}, date: Days,
           items: SUBSET Tasks, closed: SUBSET Tasks, seen: [Tasks -> Row]]

TypeOK ==
  /\ row \in [Tasks -> Row]
  /\ today \in Days
  /\ record \in [Keys -> Response]
  /\ feed \in Seq(Change)
  /\ sess \in [Sessions -> Session]
  /\ worker \in Worker
  /\ page \in [Tasks -> Row]
  /\ cleaned \subseteq Days

Init ==
  /\ row = [t \in Tasks |-> Unborn]
  /\ today = 0
  /\ record = [k \in Keys |-> NoResponse]
  /\ feed = <<>>
  /\ sess = [s \in Sessions |-> NoSession]
  /\ worker = NoWorker
  /\ page = [t \in Tasks |-> Unborn]
  /\ cleaned = {}

-----------------------------------------------------------------------------
(* The state machine of a task *)

Exists(r) == r.status \notin {"unborn", "gone"}

Open(r) == r.status \in {"pending", "in_progress"}

\* What a command requires of the task it has read.
Legal(c, r) ==
  \/ c = "update" /\ Open(r)
  \/ c = "delete" /\ Exists(r) /\ r.status # "in_progress"
  \/ c \in {"start", "defer"} /\ r.status = "pending"
  \/ c = "pause"  /\ r.status = "in_progress" /\ r.timer = "running"
  \/ c = "resume" /\ r.status = "in_progress" /\ r.timer = "paused"
  \/ c \in {"complete", "fail"} /\ Open(r)

\* Mutant of Finished: the timer of a finished task runs on.
FinishedRunning(r, status) == [r EXCEPT !.status = status, !.version = @ + 1]

Finished(r, status) ==
  [r EXCEPT !.status = status, !.timer = "stopped", !.version = @ + 1]

\* The row a command leaves behind; a deleted task is published as gone.
After(c, r) ==
  CASE c = "create"   -> [r EXCEPT !.status = "pending"]
    [] c = "update"   -> [r EXCEPT !.version = @ + 1]
    [] c = "delete"   -> Finished(r, "gone")
    [] c = "start"    -> [r EXCEPT !.status = "in_progress", !.timer = "running",
                                   !.version = @ + 1]
    [] c = "pause"    -> [r EXCEPT !.timer = "paused", !.version = @ + 1]
    [] c = "resume"   -> [r EXCEPT !.timer = "running", !.version = @ + 1]
    [] c = "complete" -> Finished(r, "completed")
    [] c = "fail"     -> Finished(r, "failed")
    [] c = "defer"    -> [r EXCEPT !.version = @ + 1, !.day = today + 1]

\* The event of a command takes the user's row in notification_sync_state.
Notifies(c) == c \notin {"pause", "resume"}

-----------------------------------------------------------------------------
(* Commands *)

\* Mutant of Unclaimed: a transaction that has the key is not waited for.
UnclaimedUnlocked(k) == record[k] = NoResponse

\* The INSERT of the key succeeds: it waits for a transaction that has
\* inserted it, and finds the record if that one commits.
Unclaimed(k) == record[k] = NoResponse /\ \A u \in Sessions : sess[u].key # k

\* Insert the record, read the task, check its version and state.  What is
\* refused rolls back and leaves nothing.
Begin(s) ==
  /\ sess[s] = NoSession
  /\ \E k \in Keys, c \in Offered :
       /\ Unclaimed(k)
       /\ IF c = "create"
          THEN sess' = [sess EXCEPT ![s] = [cmd |-> c, key |-> k, task |-> None, expected |-> 0]]
          ELSE \E t \in Tasks :
                 /\ Legal(c, row[t])
                 /\ sess' = [sess EXCEPT ![s] = [cmd |-> c, key |-> k, task |-> t,
                                                 expected |-> row[t].version]]
  /\ UNCHANGED <<row, today, record, feed, worker, page, cleaned>>

\* Mutant of Matches: the UPDATE does not compare the version.
MatchesAnyVersion(q, r) ==
  Exists(r) /\ (q.cmd \notin {"update", "delete"} => Legal(q.cmd, r))

\* The WHERE clause of the UPDATE, on the row as committed by then.
Matches(q, r) ==
  /\ Exists(r)
  /\ r.version = q.expected
  /\ q.cmd \notin {"update", "delete"} => Legal(q.cmd, r)

\* A new task takes an unused id; the others find their row.
Target(q, t) ==
  IF q.cmd = "create" THEN row[t] = Unborn ELSE t = q.task /\ Matches(q, row[t])

\* Rows and revisions held by the maintenance transaction.
Free(q, t) == t \notin worker.closed /\ (Notifies(q.cmd) => worker.closed = {})

Answer(q, t) ==
  [cmd |-> q.cmd, task |-> t, expected |-> q.expected, version |-> row'[t].version]

\* Mutant of Published: an edit is not published.
PublishedButEdits(q, t) ==
  IF q.cmd = "update" THEN feed ELSE Append(feed, [task |-> t, row |-> row'[t]])

Published(q, t) == Append(feed, [task |-> t, row |-> row'[t]])

\* UPDATE, publish, store the response, COMMIT.
Commit(s) ==
  /\ sess[s] # NoSession
  /\ \E t \in Tasks, d \in Days :
       /\ Target(sess[s], t)
       /\ Free(sess[s], t)
       /\ sess[s].cmd = "defer" => today < MaxDay
       /\ row' = [row EXCEPT ![t] = IF sess[s].cmd = "create"
                                    THEN [After("create", @) EXCEPT !.day = d]
                                    ELSE After(sess[s].cmd, @)]
       /\ feed' = Published(sess[s], t)
       /\ record' = [record EXCEPT ![sess[s].key] = Answer(sess[s], t)]
  /\ sess' = [sess EXCEPT ![s] = NoSession]
  /\ UNCHANGED <<today, worker, page, cleaned>>

\* The UPDATE matches no row, the request fails, the process dies.
Rollback(s) ==
  /\ sess[s] # NoSession
  /\ sess' = [sess EXCEPT ![s] = NoSession]
  /\ UNCHANGED <<row, today, record, feed, worker, page, cleaned>>

-----------------------------------------------------------------------------
(* The clean-up of past days *)

Stale(t) == Open(row[t]) /\ row[t].day < today

\* Mutant of Scan: only the rows of stale tasks are kept.
ScanStaleOnly == [t \in {u \in Tasks : Stale(u)} |-> row[t]]

\* The tasks to close, with the rows as read; Unborn is not to be closed.
Scan == [t \in Tasks |-> IF Stale(t) THEN row[t] ELSE Unborn]

\* Mutant of Closable: the rows that were read are closed.
ClosableUnchecked(seen, t) == seen[t] # Unborn

\* The UPDATE compares version and status with what was read.
Closable(seen, t) ==
  seen[t] # Unborn /\ row[t].version = seen[t].version /\ row[t].status = seen[t].status

\* The page's session: one SELECT, then one transaction.  Nothing is published.
PageScan ==
  /\ "page" \in CleanUps
  /\ \E t \in Tasks : Stale(t)
  /\ page' = Scan
  /\ UNCHANGED <<row, today, record, feed, sess, worker, cleaned>>

PageClose ==
  /\ \E t \in Tasks : page[t] # Unborn
  /\ worker.closed = {} \/ ~ \E t \in Tasks : Closable(page, t)
  /\ row' = [t \in Tasks |-> IF Closable(page, t) THEN Finished(row[t], "failed") ELSE row[t]]
  /\ page' = [t \in Tasks |-> Unborn]
  /\ UNCHANGED <<today, record, feed, sess, worker, cleaned>>

\* The worker's transaction: the date's record is new, and the tasks to
\* publish are listed.
WorkerList ==
  /\ "worker" \in CleanUps
  /\ worker.pc = "idle"
  /\ today \notin cleaned
  /\ worker' = [worker EXCEPT !.pc = "listed", !.date = today,
                              !.items = {t \in Tasks : Stale(t)}]
  /\ UNCHANGED <<row, today, record, feed, sess, page, cleaned>>

\* close_out_stale_tasks reads them again, and the date as well.
WorkerScan ==
  /\ worker.pc = "listed"
  /\ worker' = [worker EXCEPT !.pc = "scanned", !.seen = Scan]
  /\ UNCHANGED <<row, today, record, feed, sess, page, cleaned>>

\* Close the rows that are as they were read, and hold them.
WorkerClose ==
  /\ worker.pc = "scanned"
  /\ worker' = [worker EXCEPT !.pc = "closed", !.seen = NoWorker.seen,
                              !.closed = {t \in Tasks : Closable(worker.seen, t)}]
  /\ UNCHANGED <<row, today, record, feed, sess, page, cleaned>>

\* A row as the worker's transaction sees it.
Own(t) == IF t \in worker.closed THEN Finished(row[t], "failed") ELSE row[t]

\* Read the first task to publish, skipping the ones that are gone.
WorkerRead ==
  /\ worker.pc = "closed"
  /\ \E t \in worker.items :
       worker' = IF Exists(Own(t))
                 THEN [worker EXCEPT !.pc = "publishing", !.seen[t] = Own(t)]
                 ELSE [worker EXCEPT !.items = @ \ {t}]
  /\ UNCHANGED <<row, today, record, feed, sess, page, cleaned>>

\* The sequences that hold each member of S once.
Orders(S) == {q \in [1..Cardinality(S) -> S] : \A t \in S : \E i \in 1..Cardinality(S) : q[i] = t}

\* The task read before the transaction has the user's revision.
First == {t \in worker.items : worker.pc = "publishing" /\ worker.seen[t] # Unborn}

\* The others are read under it: nobody publishes between.
Rest == {t \in worker.items \ First : Exists(Own(t))}

\* Publish, store the response under the date, COMMIT.
WorkerCommit ==
  /\ worker.pc = "publishing" \/ (worker.pc = "closed" /\ worker.items = {})
  /\ row' = [t \in Tasks |-> Own(t)]
  /\ \E p \in Orders(First), q \in Orders(Rest) :
       feed' = feed \o [i \in DOMAIN p |-> [task |-> p[i], row |-> worker.seen[p[i]]]]
                    \o [i \in DOMAIN q |-> [task |-> q[i], row |-> Own(q[i])]]
  /\ cleaned' = cleaned \cup {worker.date}
  /\ worker' = NoWorker
  /\ UNCHANGED <<today, record, sess, page>>

WorkerRollback ==
  /\ worker.pc # "idle"
  /\ worker' = NoWorker
  /\ UNCHANGED <<row, today, record, feed, sess, page, cleaned>>

Midnight ==
  /\ today < MaxDay
  /\ today' = today + 1
  /\ UNCHANGED <<row, record, feed, sess, worker, page, cleaned>>

Next ==
  \/ \E s \in Sessions : Begin(s) \/ Commit(s) \/ Rollback(s)
  \/ PageScan \/ PageClose
  \/ WorkerList \/ WorkerScan \/ WorkerClose \/ WorkerRead \/ WorkerCommit \/ WorkerRollback
  \/ Midnight

Spec == Init /\ [][Next]_vars

-----------------------------------------------------------------------------
(* Properties *)

Answered(k) == record[k].cmd # "none"

\* Two clients that saw the same version of a task cannot both change it: the
\* second is told VERSION_CONFLICT (task_application.py, the version in every
\* UPDATE).  A clean-up wins or loses against them in the same way.
OneWinnerPerVersion ==
  \A j, k \in Keys :
    /\ Answered(j) /\ Answered(k) /\ j # k
    /\ record[j].cmd # "create" /\ record[k].cmd # "create"
    /\ record[j].task = record[k].task
    => record[j].expected # record[k].expected

\* What a key was answered stays: however often a request is repeated, it is
\* carried out once, and every answer is the first (execute_idempotent).
ResponsesAreFinal ==
  [][\A k \in Keys : Answered(k) => record'[k] = record[k]]_vars

\* The timer is a substate of in_progress: a task in progress is running or
\* paused, so it can always be paused or resumed, and no other task has a timer.
TimerFollowsStatus ==
  \A t \in Tasks : row[t].status = "in_progress" <=> row[t].timer # "stopped"

Phase(r) == IF r.status = "in_progress" THEN r.timer ELSE r.status

Moves ==
  {"pending", "running", "paused"} \X {"completed", "failed"}
  \cup {"pending", "completed", "failed"} \X {"gone"}
  \cup {<<"unborn", "pending">>, <<"pending", "running">>, <<"running", "paused">>,
        <<"paused", "running">>}
  \cup {<<p, p>> : p \in {"pending", "running", "paused"}}

\* Whoever writes a task, and whatever committed since it was read: the step is
\* one of the contract's state machine, makes one new version, and only a
\* pending task changes its day.
LegalSteps ==
  [][\A t \in Tasks : row'[t] # row[t] =>
       /\ <<Phase(row[t]), Phase(row'[t])>> \in Moves
       /\ row'[t].version = row[t].version + (IF row[t] = Unborn THEN 0 ELSE 1)
       /\ row'[t].day # row[t].day => row'[t].status = "pending"]_vars

\* The newest change of a task, if any, is the task as it is.
FeedIsCurrent ==
  \A t \in Tasks : row[t] # Unborn =>
    \E i \in 1..Len(feed) :
      /\ feed[i] = [task |-> t, row |-> row[t]]
      /\ \A j \in i + 1..Len(feed) : feed[j].task # t
=============================================================================
