------------------------------ MODULE Reminders ------------------------------
(***************************************************************************)
(* Task reminders (notifications/reconciliation.py, service.py,            *)
(* application_services.py): outbox rows TASK_REMINDER_DUE keyed by task,  *)
(* schedule revision and preferences, the local schedules made of them,    *)
(* and what reconciles both after schedule operations, task commands and   *)
(* changes of preferences or timezone.                                     *)
(*                                                                         *)
(* One plan, one segment per task.  A window is known by the revision that *)
(* wrote it: a reminder of revision r is at the right time when the task   *)
(* has not been placed since.  Leases, retries and expiry are the subject  *)
(* of NotificationOutbox; here an event is processed in one step, and a    *)
(* reminder in two: the check that it is current, and the commit.          *)
(***************************************************************************)
EXTENDS Naturals, FiniteSets

CONSTANTS
  PlanTasks,
  NotPlaced,     \* a pending task without a segment
  Over,          \* a task that is not pending
  Configs,       \* preferences, override and timezone, as the hashes tell apart
  Off,           \* the configurations with reminders off
  Revisions,     \* bound: schedule revisions, 0..n
  ConfigChanges  \* bound: changes of preferences

ASSUME ReminderAssumption ==
  /\ Off \subseteq Configs /\ 0 \in Revisions /\ ConfigChanges \in Nat
  /\ Revisions \subseteq Nat /\ NotPlaced # Over /\ {NotPlaced, Over} \cap Revisions = {}

VARIABLES
  revision,     \* plans.schedule_revision
  placed,       \* per task: NotPlaced, Over, or the revision that placed it
  config,       \* the user's configuration
  intents,      \* notification_outbox: status of each reminder row
  alarms,       \* notification_local_schedules: status of each
  events,       \* schedule and lifecycle events not processed yet
  checking,     \* reminders a worker has found current and not committed
  changes,      \* configuration changes made
  raced,   \* history: a change of preferences or the processing of an event
                \* committed while a reminder was being processed
  silenced      \* history: tasks whose reminder met the row of an earlier one, or
                \* was overtaken by an operation on other tasks

reminderVars == <<revision, placed, config, intents, alarms, events, checking, changes,
                  raced, silenced>>

\* The idempotency key of a reminder.
Identities == PlanTasks \X Revisions \X Configs

Pending(t) == placed[t] \in Revisions

ReminderInit ==
  /\ revision = 0
  /\ placed = [t \in PlanTasks |-> NotPlaced]
  /\ config \in Configs \ Off
  /\ intents = [i \in Identities |-> "none"]
  /\ alarms = [i \in Identities |-> "none"]
  /\ events = {} /\ checking = {} /\ changes = 0
  /\ raced = FALSE /\ silenced = {}

-----------------------------------------------------------------------------
(* Reconciliation, on the rows as rows = [intents, alarms] *)

Both == [intents |-> intents, alarms |-> alarms]

CancelIn(table, live, which) ==
  [i \in Identities |-> IF i \in which /\ table[i] \in live THEN "cancelled" ELSE table[i]]

\* Mutant of Cancelled: the local schedules stay.
CancelledIntentsOnly(rows, which) ==
  [rows EXCEPT !.intents = CancelIn(@, {"queued"}, which)]

\* Outbox rows that wait, and local schedules that have not fired.
Cancelled(rows, which) ==
  [intents |-> CancelIn(rows.intents, {"queued"}, which),
   alarms  |-> CancelIn(rows.alarms, {"scheduled"}, which)]

Of(tasks) == {i \in Identities : i[1] \in tasks}

\* Mutant of Superseded: reminders of any revision are.
SupersededAll(tasks, r) == Of(tasks)

\* Reminders of these tasks at another revision.
Superseded(tasks, r) == {i \in Of(tasks) : i[2] # r}

\* enqueue_event, with ON CONFLICT DO NOTHING.
Enqueued(rows, wanted) ==
  [rows EXCEPT !.intents = [i \in Identities |->
     IF i \in wanted /\ @[i] = "none" THEN "queued" ELSE @[i]]]

\* The reminders of tasks that are pending and placed, with reminders on.
Wanted(tasks, where, r, c) ==
  {i \in Of(tasks) : where[i[1]] \in Revisions /\ i[2] = r /\ i[3] = c /\ c \notin Off}

\* reconcile_schedule_notifications: a task that is not pending, or any task
\* with reminders off, has its reminders cancelled; the others have theirs
\* enqueued, and those of other revisions cancelled.
Reconciled(rows, tasks, c) ==
  LET on == {t \in tasks : c \notin Off /\ placed[t] # Over} IN
  Cancelled(Enqueued(rows, Wanted(on, placed, revision, c)),
            Of(tasks \ on) \cup Superseded(on, revision))

\* An enqueue that met a row, while no alarm of its identity goes off.
Refused(rows, tasks, c) ==
  {t \in tasks : \E i \in Wanted(tasks, placed, revision, c) :
                   i[1] = t /\ rows.intents[i] # "none"}

-----------------------------------------------------------------------------
(* Commands *)

\* A schedule operation places the tasks "moved" and removes "out" of the
\* schedule; its event names these tasks alone (_schedule_notification_payload).
Reschedule(moved, out) ==
  /\ revision + 1 \in Revisions
  /\ moved \cap out = {} /\ moved \cup out # {}
  /\ \A t \in moved : placed[t] # Over
  /\ \A t \in out : Pending(t)
  /\ revision' = revision + 1
  /\ placed' = [t \in PlanTasks |-> IF t \in moved THEN revision + 1
                                    ELSE IF t \in out THEN NotPlaced ELSE placed[t]]
  /\ events' = events \cup {[kind |-> "schedule", tasks |-> moved \cup out]}
  /\ silenced' = (silenced \ (moved \cup out)) \cup
       {t \in PlanTasks \ (moved \cup out) :
          Pending(t) /\ \E i \in Of({t}) : intents[i] \in {"queued", "processing"}}
  /\ UNCHANGED <<config, intents, alarms, checking, changes, raced>>

\* A task is started, completed, failed or deleted.
EndTask(t) ==
  /\ placed[t] # Over
  /\ placed' = [placed EXCEPT ![t] = Over]
  /\ events' = events \cup {[kind |-> "lifecycle", tasks |-> {t}]}
  /\ UNCHANGED <<revision, config, intents, alarms, checking, changes, raced, silenced>>

\* _reconcile_task_reminder_preferences, and change_timezone's version of it:
\* everything that waits is cancelled, then every pending task with a segment
\* is reconciled.  The new configuration may equal the old one.
ChangeConfig(c) ==
  LET due == {t \in PlanTasks : Pending(t)}
      cleared == Cancelled(Both, Identities)
      rows == Reconciled(cleared, due, c)
  IN
  /\ changes < ConfigChanges /\ changes' = changes + 1
  /\ config' = c
  /\ intents' = rows.intents /\ alarms' = rows.alarms
  /\ silenced' = silenced \cup Refused(cleared, due, c)
  /\ raced' = (raced \/ checking # {})
  /\ UNCHANGED <<revision, placed, events, checking>>

-----------------------------------------------------------------------------
(* The worker: process_outbox *)

\* SCHEDULE_OPERATION_APPLIED and _UNDONE, and the lifecycle events.
ProcessChange(e) ==
  LET rows == IF e.kind = "schedule" THEN Reconciled(Both, e.tasks, config)
              ELSE Cancelled(Both, Of(e.tasks)) IN
  /\ e \in events
  /\ events' = events \ {e}
  /\ intents' = rows.intents /\ alarms' = rows.alarms
  /\ silenced' = silenced \cup
       {t \in Refused(Both, e.tasks, config) :
          e.kind = "schedule" /\ \A i \in Of({t}) :
            /\ rows.alarms[i] # "scheduled" /\ rows.intents[i] \notin {"queued", "processing"}}
  /\ raced' = (raced \/ checking # {})
  /\ UNCHANGED <<revision, placed, config, checking, changes>>

\* reminder_is_current
IsCurrent(i) == Pending(i[1]) /\ i[2] = revision /\ i[3] = config

\* claim_outbox takes the row; a reminder that is not current is marked expired.
\* Bound: one reminder at a time is between its check and its commit.
CheckReminder(i) ==
  /\ intents[i] = "queued" /\ checking = {}
  /\ IF IsCurrent(i)
     THEN /\ intents' = [intents EXCEPT ![i] = "processing"]
          /\ checking' = checking \cup {i}
     ELSE /\ intents' = [intents EXCEPT ![i] = "expired"]
          /\ UNCHANGED checking
  /\ UNCHANGED <<revision, placed, config, alarms, events, changes, raced, silenced>>

\* create_notification, create_delivery and create_local_schedule, with
\* mark_outbox_processed.
CommitReminder(i) ==
  /\ i \in checking
  /\ checking' = checking \ {i}
  /\ intents' = [intents EXCEPT ![i] = "processed"]
  /\ alarms' = [alarms EXCEPT ![i] = "scheduled"]
  /\ UNCHANGED <<revision, placed, config, events, changes, raced, silenced>>

ReminderNext ==
  \/ \E moved, out \in SUBSET PlanTasks : Reschedule(moved, out)
  \/ \E t \in PlanTasks : EndTask(t)
  \/ \E c \in Configs : ChangeConfig(c)
  \/ \E e \in events : ProcessChange(e)
  \/ \E i \in Identities : CheckReminder(i) \/ CommitReminder(i)

ReminderSpec == ReminderInit /\ [][ReminderNext]_reminderVars

-----------------------------------------------------------------------------
(* Properties *)

Quiet == events = {} /\ checking = {}

\* The time of a reminder is the time of its task.
OnTime(i) == Pending(i[1]) /\ i[2] >= placed[i[1]]

\* Once the worker has caught up, an alarm that will go off is for a pending
\* task, at its present time, under the present preferences: commands that
\* commit while a reminder is processed are made good by their own events, and
\* only changes of preferences, and a second worker's events, are not.
AlarmsAreCurrent ==
  Quiet /\ ~raced =>
    \A i \in Identities : alarms[i] = "scheduled" => OnTime(i) /\ i[3] = config

Reminded(t) ==
  \E i \in Of({t}) : OnTime(i) /\ i[3] = config
                     /\ (alarms[i] = "scheduled" \/ intents[i] = "queued")

Due(t) == Pending(t) /\ config \notin Off

\* Once the worker has caught up, a pending task of the schedule has a reminder,
\* unless its key was used before or an operation on other tasks overtook it.
NoReminderIsLost ==
  Quiet => \A t \in PlanTasks : Due(t) /\ t \notin silenced => Reminded(t)

\* MOBILE_BACKEND_CONTRACTS.md:495-499: changes of preferences "enqueue
\* replacement intents for owned pending tasks that have scheduled segments".
ReplacementsAreQueued ==
  [][\A c \in Configs : ChangeConfig(c) =>
       \A t \in PlanTasks : Pending(t) /\ c \notin Off /\ events = {} => Reminded(t)']_reminderVars
=============================================================================
