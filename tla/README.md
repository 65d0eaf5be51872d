# TLA+ models of CoachAI

CoachAI is a Streamlit application, a FastAPI backend and three background
workers that share one PostgreSQL database (`database.py`, READ COMMITTED, no
`FOR UPDATE`). Its hard behaviour is in that database: sessions that schedule,
edit and undo at the same time, and workers that drain queues of notification
and calendar work under leases. This directory models that behaviour in TLA+,
checks it with TLC on small instances, and proves the main results with TLAPS
for every size.

## 1. Inventory

| Component | State | Operations | Interacts with |
|---|---|---|---|
| Plans, segments, schedule operations (`database.py`, `scheduler_service.py`, `application_services.py`) | `plans.schedule_revision`, `tasks`, `task_segments`, `schedule_operations` | schedule a plan, move a task, add and schedule, apply a multi-day plan, undo, create / update / delete / defer a task, place by hand | enqueues outbox events and calendar operations in its transactions |
| Notification outbox and worker (`notifications/repository.py`, `service.py`, `worker.py`, `worker_runtime.py`) | `notification_outbox`, `notifications`, the worker's batch | enqueue, claim, recover, process, expire, fail, retry | driven by every component that reports a change |
| Notifications and inbox (`notifications/policy.py`, `service.py`, `repository.py`, `application_services.py`) | `notifications`, preferences, `notification_sync_state` | decide, write, expire, cancel, read, act, page to a device | made of outbox events |
| Reminder reconciliation (`notifications/reconciliation.py`) | reminder rows of the outbox, local schedules | enqueue reminders of a task, cancel them, judge one current | reads segments, revisions and preferences |
| Push deliveries (`notifications/repository.py`, `service.py`, `providers/`) | `notification_deliveries`, device tokens | claim, send, accept, retry, cancel | external push services |
| Task commands (`task_application.py`, `mobile_repository.py`) | `tasks.version`, status and timer columns, `idempotency_records` | create, update, delete, start, pause, resume, complete, fail, defer; idempotent replay | the schedule (edits), outbox, sync feed; called by the API and by the Streamlit pages |
| Sync feed (`mobile_repository.py`) | `application_changes`, `application_sync_state` | record a change, page through changes, snapshot | mobile clients |
| Clean-up of past days (`close_out_stale_tasks`, `maintenance_worker.py`, `layout.py`) | a record per user and date | fail the stale tasks, publish them (worker only) | task commands, outbox, sync feed |
| Calendar queue and range reads (`calendar_security.py`, `calendar_worker.py`) | `calendar_operations`, `calendar_sync_state`, cached events | enqueue, claim, read a range, store, complete, fail, cancel | Google Calendar |
| Calendar export (`calendar_worker.py`, `google_calendar.py`) | segment calendar columns, operation snapshots | create, update, delete events; reconcile after a change or an Undo | schedule commands, Google Calendar |
| Calendar connection (`calendar_security.py`, `application_services.py`) | `oauth_states`, `google_oauth_tokens` | issue and consume a state, exchange, refresh, revoke, disconnect | Google |
| Scheduling algorithms (`smart_scheduler.py`, `scheduler_service.py`, `future_planner.py`, `session_suitability.py`) | none | allocate tasks to free time, split, fill gaps, rank, search several days, validate | called by the scheduling commands between preview and apply |
| Streamlit pages and service layer (`services.py`, `planner_service.py`, `layout.py`, `pages/`, `app.py`) | `st.session_state` of each session, variables of `services.py` shared by all of them | task commands, drafts and splits, the dialogue of Future Planning, Undo, timers on screen, clean-up of past days, manual placement | task and schedule commands; manual placement and clean-up write the database directly |
| Assistant (`chatbot_service.py`, its page) | messages of a session, the provider's conversation | prompt, stream, call tools, clear | rate limiter, language model |
| Accounts (`identity.py`, `layout.py`, `database.py`) | `users`, `user_profiles` | provision an identity, guest, sign up, log in, disable | HTTP API, entry screen |
| Rate limiters, circuit breaker (`rate_limiter.py`, `external_resilience.py`) | windows and counters | admit, reject, open, probe | HTTP API, external calls |
| Database object and unit of work (`database.py`, `unit_of_work.py`) | a connection, nesting depth, flags | execute, nest, commit, roll back, reconnect, release | everything |
| Worker loops (`maintenance_worker.py`, `calendar_worker.py`, `operational_health.py`) | stop event, heartbeat | poll, fail, wait, stop, report | the queues |
| Metrics (`operational_metrics.py`) | none of their own | count | the tables |
| Planning requests, recommendation, voice | none | parse, score, answer | external model |
| HTTP API, identity, configuration, observability | none | route, validate | everything |
| Analytics and presentation | none | aggregate, draw | read only |

What is hard here, and what makes each part correct:

* **Schedule.** A layout is computed from a preview and applied later. The
  revision of every plan it writes must still be the previewed one when it
  commits; nothing else (no row lock on what was read) protects the tasks,
  windows and progress it was computed from. Undo must restore what its own
  operation replaced and nothing newer. Some writers compare nothing.
* **Outbox.** Claiming and failing take two statements each, workers crash with
  a batch in hand, and reminders are cancelled while they are claimed. No
  event may be lost, processed by two workers at once, or come back once
  finished; its notification and its completion are one transaction.
* **Tasks.** A command checks version and state on a row it read without a
  lock. Retried commands, other sessions and a clean-up after midnight meet on
  that row: one of those that read a version may win, the task may take only
  steps of its state machine, and a key is answered once.
* **Sync feed.** A device must be able to trust that, once it has applied every
  change, it shows every task as it is; pages and snapshots are read in several
  statements while commands commit.
* **Calendar.** A worker that outlives or loses its lease repeats calls to
  Google; deterministic identities must make that harmless. Events are created
  between two transactions while commands replace segments. A state of OAuth
  serves once; a disconnection overtakes callbacks and refreshes.
* **Reminders, notifications.** They follow a schedule and preferences that move
  while workers decide; quiet hours, expiry and cooldowns meet at boundaries; a
  device must not miss what a later transaction changes.
* **Push.** At-least-once sends outside the transaction that claims them, tokens
  that die, an application installed anew.
* **Algorithms.** Loops that split, fill and pin must lose no minute, place none
  twice and end; a reduced search claims to lose nothing.
* **Pages.** A script runs again at every click, several sessions share one
  process and its variables; what is applied must be what was shown.
* **Limits, breaker, transactions.** Boundaries of windows, late answers, errors
  swallowed in a nested block.

`PROJECT.json` lists the components with their status, and every hazard at its
line with the properties that cover it.

## 2. Modules

| Module | What it is |
|---|---|
| `ScheduleOperations` | the schedule of one user under concurrent sessions |
| `PlanStore` | its abstract specification: one atomic step per command |
| `MCScheduleOperations` | symmetry for TLC |
| `ScheduleOperationsProofs` | theorems about the two |
| `NotificationOutbox` | the outbox table and the workers that drain it |
| `DurableQueue` | its abstract specification: what a queue with leases promises |
| `TaskCommands` | a user's tasks under commands, replays and clean-ups, and the changes they publish |
| `DeviceSync` | composes `TaskCommands` with a device that follows the changes |
| `MCTaskCommands` | symmetry for TLC |
| `TaskCommandsProofs` | theorems about the task commands and about the device |
| `TaskTimer` | the seconds of one task's timer, its minutes, and the countdowns of pages |
| `NotificationPolicy`, `NotificationInbox` | what becomes of an event; the user's notifications and a device that follows them |
| `PushDelivery` | deliveries, workers, devices and their tokens |
| `Reminders` | reminders and local schedules over a schedule and preferences that change |
| `CalendarSync` | the Calendar queue and its range reads; implements `DurableQueue` too |
| `CalendarExport` | a plan's events in Google Calendar |
| `CalendarAccount` | OAuth states, tokens, refresh and disconnection |
| `Intervals`, `SessionLengths` | pure: intervals of time, the order of tasks; how minutes are divided into sessions |
| `SmartAllocation`, `DayPlanning` | the allocator, one action per branch; the three operations of one day around it |
| `FuturePlanning` | the preview of several days, and the search it claims to be exact |
| `TodayDrafts`, `PlanningDialogue`, `PageResults` | three dialogues of the pages |
| `NotificationsProofs` | theorems about the outbox, and about notifications and their device |
| `PlanningProofs` | theorems about `SmartAllocation` and `DayPlanning` and about `TodayDrafts`, and the lemmas on sums, sessions and intervals they need |
| `PreviewProofs` | theorems about `FuturePlanning` |
| `ProjectionsProofs` | theorems about reminders and the export to Google Calendar |
| `PagesProofs` | theorems about `PageResults`, `PlanningDialogue` and `TaskTimer` |
| `Assistant` | the chat |
| `Accounts` | how identities and people get accounts |
| `TransactionScope`, `RateLimits`, `CircuitBreaker`, `WorkerLoop` | one small state machine each |
| `ControlsProofs` | theorems about what `MCControls` checks: `PushDelivery`, `CalendarSync`, `CircuitBreaker`, `TransactionScope`, `CalendarAccount`, `RateLimits` and `Assistant` |
| `MCNotifications`, `MCControls`, `MCProjections`, `MCPlanning` | check several of these in one run |

The last four modules put machines that share nothing next to each other: `part`
names the one a behaviour is about, the variables of the others keep their only
initial value. The states of such a run are the sum of the machines' states, and
its properties are conjunctions over the machines; each machine still has its
own `Init`, `Next` and properties in its module.

### ScheduleOperations

State: `revision` is `plans.schedule_revision`; `planOf` is `tasks.plan_id`
(`Unborn` before the INSERT, `Gone` after the DELETE); `slot` stands for the rows
of `task_segments` and the cached window in `tasks`; `started` for the progress
columns; `op` for `schedule_operations` with its before snapshot; `events` for
the outbox rows the operations enqueue; `sess` for what an open transaction has
read.

Under READ COMMITTED the SELECTs of a transaction take no lock, so every command
that reads and later writes without a version check is two actions:

| Code | Read phase | Write phase |
|---|---|---|
| `schedule_plan` / `replace_plan_segments` | `BeginSchedule` | `CommitApply` |
| `move_flexible_task` | `BeginMove` | `CommitApply` |
| `add_and_schedule_task` | `BeginAdd` | `CommitApply` (two revisions) |
| `FuturePlanningService.apply` / `apply_future_plan` | `BeginFuture` | `CommitApply` |
| `undo_schedule_operation` | `CheckUndo` | `CommitUndo` |
| `_undo_future_schedule_operation` | `CheckUndo` | `CommitUndoFuture` |
| `set_single_task_segment` | `BeginWindow` | `CommitWindow` |
| `update_task`, `delete_task`, `move_task_unscheduled` | one step: `UpdateTask`, `DeleteTask`, `DeferTask` (task_application.py compares the task's `version` in the same transaction) | |
| `add_task`, starting a task | one step: `CreateTask`, `StartTask` | |
| any failure, lost connection | `Rollback` | |

Abstractions. The segments of a task are one window, and two tasks overlap when
they have the same window: enough for what revisions, snapshots and Undo must
tell apart. The layout a scheduler computes is *any* layout its validation
accepts (`Layouts`), so the results do not depend on the algorithm. A write
phase is one step because it holds the plan row, or the segment rows it has
deleted, until COMMIT: a second write phase on the same plan waits, deadlocks or
meets the UNIQUE constraint, and is then a `Rollback`. Calendar columns, the
creation of missing daily plans, category checks and task versions are left out.
`started` also covers finished tasks, so deleting is not restricted by it.

### NotificationOutbox

State: `row` is the table, with `due` for `available_at` being reached, `lapsed`
for `locked_at` being older than the lease, `late` for `expires_at` having
passed; `notified` is which events have their notification; `worker` is what a
worker process holds in memory (the candidates it read, its batch, the failure
it is reporting). Claiming is `ClaimRead` (the SELECT) and `ClaimWrite` (the
UPDATEs of the sweep, the recovery and the claim); processing an event is one
transaction (`Process` or `Discard`); a failure is `Fail`, `FailRead`,
`FailWrite`, as in `mark_outbox_failed`. `Crash` may happen at any point. Time is
the environment's: `Elapse`, `Expire`, `Lapse`. A lease lapses only when nobody
works under it (`NotificationWorkerConfig` refuses a lease shorter than the
slowest batch), unless `SlowWorkers`. Which notification is written,
its cooldown and channel are the subject of `NotificationInbox`; the claim's LIMIT is
left out. Only reminders expire or
become stale.

### TaskCommands

State: `row` is `tasks` (status, timer as stopped / running / paused, version,
day of the plan); `record` is `idempotency_records` of the commands, `cleaned`
those of the maintenance worker; `feed` is `application_changes` for tasks, its
index the `sync_revision`; `sess`, `worker` and `page` are what open
transactions have read.

| Code | Actions |
|---|---|
| any command of `TaskApplicationService`: INSERT of the key, `_task`, `_require_version`, state check | `Begin` |
| its UPDATE, `_emit_task_change` / tombstone, the stored response, COMMIT | `Commit` |
| UPDATE without a row, exception, lost connection | `Rollback` |
| `_close_user_day` | `WorkerList`, `WorkerScan`, `WorkerClose`, `WorkerRead`, `WorkerCommit`, `WorkerRollback` |
| `close_out_stale_tasks` from a page | `PageScan`, `PageClose` |
| `user_today` | `Midnight` |

A command is two steps because its UPDATE holds the row until COMMIT, and its
event the user's row of `notification_sync_state`, its change that of
`application_sync_state`: whoever else writes them waits, so revisions are
committed in their order. The worker holds the rows it has closed, but takes the
user's revision only with the first change it records; its reads before that
are steps of their own, the ones after it are not. `Legal` is the check on the
row read, `Matches` the WHERE clause on the row as it is by then, `After` the
SET clause.

Abstractions. Every command has a fresh key: a repeated request finds the record
and changes nothing, so a replay is a stutter. Titles, minutes and segments are
left out, timer seconds are in `TaskTimer` (a timer that runs is `running`), as are the changes of
plans and segments that a command publishes after its task's, and the writes of
the scheduler, which `ScheduleOperations` has. One maintenance worker: two would
wait for each other on the date's record. A user who moves to another timezone,
so that the date steps back, is not modelled.

### DeviceSync

`device` is a mobile client as `MOBILE_BACKEND_CONTRACTS.md` describes it: it
applies a page and keeps its revision, and asks again. `SyncSince` and
`ApplyPage` are the two reads of `sync_since`; `SnapshotBegin`, `SnapshotRead`
and `SnapshotEnd` are `full_snapshot`, with the retry after a moved revision. A
snapshot replaces the cache. Old changes are never purged in the code
(`minimum_available_revision` is only read), so `full_resync_required` is left out.

### TaskTimer

Time is in ticks, `PerSecond` to a second, since columns hold microseconds and
sums whole seconds. `Start`, `Pause`, `Resume`, `Finish` are the UPDATEs of
`TaskApplicationService._lifecycle`, `CloseOut` is `_stale_task_actual_minutes` with the clean-up,
`Render` and `Hide` are pages with a countdown. `truth` is what really passed; the
properties compare the columns, the credited minutes and the screen with it.

### NotificationPolicy and NotificationInbox

`Decision` is `NotificationPolicy.decide`: the tables of channels and urgency, quiet
hours that may pass midnight, the expiry of each type. A transaction that
processes an event is `Decide` (what it reads: settings, the cooldown, the
policy at this time) and `Create` (what it writes), or `Abandon`. `ExpireDue`, `MarkRead`,
`SavePreferences` each take a revision and write under it. An action is `AcceptAction` (the
check in `application_services.py`) and `MarkActed` (the write). A device's page is
`AskForPage`, which reads the revision, and `ReceivePage`, or `LosePage`.

### Reminders

`Reschedule(moved, out)` is any schedule operation: a new revision, the tasks it
moves and those it takes off; `EndTask` a lifecycle command; `ChangeConfig` a change of
preferences with its reconciliation in the same transaction. `intents` are the
outbox rows by identity (task, revision, configuration), `alarms` the local
schedules. The worker processes schedule and lifecycle events in one step
(`ProcessChange`) and a reminder in two (`CheckReminder`, `CommitReminder`), since its check of the
plan and its commit may be separated by other commits.

### PushDelivery

A claim is a SELECT and UPDATEs, a send happens outside any transaction and may
be accepted, refused for now, for ever, or because the token is dead, or its
answer is lost. `Notify` writes the deliveries with the notification, `Register` is a
device that renews its token, `BecomesObsolete` a task or revision that moves on under an
active notification. Leases lapse only when abandoned, because
`NotificationWorkerConfig` checks the lease against the timeouts of a whole batch.

### CalendarSync, CalendarExport, CalendarAccount

`CalendarSync` is `calendar_operations` as the queue of range reads: `RequestSync` and `CancelSync`
are the user's, a worker claims, reads Google (`version` grows there) and stores what
it read, the calendar's state and the end of the operation in one transaction.

`CalendarExport` is the reconciliation of a plan's segments with Google: commands
(`Place`, `MoveFixed`, `DeleteTask`, `Defer`, `Undo`) record a snapshot and queue an operation; `Process`
carries it out between transactions and calls, one call or write per step;
answers may be lost, and the worker may die. Events are named by the row their
id was computed from and by generation, as `_deterministic_event_id` does. `Foreign` events are
the user's own, imported as tasks.

`CalendarAccount` is the connection: `IssueState`, the callback in its two transactions with
the exchange between them (`Present`, `Consume`, `Exchange`, `SaveExisting`, `SaveTokens`), `PurgeStates`, the worker's
refresh in steps, `Revoked`, `Disconnect`. A grant is named by the state that obtained it.

### Intervals, SessionLengths, SmartAllocation, DayPlanning

`SessionLengths` translates `session_suitability.py` with exact fractions; the nature of a
task, which the code finds in its words, is an input. `SmartAllocation` has one action
per branch of `SmartScheduler.allocate`: each pass places a session or all that
is left, fills a gap, moves the cursor or gives up. `DayPlanning` begins allocations as
`schedule_plan`, `add_and_schedule_task` and `move_flexible_task` do, replans, and checks the result as
`_validate_allocation` does before it is committed. The allocation is deterministic, so that a
behaviour is a sequence of operations. The translation was compared with the
Python functions on random inputs while it was written.

### FuturePlanning

`Preview` ranks the tasks, `Keep` keeps the sessions that are still good, `Place` takes the
best candidate of the reduced search (`Candidates`), `GiveUp` leaves a task out, and
`ApplyAndPlanAgain` writes the plan and previews again. `ReductionIsExact` compares the search with
all triples of windows.

### TodayDrafts, PlanningDialogue, PageResults

One action per click or per call between which the script may be stopped.
`TodayDrafts`: a draft, the warning of a heavy day, the split over two days, which is
saved task by task (`CreateToday`, `KeepToday`, `DeferRest`), with faults, a reload and midnight at
any point. `PlanningDialogue`: scope, method and request of Future Planning, its preview
and what is applied; plans change in other sessions. On the manual path the form has a state of its own:
`EditForm` leaves the preview below it as it is, `PreviewManual` makes one of what the form
holds. `PageResults`: the variables
`_LAST_DURABLE_SCHEDULER` and its neighbours, written by the command of one session and read call by call
by its page while other sessions run theirs.

### Assistant, Accounts

`Assistant`: a prompt is shown, admitted by the limiter, streamed, may ask for tools
up to `MaxRounds` times, and may be interrupted; each send costs a request, and one more each time the
client tries again on 408, 429 or 5xx (`SendAgain`, up to `SendAttempts` requests); the provider's client keeps a
conversation only of answers that ended. `Accounts`: `Ask` reads a user, `Ends` inserts or
fails on a UNIQUE index; from INSERT to COMMIT an id and an address are held, and a
caller may die there.

### TransactionScope, RateLimits, CircuitBreaker, WorkerLoop

Each is its class: `Database.transaction` with nesting, `commit()` of helpers, errors caught
on the way, the connection replaced; the two limiters; `CircuitBreaker` with
`call_with_resilience` in several threads; the loop of a Calendar or maintenance worker with the readiness computed from
its heartbeat (the notification worker's loop keeps a state of its own, which is not modelled).

## 3. Runs

| Run | Instance | Shows |
|---|---|---|
| `ScheduleApply` | 1 plan, 2 tasks, 2 windows, 2 sessions | every one-plan command but Undo, interleaved: `LinearHistory`, `ContentIsVersioned` |
| `ScheduleFuture` | 2 plans, 2 tasks, 2 sessions | multi-day apply and Undo against manual placement: all plans or none, `EventNamesItsRevision`, refinement of `PlanStore`, whose Undo keeps newer work |
| `ScheduleSerial` | 2 plans, 1 session | every kind of Undo, one-plan Undo included, in sequences of legal commands and starts: refinement of `PlanStore` |
| `TaskCommands` | 2 tasks, 4 keys, 2 sessions, 2 days, worker and page | `OneWinnerPerVersion`, `ResponsesAreFinal`, `TimerFollowsStatus`, `LegalSteps` |
| `DeviceSync` | 2 tasks, 4 keys, 1 session, pages of 2, no clean-up | `FeedIsCurrent`, `CaughtUpIsCurrent`, `NeverGoesBack`, `Converges` |
| `OutboxCrashes` | a reminder, its ending, 2 workers, 2 attempts, a crash; five kinds of events over a day of six slots and two workers; a device with pages of 1 | `WorkIsLeased`, refinement of `DurableQueue`, `EveryEventSettles`; `NoticesAreTimely`, `NoticesAreSpaced`, `InboxIsCurrent` |
| `Controls` | 2 or 3 of each actor | `BlockIsAtomic`, `UsageIsBounded`, `OneProbePerOpening`, `StateServesOnce`, `SilenceIsNoticed`, `EveryPrincipalGetsIn`; the Calendar queue implements `DurableQueue` and keeps its state true (`FreshIsRecent`); `RepeatsNeedFaults`; both queues settle |
| `Projections` | 2 tasks, 2 windows, 3 commands, 2 faults; 2 tasks, 2 revisions, 2 changes of preferences | `CalendarFollows`, `ForeignIsUntouched`, `RemindersFollow` |
| `Planning` | days of 3 tasks out of a catalogue of 6, 2 operations, moves to two times, one before the start of the day; 3 tasks over 3 evenings; one timer, 3 drafts, one dialogue, 3 sessions of 2 accounts | `DayIsSound`, `PassesAdvance`, `FuturePlanHolds`, `ReductionIsExact`, `TimeIsAccounted`, `DraftsLandOnce`, `AppliedWasShown`, `PagesStayApart` |
| `ScheduleUndoRace` | 2 sessions | violation: one-plan Undo overwrites a schedule committed after its check |
| `CalendarUndo` | 1 task, 2 commands | violation: the event of a segment that Undo removed stays in Google Calendar |
| `SmartDeadlines` | the day's catalogue, an event at 22:00 | violation: a filler between two sessions pushes the second past its deadline |

Bounds. `MaxRevision` stops commands that would take a revision above it; at 3
or 4 a plan lives through several operations, their Undo and an edit in
between. Two tasks make a conflict, a swap and a before-snapshot that differs
per task; two sessions make every race between a reader and a writer, and a
third would only repeat one of their roles (the proofs have no such bound).
`Kinds` selects the commands of an instance, so that each run stays small. In
the outbox two attempts are the first case with a retry *and* a last attempt;
`MaxFaults` bounds crashes. The schedule runs do not check deadlock: at
`MaxRevision` every command is refused and the instance stops. The outbox runs
do not either: with all events settled the workers find nothing to do. Nor do the
task runs: when the keys are used up and the last day has come, users are done.
The same holds for the machines of the later runs: each stops when its bound on
commands, clicks, requests or time is reached.

In `TaskCommands` four keys carry a task through creation, two competing commands
and one more, or two tasks through two commands each, and a second day is what
the clean-ups need. `fail` differs from `complete` in the status only and is left
to the proofs. A page of two changes makes feeds of up to four changes cross a
page boundary. `DeviceSync` leaves clean-ups out because of what the two violated
properties below show: with either of them a device can be left behind or sent back.

In `OutboxCrashes` a slot is four hours, so that quiet hours of two slots pass midnight and
end within the day; with pages of one row every boundary between two revisions
is one between two pages. The device's part stops after two slots, because what
matters to it is that rows change, not when. In `Controls` three threads and a
threshold of two let one call fail late while another probes; three requests
and two places per window leave one that is refused; two attempts give the
queues a retry and a last attempt; `token` has one delivery with applications
installed anew, `push` two devices without. In `Projections` three commands are an
export, a change that overtakes it and an Undo or a deletion; two faults are a
lost answer and a death while it is repeated. In `Controls` a send has two attempts, one of them a
repetition (the client has three). In `OutboxCrashes` two workers decide in the policy's part, and one in the device's, where
nothing depends on who decides. The catalogue of `Planning` has the
tasks that make the allocator's branches meet: one that prefers sessions, with a
deadline, fillers of three sizes, an earliest start, a Fixed task and a break; its
two Calendars leave one long gap or three short ones. The evenings leave windows
of equal and different lengths, so that longer tasks need three of them.

Fairness (`FairSpec`). `run_forever` polls for ever and a crashed worker process
is restarted, hence `WF(Poll(w))`; clocks advance, hence weak fairness of
`Elapse` and `Lapse`. Producers, expiry and crashes are not fair. The bound on
crashes makes the assumption that in the end a worker stays up long enough.
`FairDeviceSpec` has weak fairness of the device's steps together: the contract
has the client ask for the next page while there is one and repeat what failed.
Nothing is assumed of users, workers or the clock. In `Controls` each machine has its
own fairness, guarded by `part`: workers of the queues poll, backoffs and
leases elapse, notifications come to their end (their expiry passes), threads of the breaker return
(their calls carry timeouts), time passes at a worker's loop while a poll may hang for ever, and a
client whose request failed asks again. Nothing else is fair; in particular nobody
succeeds by assumption. That operations of the day end is an action
property (`PassesAdvance`): every pass of the allocator's inner loop decreases a
finite measure, which says the same without fairness.

## 4. Proofs

All proofs hold for arbitrary constants (plans, tasks, windows, sessions,
operation ids, kinds of commands, events, workers, keys, days, page sizes, devices,
users, threads and bounds), from the assumptions named in the modules (`Tasks`
and `Chats` finite; the special values are not plans, windows, tasks, keys,
numbers, requests or events; what Google reports as absent or gone is not a window;
revisions of reminders are numbers; events and settings of the inbox are well
formed; at least one attempt; a page has room for a change; a threshold is
positive; the planners' tasks are finitely many and have positive minutes, the
day starts before it ends, Calendar blocks and Fixed tasks lie inside it, as `allocate`
demands with `ValueError`, and no deadline is later than any time; the horizon has at most the twelve
weeks of `validate_horizon`, and segments and blocks of the multi-day planner end on the day
they begin; its tasks stand for their ids and are compared as these are, saved ones before drafts, whose ids are
given after all others, `future_planner.py:550`; a draft has not begun; an event is of a task only when a
segment in the horizon names it, `:470-474`). None restricts the code: they say that values of different kinds differ,
that bounds are numbers, and what the code has checked before.

* `TypeCorrect` of `ScheduleOperationsProofs`: `Spec => []TypeOK`. Inductive as it stands.
* `HistoryIsLinear`: `Spec => []LinearHistory`, inductive together with
  `TypeOK`: every step leaves revisions equal or larger, and the one that records an
  operation records it from the current revision of each of its plans, because
  it has compared it. It holds for *every* mix of commands, one-plan Undo
  included.
* `TransactionsImplementStore` and `ContentsAreVersioned`, under `CompareOnly`
  (no one-plan Undo, and not both manual placement and deferral; the runs
  `ScheduleUndoRace` and `ScheduleWindowRace` show that neither can be
  dropped). The invariant is `Inv == TypeOK /\ LinearHistory /\ Snapshots`:
  `Snapshots` says that what an open transaction read is still true *if* the
  revisions it read are current. It is kept because every step of the store
  either leaves a plan alone or gives it a larger revision (`StepVersions`),
  which itself follows from the refinement: so the step simulation comes first
  (`StoreStep`), the invariance of `Snapshots` after it.
* `UndosKeepNewerWork` and `EventsNameRevisions`, under `UndoUncontested`: no one-plan
  Undo among the commands, or one session. `UndoInv` says that an open Undo knows the
  plans and the result of its operation, and that a one-plan Undo, which will not
  compare them, still finds them; the latter survives only because the session
  that has it open is the only one. Every step then writes no operation, records one or
  undoes one (`WriteCases`), each with the revisions its event reports.
* `OutboxTypeCorrect`: `TypeOK` with the fact that a row is locked exactly while
  it is processing. Holds with slow workers too.
* `LeasesExclude` and `OutboxIsQueue`, for workers that do not outlive their
  leases: `LeaseInv == TypeOK /\ WorkIsLeased /\ FailingHeld`. `FailingHeld` (the event
  whose failure is reported is still in the batch) is what makes the unguarded
  UPDATE of `mark_outbox_failed` harmless under that assumption. With
  `SlowWorkers = TRUE` TLC finds `ImplementsQueue` violated: that UPDATE puts back
  a row another worker has processed.
* The theorems of `TaskCommandsProofs` share one inductive invariant, `IInv`.
  Beside `TypeOK`, `TimerFollowsStatus` and `OneWinnerPerVersion` it needs
  `KeysHeld` (an open command's key is its own and has no answer), `ReadsHold` (if
  the version a command has read is still the row's, the row is in a state the
  command has checked), `Spent` (the version an answered command has changed is
  past) and `CleanUpsHold` (what a clean-up holds closed stays open underneath).
  The core is `NextRows`: every step leaves a row alone or takes it one legal step
  further, whence versions only grow (`Versions`). `Responses` and `Legality`
  are action properties from the same invariant.
* `FeedCurrent`, for `CleanUps = {}`: a commit appends the row it leaves and touches
  no other, so `FeedIsCurrent` is inductive beside `IInv`. With clean-ups it
  is false, as `DeviceWorkerCleanUp.cfg` shows.
* `CaughtUp` and `NoDeviceGoesBack`, for `CleanUps = {}` and any page size: a device's
  cache is what the first `cursor` changes leave behind (`Reflects`). A page is
  bounded by a revision read before its rows, and a device in a snapshot reads
  tables one at a time, so the invariant also says that a snapshot reflects the
  whole feed *if* its first revision is still the last one. On the server's side
  it needs, beside `FeedCurrent`, that later changes of a task are later
  versions and that nothing follows a deletion (`FeedGrows`): this is what makes a
  jump over several changes of one task a step forward.
* `RepeatsAreExcused` of `ControlsProofs`: `PushInv` says who holds each row
  (`RowInv`: at most one worker works on a row, under its lease or after the row
  was settled by somebody else), and counts (`CountInv`: a row that may still be
  sent has been accepted no more often than faults have happened). The claim
  reads a row before it writes it, so `RowInv` must hold across that gap.
* `FreshStaysRecent` of `ControlsProofs`: until requests or readers cross, all
  operations name the account's range, one worker reads, and what it has read is
  no older than the request (`Straight`). `CalendarQueueIsDurable` needs no such
  exception: each step moves each operation along one edge of `DurableQueue` and
  stores exactly what it finishes (`QueueMoves`).
* `ProbesOnce`, `BlocksAreAtomic` and `StatesServeOnce` of `ControlsProofs`. The breaker's
  invariant ties the flag to the age of the opening: freshly opened it lets
  nobody through, later only with the flag set. That of a transaction says that
  the writes of an open block are pending and none is durable, unless an error
  has been marked. That of the account follows a grant from the state it was
  asked with through the callback or refresh that holds it to the token row.

* `UsageBounded`: the sliding limiter's list is the end of all admissions, the rest
  has left the window (`SlidingInv`); the database counts of a window cover its
  requests that were on time (`FixedInv`); and in `ChatInv` what a chat window was asked plus what its
  open turns may still ask (`Left`) is within `1 + MaxRounds` sends per admitted
  prompt, each of at most `SendAttempts` requests, so a turn that is cut off only gives back what it owed, and
  a request that fails and is made again is one of those its send had left.
* `PagesAreApart`, `AppliedWasSeen` and `TimersAccount` of `PagesProofs`. A command that was
  answered knows an operation of its own account, and a session that nobody has overtaken finds
  its own results when it reads them, in each of the steps it reads them in (`SessionOK`); hence no Undo
  ever reaches another account. The dialogue's preview is of the scope shown and of the stored request, at the revision
  it was made; this request is the one shown or, on the manual path, what the form held, until it is edited
  (`edited`, a history). What it is *not*, the form as it stands, is a row of section 5 (`PreviewIsOfForm`). The timer's invariant bounds what is banked by what ran, `n` pauses having
  each lost less than a second (`Sums`), whence the bound on minutes by arithmetic of division; the clean-up adds the running segment unrounded, so only
  pauses lose anything there.
* `InboxStaysCurrent`, `NoticesInTime` and `NoticesApart` of `NotificationsProofs`. `InboxInv` says of a row that
  it keeps what its decision promised (`RowOK`), of a decision not written yet that it still
  promises it (`DecisionOK`), and of the device that it shows as it is every row whose
  revision its cursor has passed, and that no page under way was asked for beyond the
  user's revision (`DeviceOK`). Quiet hours that pass midnight are a lemma on slots of a day
  (`SlotIs`). `NoticesApart` holds for any number of workers: what a decision came after is not in its cooldown
  (`ClearOK`), and what it did not come after is not its worker's own (`OwnOK`), because a worker decides
  and writes one event at a time. Its corollary `OneWorkerKeepsCooldown` is the promise itself for a single worker;
  two may break it (`CooldownIsKept`, section 5).
* `RemindersFollowPlan` of `ProjectionsProofs`. `ReminderInv` follows a key (task, revision, preferences):
  used keys are of the past, or of this revision and a task placed in it (`KeysOK`);
  an alarm that is not right is named by an event to come (`AlarmsOK`); a task that is due
  has a reminder, or an event to come, or a worker, and its present key has not been used up (`TaskOK`). The
  last is what makes insert-or-ignore by key harmless.
* `ForeignStays` and `CalendarFollowsPlan` of `ProjectionsProofs`. `ExportBase` says what segments, snapshots,
  operations and the worker's list are made of: an event of a segment was named by
  one of its task's rows up to the present one. `Taken` is what all commands have in common, so each invariant
  is shown for it once. On top: `OneEventInv` (a second id is asked for only when the
  first is gone or never was, so no row has two live events), `WorkInv` (a segment that Google
  does not show has an operation waiting, or is exported right now; what the
  worker holds of a task that changed meanwhile is waited for again) and `StrayInv` (every live event is held
  by a segment, to be deleted, or created and not saved yet). None of the properties
  is inductive alone: a retry after a lost answer relies on ids that are computed
  again, which is `OneEventInv`; a stale outcome that is saved relies on `WorkInv`.
  TLC checked these invariants on the instance of `Projections` before they were proved.
* `DraftedTasksLandOnce` of `PlanningProofs`. `DraftsInv` says at each stage of the dialogue how many
  rows of each drafted task there can be, as a sum over the dates, and where: what has been confirmed and not
  saved yet has none beyond the confirmations before it, what is deferred goes behind the day the split
  began on. A stopped script goes back to the warning, so a second confirmation adds a second row; the count of
  confirmations is the bound.
* `PreviewsHold` of `PreviewProofs`. `FuturePlanInv` says that all that was placed so far is in `occupied`, together with
  what blocks and what stays, that what is kept or placed fits (`Fit`: all minutes of the task, its limits,
  no session shorter than a segment, none on anything occupied or on each other), and that tasks still ranked have
  nothing. It rests on lemmas on the parts of the search: a free window meets nothing taken (`FreeWindow`),
  filling windows to one level and giving the rest to the first ones gives away all minutes and no
  session under fifteen (`Sharing`, `Pouring`), and the criteria of the score leave a candidate (`BestIsOne`).
* `ReductionHolds` of `PreviewProofs`, both halves of `ReductionIsExact`.
  * The search. Sessions over a triple that the code does not look at are surpassed (`Surpasses`: same quality and
    number, fullest day no fuller, squared minutes no larger, and lighter or starting before) by those with another
    third window of the same length (`Instead`): an earlier one of the same day, or, on a day that the first two are
    not on, one with less load or an earlier one with the same. Such a window is among the thirds that are
    looked at (`Thirds`), so the best of all triples, which nothing surpasses, is among the candidates.
    `best_candidate` narrows a set by one criterion after the other (`CheapestIs`, `HeadsExist`);
    that minutes which move to an emptier day make the squares smaller is `SquaresShrink`.
  * The choice. What a task is given depends on its limits and on what the tasks before it were given (`Decides`), and it
    is decided again as it was (`GivenIs`). `StableInv` says, beside
    `FuturePlanInv`, that tasks are settled in one order (`Order`), that what is taken and the minutes of each day
    are those of the settled ones, that each of them was decided by those before it, and that the plan written before was
    decided in the same way. That order is the same in both previews: applying turns drafts into rows,
    changes into columns and replaced events into none, and leaves the key by which tasks are ranked as it was, except that
    drafts no longer come last, which is why `FutureScene` says that they are the last by id as well. TLC checked
    `StableInv` on the instance of `Planning` before it was proved.
* `DayStaysSound` and `OperationsEnd`, from one invariant, `DayInv`:
  * `AllocBooks`, the allocator's books. The sessions laid so far and the remaining minutes make the task; a session
    stands clear of everything taken by walls, Fixed tasks and tasks already placed; a task in the queue has
    nothing; the cursor is behind the last session. Fillers, splits and forced splits
    each change three of these at once, which is why none of them is inductive alone.
  * `RowsPlaced` and `OnlyLooseMeet`, the day between operations: a Flexible task is `WellPlaced` (in
    order, all its minutes, inside the day, off the Calendar), and two tasks meet only when both are Fixed or
    one was inserted after the last validation.
  * `OpBooks`, the operation under way: what the allocator was given (queue, walls, start of the day) covers
    every row that it will not move, so that what it returns can be written among them.

  `ValidationIsIdle` follows: what an operation proposes (`ProposalIs`) passes `Valid`, with the exceptions the property
  names. `OperationsEnd` needs the books too: the cursor moves on when a gap is skipped only because intervals are
  proper, and a split shortens the rest only because the gap has room for a session. TLC checked `DayInv` on the
  instance of `Planning` before it was proved.

Induction. What the sums and folds of the planners add up to is proved by induction. The library's induction
theorems take an operator as parameter, which none of the provers instantiates; `PlanningProofs` has it with *sets*
instead. `LeastMember` (from `WFMin` and `NatLessThanWellFounded`) gives every set of natural numbers
a least member, `Counting` the principle of induction on numbers, and the lemmas on sums go over the subsets of a
finite set by their cardinality (`FoldExists`, `SumChanges`). So `MapThenSumSet` and `SumFunction` become `Sum`, of
which one may say what changing a value does.

Only model-checked:

* liveness (`EveryEventSettles`, `Converges`, `EveryQueueSettles`, `SilenceIsNoticed`,
  `EveryPrincipalGetsIn`): it rests on fairness, which is beyond this prover;
* the refinement of one-plan Undo in a single session (`ScheduleSerial`), and what commands outside the
  conditions above do.

`ScheduleApply` does not repeat the refinement, which is proved and which `ScheduleFuture`
checks with more commands.

## 5. Disagreements with the documents

Three runs end in a counterexample that contradicts a document of the repository
(quoted in `PROJECT.json`): `ScheduleUndoRace`, `CalendarUndo` and `SmartDeadlines`. The last was
reproduced with the Python allocator: a task of 480 minutes due at 21:30, a
filler of 360 and an event at 22:00 give sessions 08:00-12:00 and 18:00-22:00.

More properties that documents or comments suggest fail in the models, and stand in
their modules. They are not among the runs, which are kept to a dozen:

| Property | Module and configuration | What TLC finds |
|---|---|---|
| `StartAbortsMove` | `MCScheduleOperations`, `ScheduleMoveRace.cfg` | a task started after the recheck is moved |
| `ContentIsVersioned` | `MCScheduleOperations`, `ScheduleWindowRace.cfg` | a window lands in another plan without a new revision |
| `BoundedAttempts` | `NotificationOutbox`: one event, two workers, two attempts, no faults | one attempt more than the maximum |
| `CaughtUpIsCurrent` | `DeviceSync`, `DeviceWorkerCleanUp.cfg` with `CleanUps = {"page"}` | after a page's clean-up a caught-up device shows a closed task as pending |
| `NeverGoesBack` | `DeviceSync`, `DeviceWorkerCleanUp.cfg` | after the worker's clean-up a deleted task comes back on a device |
| `ReplacementsAreQueued` | `Reminders`, `ReminderReplacements.cfg` | preferences saved anew cancel a reminder whose replacement meets the cancelled row's key (`MOBILE_BACKEND_CONTRACTS.md:495-499`) |
| `DayIsRespected` | `TaskTimer`: one page, `DayOver` 5, `TimerHorizon` 12, two pauses, minutes of two seconds of two ticks, estimate 2 | time banked after midnight is credited by the clean-up of the day before |
| `ConversationIsReady` | `Assistant`: one chat, two rounds, two messages | after the last round, or a stop between rounds, the conversation ends in a call that nobody answers |
| `SavedIsInForce` | `PlanningDialogue`, alone | applying again what another session applied and undid is answered from the record and reported as saved |
| `PageShowsItsOwn` | `MCPlanning`, constants of `Planning.cfg` | a page shows another account's results after a command of its own that failed or was overtaken |
| `RunsAreAccepted` | `MCPlanning`, constants of `Planning.cfg` | a task under 15 minutes makes the validation refuse a whole run |
| `CooldownIsKept` | `MCNotifications`, constants of `OutboxCrashes.cfg` | two workers, which `WORKER_RUNTIME.md:11` permits, both find no cooldown |
| `PreviewIsOfForm` | `MCPlanning`, constants of `Planning.cfg` | the manual form is edited above a preview, which can still be applied |
| `ActionsAreOnActive` | `MCNotifications`, constants of `OutboxCrashes.cfg` | an action accepted while a notification was active is written after it ended (`MOBILE_BACKEND_CONTRACTS.md:461-463`) |

The other exceptions are named in the properties themselves, as histories
(`crossed`, `overlapped`, `deferred`, `undone`, `raced`, `silenced`, `mixed`): two ranges read at once make the
Calendar's state wrongly fresh; commands that overlap with an export, and
deferrals, leave events behind; a schedule operation on other tasks silences a
reminder; a changed preference races a reminder in a worker's hands.

`BACKEND_OPERATIONS.md:202-205` says that the chatbot still uses an in-process limiter. The code
has it share `DatabaseRateLimiter` (`chatbot_service.py:24`, `:945`), and so have the models: one window counts the prompts of all
processes.

Smaller observations, read from the code while modelling it: `add_and_schedule_task` replans
other tasks without their earliest start and deadline (`scheduler_service.py:507-519`); `defer_to_tomorrow` queues
no deletion of Calendar events (`database.py:5037`); a Calendar operation whose worker dies in its
last attempt stays `processing` (`calendar_security.py:694`); `mark_read` locks a row and then the revision, `expire_due`
the revision and then rows (`notifications/repository.py:902`).

## 6. Plan

What is left, in this order:

1. One more proof: the refinement of `PlanStore` with one-plan Undo in one session.
2. The device under clean-ups: which of them leave it right, stated and proved.
3. Plan and segment bundles in the sync feed; a key that is reused for another request.
4. Several Calendar workers on one user's reconciliations.
5. The creation of missing daily plans when a multi-day plan is applied.

## 7. Not modelled

Analytics, metrics and presentation read the tables and keep no state. HTTP routing,
validation of requests, configuration and logging keep none either. The
understanding of words (`text_matching.py`, the terms of `session_suitability.py`, parsing of dates in
`planning_request.py`), speech and recommendations are text processing; the models take
their outcome as an input. Google, the push services and the language model are
external: modelled by what the code relies on. The older allocator of `scheduler.py`,
wording of templates, and the assistant's reply without streaming have no part in what is
checked. Time is a count: gaps and repeated hours of timezones
(`notifications/policy.py:63`) are left to `zoneinfo`. Writers of one row wait for each other as PostgreSQL makes
them; a deadlock it breaks is a rollback, which the models have at any point.
`PROJECT.json` gives the reason for each component.
