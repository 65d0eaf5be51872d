------------------------- MODULE ScheduleOperations -------------------------
(***************************************************************************)
(* The schedule of one user: daily plans, the tasks in them, the windows   *)
(* those tasks occupy (task_segments), the schedule_revision of each plan  *)
(* and the schedule_operations history that Undo works from (database.py). *)
(*                                                                         *)
(* Every command is a PostgreSQL READ COMMITTED transaction of some        *)
(* session.  A transaction has a read phase, whose SELECTs take no lock,   *)
(* and a write phase, which holds the plan row or the segment rows it      *)
(* wrote until COMMIT.  The read phase and the write phase are one step    *)
(* each, so other transactions may commit between them; two write phases   *)
(* on one plan wait for each other or one is aborted.                      *)
(*                                                                         *)
(* The segments of a task are abstracted to one window, Unplaced when it   *)
(* has none; its progress is abstracted to whether it has been started.    *)
(***************************************************************************)
EXTENDS Naturals, FiniteSets

CONSTANTS
  Plans,        \* daily plans of the user
  Tasks,        \* task ids, the ones still to be created included
  Slots,        \* the windows a task can occupy
  Unplaced,     \* the window of a task with no segment
  Unborn,       \* plan of a task id not used yet
  Gone,         \* plan of a task that was deleted
  Sessions,     \* database sessions (web requests, Streamlit threads)
  Ops,          \* operation ids, uuid4 in the code: never reused
  Kinds,        \* the commands the clients of this instance issue
  MaxRevision   \* bound: no command takes a revision above it

AllKinds == {"replace", "move", "add", "future", "undo", "undo_future",
             "create", "edit", "window", "delete", "defer", "start"}

ASSUME TasksAssumption == IsFiniteSet(Tasks)
ASSUME KindsAssumption == Kinds \subseteq AllKinds
ASSUME BoundAssumption == MaxRevision \in Nat
ASSUME PlanAssumption  == Unborn \notin Plans /\ Gone \notin Plans /\ Unborn # Gone
ASSUME SlotAssumption  == Unplaced \notin Slots

VARIABLES
  revision,     \* plans.schedule_revision
  planOf,       \* tasks.plan_id
  slot,         \* task_segments, and the cached window in tasks
  started,      \* tasks.started_at is set
  op,           \* schedule_operations
  events,       \* notification_outbox rows the operations enqueued
  sess          \* what each session has read in its open transaction

vars == <<revision, planOf, slot, started, op, events, sess>>

Windows == Slots \cup {Unplaced}

NoOperation ==
  [status |-> "none", future |-> FALSE, plans |-> {}, scope |-> {}, created |-> {},
   base |-> [p \in Plans |-> 0], result |-> [p \in Plans |-> 0],
   before |-> [t \in Tasks |-> Unplaced]]

Operation ==
  [status: {"none", "applied", "undone"}, future: BOOLEAN, plans: SUBSET Plans,
   scope: SUBSET Tasks, created: SUBSET Tasks,
   base: [Plans -> Nat], result: [Plans -> Nat], before: [Tasks -> Windows]]

Idle ==
  [pc |-> "idle", kind |-> "none", plans |-> {}, scope |-> {}, free |-> {}, to |-> Unborn,
   ops |-> {}, seen |-> [p \in Plans |-> 0], before |-> [t \in Tasks |-> Unplaced]]

\* What an open transaction works from: the plans it will write and their
\* revisions as read, the tasks of its snapshot, the tasks it may lay out
\* (new ones included), the windows as read, the plan new tasks go to, the
\* operation to undo.
Session ==
  [pc: {"idle", "applying", "undoing", "editing"}, kind: AllKinds \cup {"none"},
   plans: SUBSET Plans, scope: SUBSET Tasks, free: SUBSET Tasks,
   to: Plans \cup {Unborn}, ops: SUBSET Ops, seen: [Plans -> Nat],
   before: [Tasks -> Windows]]

TypeOK ==
  /\ revision \in [Plans -> Nat]
  /\ planOf \in [Tasks -> Plans \cup {Unborn, Gone}]
  /\ slot \in [Tasks -> Windows]
  /\ started \in [Tasks -> BOOLEAN]
  /\ op \in [Ops -> Operation]
  /\ events \subseteq [type: {"applied", "undone"}, op: Ops, revision: Nat]
  /\ sess \in [Sessions -> Session]

-----------------------------------------------------------------------------
(* Reading the tables *)

Members(p) == {t \in Tasks : planOf[t] = p}

TasksIn(S) == {t \in Tasks : planOf[t] \in S}

Exists(t) == planOf[t] \in Plans

\* No two placed tasks of a payload overlap.
Disjoint(f, T) ==
  \A t, u \in T : t # u /\ f[t] = f[u] => f[t] = Unplaced

\* Mutant of Rewritten: the DELETE is missing.
RewrittenInsertOnly(cover, T, f) ==
  [t \in Tasks |-> IF t \in T /\ f[t] # Unplaced THEN f[t] ELSE slot[t]]

\* DELETE the segments of the tasks in cover, then INSERT the windows that f
\* gives to the tasks in T.
Rewritten(cover, T, f) ==
  [t \in Tasks |-> IF t \in T /\ f[t] # Unplaced THEN f[t]
                   ELSE IF t \in cover THEN Unplaced ELSE slot[t]]

\* The INSERT meets a segment the DELETE left: UNIQUE(task_id, segment_index).
Collides(cover, T, f) ==
  \E t \in T \ cover : slot[t] # Unplaced /\ f[t] # Unplaced

\* Mutant of Bumped: a plan without placed tasks keeps its revision.
BumpedIfPlaced(S, n) ==
  [p \in Plans |-> IF p \in S /\ \E t \in Members(p) : slot[t] # Unplaced
                   THEN revision[p] + n ELSE revision[p]]

\* Mutant of Bumped: the plans that are not written are lost.
BumpedOnly(S, n) == [p \in S |-> revision[p] + n]

\* UPDATE plans SET schedule_revision = schedule_revision + n.
Bumped(S, n) == [p \in Plans |-> IF p \in S THEN revision[p] + n ELSE revision[p]]

Room(S, n) == \A p \in S : revision[p] + n <= MaxRevision

\* The event row of an operation on the plans S: its idempotency key is the
\* operation, its schedule_revision the largest of the revisions it reports.
Announce(type, o, rev, S) ==
  {[type |-> type, op |-> o, revision |-> rev[p]] : p \in {q \in S : \A r \in S : rev[r] <= rev[q]}}

\* Mutant of Restored: the event repeats the revision of the operation.
RestoredTo(r) == r.result

\* The revisions an Undo of operation r reports: one after its result.
Restored(r) == [p \in Plans |-> r.result[p] + 1]

Release(s) == sess' = [sess EXCEPT ![s] = Idle]

\* Mutant of CompareAndSet: UPDATE without the condition on the revision.
SetUnchecked(s) == sess[s].plans \subseteq Plans

\* UPDATE ... WHERE schedule_revision = expected finds every row it expects.
CompareAndSet(s) == \A p \in sess[s].plans : revision[p] = sess[s].seen[p]

\* Mutant of AtResult: newer revisions are accepted.
AtLeastResult(r) == \A p \in r.plans : revision[p] >= r.result[p]

\* The plans of operation r are still at the revisions it produced.
AtResult(r) == \A p \in r.plans : revision[p] = r.result[p]

\* Some tasks exist already; add_task took one revision of its plan for each.
Init ==
  /\ planOf \in [Tasks -> Plans \cup {Unborn}]
  /\ revision = [p \in Plans |-> Cardinality(Members(p))]
  /\ slot = [t \in Tasks |-> Unplaced]
  /\ started = [t \in Tasks |-> FALSE]
  /\ op = [o \in Ops |-> NoOperation]
  /\ events = {}
  /\ sess = [s \in Sessions |-> Idle]

-----------------------------------------------------------------------------
(* Applying a schedule *)

\* The read phase.  The caller computed its layout from a preview; the write
\* transaction reads revisions, tasks and progress again and raises
\* StaleScheduleError unless they are the previewed ones, so a transaction
\* that goes on has seen one state, and the before snapshot of its operation
\* is read in it.  Started tasks are among the scope but not the free ones.
BeginApply(s, kind, S, T, free, to) ==
  /\ kind \in Kinds
  /\ sess[s].pc = "idle"
  /\ free # {}
  /\ sess' = [sess EXCEPT ![s] =
       [Idle EXCEPT !.pc = "applying", !.kind = kind, !.plans = S, !.scope = T,
                    !.free = free, !.to = to, !.before = slot,
                    !.seen = [p \in Plans |-> IF p \in S THEN revision[p] ELSE 0]]]
  /\ UNCHANGED <<revision, planOf, slot, started, op, events>>

\* SchedulerService.schedule_plan: a complete layout of one plan, whatever
\* the progress of its tasks.
BeginSchedule(s, p) ==
  BeginApply(s, "replace", {p}, Members(p), Members(p), p)

\* SchedulerService.move_flexible_task: an unstarted task is moved, and
\* other unstarted tasks of its plan with it.
BeginMove(s, p) ==
  BeginApply(s, "move", {p}, Members(p), {t \in Members(p) : ~started[t]}, p)

\* SchedulerService.add_and_schedule_task: one new task competes with the
\* unstarted tasks of one plan.
BeginAdd(s, p, t) ==
  /\ planOf[t] = Unborn
  /\ BeginApply(s, "add", {p}, Members(p), {u \in Members(p) : ~started[u]} \cup {t}, p)

\* FuturePlanningService.apply: chosen unstarted tasks of several plans, and
\* draft tasks that are created in the plan of the first day.
BeginFuture(s, S, T, new, anchor) ==
  /\ anchor \in S
  /\ T \subseteq {t \in TasksIn(S) : ~started[t]}
  /\ \A t \in new : planOf[t] = Unborn
  /\ BeginApply(s, "future", S, T, T \cup new, anchor)

\* The layouts a transaction may have computed from what it read: no overlap
\* among the tasks it lays out, for one plan with the tasks it keeps, for
\* several plans with all other tasks of the user.
Layouts(c) ==
  {f \in [Tasks -> Windows] :
     /\ \A t \in Tasks \ c.free : f[t] = c.before[t]
     /\ Disjoint(f, c.free \cup c.scope)
     /\ c.kind = "future" =>
          \A t \in c.free, u \in Tasks \ c.free : f[t] = f[u] => f[t] = Unplaced}

\* The write phase: new tasks are inserted, the revision of every plan is
\* compared and set, segments are replaced, the operation and its event are
\* recorded.  add_task takes a revision of its own before the layout does.
CommitApply(s, o, f) ==
  LET c     == sess[s]
      n     == IF c.kind = "add" THEN 2 ELSE 1
      new   == c.free \ c.scope
      all   == c.free \cup c.scope
      cover == IF c.kind = "future" THEN all ELSE TasksIn(c.plans)
  IN
  /\ c.pc = "applying"
  /\ op[o].status = "none"
  /\ CompareAndSet(s)
  /\ \A t \in c.scope : Exists(t)
  /\ \A t \in new : planOf[t] = Unborn
  /\ f \in Layouts(c)
  /\ ~Collides(cover, all, f)
  /\ Room(c.plans, n)
  /\ revision' = Bumped(c.plans, n)
  /\ planOf' = [t \in Tasks |-> IF t \in new THEN c.to ELSE planOf[t]]
  /\ slot' = Rewritten(cover, all, f)
  /\ op' = [op EXCEPT ![o] =
       [status |-> "applied", future |-> c.kind = "future", plans |-> c.plans,
        scope |-> c.scope, created |-> new,
        base |-> [p \in Plans |-> IF p \in c.plans THEN c.seen[p] + (n - 1) ELSE 0],
        result |-> [p \in Plans |-> IF p \in c.plans THEN c.seen[p] + n ELSE 0],
        before |-> [t \in Tasks |-> IF t \in c.scope THEN c.before[t] ELSE Unplaced]]]
  /\ events' = events \cup Announce("applied", o, op'[o].result, c.plans)
  /\ Release(s)
  /\ UNCHANGED started

-----------------------------------------------------------------------------
(* Undo *)

\* undo_schedule_operation: what it verifies before it writes anything.
CheckUndo(s, o) ==
  LET r == op[o] IN
  /\ (IF r.future THEN "undo_future" ELSE "undo") \in Kinds
  /\ sess[s].pc = "idle"
  /\ r.status = "applied"
  /\ AtResult(r)
  /\ IF r.future
     THEN /\ \A t \in r.scope \cup r.created : Exists(t)
          /\ \A t \in r.created : ~started[t]
     ELSE TasksIn(r.plans) = r.scope \cup r.created
  /\ sess' = [sess EXCEPT ![s] =
       [Idle EXCEPT !.pc = "undoing", !.kind = IF r.future THEN "undo_future" ELSE "undo",
                    !.plans = r.plans, !.ops = {o}, !.seen = r.result]]
  /\ UNCHANGED <<revision, planOf, slot, started, op, events>>

\* Mutant of Removed: a created task that got no window is left behind.
RemovedPlaced(r) == {t \in r.created \cap TasksIn(r.plans) : slot[t] # Unplaced}

\* The tasks an Undo of one plan deletes: those its operation created, as far as
\* they are still in the plan.
Removed(r) == r.created \cap TasksIn(r.plans)

\* Restore the before snapshot of one plan.  The revision is incremented
\* without being compared, and the operation's status is not checked again.
CommitUndo(s, o) ==
  LET r     == op[o]
      cover == TasksIn(r.plans)
  IN
  /\ sess[s].pc = "undoing"
  /\ sess[s].kind = "undo"
  /\ o \in sess[s].ops
  /\ \A t \in r.scope : Exists(t)
  /\ ~Collides(cover, r.scope, r.before)
  /\ Room(r.plans, 1)
  /\ revision' = Bumped(r.plans, 1)
  /\ planOf' = [t \in Tasks |-> IF t \in Removed(r) THEN Gone ELSE planOf[t]]
  /\ slot' = Rewritten(cover, r.scope, r.before)
  /\ op' = [op EXCEPT ![o].status = "undone"]
  /\ events' = events \cup Announce("undone", o, Restored(r), r.plans)
  /\ Release(s)
  /\ UNCHANGED started

\* _undo_future_schedule_operation: the same for several plans, comparing
\* every revision again in the UPDATE that increments it.
CommitUndoFuture(s, o) ==
  LET r   == op[o]
      all == r.scope \cup r.created
  IN
  /\ sess[s].pc = "undoing"
  /\ sess[s].kind = "undo_future"
  /\ o \in sess[s].ops
  /\ \A t \in all : Exists(t)
  /\ CompareAndSet(s)
  /\ Room(r.plans, 1)
  /\ revision' = Bumped(r.plans, 1)
  /\ planOf' = [t \in Tasks |-> IF t \in r.created THEN Gone ELSE planOf[t]]
  /\ slot' = Rewritten(all, r.scope, r.before)
  /\ op' = [op EXCEPT ![o].status = "undone"]
  /\ events' = events \cup Announce("undone", o, Restored(r), r.plans)
  /\ Release(s)
  /\ UNCHANGED started

-----------------------------------------------------------------------------
(* Edits of one task *)

\* TaskApplicationService compares and increments the version of the task in
\* the transaction of its update, delete or deferral, so two of these never
\* interleave on one task: each is one step.
EditTask(kind, t, S) ==
  /\ kind \in Kinds
  /\ Exists(t)
  /\ Room(S, 1)
  /\ revision' = Bumped(S, 1)
  /\ UNCHANGED <<started, op, events, sess>>

\* update_task: a change of shape drops the segments, or for a fixed task
\* with one segment keeps its start; other changes leave the segments.
UpdateTask(t, w) ==
  /\ EditTask("edit", t, {planOf[t]})
  /\ slot[t] = Unplaced => w = Unplaced
  /\ slot' = [slot EXCEPT ![t] = w]
  /\ UNCHANGED planOf

\* delete_task, with the segments.
DeleteTask(t) ==
  /\ EditTask("delete", t, {planOf[t]})
  /\ slot' = [slot EXCEPT ![t] = Unplaced]
  /\ planOf' = [planOf EXCEPT ![t] = Gone]

\* move_task_unscheduled: a pending task moves to the plan of another day,
\* without its segments.
DeferTask(t, q) ==
  /\ planOf[t] # q
  /\ ~started[t]
  /\ EditTask("defer", t, {planOf[t], q})
  /\ slot' = [slot EXCEPT ![t] = Unplaced]
  /\ planOf' = [planOf EXCEPT ![t] = q]

\* set_single_task_segment reads the task with its plan and compares nothing
\* afterwards: a session that places a task by hand.
BeginWindow(s, t) ==
  /\ "window" \in Kinds
  /\ sess[s].pc = "idle"
  /\ Exists(t)
  /\ sess' = [sess EXCEPT ![s] =
       [Idle EXCEPT !.pc = "editing", !.kind = "window", !.scope = {t}, !.plans = {planOf[t]}]]
  /\ UNCHANGED <<revision, planOf, slot, started, op, events>>

\* Its UPDATEs: the segments of the task, and one more revision for the plan
\* it read.  A task deleted meanwhile raises OwnershipError.
CommitWindow(s, t, w) ==
  LET c == sess[s] IN
  /\ c.pc = "editing"
  /\ t \in c.scope
  /\ Exists(t)
  /\ Room(c.plans, 1)
  /\ revision' = Bumped(c.plans, 1)
  /\ slot' = [slot EXCEPT ![t] = w]
  /\ Release(s)
  /\ UNCHANGED <<planOf, started, op, events>>

\* add_task: one INSERT for the task, one for its window when it has one.
CreateTask(t, p, w) ==
  /\ "create" \in Kinds
  /\ planOf[t] = Unborn
  /\ Room({p}, 1)
  /\ revision' = Bumped({p}, 1)
  /\ planOf' = [planOf EXCEPT ![t] = p]
  /\ slot' = [slot EXCEPT ![t] = w]
  /\ UNCHANGED <<started, op, events, sess>>

\* Starting a task writes its progress and leaves the plan's revision alone.
StartTask(t) ==
  /\ "start" \in Kinds
  /\ Exists(t)
  /\ ~started[t]
  /\ started' = [started EXCEPT ![t] = TRUE]
  /\ UNCHANGED <<revision, planOf, slot, op, events, sess>>

\* A check that fails, a stale revision, a constraint, a deadlock or a lost
\* connection: Database.transaction rolls the whole transaction back.
Rollback(s) ==
  /\ sess[s].pc # "idle"
  /\ Release(s)
  /\ UNCHANGED <<revision, planOf, slot, started, op, events>>

Apply(s) ==
  \/ \E p \in Plans : BeginSchedule(s, p) \/ BeginMove(s, p)
  \/ \E p \in Plans, t \in Tasks : BeginAdd(s, p, t)
  \/ \E S \in SUBSET Plans, T, new \in SUBSET Tasks, a \in Plans : BeginFuture(s, S, T, new, a)
  \/ \E o \in Ops, f \in [Tasks -> Windows] : CommitApply(s, o, f)

Undo(s) ==
  \E o \in Ops : CheckUndo(s, o) \/ CommitUndo(s, o) \/ CommitUndoFuture(s, o)

Place(s) ==
  \E t \in Tasks : BeginWindow(s, t) \/ \E w \in Slots : CommitWindow(s, t, w)

Change(t) ==
  \/ \E w \in Windows : UpdateTask(t, w)
  \/ \E q \in Plans : DeferTask(t, q)
  \/ DeleteTask(t)
  \/ StartTask(t)
  \/ \E p \in Plans, w \in Windows : CreateTask(t, p, w)

\* A session with no open transaction issues one of these.
Edit(s) == sess[s].pc = "idle" /\ \E t \in Tasks : Change(t)

Next == \E s \in Sessions : Apply(s) \/ Undo(s) \/ Place(s) \/ Edit(s) \/ Rollback(s)

Spec == Init /\ [][Next]_vars
-----------------------------------------------------------------------------
(* Properties *)

\* The history of a plan is linear: two recorded operations on one plan never
\* cover a common revision, and none reaches beyond the plan's revision.  A
\* lost update between two sessions would record two operations from one base.
LinearHistory ==
  \A o1, o2 \in Ops : \A p \in op[o1].plans :
    /\ op[o1].result[p] <= revision[p]
    /\ o1 # o2 /\ p \in op[o2].plans =>
         op[o1].result[p] <= op[o2].base[p] \/ op[o2].result[p] <= op[o1].base[p]

\* What an operation reports to the notification outbox is the revision its
\* plans really have when it commits; reminders are judged stale against it.
EventNamesItsRevision ==
  [][\A e \in events' \ events : \E p \in op[e.op].plans \cup op'[e.op].plans :
       e.revision = revision'[p]]_vars

\* The contents of a plan: its tasks and their windows.
Contents(p) == {<<t, slot[t]>> : t \in Members(p)}

\* schedule_revision resolves scheduling races: no commit changes the tasks of
\* a plan or their windows without increasing the revision of that plan.
ContentIsVersioned ==
  [][\A p \in Plans : Contents(p)' # Contents(p) => revision'[p] > revision[p]]_vars

\* An Undo is subject to the same revision protection as a scheduling write:
\* it only commits while its plans are at the revision the operation produced.
UndoKeepsNewerWork ==
  [][\A o \in Ops : op[o].status = "applied" /\ op'[o].status = "undone" =>
       \A p \in op[o].plans : revision[p] = op[o].result[p]]_vars

\* A manual move aborts when an affected task starts before it commits: no
\* move commits a new window for a task that has started.
StartAbortsMove ==
  [][\A s \in Sessions : sess[s].kind = "move" /\ op' # op /\ sess'[s] = Idle =>
       \A t \in sess[s].scope : started[t] => slot'[t] = slot[t]]_vars

\* Sessions, read phases and write phases are invisible: every behaviour of
\* the transactions is one of the atomic steps PlanStore promises.
Store == INSTANCE PlanStore
ImplementsPlanStore == Store!Spec
=============================================================================
