--------------------------- MODULE CalendarExport ---------------------------
(***************************************************************************)
(* The export of one plan to Google Calendar: the commands that change the *)
(* segments of the plan's tasks and queue a reconciliation in the same     *)
(* transaction, the calendar worker that carries it out between several    *)
(* transactions and calls of Google (calendar_worker.py), and Google.      *)
(*                                                                         *)
(* A task has at most one segment here.  A segment's row is named by its   *)
(* task and the command that inserted it, since every command deletes the  *)
(* rows and inserts new ones; an event by the row its deterministic id was *)
(* computed from and the generation.  One worker processes the queue at a  *)
(* time; it may die anywhere, and its operation is claimed again.          *)
(***************************************************************************)
EXTENDS Naturals, FiniteSets

CONSTANTS
  Flexible,     \* tasks the scheduler places
  Imported,     \* tasks made from an event of the user's own calendar
  Windows,      \* windows a task may be given
  Unplaced,     \* no window
  NoEvent,      \* google_event_id IS NULL
  MaxCommands,  \* bound: commands, so operations too
  MaxFaults     \* bound: calls that fail, workers that die, events the user deletes

ASSUME ExportAssumption ==
  /\ Flexible \cap Imported = {}
  /\ Unplaced \notin Windows /\ Windows # {}
  /\ MaxCommands \in Nat /\ MaxFaults \in Nat

VARIABLES
  seg,          \* task_segments by task
  alive,        \* tasks that exist
  commands,     \* commands so far
  schedule,     \* schedule_operations by command: snapshots and status
  operation,    \* calendar_operations by command
  google,       \* what Google has under each event id
  worker,       \* what the worker holds
  faults,
  overlapped,   \* history: a command met an operation begun and not done
  undone,       \* history: an operation was undone
  deferred      \* history: a task was deferred

exportVars == <<seg, alive, commands, schedule, operation, google, worker,
                faults, overlapped, undone, deferred>>

Tasks  == Flexible \cup Imported
Rows   == Tasks \X (0 .. MaxCommands)
Events == Rows \X {"v1", "replacement-v1"}

\* Events of imported tasks are the user's own, under the name of the task.
Foreign == {<<<<t, 0>>, "foreign">> : t \in Imported}

ASSUME NameAssumption ==
  /\ NoEvent \notin Events \cup Foreign
  /\ Windows \cap {"absent", "gone"} = {}

NoRow == [row |-> 0, window |-> Unplaced, event |-> NoEvent,
          provenance |-> "legacy_unknown", status |-> "not_synced"]
ForeignRow(t) == [NoRow EXCEPT !.window = CHOOSE w \in Windows : TRUE,
                               !.event = <<<<t, 0>>, "foreign">>,
                               !.provenance = "imported"]

Placed(s) == s.window # Unplaced
Ours(s)   == s.provenance = "coachai_created" /\ s.event # NoEvent

NoOperation == [kind |-> "none", status |-> "none", about |-> {}, of |-> 0]
NoSchedule  == [status |-> "none", before |-> <<>>, after |-> <<>>, alive |-> {}, last |-> FALSE]
Idle == [pc |-> "idle", op |-> 0, orphans |-> {}, specs |-> {}, results |-> {}, failing |-> FALSE]

ExportInit ==
  /\ seg = [t \in Tasks |-> IF t \in Imported THEN ForeignRow(t) ELSE NoRow]
  /\ alive = Tasks
  /\ commands = 0
  /\ schedule = [c \in 1 .. MaxCommands |-> NoSchedule]
  /\ operation = [c \in 1 .. MaxCommands |-> NoOperation]
  /\ google = [e \in Events \cup Foreign |->
                IF e \in Foreign THEN CHOOSE w \in Windows : TRUE ELSE "absent"]
  /\ worker = Idle /\ faults = 0
  /\ overlapped = FALSE /\ undone = FALSE /\ deferred = FALSE

-----------------------------------------------------------------------------
(* The commands: services and database.py *)

Rest == <<seg, alive, commands, schedule, overlapped, undone, deferred>>

Begun == worker.pc # "idle"
         \/ \E c \in 1 .. commands : operation[c].status \in {"retrying", "failed"}

Commanded ==
  /\ commands < MaxCommands
  /\ commands' = commands + 1
  /\ overlapped' = (overlapped \/ Begun)
  /\ UNCHANGED <<google, worker, faults>>

\* replace_plan_segments, one task: the identity of the old segment is kept,
\* and an owned one whose window changes has to be updated.
Replaced(old, window) ==
  IF window = Unplaced THEN NoRow
  ELSE [old EXCEPT !.row = commands + 1, !.window = window,
          !.status = IF old.provenance = "coachai_created" /\ old.window # window
                     THEN "pending_update" ELSE old.status]

Queued(kind, of, about) ==
  [operation EXCEPT ![commands + 1] =
     [kind |-> kind, status |-> "queued", about |-> about, of |-> of]]

\* An apply or a move, with its reconcile_schedule operation.
Place(windows) ==
  LET new == [t \in Tasks |-> IF t \in Flexible /\ t \in alive
                              THEN Replaced(seg[t], windows[t]) ELSE seg[t]] IN
  /\ Commanded
  /\ seg' = new
  /\ schedule' = [c \in 1 .. MaxCommands |->
       IF c = commands + 1
       THEN [status |-> "applied", before |-> seg, after |-> new, alive |-> alive, last |-> TRUE]
       ELSE [schedule[c] EXCEPT !.last = FALSE]]
  /\ operation' = Queued("reconcile", commands + 1, {})
  /\ UNCHANGED <<alive, undone, deferred>>

\* undo_schedule_operation: the snapshot's rows are inserted again, owned ones
\* to be updated.  The revision and the task set must be the operation's.
Undo(c) ==
  LET restored == [t \in Tasks |->
        LET old == schedule[c].before[t] IN
        IF t \notin Flexible \/ ~Placed(old) THEN old
        ELSE [old EXCEPT !.row = commands + 1,
                         !.status = IF Ours(old) THEN "pending_update" ELSE old.status]] IN
  /\ Commanded
  /\ schedule[c].status = "applied" /\ schedule[c].last /\ schedule[c].alive = alive
  /\ seg' = restored
  /\ schedule' = [schedule EXCEPT ![c].status = "undone", ![c].last = FALSE]
  /\ operation' = Queued("reconcile", c, {})
  /\ undone' = TRUE
  /\ UNCHANGED <<alive, deferred>>

\* Mutant of OwnedEvents: every event of the task is deleted with it.
OwnedEventsAny(t) == {seg[t].event} \ {NoEvent}

OwnedEvents(t) == IF Ours(seg[t]) THEN {seg[t].event} ELSE {}

\* delete_task: the owned events, if any, are queued for deletion.
DeleteTask(t) ==
  /\ Commanded
  /\ t \in alive
  /\ alive' = alive \ {t}
  /\ seg' = [seg EXCEPT ![t] = NoRow]
  /\ operation' = IF OwnedEvents(t) = {} THEN operation
                  ELSE Queued("delete", 0, OwnedEvents(t))
  /\ UNCHANGED <<schedule, undone, deferred>>

\* move_task_unscheduled: the segments go with the rest of the plan's history;
\* nothing is queued for their events.
Defer(t) ==
  /\ Commanded
  /\ t \in alive
  /\ alive' = alive \ {t}
  /\ seg' = [seg EXCEPT ![t] = NoRow]
  /\ schedule' = [c \in 1 .. MaxCommands |-> [schedule[c] EXCEPT !.last = FALSE]]
  /\ deferred' = TRUE
  /\ UNCHANGED <<operation, undone>>

\* set_single_task_segment of a fixed task: the identity is kept.
MoveFixed(t, window) ==
  /\ Commanded
  /\ t \in alive \cap Imported
  /\ seg' = [seg EXCEPT ![t].row = commands + 1, ![t].window = window]
  /\ schedule' = [c \in 1 .. MaxCommands |-> [schedule[c] EXCEPT !.last = FALSE]]
  /\ UNCHANGED <<alive, operation, undone, deferred>>

\* queue_mutation, event.upsert: an owned task that has segments.
RequestExport(t) ==
  /\ Commanded
  /\ t \in alive /\ Placed(seg[t])
  /\ operation' = Queued("upsert", 0, {t})
  /\ UNCHANGED <<seg, alive, schedule, undone, deferred>>

\* queue_mutation, event.delete: the identity must be an owned segment's.
RequestDelete(t) ==
  /\ Commanded
  /\ t \in alive /\ OwnedEvents(t) # {}
  /\ operation' = Queued("delete", 0, OwnedEvents(t))
  /\ UNCHANGED <<seg, alive, schedule, undone, deferred>>

\* The user deletes an exported event in Google: a tombstone is left.
UserDeletes(e) ==
  /\ google[e] \in Windows
  /\ faults < MaxFaults
  /\ google' = [google EXCEPT ![e] = "gone"]
  /\ faults' = faults + 1
  /\ UNCHANGED <<Rest, operation, worker>>

-----------------------------------------------------------------------------
(* CalendarWorker *)

Set(c, status) == [operation EXCEPT ![c].status = status]

\* claim_ready, and _load_client.
Claim(c) ==
  /\ worker.pc = "idle"
  /\ operation[c].status \in {"queued", "retrying"}
  /\ worker' = [Idle EXCEPT !.pc = "loading", !.op = c]
  /\ operation' = Set(c, "processing")
  /\ UNCHANGED <<Rest, google, faults>>

EventsOf(snapshot) == {snapshot[t].event : t \in Tasks} \ {NoEvent}

\* Mutant of Orphans: the two snapshots are taken the wrong way round.
OrphansReversed(s) ==
  {s.after[t].event : t \in {u \in Tasks : Ours(s.after[u])}} \ EventsOf(s.before)

\* _schedule_reconciliation: owned events of the snapshot that was left which
\* are not in the snapshot that holds now.
Orphans(s) ==
  LET source == IF s.status = "undone" THEN s.after ELSE s.before
      target == IF s.status = "undone" THEN s.before ELSE s.after
  IN {source[t].event : t \in {u \in Tasks : Ours(source[u])}} \ EventsOf(target)

Load ==
  LET op == operation[worker.op] IN
  /\ worker.pc = "loading"
  /\ worker' = [worker EXCEPT !.pc = "deleting",
       !.orphans = CASE op.kind = "delete"    -> op.about
                     [] op.kind = "reconcile" -> Orphans(schedule[op.of])
                     [] OTHER                 -> {}]
  /\ UNCHANGED <<Rest, operation, google, faults>>

\* delete_event: 404 and 410 count as done.
DeleteEvent(e) ==
  /\ worker.pc = "deleting" /\ e \in worker.orphans
  /\ google' = [google EXCEPT ![e] = IF @ = "absent" THEN @ ELSE "gone"]
  /\ worker' = [worker EXCEPT !.orphans = @ \ {e}]
  /\ UNCHANGED <<Rest, operation, faults>>

\* What _load_export_specs leaves out: events not known to be CoachAI's.
Exportable(s) == Placed(s) /\ (s.event # NoEvent => s.provenance = "coachai_created")

\* The tasks an operation exports; one that deletes exports none.
Exported(op) ==
  CASE op.kind = "reconcile" -> Tasks [] op.kind = "upsert" -> op.about [] OTHER -> {}

\* _load_export_specs
LoadSpecs ==
  LET tasks == {t \in Exported(operation[worker.op]) \cap alive : Exportable(seg[t])} IN
  /\ worker.pc = "deleting" /\ worker.orphans = {}
  /\ worker' = [worker EXCEPT !.pc = "exporting",
                              !.specs = {[task |-> t, seg |-> seg[t]] : t \in tasks}]
  /\ UNCHANGED <<Rest, operation, google, faults>>

Creates(s) == s.event = NoEvent \/ s.status = "create_error"

\* Mutant of FirstId: the id depends on the attempt.
FirstIdByAttempt(spec) ==
  <<<<spec.task, spec.seg.row>>, IF faults > 0 THEN "replacement-v1" ELSE "v1">>

\* _deterministic_event_id
FirstId(spec) == <<<<spec.task, spec.seg.row>>, "v1">>
NextId(spec)  == <<<<spec.task, spec.seg.row>>, "replacement-v1">>

\* The id the export works on: a tombstone under the first is replaced.
IdFor(spec) ==
  LET first == IF spec.seg.event = NoEvent THEN FirstId(spec) ELSE spec.seg.event
  IN IF Creates(spec.seg) /\ google[first] = "gone" THEN NextId(spec) ELSE first

\* What Google has afterwards: create_event takes a live event of that id for
\* its own; update_event of a tombstone leaves it cancelled.
Shows(spec) ==
  LET e == IdFor(spec) IN
  CASE Creates(spec.seg) -> IF google[e] = "absent" THEN spec.seg.window ELSE google[e]
    [] OTHER             -> IF google[e] = "gone" THEN "gone" ELSE spec.seg.window

\* The call can succeed: an update needs the event, the second create an id
\* that is not a tombstone too.
Accepted(spec) ==
  IF Creates(spec.seg) THEN google[IdFor(spec)] # "gone" ELSE google[IdFor(spec)] # "absent"

Result(spec, status) ==
  [task |-> spec.task, row |-> spec.seg.row, event |-> IdFor(spec), status |-> status]

ExportSegment(spec) ==
  /\ worker.pc = "exporting" /\ spec \in worker.specs
  /\ Accepted(spec)
  /\ google' = [google EXCEPT ![IdFor(spec)] = Shows(spec)]
  /\ worker' = [worker EXCEPT !.specs = @ \ {spec},
                              !.results = @ \cup {Result(spec, "synced")}]
  /\ UNCHANGED <<Rest, operation, faults>>

\* The call fails, or its answer is lost after it has been carried out: the
\* rest is skipped, the outcomes so far are saved.
ExportFails(spec) ==
  /\ worker.pc = "exporting" /\ spec \in worker.specs
  /\ Accepted(spec) => faults < MaxFaults
  /\ \/ UNCHANGED google
     \/ Accepted(spec) /\ google' = [google EXCEPT ![IdFor(spec)] = Shows(spec)]
  /\ worker' = [worker EXCEPT !.specs = {}, !.failing = TRUE, !.results = @ \cup
       {Result(spec, IF spec.seg.event # NoEvent THEN "update_error" ELSE "create_error")}]
  /\ faults' = IF Accepted(spec) THEN faults + 1 ELSE faults
  /\ UNCHANGED <<Rest, operation>>

Recorded(s, r) ==
  [s EXCEPT !.event = r.event, !.provenance = "coachai_created", !.status = r.status]

\* _persist_segment_states, one transaction: a row that is gone undoes it all.
Persist ==
  LET current == \A r \in worker.results : seg[r.task].row = r.row /\ Placed(seg[r.task]) IN
  /\ worker.pc = "exporting" /\ worker.specs = {}
  /\ seg' = IF ~current THEN seg
            ELSE [t \in Tasks |->
                   IF \E r \in worker.results : r.task = t
                   THEN Recorded(seg[t], CHOOSE r \in worker.results : r.task = t)
                   ELSE seg[t]]
  /\ worker' = [worker EXCEPT !.pc = "ending", !.failing = @ \/ ~current]
  /\ UNCHANGED <<alive, commands, schedule, overlapped, undone, deferred, operation, google, faults>>

\* Mutant of Outcomes: an export that could not be saved counts as done.
OutcomesSwallowed == {"completed"}

\* mark_schedule_calendar_reconciliation and mark_completed, or mark_failed
\* with or without attempts left.
Outcomes == IF worker.failing THEN {"retrying", "failed"} ELSE {"completed"}

End ==
  /\ worker.pc = "ending"
  /\ \E status \in Outcomes : operation' = Set(worker.op, status)
  /\ worker' = Idle
  /\ UNCHANGED <<Rest, google, faults>>

\* Any other call fails, or the worker dies; its lease lapses.
Abort ==
  /\ worker.pc # "idle"
  /\ faults < MaxFaults
  /\ faults' = faults + 1
  /\ worker' = Idle
  /\ operation' = Set(worker.op, "retrying")
  /\ UNCHANGED <<Rest, google>>

Process ==
  \/ Load \/ LoadSpecs \/ Persist \/ End
  \/ \E e \in Events \cup Foreign : DeleteEvent(e)
  \/ \E spec \in worker.specs : ExportSegment(spec) \/ ExportFails(spec)

ExportNext ==
  \/ \E windows \in [Flexible -> Windows \cup {Unplaced}] : Place(windows)
  \/ \E c \in 1 .. commands : Undo(c) \/ Claim(c)
  \/ \E t \in Tasks : \/ DeleteTask(t) \/ Defer(t) \/ RequestExport(t) \/ RequestDelete(t)
                       \/ \E window \in Windows : MoveFixed(t, window)
  \/ \E e \in Events : UserDeletes(e)
  \/ Process \/ Abort

ExportSpec == ExportInit /\ [][ExportNext]_exportVars

-----------------------------------------------------------------------------
(* Properties *)

\* The user's own events are never changed or deleted by CoachAI, whatever
\* becomes of the tasks that were made from them.
ForeignIsUntouched == [][\A e \in Foreign : google'[e] = google[e]]_exportVars

\* However calls fail, answers are lost and operations are repeated, a segment
\* has at most one live event of those created for it.
OneEventPerSegment ==
  \A r \in Rows : ~(google[<<r, "v1">>] \in Windows /\ google[<<r, "replacement-v1">>] \in Windows)

\* Google shows the segment where it is, or the event was deleted there.
Shown(s) == s.event # NoEvent /\ google[s.event] \in {s.window, "gone"}

\* Some operation is still to read the segment, or is going to update it.
WillExport(t) ==
  \/ \E c \in 1 .. commands : t \in Exported(operation[c])
                              /\ operation[c].status \in {"queued", "retrying", "failed"}
  \/ worker.pc \in {"loading", "deleting"} /\ t \in Exported(operation[worker.op])
  \/ [task |-> t, seg |-> seg[t]] \in worker.specs
  \/ \E r \in worker.results : r.task = t /\ r.row = seg[t].row
  \/ worker.failing

\* No change of the schedule is forgotten: a segment Google does not show in
\* its place is the business of an operation that is not over, or has failed.
StaleHasWork ==
  \A t \in Flexible \cap alive : Placed(seg[t]) /\ ~Shown(seg[t]) => WillExport(t)

\* Live events of CoachAI that belong to no segment.
Stray == {e \in Events : google[e] \in Windows /\ \A t \in Tasks : seg[t].event # e}

AtRest == worker.pc = "idle"
          /\ \A c \in 1 .. commands : operation[c].status \in {"none", "completed"}

\* When all operations are done, no event is left behind by a segment that was
\* removed, if commands did not overlap with operations under way and no task
\* was deferred, which leaves its events behind.
NoStrayEvents == AtRest /\ ~overlapped /\ ~deferred /\ ~undone => Stray = {}

\* The same with Undo, whose reconciliation is queued for the purpose.
NoStrayEventsAfterUndo == AtRest /\ ~overlapped /\ ~deferred => Stray = {}
=============================================================================
