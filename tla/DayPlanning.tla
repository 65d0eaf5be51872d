----------------------------- MODULE DayPlanning ----------------------------
(***************************************************************************)
(* SchedulerService (scheduler_service.py): the three operations that      *)
(* schedule one day - a full run, the addition of a task that replans the  *)
(* lower-priority tasks in its way, and a manual move that repairs the     *)
(* rest - each around one or two runs of the allocator, and the validation *)
(* at the persistence boundary.                                            *)
(*                                                                         *)
(* One operation runs at a time: what happens when two interleave is the   *)
(* subject of ScheduleOperations, where the allocator's result is any      *)
(* schedule.  Here the schedules are the allocator's.                      *)
(***************************************************************************)
EXTENDS SmartAllocation

CONSTANTS
  Catalogue,  \* what a task may be: a set of Task
  Calendars,  \* sets of intervals that imported Calendar events may occupy
  WorkStart,  \* the user's start of the day
  Starts,     \* times a manual move may ask for
  MaxOps      \* bound: operations

ASSUME PlanningAssumption ==
  /\ Catalogue \subseteq Task /\ Calendars \subseteq SUBSET DayIntervals
  /\ WorkStart \in 0 .. DayEnd - 1 /\ Starts \subseteq 0 .. DayEnd

VARIABLES
  task,      \* the rows of tasks: their constraints
  calendar,  \* the day's Calendar blocks
  status,    \* of each row; "absent" before it is created
  day,       \* task_segments: the intervals of each task
  op,        \* the operation under way
  loose,     \* Fixed rows created since the schedule was last validated
  count      \* operations so far

dayVars == <<task, calendar, status, day, op, loose, count>>
planVars == <<allocVars, dayVars>>

Present == {t \in Ids : status[t] # "absent"}
Protected(t) == task[t].fixed # <<>> \/ status[t] \in {"started", "ended"}
Scheduled(t) == day[t] # <<>>
StartOf(t) == IF Scheduled(t) THEN day[t][1][1] ELSE Never
SegmentsOf(T) == UNION {ToSet(day[t]) : t \in T}

NoOp == [kind |-> "none"]

\* Some rows exist, the first ones; Fixed rows are created with their time.
PlanningInit ==
  /\ AllocationInit
  /\ task \in [Ids -> Catalogue] /\ calendar \in Calendars
  /\ spec = task
  /\ \E n \in Ids : status = [t \in Ids |-> IF t <= n THEN "pending" ELSE "absent"]
  /\ day = [t \in Ids |-> IF status[t] = "pending" /\ task[t].fixed # <<>>
                          THEN <<task[t].fixed>> ELSE <<>>]
  /\ op = NoOp /\ loose = {} /\ count = 0

Idle == op = NoOp /\ count < MaxOps
Begins(what) ==
  /\ op' = what /\ count' = count + 1
  /\ UNCHANGED <<task, calendar, status, day, loose>>

Ordered(T) == InOrder(T, <)

\* schedule_plan: every row of the plan, whatever its status.
ScheduleDay ==
  /\ Idle /\ Present # {}
  /\ Allocate(task, Ordered(Present), calendar, WorkStart)
  /\ Begins([kind |-> "schedule"])

\* Work that has begun or ended pushes the replanning boundary.
Boundary ==
  Max({WorkStart} \cup {i[2] : i \in SegmentsOf({t \in Present : status[t] \in {"started", "ended"}})})

\* The rows an addition may replan: no constraint of theirs is passed on.
Eligible ==
  {t \in Present : /\ status[t] = "pending" /\ task[t].fixed = <<>>
                   /\ ~Scheduled(t) \/ Boundary <= StartOf(t)}
Unconstrained ==
  [t \in Ids |-> [task[t] EXCEPT !.earliest = 0, !.deadline = Never]]

\* add_and_schedule_task of a Fixed task: at its time, or not at all.
AddFixed(t) ==
  /\ Idle /\ t \notin Present /\ task[t].fixed # <<>> /\ task[t].fixed[2] <= DayEnd
  /\ \A i \in calendar \cup SegmentsOf(Present) : ~Meet(task[t].fixed, i)
  /\ Allocate(task, Ordered({t}), calendar \cup SegmentsOf(Present), WorkStart)
  /\ Begins([kind |-> "add", task |-> t, replan |-> {}])

\* Of a Flexible one, which has no constraints yet: first against the intact
\* schedule.
AddFlexible(t) ==
  /\ Idle /\ t \notin Present /\ task[t].fixed = <<>> /\ task[t] = Unconstrained[t]
  /\ Allocate(Unconstrained, Ordered({t}), calendar \cup SegmentsOf(Present), Boundary)
  /\ Begins([kind |-> "provisional", task |-> t])

\* Rows that stand before the place found, or have none, compete for the day.
Competing(t) ==
  LET place == IF segments[t] = <<>> THEN Never ELSE segments[t][1][1]
  IN {u \in Eligible : \/ ~Scheduled(u)
                       \/ task[u].priority > task[t].priority /\ StartOf(u) < place}

Before(t, u, new) ==
  \/ task[t].priority < task[u].priority
  \/ /\ task[t].priority = task[u].priority
     /\ LET at(x) == IF x = new THEN Never ELSE StartOf(x)
        IN \/ at(t) < at(u)
           \/ /\ at(t) = at(u)
              /\ IF new \in {t, u} THEN u = new ELSE t < u

Replan ==
  /\ op.kind = "provisional" /\ Allocated
  /\ LET t == op.task
         T == Competing(t)
     IN /\ op' = [kind |-> "add", task |-> t, replan |-> T]
        /\ IF T = {} THEN UNCHANGED allocVars
           ELSE Allocate(Unconstrained, InOrder(T \cup {t}, LAMBDA u, v : Before(u, v, t)),
                         calendar \cup SegmentsOf(Present \ T), Boundary)
  /\ UNCHANGED <<task, calendar, status, day, loose, count>>

\* move_flexible_task: the task is pinned; every other scheduled pending
\* Flexible task is allocated again, by deadline first.
Pinned(t, start) == <<start, start + task[t].minutes>>
Repairs(t) == {u \in Present \ {t} : ~Protected(u) /\ Scheduled(u)}

Sooner(t, u) ==
  LET key(x) == <<task[x].deadline, task[x].priority, task[x].earliest, StartOf(x), x>>
      first == Min({i \in 1 .. 5 : key(t)[i] # key(u)[i]})
  IN key(t)[first] < key(u)[first]

Move(t, start) ==
  /\ Idle /\ t \in Present /\ ~Protected(t)
  /\ Pinned(t, start)[2] <= Least(DayEnd, task[t].deadline) /\ task[t].earliest <= start
  /\ \A i \in calendar \cup SegmentsOf({u \in Present \ {t} : Protected(u)}) : ~Meet(Pinned(t, start), i)
  /\ LET R == Repairs(t)
     IN IF R = {} THEN UNCHANGED allocVars
        ELSE Allocate(task, InOrder(R, Sooner),
                      calendar \cup {Pinned(t, start)} \cup SegmentsOf(Present \ (R \cup {t})),
                      Min({start} \cup {i[1] : i \in SegmentsOf(R \cup {t})}))
  /\ Begins([kind |-> "move", task |-> t, start |-> start, replan |-> Repairs(t)])

\* The schedule an operation proposes, for every row.
Proposed ==
  CASE op.kind = "schedule" -> [t \in Ids |-> IF t \in Present THEN segments[t] ELSE day[t]]
    [] op.kind = "add" -> [t \in Ids |-> IF t \in op.replan \cup {op.task} THEN segments[t] ELSE day[t]]
    [] op.kind = "move" -> [t \in Ids |-> IF t = op.task THEN <<Pinned(t, op.start)>>
                                          ELSE IF t \in op.replan THEN segments[t] ELSE day[t]]

Rows == IF op.kind = "add" THEN Present \cup {op.task} ELSE Present

\* _validate_segment_payload.  It knows no deadline and no Calendar.
Valid(proposed) ==
  \A t \in Rows :
    /\ Len(proposed[t]) <= MaxSegments
    /\ \A i \in ToSet(proposed[t]) : i[1] < i[2] /\ i[2] <= DayEnd
    /\ IF task[t].fixed # <<>> THEN proposed[t] = <<task[t].fixed>>
       ELSE /\ \A i \in ToSet(proposed[t]) : Length(i) >= MinSegment
            /\ \A n \in 2 .. Len(proposed[t]) : proposed[t][n - 1][2] <= proposed[t][n][1]
            /\ proposed[t] # <<>> =>
                 MapThenSumSet(Length, ToSet(proposed[t])) = task[t].minutes
            /\ \A u \in Rows \ {t} : \A i \in ToSet(proposed[t]), j \in ToSet(proposed[u]) : ~Meet(i, j)

\* A move is refused when the repair leaves a task without a place.
Acceptable ==
  /\ Valid(Proposed)
  /\ op.kind = "move" => \A u \in op.replan : segments[u] # <<>>

Finished == Allocated \/ (op.kind = "move" /\ op.replan = {})

Ends ==
  /\ op' = NoOp /\ work' = Rest
  /\ UNCHANGED <<task, calendar, count, spec, queue, walls, dayStart, segments, reason>>

Commit ==
  /\ op.kind \in {"schedule", "add", "move"} /\ Finished /\ Acceptable
  /\ day' = Proposed /\ loose' = {}
  /\ status' = [t \in Ids |-> IF t \in Rows /\ status[t] = "absent" THEN "pending" ELSE status[t]]
  /\ Ends

Refuse ==
  /\ op.kind \in {"schedule", "add", "move"} /\ Finished /\ ~Acceptable
  /\ UNCHANGED <<day, status, loose>>
  /\ Ends

\* add_break_to_plan, create_task with a time: the row comes with its segment,
\* whatever stands there.
InsertFixed(t) ==
  /\ Idle /\ t \notin Present /\ task[t].fixed # <<>>
  /\ status' = [status EXCEPT ![t] = "pending"]
  /\ day' = [day EXCEPT ![t] = <<task[t].fixed>>]
  /\ loose' = loose \cup {t} /\ count' = count + 1
  /\ UNCHANGED <<task, calendar, op, allocVars>>

\* The timer and status commands.
Progress(t, to) ==
  /\ Idle /\ t \in Present /\ to \in {"started", "ended"}
  /\ status[t] = "pending" \/ (status[t] = "started" /\ to = "ended")
  /\ status' = [status EXCEPT ![t] = to] /\ count' = count + 1
  /\ UNCHANGED <<task, calendar, day, op, loose, allocVars>>

Allocating == op # NoOp /\ AllocationStep /\ UNCHANGED dayVars

PlanningNext ==
  \/ ScheduleDay
  \/ \E t \in Ids : AddFixed(t) \/ AddFlexible(t) \/ InsertFixed(t)
  \/ \E t \in Ids, s \in Starts : Move(t, s)
  \/ \E t \in Ids, to \in {"started", "ended"} : Progress(t, to)
  \/ Allocating \/ Replan \/ Commit \/ Refuse

PlanningSpec == PlanningInit /\ [][PlanningNext]_planVars

\* detect_persisted_break_conflicts and detect_persisted_fixed_task_conflicts,
\* the allocator's last_conflicts: what the user is told that nobody moves.
Clashes ==
  {{p[1], p[2]} : p \in {q \in Present \X Present :
     /\ q[1] # q[2] /\ task[q[1]].fixed # <<>> /\ task[q[2]].fixed # <<>>
     /\ ~(task[q[1]].isBreak /\ task[q[2]].isBreak)
     /\ Meet(task[q[1]].fixed, task[q[2]].fixed)}}
-----------------------------------------------------------------------------
\* The validation never has to refuse what the allocator proposes, unless a
\* task is shorter than a segment, or a Fixed row was inserted after the tasks
\* that an addition or a move leaves where they are.
ValidationIsIdle ==
  Finished /\ op.kind \in {"schedule", "add", "move"} =>
    \/ Valid(Proposed)
    \/ \E t \in Rows : task[t].fixed = <<>> /\ task[t].minutes < MinSegment /\ Proposed[t] # <<>>
    \/ op.kind # "schedule" /\ loose # {}

\* The start of the day, or an earlier one that a manual move asked for.
Earliest == Min({WorkStart} \cup Starts)

\* Whatever the operations, a Flexible task has no place or one inside the day
\* and on no Calendar block (of which the validation knows nothing); two tasks
\* share time only when the user is told (two breaks never are) or when a Fixed
\* row was inserted afterwards; and the allocator's several books of what is
\* taken, while fillers, splits and pinned tasks share a day, agree.
DayIsSound ==
  /\ ValidationIsIdle
  /\ \A t \in Present :
       /\ task[t].fixed = <<>> =>
            \A i \in ToSet(day[t]) : /\ Earliest <= i[1] /\ i[2] <= DayEnd
                                    /\ \A c \in calendar : ~Meet(i, c)
       /\ \A u \in Present \ {t} : \A i \in ToSet(day[t]), j \in ToSet(day[u]) :
            Meet(i, j) => \/ {t, u} \cap loose # {} \/ {t, u} \in Clashes
                          \/ task[t].isBreak /\ task[u].isBreak

\* Every operation ends: a pass of the allocator's inner loop shortens what is
\* left of the task, moves the cursor ahead or takes a task off the queue.
PassesAdvance ==
  [][work.pc = "placing" /\ work'.pc = "placing" =>
       \/ work'.remaining < work.remaining \/ work'.cursor > work.cursor
       \/ Cardinality(work'.pending) < Cardinality(work.pending)]_work

\* SMART_SCHEDULING.md: "When a contiguous window has spare capacity, another
\* eligible Flexible task may be placed between a long task's sessions.
\* Priority, deadline, earliest start, and exact completion remain protected."
\* What a full run commits.
RunsMeetDeadlines ==
  [][op.kind = "schedule" => \A t \in Present : task[t].fixed = <<>> =>
       \A i \in ToSet(day'[t]) : i[2] <= task[t].deadline]_day

\* A task of the plan may be short; a run of the allocator is still accepted.
RunsAreAccepted == op.kind = "schedule" /\ Finished => Acceptable
=============================================================================
