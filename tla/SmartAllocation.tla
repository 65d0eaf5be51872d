--------------------------- MODULE SmartAllocation --------------------------
(***************************************************************************)
(* SmartScheduler.allocate (smart_scheduler.py): whole tasks are placed in *)
(* one to three segments of one day, in the order of the queue, around     *)
(* intervals that do not move; a task that does not fit stays unplaced,    *)
(* and a gap that the first task skips may be filled by a later one.       *)
(*                                                                         *)
(* One action is one branch of the allocator's loops.  The process is      *)
(* deterministic: its inputs (specs, queue, walls, dayStart) are given by  *)
(* the module that begins an allocation.  Times are minutes of the day;    *)
(* an interval is a pair <<start, end>>.                                   *)
(***************************************************************************)
EXTENDS Intervals, SessionLengths, SequencesExt

CONSTANTS
  Ids,      \* tasks
  DayEnd,   \* WORK_DAY_END, in whole minutes
  Never     \* later than every time: a task without a deadline

ASSUME AllocationAssumption ==
  /\ IsFiniteSet(Ids) /\ Ids \subseteq Nat \ {0}
  /\ DayEnd \in Nat /\ Never \in Nat /\ DayEnd < Never

\* Of the day; allocate raises ValueError for others, and for tasks of no minutes.
DayIntervals == {i \in (0 .. DayEnd) \X (0 .. DayEnd) : i[1] < i[2]}

VARIABLES
  spec,      \* what is known of each task
  queue,     \* the tasks to allocate, and the order_index of each
  walls,     \* blocked_slots: intervals that belong to nothing in the queue
  dayStart,  \* preferences.work_day_start
  segments,  \* segments placed so far, per task
  reason,    \* why a task is unplaced
  work       \* the loop: who is pending and how far the first of them is

allocVars == <<spec, queue, walls, dayStart, segments, reason, work>>

\* minutes, priority, nature of a task; earliest start (0: none) and deadline;
\* fixed: its interval, when it is Fixed; and whether it is a break.
Task == [minutes: Nat \ {0}, priority: 1 .. 5, nature: Natures, earliest: Nat, deadline: Nat,
         fixed: {<<>>} \cup DayIntervals, isBreak: BOOLEAN]

Reasons == {"capacity_shortfall", "fragmentation_segment_cap"}

\* pc: "rest"; "next", before the first pending task; "placing" it, the primary.
Rest == [pc |-> "rest", pending |-> {}, primary |-> 0, remaining |-> 0, tentative |-> <<>>,
         cursor |-> 0, preferred |-> 0]

Fixed(t) == spec[t].fixed # <<>>
\* _next_free and _next_overlap, over merged intervals.
NextFree(at, occupied) ==
  LET inside == {i \in occupied : i[1] <= at /\ at < i[2]}
  IN IF inside = {} THEN at ELSE (CHOOSE i \in inside : TRUE)[2]

Overlaps(at, minutes, occupied) == {i \in occupied : Meet(<<at, at + minutes>>, i)}
First(I) == CHOOSE i \in I : \A j \in I : i[1] <= j[1]

\* _free_minutes between two times.
FreeMinutes(from, occupied, until) ==
  Most(0, until - from)
    - MapThenSumSet(LAMBDA i : Most(0, Least(i[2], until) - Most(i[1], from)), occupied)

\* _some_later_window_fits: only the last window is held against the boundary.
LaterWindows(from, minutes, occupied, until) ==
  LET ends(c) == {i[1] : i \in {j \in occupied : j[1] >= c}}
      fits(c) == c + minutes <= (IF ends(c) = {} THEN until ELSE Min(ends(c)))
  IN {c \in {from} \cup {i[2] : i \in {j \in occupied : j[2] > from}} : fits(c)}

\* _task_bounds.
EarliestOf(t) == Most(dayStart, spec[t].earliest)
LatestOf(t) == Least(DayEnd, spec[t].deadline)

Permanent == Merged(walls \cup {spec[t].fixed : t \in {u \in DOMAIN queue : Fixed(u)}})

\* Mutant of Taken: only what never moves is taken.
TakenForever(but) == Permanent

Taken(but) ==
  Permanent \cup UNION {ToSet(segments[t]) : t \in {u \in DOMAIN queue \ {but} : ~Fixed(u)}}

AllocationInit ==
  /\ queue = <<>> /\ walls = {} /\ dayStart = 0
  /\ segments = [t \in Ids |-> <<>>] /\ reason = [t \in Ids |-> "none"]
  /\ work = Rest

\* The head of allocate: Fixed tasks stand where they are, the others wait.
\* "view" is what the caller passes on of each task.  A day that begins at its
\* end is rejected.
Allocate(view, tasks, around, from) ==
  /\ from < DayEnd
  /\ spec' = view /\ queue' = tasks /\ walls' = around /\ dayStart' = from
  /\ segments' = [t \in Ids |-> IF t \in DOMAIN tasks /\ view[t].fixed # <<>>
                                THEN <<view[t].fixed>> ELSE <<>>]
  /\ reason' = [t \in Ids |-> "none"]
  /\ work' = [Rest EXCEPT !.pc = "next", !.pending = {t \in DOMAIN tasks : view[t].fixed = <<>>}]

Begin ==
  /\ work.pc = "next" /\ work.pending # {}
  /\ LET t == FirstIn(queue, work.pending)
         free == FreeMinutes(EarliestOf(t), Merged(Taken(t)), LatestOf(t))
     IN work' = [work EXCEPT !.pc = "placing", !.primary = t, !.remaining = spec[t].minutes,
                   !.tentative = <<>>, !.cursor = EarliestOf(t),
                   !.preferred = PreferredMinutes(spec[t].minutes, spec[t].nature, free,
                                                  spec[t].deadline # Never)]
  /\ UNCHANGED <<spec, queue, walls, dayStart, segments, reason>>

\* What a pass of the inner loop looks at.
Primary == work.primary
Occupied == Merged(Taken(Primary) \cup ToSet(work.tentative))
At == NextFree(work.cursor, Occupied)
Until == LatestOf(Primary)
Blocks == Overlaps(At, work.remaining, Occupied)
Block == First(Blocks)
Gap == Block[1] - At
Available == MaxSegments - Len(work.tentative)
Shortfall == FreeMinutes(At, Occupied, Until) < work.remaining
Ahead == work.pc = "placing" /\ At < Until
Facing == Ahead /\ Blocks # {}

\* _best_gap_filler: by priority, then the least waste, then the order.
MayFill(t, room, at, end) ==
  /\ spec[t].minutes <= room
  /\ EarliestOf(t) <= at
  /\ at + spec[t].minutes <= Least(end, LatestOf(t))
Fillers(room, at, end) == {t \in work.pending \ {Primary} : MayFill(t, room, at, end)}
Better(t, u) ==
  \/ spec[t].priority < spec[u].priority
  \/ /\ spec[t].priority = spec[u].priority
     /\ \/ spec[t].minutes > spec[u].minutes
        \/ spec[t].minutes = spec[u].minutes /\ queue[t] < queue[u]
Best(T) == CHOOSE t \in T : \A u \in T : ~Better(u, t)

Filled(t, at) == [segments EXCEPT ![t] = <<<<at, at + spec[t].minutes>>>>]

\* The task leaves the queue with its segments, or with a reason and none.
Unplaced(why) ==
  /\ reason' = [reason EXCEPT ![Primary] = why]
  /\ work' = [Rest EXCEPT !.pc = "next", !.pending = work.pending \ {Primary}]
  /\ UNCHANGED <<spec, queue, walls, dayStart, segments>>

OutOfDay ==
  /\ work.pc = "placing" /\ At >= Until
  /\ Unplaced("capacity_shortfall")

\* The rest fits before the next interval: best_session_lengths decides into
\* how many sessions, and a filler may stand between the first two.
PlaceSessions ==
  /\ Ahead /\ Blocks = {}
  /\ At + work.remaining <= Until /\ work.remaining >= MinSegment /\ Available >= 1
  /\ LET t == Primary
         lengths == BestLengths(work.remaining, work.preferred, Available)
         starts == {i[1] : i \in {j \in Occupied : j[1] > At}}
         freeEnd == IF starts = {} THEN Until ELSE Min(starts)
         spare == freeEnd - At - work.remaining
         fillers == IF Len(lengths) > 1 /\ spare >= MinSegment
                    THEN Fillers(spare, At + lengths[1], freeEnd) ELSE {}
         between == IF fillers = {} THEN 0 ELSE spec[Best(fillers)].minutes
         begins(i) == At + Preceding(lengths, i) + (IF i = 1 THEN 0 ELSE between)
         sessions == [i \in DOMAIN lengths |-> <<begins(i), begins(i) + lengths[i]>>]
         others == IF fillers = {} THEN segments ELSE Filled(Best(fillers), At + lengths[1])
     IN /\ segments' = [others EXCEPT ![t] = work.tentative \o sessions]
        /\ work' = [Rest EXCEPT !.pc = "next",
                      !.pending = work.pending \ ({t} \cup IF fillers = {} THEN {} ELSE {Best(fillers)})]
  /\ UNCHANGED <<spec, queue, walls, dayStart, reason>>

\* The rest reaches the end of the day, is too short, or has no segment left.
NoPlaceLeft ==
  /\ Ahead /\ Blocks = {}
  /\ ~(At + work.remaining <= Until /\ work.remaining >= MinSegment /\ Available >= 1)
  /\ Unplaced(IF /\ Shortfall
                 /\ ~(At + work.remaining <= Until /\ work.remaining >= MinSegment)
              THEN "capacity_shortfall" ELSE "fragmentation_segment_cap")

\* A session before the block, never leaving less than a segment for the rest.
Cut(most) ==
  LET amount == Least(Gap, most)
      left == work.remaining - amount
  IN IF 0 < left /\ left < MinSegment THEN amount - (MinSegment - left) ELSE amount

Split(amount) ==
  /\ work' = [work EXCEPT !.tentative = Append(@, <<At, At + amount>>),
                         !.remaining = @ - amount, !.cursor = Block[2]]
  /\ UNCHANGED <<spec, queue, walls, dayStart, segments, reason>>

FirstSession == BestLengths(work.remaining, work.preferred, Available)[1]
PrefersSplit ==
  /\ work.remaining >= MinSegment /\ Available > 1 /\ Gap >= MinSegment
  /\ FirstSession < work.remaining
  /\ Cut(FirstSession) >= MinSegment

SplitAtBlock == Facing /\ PrefersSplit /\ Split(Cut(FirstSession))

GapFillers == IF Gap > 0 THEN Fillers(Gap, At, Block[1]) ELSE {}

\* The gap goes to a later task; the first one is tried again behind it.
FillGap ==
  /\ Facing /\ ~PrefersSplit /\ GapFillers # {}
  /\ LET f == Best(GapFillers)
     IN /\ segments' = Filled(f, At)
        /\ work' = [work EXCEPT !.cursor = At, !.pending = @ \ {f}]
  /\ UNCHANGED <<spec, queue, walls, dayStart, reason>>

Stuck == Facing /\ ~PrefersSplit /\ GapFillers = {}
Later == LaterWindows(Block[2], work.remaining, Occupied, Until)

GoTo(time) ==
  /\ work' = [work EXCEPT !.cursor = time]
  /\ UNCHANGED <<spec, queue, walls, dayStart, segments, reason>>

\* Mutant of SkipToWindow: the first window of the day is looked for again.
SkipToStart == Stuck /\ Later # {} /\ GoTo(EarliestOf(Primary))

SkipToWindow == Stuck /\ Later # {} /\ GoTo(Min(Later))

NotEnough == Stuck /\ Later = {} /\ Shortfall /\ Unplaced("capacity_shortfall")

MustSplit == Stuck /\ Later = {} /\ ~Shortfall

CapReached ==
  /\ MustSplit
  /\ \/ Available <= 1
     \/ Gap >= MinSegment /\ Cut(work.remaining) < MinSegment
  /\ Unplaced("fragmentation_segment_cap")

SkipGap == MustSplit /\ Available > 1 /\ Gap < MinSegment /\ GoTo(Block[2])

ForceSplit ==
  /\ MustSplit /\ Available > 1 /\ Gap >= MinSegment /\ Cut(work.remaining) >= MinSegment
  /\ Split(Cut(work.remaining))

Allocated == work.pc = "next" /\ work.pending = {}

AllocationStep ==
  \/ Begin \/ OutOfDay \/ PlaceSessions \/ NoPlaceLeft \/ SplitAtBlock \/ FillGap
  \/ SkipToWindow \/ NotEnough \/ CapReached \/ SkipGap \/ ForceSplit
=============================================================================
