----------------------------- MODULE TaskTimer -----------------------------
(***************************************************************************)
(* The timer of one task: the seconds the commands bank when it pauses,    *)
(* resumes and ends (task_application.py), the minutes it is credited with *)
(* then or by the clean-up of past days (_stale_task_actual_minutes), and  *)
(* the countdowns that open pages of Today's Schedule go on showing.       *)
(*                                                                         *)
(* Time is counted in ticks, PerSecond of them in a second: the columns    *)
(* hold microseconds, the sums whole seconds.  A command whose version is  *)
(* no longer the task's, or whose key has a record, changes nothing; the   *)
(* functions of services.py for the page add only the read of the version. *)
(***************************************************************************)
EXTENDS Naturals, Integers

CONSTANTS
  Pages,        \* open pages that show the task
  PerSecond,    \* ticks in a second
  Minute,       \* seconds in a minute: 60, scaled down
  DayOver,       \* 23:59:59 of the plan's day
  TimerHorizon,      \* bound: the last tick
  Estimate,     \* estimated_minutes
  MaxPauses,    \* bound: pauses of the task
  NoTime        \* NULL

ASSUME TimerAssumption ==
  /\ {PerSecond, Minute, Estimate} \subseteq Nat \ {0}
  /\ {DayOver, TimerHorizon, MaxPauses} \subseteq Nat /\ NoTime \notin Int

VARIABLES
  clock,    \* now
  timed,    \* the row of the task
  truth,    \* ticks it has run and paused, and those the clean-up may credit
  shown     \* what each page has rendered

timerVars == <<clock, timed, truth, shown>>

NoPage == [left |-> 0, at |-> 0, version |-> 0]

TimerInit ==
  /\ clock = 0
  /\ timed \in [status: {"pending"}, isBreak: BOOLEAN, started: {NoTime}, running: {NoTime},
                pausedAt: {NoTime}, banked: {0}, rested: {0}, pauses: {0}, minutes: {0},
                version: {1}]
  /\ truth = [ran |-> 0, paused |-> 0, counted |-> 0]
  /\ shown = [p \in Pages |-> NoPage]

Ticks(from, to) == IF from = NoTime \/ to < from THEN 0 ELSE to - from
Whole(from, to) == Ticks(from, to) \div PerSecond

\* get_task_elapsed_seconds and get_task_paused_seconds
Elapsed(t) == t.banked + Whole(t.running, clock)
PausedFor(t) == t.rested + Whole(t.pausedAt, clock)

\* round(time / minute): halves to the even minute; never less than one.
RoundedTo(minute, time) ==
  LET q == time \div minute  twice == 2 * (time % minute)
      up == twice > minute \/ (twice = minute /\ q % 2 = 1)
  IN IF up THEN q + 1 ELSE IF q = 0 THEN 1 ELSE q

Rounded(seconds) == RoundedTo(Minute, seconds)

MinuteTicks == Minute * PerSecond

Ongoing(t) == t.status \in {"pending", "in_progress"}

-----------------------------------------------------------------------------
(* The commands *)

Start ==
  /\ timed.status = "pending"
  /\ timed' = [timed EXCEPT !.status = "in_progress", !.started = clock, !.running = clock,
                            !.banked = 0, !.rested = 0, !.version = @ + 1]
  /\ UNCHANGED truth

\* What is banked after DayOver is credited as well.
Pause ==
  /\ timed.running # NoTime
  /\ timed.pauses < MaxPauses
  /\ timed' = [timed EXCEPT !.banked = Elapsed(timed), !.running = NoTime, !.pausedAt = clock,
                            !.pauses = @ + 1, !.version = @ + 1]
  /\ truth' = [truth EXCEPT !.counted = truth.ran]

\* Mutant of Resumed: the pause is left open.
ResumedPaused == [timed EXCEPT !.running = clock, !.rested = PausedFor(timed), !.version = @ + 1]

Resumed == [timed EXCEPT !.running = clock, !.pausedAt = NoTime, !.rested = PausedFor(timed),
                         !.version = @ + 1]

Resume ==
  /\ timed.status = "in_progress" /\ timed.running = NoTime /\ timed.pausedAt # NoTime
  /\ timed' = Resumed
  /\ UNCHANGED truth

\* complete and fail; a task without a second of work gets its estimate.
Finish ==
  /\ Ongoing(timed)
  /\ timed' = [timed EXCEPT
       !.status = "finished", !.banked = Elapsed(timed), !.rested = PausedFor(timed),
       !.running = NoTime, !.pausedAt = NoTime, !.version = @ + 1,
       !.minutes = IF Elapsed(timed) > 0 THEN Rounded(Elapsed(timed)) ELSE Estimate]
  /\ UNCHANGED truth

\* _stale_task_actual_minutes: up to the end of the day, and without timer data
\* the time since the start.  What was running after it counts to the day's end,
\* with its fraction of a second.
StaleMinutes(t) ==
  LET cap == IF clock < DayOver THEN clock ELSE DayOver IN
  CASE t.status = "pending" -> 0
    [] t.status # "pending" /\ (t.running # NoTime \/ t.banked > 0) ->
         RoundedTo(MinuteTicks, t.banked * PerSecond + Ticks(t.running, cap))
    [] OTHER -> RoundedTo(MinuteTicks, Ticks(t.started, cap))

CloseOut ==
  /\ clock > DayOver /\ Ongoing(timed)
  /\ timed' = [timed EXCEPT
       !.status = "closed", !.minutes = StaleMinutes(timed),
       !.banked = StaleMinutes(timed) * Minute, !.running = NoTime, !.pausedAt = NoTime,
       !.version = @ + 1]
  /\ UNCHANGED truth

-----------------------------------------------------------------------------
(* The pages *)

\* A break counts from its start, a task what its timer has left.
Left(t) ==
  IF t.isBreak THEN Estimate * Minute - Whole(t.started, clock)
  ELSE Estimate * Minute - Elapsed(t)

\* The page counts down by itself, a break not below zero.
OnScreen(p) ==
  LET now == shown[p].left - Whole(shown[p].at, clock)
  IN IF timed.isBreak /\ now < 0 THEN 0 ELSE now

Render(p) ==
  /\ timed.status = "in_progress" /\ (timed.running # NoTime \/ timed.isBreak)
  /\ shown' = [shown EXCEPT ![p] = [left |-> Left(timed), at |-> clock, version |-> timed.version]]
  /\ UNCHANGED <<clock, timed, truth>>

\* A page that shows no countdown of it any more.
Hide(p) ==
  /\ shown[p] # NoPage /\ shown[p].version # timed.version
  /\ shown' = [shown EXCEPT ![p] = NoPage]
  /\ UNCHANGED <<clock, timed, truth>>

TimerTick ==
  /\ clock < TimerHorizon
  /\ clock' = clock + 1
  /\ truth' = [ran     |-> truth.ran + (IF timed.running # NoTime THEN 1 ELSE 0),
               paused  |-> truth.paused + (IF timed.pausedAt # NoTime THEN 1 ELSE 0),
               counted |-> truth.counted + (IF timed.running # NoTime /\ clock < DayOver THEN 1 ELSE 0)]
  /\ UNCHANGED <<timed, shown>>

TimerNext ==
  \/ (Start \/ Pause \/ Resume \/ Finish \/ CloseOut) /\ UNCHANGED <<clock, shown>>
  \/ \E p \in Pages : Render(p) \/ Hide(p)
  \/ TimerTick

-----------------------------------------------------------------------------
\* seconds are ticks without less than a second for each time they were summed.
Sums(seconds, ticks, times) ==
  seconds * PerSecond <= ticks /\ ticks <= seconds * PerSecond + times * (PerSecond - 1)

\* minutes are the time to the nearest minute, or one.
Credits(minutes, minute, time) ==
  minutes = 1 \/ (2 * minutes * minute <= 2 * time + minute
                  /\ 2 * time <= 2 * minutes * minute + minute)

\* "elapsed + paused == wall-clock time since started_at": while a task is in
\* progress the two account for its time, each segment to a second.
RunningIsAccounted ==
  timed.status = "in_progress" =>
    /\ Sums(Elapsed(timed), truth.ran, timed.pauses + 1)
    /\ Sums(PausedFor(timed), truth.paused, timed.pauses)
    /\ truth.ran + truth.paused = clock - timed.started

\* A finished task is credited with the time it ran and no pause; one closed by
\* the clean-up with what ran before the day's end and what was banked since, less
\* the fractions of a second that its pauses dropped.
EndIsAccounted ==
  /\ timed.status = "finished" =>
       /\ Sums(timed.banked, truth.ran, timed.pauses + 1)
       /\ Sums(timed.rested, truth.paused, timed.pauses)
       /\ timed.banked > 0 => Credits(timed.minutes, Minute, timed.banked)
  /\ timed.status = "closed" /\ truth.counted >= timed.pauses * PerSecond =>
       \E lost \in 0..timed.pauses * (PerSecond - 1) :
         Credits(timed.minutes, MinuteTicks, truth.counted - lost)

\* A page that has not been rendered again shows, to a second, what the timer
\* has left, as long as nobody has changed the task (a break: paused it).
CountdownIsTrue ==
  \A p \in Pages :
    shown[p].version = timed.version /\ shown[p] # NoPage =>
      OnScreen(p) - (IF timed.isBreak /\ Left(timed) < 0 THEN 0 ELSE Left(timed)) \in 0..1

\* The seconds that are banked, credited and shown are those that have passed.
TimeIsAccounted == RunningIsAccounted /\ EndIsAccounted /\ CountdownIsTrue

\* _stale_task_actual_minutes: "without ever crediting time past the end of the
\* task's own plan day".
DayIsRespected ==
  timed.status = "closed" =>
    timed.minutes <= 1 \/ (timed.minutes - 1) * Minute * PerSecond < DayOver
=============================================================================
