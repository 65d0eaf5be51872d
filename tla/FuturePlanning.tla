--------------------------- MODULE FuturePlanning ---------------------------
(***************************************************************************)
(* FuturePlanningService (future_planner.py): the preview of a plan over   *)
(* several days.  The tasks of the request are ranked once and placed one  *)
(* after the other in the free windows of the horizon, each where the      *)
(* score of its sessions is best; a task whose sessions are still good     *)
(* keeps them.  How the preview is written, and what stops it, is          *)
(* ScheduleOperations; here it is written at once and planned again.       *)
(*                                                                         *)
(* Time is in minutes since midnight of the first day, 1440 to a day; an   *)
(* interval does not leave its day.                                        *)
(***************************************************************************)
EXTENDS Intervals, SessionLengths, SequencesExt

CONSTANTS
  Tasks,       \* tasks: those of the scope and the drafts, by their rank of id
  LastDay,     \* the horizon is the days 0 .. LastDay
  FutureStart, \* work_day_start, a time of the day
  FutureEnd,   \* WORK_DAY_END
  NoDate       \* later than every time: no deadline

\* validate_horizon: twelve weeks at most.
ASSUME HorizonAssumption ==
  /\ Tasks \subseteq Nat /\ IsFiniteSet(Tasks) /\ LastDay \in 0 .. 84
  /\ FutureStart \in Nat /\ FutureEnd \in Nat /\ FutureStart < FutureEnd /\ FutureEnd <= 1440
  /\ NoDate \in Nat /\ NoDate > LastDay * 1440 + FutureEnd

VARIABLES
  row,       \* tasks as they are in the database, or as a draft states them
  request,   \* which tasks are asked for, and the changes to them
  events,    \* intervals of the Calendar and of tasks outside the scope
  ranked,    \* the tasks left to place, and the rank of each
  occupied,  \* what is taken
  load,      \* minutes this preview has placed on each day
  plan,      \* segments_by_task, draft_segments
  why,       \* the outcome of each task
  earlier    \* what the plan before this one was; <<>> in the first preview

futureVars == <<row, request, events, ranked, occupied, load, plan, why, earlier>>

\* estimated, actual: minutes; earliest (0: none), deadline: times; protected:
\* Fixed, a break, started or ended; existing: its segments; draft: not saved.
FutureRow ==
  [estimated: Nat, actual: Nat, priority: 1 .. 5, nature: Natures, earliest: Nat,
   deadline: Nat, protected: BOOLEAN, existing: Seq(Nat \X Nat), draft: BOOLEAN]

FutureDays == 0 .. LastDay
DayOf(time) == time \div 1440

\* Segments and blocks end on the day they begin.
OneDay(I) ==
  I \subseteq {i \in Nat \X Nat : i[1] < i[2] /\ i[2] <= (DayOf(i[1]) + 1) * 1440}

InHorizon(i) == DayOf(i[1]) \in FutureDays

\* An event that CoachAI exported from a segment of the horizon blocks nothing.
Exported(e) == e.of \in Tasks /\ \E i \in ToSet(row[e.of].existing) : InHorizon(i)

\* A database, a request and a Calendar: drafts have not begun and come after
\* the saved tasks; an event is of a task when a segment of the horizon names it.
FutureScene ==
  /\ row \in [Tasks -> FutureRow] /\ \A t \in Tasks : OneDay(ToSet(row[t].existing))
  /\ \A t \in Tasks : row[t].draft => ~row[t].protected /\ \A u \in Tasks : ~row[u].draft => u < t
  /\ request \in [everything: BOOLEAN, tasks: SUBSET Tasks, changes: {request.changes}]
  /\ DOMAIN request.changes \subseteq Tasks
  /\ request.changes \in [DOMAIN request.changes -> [estimated: Nat, earliest: Nat, deadline: Nat]]
  /\ OneDay({e.at : e \in events}) /\ \A e \in events : e.of \in Tasks => Exported(e)

HorizonStart == FutureStart
HorizonEnd == LastDay * 1440 + FutureEnd

\* A change replaces the estimate and the limits of a task.
Wanted(t) ==
  IF t \notin DOMAIN request.changes THEN row[t]
  ELSE [row[t] EXCEPT !.estimated = request.changes[t].estimated,
                      !.earliest = request.changes[t].earliest,
                      !.deadline = request.changes[t].deadline]

\* The tasks a preview may place, and the segments of the others, which stay.
Asked(t) == row[t].draft \/ request.everything \/ t \in request.tasks
Movable == {t \in Tasks : ~row[t].protected /\ Asked(t)}
Staying == UNION {{i \in ToSet(row[t].existing) : InHorizon(i)} : t \in Tasks \ Movable}

\* What blocks: the events that CoachAI did not export.
Blocking == {e.at : e \in {f \in events : ~Exported(f)}}

\* Work already done is never planned again.
Remaining(t) == Most(0, Wanted(t).estimated - Wanted(t).actual)
OpensAt(t) == Most(Wanted(t).earliest, HorizonStart)
ClosesAt(t) == Least(Wanted(t).deadline, HorizonEnd)

\* _free_windows: those of at least a segment.
FreeIn(date, taken, from, until) ==
  LET opens == Most(date * 1440 + FutureStart, from)
      closes == Least(date * 1440 + FutureEnd, until)
      B == Merged({i \in taken : DayOf(i[1]) = date})
      starts == {s \in {opens} \cup {b[2] : b \in B} :
                   opens <= s /\ s < closes /\ ~\E b \in B : b[1] <= s /\ s < b[2]}
  IN {<<s, Min({closes} \cup {b[1] : b \in {c \in B : s < c[1]}})>> : s \in starts}

Windows(taken, from, until) ==
  {w \in UNION {FreeIn(d, taken, from, until) : d \in FutureDays} : Length(w) >= MinSegment}

Capacity(W) == SumFunction([w \in W |-> Length(w)])

\* The scarcest first: by slack, priority, deadline; drafts last.
RankedBefore(t, u, taken) ==
  LET key(x) == <<Capacity(Windows(taken, OpensAt(x), ClosesAt(x))) - Remaining(x),
                  Wanted(x).priority, ClosesAt(x), IF row[x].draft THEN 1 ELSE 0, x>>
      first == Min({i \in 1 .. 5 : key(t)[i] # key(u)[i]})
  IN key(t)[first] < key(u)[first]

FutureInit ==
  /\ ranked = <<>> /\ occupied = {} /\ load = [d \in FutureDays |-> 0]
  /\ plan = [t \in Tasks |-> <<>>] /\ why = [t \in Tasks |-> "none"] /\ earlier = <<>>

\* What preview refuses: work less than is done, limits in the wrong order
\* (of a task that is changed, or a draft), and a protected task asked for.
Refusable ==
  \/ \E t \in Tasks : /\ row[t].protected /\ ~row[t].draft
                     /\ ~request.everything /\ t \in request.tasks
  \/ \E t \in Movable :
       /\ t \in DOMAIN request.changes \/ row[t].draft
       /\ \/ Wanted(t).estimated < Wanted(t).actual
          \/ Wanted(t).earliest > Wanted(t).deadline
  \/ \E t \in DOMAIN request.changes : ~request.everything /\ t \notin request.tasks

Unplanned == \A t \in Tasks : why[t] = "none"

Preview ==
  /\ Unplanned /\ ranked = <<>> /\ ~Refusable /\ Movable # {}
  /\ LET taken == Blocking \cup Staying
     IN /\ occupied' = taken
        /\ ranked' = InOrder(Movable, LAMBDA t, u : RankedBefore(t, u, taken))
  /\ UNCHANGED <<row, request, events, load, plan, why, earlier>>

\* The task whose turn it is.
Turn == FirstIn(ranked, DOMAIN ranked)
Options == Windows(occupied, OpensAt(Turn), ClosesAt(Turn))
Preferred ==
  PreferredMinutes(Most(Remaining(Turn), 1), Wanted(Turn).nature, Capacity(Options),
                   Wanted(Turn).deadline # NoDate)
Sessions(t) == row[t].existing
Lengths(c) == [i \in DOMAIN c |-> Length(c[i])]

\* Mutant of MayKeep: sessions kept are not held against what is taken since.
MayKeepAnyway ==
  /\ Sessions(Turn) # <<>> /\ Len(Sessions(Turn)) <= MaxSegments
  /\ SumFunction(Lengths(Sessions(Turn))) = Remaining(Turn)
  /\ \A i \in ToSet(Sessions(Turn)) :
       InHorizon(i) /\ Length(i) >= MinSegment /\ OpensAt(Turn) <= i[1] /\ i[2] <= ClosesAt(Turn)
  /\ Reasonable(Lengths(Sessions(Turn)), Preferred)

\* _fits_existing, and sessions of a reasonable number.
MayKeep ==
  /\ Sessions(Turn) # <<>> /\ Len(Sessions(Turn)) <= MaxSegments
  /\ SumFunction(Lengths(Sessions(Turn))) = Remaining(Turn)
  /\ \A i \in ToSet(Sessions(Turn)) :
       /\ InHorizon(i) /\ Length(i) >= MinSegment
       /\ OpensAt(Turn) <= i[1] /\ i[2] <= ClosesAt(Turn)
       /\ \A o \in occupied : ~Meet(i, o)
  /\ Reasonable(Lengths(Sessions(Turn)), Preferred)

\* _allocate_combination: sessions at the heads of these windows.
Across(chosen) ==
  LET amounts == FitLengths(Remaining(Turn), Lengths(chosen))
  IN [i \in DOMAIN amounts |-> <<chosen[i][1], chosen[i][1] + amounts[i]>>]

\* Two or three sessions, one behind the other, in one window.
Within(w, n) ==
  LET lengths == Balanced(Remaining(Turn), n)
      begins(i) == w[1] + Preceding(lengths, i)
  IN [i \in 1 .. n |-> <<begins(i), begins(i) + lengths[i]>>]

\* Windows in the order of time.
Earlier(v, w) == v[1] < w[1]
Pairs(W) == {p \in W \X W : Earlier(p[1], p[2])}

Smaller(W) ==
  {Across(<<w>>) : w \in W}
    \cup {Across(p) : p \in Pairs(W)}
    \cup {Within(p[1], p[2]) : p \in {q \in W \X (2 .. MaxSegments) :
                                        /\ Length(q[1]) >= Remaining(Turn)
                                        /\ Remaining(Turn) >= q[2] * MinSegment}}

\* Mutant of Thirds: the days the first two are on are not looked at again.
ThirdsElsewhere(W, p) ==
  LET behind == {w \in W : Earlier(p[2], w) /\ DayOf(w[1]) \notin {DayOf(p[1][1]), DayOf(p[2][1])}}
  IN {w \in behind : \A v \in behind : Length(v) = Length(w) =>
        load[DayOf(w[1])] <= load[DayOf(v[1])]}

\* The third windows worth a look behind two others: of those of one length,
\* the first of each day; and of the days the two are not on, the one with
\* the least load.
Thirds(W, p) ==
  LET behind == {w \in W : Earlier(p[2], w)}
      date(w) == DayOf(w[1])
      chosen == {date(p[1]), date(p[2])}
      firsts == {w \in behind : ~\E v \in behind : /\ Earlier(v, w) /\ date(v) = date(w)
                                                  /\ Length(v) = Length(w)}
      others == {w \in firsts : date(w) \notin chosen}
      lighter(v, w) == \/ load[date(v)] < load[date(w)]
                       \/ load[date(v)] = load[date(w)] /\ Earlier(v, w)
  IN {w \in firsts : date(w) \in chosen}
       \cup {w \in others : ~\E v \in others : Length(v) = Length(w) /\ lighter(v, w)}
       \cup {w \in behind : Len(Sessions(Turn)) = 3 /\ w[1] = Sessions(Turn)[3][1]}

Triples(W) ==
  UNION {{Across(<<p[1], p[2], w>>) : w \in Thirds(W, p)} : p \in Pairs(W)}

\* The score, smaller is better: quality, number of sessions, the fullest
\* day, the sum of the squares of the days, the starts.
LoadWith(c, d) ==
  load[d] + SumFunction([i \in DOMAIN c |-> IF DayOf(c[i][1]) = d THEN Length(c[i]) ELSE 0])
Fullest(c) == Max({LoadWith(c, d) : d \in FutureDays})
Squares(c) == SumFunction([d \in FutureDays |-> LoadWith(c, d) * LoadWith(c, d)])
StartsBefore(c, d) ==
  \E i \in DOMAIN c : /\ c[i][1] < d[i][1]
                      /\ \A j \in 1 .. i - 1 : c[j][1] = d[j][1]

LeastOf(C, cost(_)) == LET least == Min({cost(c) : c \in C}) IN {c \in C : cost(c) = least}

BestOf(C, preferred) ==
  LET byQuality == LeastOf(C, LAMBDA c : Quality(Lengths(c), preferred))
      byCount == LeastOf(byQuality, Len)
      byLoad == LeastOf(LeastOf(byCount, Fullest), Squares)
  IN CHOOSE c \in byLoad : \A d \in byLoad : ~StartsBefore(d, c)

\* _best_placement looks at these.
Candidates(W) == (Smaller(W) \cup Triples(W)) \ {<<>>}

\* The task has its segments, or a reason for having none.
Settled(segments, outcome) ==
  /\ plan' = [plan EXCEPT ![Turn] = segments]
  /\ why' = [why EXCEPT ![Turn] = outcome]
  /\ occupied' = occupied \cup ToSet(segments)
  /\ load' = [d \in FutureDays |-> LoadWith(segments, d)]
  /\ ranked' = Restrict(ranked, DOMAIN ranked \ {Turn})
  /\ UNCHANGED <<row, request, events, earlier>>

Given(segments) ==
  Settled(segments, IF segments = Sessions(Turn) THEN "already_valid" ELSE "scheduled")

NothingLeft == ranked # <<>> /\ Remaining(Turn) = 0 /\ Given(<<>>)

Keep == ranked # <<>> /\ Remaining(Turn) > 0 /\ MayKeep /\ Given(Sessions(Turn))

Place ==
  /\ ranked # <<>> /\ Remaining(Turn) > 0 /\ ~MayKeep
  /\ LET C == Candidates(Options)
     IN C # {} /\ Given(BestOf(C, Preferred))

GiveUp ==
  /\ ranked # <<>> /\ Remaining(Turn) > 0 /\ ~MayKeep /\ Candidates(Options) = {}
  /\ Settled(<<>>, CASE Wanted(Turn).deadline < HorizonStart -> "deadline_impossible"
                     [] Wanted(Turn).earliest > HorizonEnd -> "earliest_start_outside_horizon"
                     [] Capacity(Options) < Remaining(Turn) -> "insufficient_feasible_capacity"
                     [] OTHER -> "fragmentation_segment_cap")

Planned == ~Unplanned /\ ranked = <<>>

\* apply: the tasks have the segments and the limits of the preview, the
\* drafts are rows, events of segments that are gone have been deleted; and
\* another preview of the same tasks begins.
ApplyAndPlanAgain ==
  /\ Planned /\ earlier = <<>>
  /\ earlier' = <<plan>>
  /\ row' = [t \in Tasks |-> IF t \in Movable THEN [Wanted(t) EXCEPT !.existing = plan[t], !.draft = FALSE]
                            ELSE row[t]]
  /\ request' = [request EXCEPT !.changes = <<>>,
                   !.tasks = IF request.everything THEN {} ELSE Movable]
  /\ ranked' = <<>> /\ occupied' = {} /\ load' = [d \in FutureDays |-> 0]
  /\ plan' = [t \in Tasks |-> <<>>] /\ why' = [t \in Tasks |-> "none"]
  /\ events' = {e \in events : ~Exported(e) \/ plan[e.of] # <<>> \/ e.of \notin Movable}

FutureNext == Preview \/ NothingLeft \/ Keep \/ Place \/ GiveUp \/ ApplyAndPlanAgain

FutureSpec == FutureInit /\ FutureScene /\ [][FutureNext]_futureVars
-----------------------------------------------------------------------------
\* A plan gives each task all of its remaining minutes inside its limits, or
\* none; its segments meet no other task's and nothing that stays, whichever
\* tasks kept theirs.
FuturePlanHolds ==
  \A t \in Movable : LET S == ToSet(plan[t]) IN
    /\ S # {} => /\ Cardinality(S) <= MaxSegments
                 /\ SumFunction(Lengths(plan[t])) = Remaining(t)
    /\ \A i \in S : /\ Length(i) >= MinSegment /\ OpensAt(t) <= i[1] /\ i[2] <= ClosesAt(t)
                    /\ \A o \in Blocking \cup Staying : ~Meet(i, o)
    /\ \A u \in Movable \ {t} : \A i \in S, j \in ToSet(plan[u]) : ~Meet(i, j)

\* "This is an exact reduction of the cubic search, not a heuristic": no three
\* windows at all would have been better than the ones looked at.  And the
\* choice is stable: planning again what was just applied moves nothing.
ReductionIsExact ==
  /\ ranked # <<>> /\ Remaining(Turn) > 0 /\ ~MayKeep =>
       LET W == Options
           all == (Smaller(W) \cup UNION {{Across(<<p[1], p[2], w>>) :
                     w \in {v \in W : Earlier(p[2], v)}} : p \in Pairs(W)}) \ {<<>>}
       IN all # {} => BestOf(Candidates(W), Preferred) = BestOf(all, Preferred)
  /\ Planned /\ earlier # <<>> => plan = earlier[1]
=============================================================================
