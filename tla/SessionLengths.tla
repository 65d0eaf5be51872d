--------------------------- MODULE SessionLengths ---------------------------
(***************************************************************************)
(* How much of a task goes into each of its sessions                       *)
(* (session_suitability.py): the rules that the day's allocator, a manual  *)
(* move and the multi-day planner share.  Lengths are minutes; a list of   *)
(* lengths is a sequence.                                                  *)
(***************************************************************************)
EXTENDS Integers, Sequences, FiniteSetsExt, Functions

MinSegment == 15    \* MIN_SEGMENT_MINUTES
MaxSegments == 3    \* MAX_SEGMENTS_PER_TASK

Natures == {"high_focus", "leisure", "practical", "generic"}

\* The semantic factor as a fraction <<numerator, denominator>>.
Factor ==
  [n \in Natures |-> CASE n = "high_focus" -> <<41, 50>> [] n = "leisure" -> <<32, 25>>
                       [] n = "practical" -> <<23, 20>> [] n = "generic" -> <<1, 1>>]

Least(a, b) == IF a < b THEN a ELSE b
Most(a, b) == IF a < b THEN b ELSE a

Divisor(a, b) == Max({d \in 1 .. Least(a, b) : a % d = 0 /\ b % d = 0})
Lowest(a, b) == <<a \div Divisor(a, b), b \div Divisor(a, b)>>

\* 1 + urgency: urgency is the share a task takes of the free minutes before
\* its deadline, capped at 1; 0 without one.
Pressure(total, free, urgent) ==
  LET room == Most(1, free)
  IN IF ~urgent THEN <<1, 1>>
     ELSE IF total >= room THEN <<2, 1>> ELSE Lowest(room + total, room)

\* build_session_profile: sqrt(90 * total) * factor * (1 + urgency), rounded to
\* the nearest multiple k * 15 by comparing squares (of a total that is a
\* multiple of five minutes), at most the task itself.
PreferredMinutes(total, nature, free, urgent) ==
  LET p == Pressure(total, free, urgent)
      f == Lowest(Factor[nature][1] * p[1], Factor[nature][2] * p[2])
      reaches(k) == (2*k - 1) * (2*k - 1) * f[2] <= (((8 * total) \div 5) * f[1] * f[1]) \div f[2]
      units == {k \in 1 .. (total \div MinSegment) + 1 : reaches(k)}
  IN Least(total, MinSegment * (IF units = {} THEN 1 ELSE Max(units)))

\* balanced_session_lengths: near-equal parts, the longer ones first.
Balanced(total, parts) ==
  [i \in 1 .. parts |-> (total \div parts) + (IF i <= total % parts THEN 1 ELSE 0)]

\* Minutes of the sessions before the i-th.
Preceding(lengths, i) == SumFunction([j \in 1 .. i - 1 |-> lengths[j]])

\* session_quality: lower is better; every further session has its price.
Quality(lengths, preferred) ==
  SumFunction([i \in DOMAIN lengths |-> (lengths[i] - preferred) * (lengths[i] - preferred)])
    + (Len(lengths) - 1) * preferred * MinSegment

\* best_session_lengths: the best number of balanced sessions, the fewest of
\* equally good ones.
BestLengths(total, preferred, most) ==
  LET counts == 1 .. Least(Least(most, MaxSegments), total \div MinSegment)
      cost(n) == Quality(Balanced(total, n), preferred)
  IN Balanced(total, Min({n \in counts : \A m \in counts : cost(n) <= cost(m)}))

\* fit_session_lengths: fill windows of these capacities to one level and give
\* what is left to the first ones with room; <<>> when it is not possible.
FitLengths(total, limits) ==
  LET n == Len(limits)
      filled(l) == SumFunction([i \in 1 .. n |-> Least(limits[i], l)])
      level == Max({l \in (total \div n) .. Max(Range(limits)) : filled(l) <= total})
      \* What the windows before i have taken of the rest.
      room(i) == SumFunction([j \in 1 .. i |-> limits[j] - Least(limits[j], level)])
      rest == total - filled(level)
      taken(i) == IF i = 0 THEN 0 ELSE Least(rest, room(i))
  IN IF \/ n \notin 1 .. MaxSegments \/ \E i \in 1 .. n : limits[i] < MinSegment
        \/ total < n * MinSegment \/ SumFunction(limits) < total
     THEN <<>>
     ELSE [i \in 1 .. n |-> Least(limits[i], level) + taken(i) - taken(i - 1)]

\* is_reasonable_existing: sessions a task already has are kept only when no
\* other number of sessions is better.
Reasonable(lengths, preferred) ==
  /\ Len(lengths) \in 1 .. MaxSegments
  /\ Quality(lengths, preferred)
       = Quality(BestLengths(SumFunction(lengths), preferred, MaxSegments), preferred)
=============================================================================
