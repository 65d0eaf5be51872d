---------------------------- MODULE PreviewProofs ----------------------------
(***************************************************************************)
(* What holds of the previews of the multi-day planner (FuturePlanning)    *)
(* whatever the tasks, the horizon, the windows and the Calendar are:      *)
(*                                                                         *)
(*   - what a preview proposes keeps every limit of the tasks and of the   *)
(*     calendar, and no two tasks share time;                              *)
(*   - the third windows that are looked at are enough: no sessions in any *)
(*     three windows are better than the best of those looked at;          *)
(*   - planning again what was just applied moves nothing.                 *)
(*                                                                         *)
(* The second: sessions that are not looked at are surpassed by others     *)
(* with an earlier third window of the day, or one of a day with less      *)
(* load.  The third: what a task is given is decided by its limits and by  *)
(* what the tasks before it were given; both previews take the tasks in    *)
(* one order, so each finds what the other decided.                        *)
(***************************************************************************)
EXTENDS PlanningProofs, FuturePlanning

-----------------------------------------------------------------------------
(* The multi-day preview: FuturePlanning *)

\* Future Planning: the free windows.
LEMMA OneDayOf ==
  ASSUME NEW I, OneDay(I), NEW i \in I
  PROVE  /\ i \in Nat \X Nat /\ i[1] \in Nat /\ i[2] \in Nat /\ i[1] < i[2]
         /\ i[2] <= (DayOf(i[1]) + 1) * 1440
         /\ DayOf(i[1]) \in Nat /\ DayOf(i[1]) * 1440 <= i[1]
<1>1. /\ i \in Nat \X Nat /\ i[1] \in Nat /\ i[2] \in Nat /\ i[1] < i[2]
      /\ i[2] <= (DayOf(i[1]) + 1) * 1440
  BY DEF OneDay
<1>2. \A n \in Nat : n \div 1440 \in Nat /\ (n \div 1440) * 1440 <= n OBVIOUS
<1> QED BY <1>1, <1>2 DEF DayOf

\* Intervals of different days do not meet.
LEMMA DaysApart ==
  ASSUME NEW d \in Nat, NEW e \in Nat, d # e,
         NEW i \in Nat \X Nat, d * 1440 <= i[1], i[2] <= (d + 1) * 1440,
         NEW j \in Nat \X Nat, e * 1440 <= j[1], j[2] <= (e + 1) * 1440
  PROVE  ~Meet(i, j)
<1>1. i[1] \in Nat /\ i[2] \in Nat /\ j[1] \in Nat /\ j[2] \in Nat OBVIOUS
<1>2. d + 1 <= e \/ e + 1 <= d OBVIOUS
<1>3. CASE d + 1 <= e
  <2>1. (d + 1) * 1440 <= e * 1440 BY <1>3
  <2> QED BY <1>1, <2>1 DEF Meet
<1>4. CASE e + 1 <= d
  <2>1. (e + 1) * 1440 <= d * 1440 BY <1>4
  <2> QED BY <1>1, <2>1 DEF Meet
<1> QED BY <1>2, <1>3, <1>4

\* A window is inside the limits and inside the day, and meets nothing taken.
WindowOf(w, taken, date, from, until) ==
  /\ w \in Nat \X Nat /\ w[1] < w[2]
  /\ date * 1440 <= w[1] /\ w[2] <= (date + 1) * 1440
  /\ from <= w[1] /\ w[2] <= until
  /\ \A i \in taken : ~Meet(w, i)

FreeStarts(B, opens, closes) ==
  {s \in {opens} \cup {b[2] : b \in B} :
     opens <= s /\ s < closes /\ ~\E b \in B : b[1] <= s /\ s < b[2]}
FreeEnds(B, closes, s) == {closes} \cup {b[1] : b \in {c \in B : s < c[1]}}

FreeBlocks(date, taken) == Merged({i \in taken : DayOf(i[1]) = date})
FreeOpens(date, from) == Most(date * 1440 + FutureStart, from)
FreeCloses(date, until) == Least(date * 1440 + FutureEnd, until)

\* A free window runs from a free minute to the first end after it.
LEMMA FreeIs ==
  ASSUME NEW date, NEW taken, NEW from, NEW until, NEW w \in FreeIn(date, taken, from, until)
  PROVE  \E s \in FreeStarts(FreeBlocks(date, taken), FreeOpens(date, from), FreeCloses(date, until)) :
           w = <<s, Min(FreeEnds(FreeBlocks(date, taken), FreeCloses(date, until), s))>>
<1>1. FreeIn(date, taken, from, until)
        = {<<s, Min(FreeEnds(FreeBlocks(date, taken), FreeCloses(date, until), s))>> :
             s \in FreeStarts(FreeBlocks(date, taken), FreeOpens(date, from), FreeCloses(date, until))}
  BY DEF FreeIn, FreeStarts, FreeEnds, FreeBlocks, FreeOpens, FreeCloses
<1> QED BY <1>1

\* A free stretch of a day is a window: it lies in the day, it is bounded, nothing taken is in it.
LEMMA FreeWindow ==
  ASSUME NEW taken, OneDay(taken), NEW date \in FutureDays, NEW from \in Nat, NEW until \in Nat,
         NEW w \in FreeIn(date, taken, from, until)
  PROVE  WindowOf(w, taken, date, from, until)
<1>0. date \in Nat /\ FutureStart \in Nat /\ FutureEnd \in Nat /\ FutureEnd <= 1440
  BY HorizonAssumption DEF FutureDays
<1>1. PICK here : here = {i \in taken : DayOf(i[1]) = date} OBVIOUS
<1>2. PICK B, opens, closes : /\ B = FreeBlocks(date, taken)
                              /\ opens = FreeOpens(date, from) /\ closes = FreeCloses(date, until)
  OBVIOUS
<1>3. PICK s \in FreeStarts(B, opens, closes) : w = <<s, Min(FreeEnds(B, closes, s))>>
  BY <1>2, FreeIs
<1>4. PICK D \in Nat, E \in Nat : /\ D = date * 1440 /\ E = (date + 1) * 1440 /\ E = D + 1440 BY <1>0
<1>5. opens \in Nat /\ closes \in Int /\ D <= opens /\ from <= opens /\ closes <= until /\ closes <= E
  BY <1>0, <1>2, <1>4 DEF Most, Least, FreeOpens, FreeCloses
<1>6. Proper(here)
  <2>1. ASSUME NEW i \in here PROVE i \in Nat \X Nat /\ i[1] < i[2] /\ i[2] <= E
    <3>1. i \in taken /\ DayOf(i[1]) = date BY <1>1
    <3> QED BY <3>1, <1>4, OneDayOf
  <2> QED BY <2>1, <1>4 DEF Proper
<1>7. B = Merged(here) BY <1>1, <1>2 DEF FreeBlocks
<1>7a. Proper(B) BY <1>6, <1>7, MergedProper
<1>8. \A b \in B : b[1] \in Nat /\ b[2] \in Nat BY <1>7a DEF Proper
<1>9. s \in Nat /\ opens <= s /\ s < closes /\ \A b \in B : ~ (b[1] <= s /\ s < b[2])
  BY <1>5, <1>8 DEF FreeStarts
<1>10. /\ FreeEnds(B, closes, s) \subseteq Nat /\ closes \in FreeEnds(B, closes, s)
       /\ \A e \in FreeEnds(B, closes, s) : s < e
  BY <1>5, <1>8, <1>9 DEF FreeEnds
<1>11. PICK m : m = Min(FreeEnds(B, closes, s)) OBVIOUS
<1>12. m \in FreeEnds(B, closes, s) /\ \A e \in FreeEnds(B, closes, s) : m <= e
  BY <1>10, <1>11, MinIsLeast
<1>13. m \in Nat /\ s < m /\ m <= closes BY <1>10, <1>12
<1>14. w = <<s, m>> BY <1>3, <1>11
<1>15. w \in Nat \X Nat /\ w[1] = s /\ w[2] = m BY <1>9, <1>13, <1>14
<1>16. D <= s /\ m <= E /\ from <= s /\ m <= until BY <1>4, <1>5, <1>9, <1>13
<1>17. ASSUME NEW i \in taken PROVE ~Meet(w, i)
  <2>1. /\ i \in Nat \X Nat /\ i[1] \in Nat /\ i[2] \in Nat /\ i[1] < i[2]
        /\ i[2] <= (DayOf(i[1]) + 1) * 1440
        /\ DayOf(i[1]) \in Nat /\ DayOf(i[1]) * 1440 <= i[1]
    BY OneDayOf
  <2>2. CASE DayOf(i[1]) = date
    <3>1. i \in here BY <1>1, <2>2
    <3>2. PICK b \in B : b[1] <= i[1] /\ i[2] <= b[2] BY <1>6, <1>7, <3>1, MergedCovers
    <3>3. b[1] \in Nat /\ b[2] \in Nat /\ ~ (b[1] <= s /\ s < b[2]) BY <1>8, <1>9
    <3>4. CASE s < b[1]
      <4>1. b[1] \in FreeEnds(B, closes, s) BY <3>4 DEF FreeEnds
      <4>2. m <= b[1] BY <1>12, <4>1
      <4> QED BY <1>13, <1>15, <2>1, <3>2, <3>3, <4>2 DEF Meet
    <3>5. CASE ~ (s < b[1])
      <4>1. b[2] <= s BY <1>9, <3>3, <3>5
      <4> QED BY <1>9, <1>15, <2>1, <3>2, <3>3, <4>1 DEF Meet
    <3> QED BY <3>4, <3>5
  <2>3. CASE DayOf(i[1]) # date
    <3>1. date * 1440 <= w[1] /\ w[2] <= (date + 1) * 1440 BY <1>4, <1>15, <1>16
    <3> QED BY <1>0, <1>15, <2>1, <2>3, <3>1, DaysApart
  <2> QED BY <2>2, <2>3
<1> QED BY <1>4, <1>9, <1>13, <1>15, <1>16, <1>17 DEF WindowOf

\* The windows a session may stand in lie inside the task's limits.
LEMMA WindowsAre ==
  ASSUME NEW taken, OneDay(taken), NEW from \in Nat, NEW until \in Nat,
         NEW w \in Windows(taken, from, until)
  PROVE  /\ \E date \in FutureDays : WindowOf(w, taken, date, from, until)
         /\ Length(w) >= MinSegment
<1>1. PICK date \in FutureDays : w \in FreeIn(date, taken, from, until) BY DEF Windows
<1>2. WindowOf(w, taken, date, from, until) BY <1>1, FreeWindow
<1>3. Length(w) >= MinSegment BY DEF Windows
<1> QED BY <1>2, <1>3

\* Sessions of a whole task, each inside one of these windows.
SessionsIn(c, W, total) ==
  /\ \E n \in 1 .. MaxSegments : c \in [1 .. n -> Nat \X Nat]
  /\ SumFunction(Lengths(c)) = total
  /\ \A i \in DOMAIN c : /\ c[i][1] < c[i][2] /\ Length(c[i]) >= MinSegment
                         /\ \E w \in W : w[1] <= c[i][1] /\ c[i][2] <= w[2]

\* The lengths of sessions that end after they start are naturals.
LEMMA LengthsTyped ==
  ASSUME NEW n, NEW c \in [1 .. n -> Nat \X Nat], \A i \in 1 .. n : c[i][1] < c[i][2]
  PROVE  Lengths(c) \in [1 .. n -> Nat]
<1>1. \A i \in 1 .. n : Length(c[i]) \in Nat BY DEF Length
<1> QED BY <1>1 DEF Lengths

\* Begun at a given time and of a given length.
LEMMA SessionsOf ==
  ASSUME NEW n \in 1 .. MaxSegments, NEW begins \in [1 .. n -> Nat], NEW lengths \in [1 .. n -> Nat],
         NEW W, NEW total, SumFunction(lengths) = total,
         \A i \in 1 .. n : /\ lengths[i] >= MinSegment
                           /\ \E w \in W : w[1] <= begins[i] /\ begins[i] + lengths[i] <= w[2],
         NEW c, c = [i \in 1 .. n |-> <<begins[i], begins[i] + lengths[i]>>]
  PROVE  SessionsIn(c, W, total)
<1>1. \A i \in 1 .. n : /\ c[i] = <<begins[i], begins[i] + lengths[i]>> /\ c[i][1] = begins[i]
                        /\ c[i][2] = begins[i] + lengths[i] /\ c[i] \in Nat \X Nat
  OBVIOUS
<1>2. c \in [1 .. n -> Nat \X Nat] /\ DOMAIN c = 1 .. n BY <1>1
<1>3. \A i \in 1 .. n : Length(c[i]) = lengths[i] /\ c[i][1] < c[i][2]
  <2> TAKE i \in 1 .. n
  <2>1. PICK b \in Nat, l \in Nat : b = begins[i] /\ l = lengths[i] /\ l >= 15 BY DEF MinSegment
  <2>2. c[i][1] = b /\ c[i][2] = b + l BY <1>1, <2>1
  <2>3. (b + l) - b = l /\ b < b + l BY <2>1
  <2> QED BY <2>1, <2>2, <2>3 DEF Length
<1>4. Lengths(c) = lengths
  <2>1. Lengths(c) = [i \in 1 .. n |-> lengths[i]] BY <1>2, <1>3 DEF Lengths
  <2> QED BY <2>1
<1>5. \A i \in DOMAIN c : /\ c[i][1] < c[i][2] /\ Length(c[i]) >= MinSegment
                          /\ \E w \in W : w[1] <= c[i][1] /\ c[i][2] <= w[2]
  BY <1>1, <1>2, <1>3
<1> QED BY <1>2, <1>4, <1>5 DEF SessionsIn

\* Windows as the planner sees them.
Wide(W) == \A w \in W : w \in Nat \X Nat /\ w[1] < w[2] /\ Length(w) >= MinSegment

\* At the heads of chosen windows.
LEMMA AcrossIs ==
  ASSUME NEW W, Wide(W), NEW n \in 1 .. MaxSegments, NEW chosen \in [1 .. n -> W],
         Remaining(Turn) \in Nat, Across(chosen) # <<>>
  PROVE  SessionsIn(Across(chosen), W, Remaining(Turn))
<1>1. PICK amounts : amounts = FitLengths(Remaining(Turn), Lengths(chosen)) OBVIOUS
<1>2. Across(chosen) = [i \in DOMAIN amounts |-> <<chosen[i][1], chosen[i][1] + amounts[i]>>]
  BY <1>1, Zenon DEF Across
<1>3. amounts # <<>>
  <2>1. amounts = <<>> => DOMAIN amounts = {} OBVIOUS
  <2>2. DOMAIN amounts = {} => Across(chosen) = <<>> BY <1>2
  <2> QED BY <2>1, <2>2
<1>4. \A i \in 1 .. n : /\ chosen[i] \in Nat \X Nat /\ chosen[i][1] \in Nat /\ chosen[i][2] \in Nat
                        /\ chosen[i][1] < chosen[i][2] /\ chosen[i] \in W
  BY DEF Wide
<1>5. Lengths(chosen) \in [1 .. n -> Nat]
  <2>1. chosen \in [1 .. n -> Nat \X Nat] BY <1>4
  <2> QED BY <1>4, <2>1, LengthsTyped
<1>6. n \in Nat OBVIOUS
<1>7. /\ amounts \in [1 .. n -> Nat]
      /\ \A i \in 1 .. n : MinSegment <= amounts[i] /\ amounts[i] <= Lengths(chosen)[i]
      /\ SumFunction(amounts) = Remaining(Turn)
  BY <1>1, <1>3, <1>5, <1>6, FittedLengths
<1>8. PICK begins : begins = [i \in 1 .. n |-> chosen[i][1]] OBVIOUS
<1>9. begins \in [1 .. n -> Nat] BY <1>4, <1>8
<1>10. ASSUME NEW i \in 1 .. n
       PROVE  /\ amounts[i] >= MinSegment
              /\ \E w \in W : w[1] <= begins[i] /\ begins[i] + amounts[i] <= w[2]
  <2>1. PICK a \in Nat, b \in Nat, e \in Nat : a = amounts[i] /\ b = chosen[i][1] /\ e = chosen[i][2]
    BY <1>4, <1>7
  <2>2. Lengths(chosen)[i] = e - b BY <2>1 DEF Lengths, Length
  <2>3. a <= e - b /\ a >= MinSegment BY <1>7, <2>1, <2>2 DEF MinSegment
  <2>4. b + a <= e /\ b <= b BY <2>3
  <2>5. begins[i] = b BY <1>8, <2>1
  <2> QED BY <1>4, <2>1, <2>3, <2>4, <2>5
<1>11. Across(chosen) = [i \in 1 .. n |-> <<begins[i], begins[i] + amounts[i]>>] BY <1>2, <1>7, <1>8
<1> QED BY <1>7, <1>9, <1>10, <1>11, SessionsOf

\* One behind the other in one window.
LEMMA WithinIs ==
  ASSUME NEW W, Wide(W), NEW w \in W, NEW n \in 2 .. MaxSegments, NEW total \in Nat,
         total = Remaining(Turn), Length(w) >= total, total >= n * MinSegment
  PROVE  SessionsIn(Within(w, n), W, Remaining(Turn))
<1>1. n \in 1 .. MaxSegments /\ n \in Nat BY DEF MaxSegments
<1>2. PICK lengths : lengths = Balanced(total, n) OBVIOUS
<1>3. /\ lengths \in [1 .. n -> Nat] /\ Sum(lengths, 1 .. n) = total
      /\ \A i \in 1 .. n, k \in Nat : k * n <= total => k <= lengths[i]
  BY <1>1, <1>2, BalancedParts
<1>4. SumFunction(lengths) = total
  <2>1. DOMAIN lengths = 1 .. n BY <1>3
  <2>2. SumFunction(lengths) = Sum(lengths, DOMAIN lengths) BY FoldsAreSums
  <2> QED BY <1>3, <2>1, <2>2
<1>5. \A i \in 1 .. n : lengths[i] >= MinSegment
  <2>1. 15 * n <= total /\ 15 \in Nat BY <1>1 DEF MinSegment
  <2>2. \A i \in 1 .. n : 15 <= lengths[i] BY <1>3, <2>1
  <2> QED BY <1>3, <2>2 DEF MinSegment
<1>6. PICK s \in Nat, e \in Nat : s = w[1] /\ e = w[2] /\ s < e BY DEF Wide
<1>7. total <= e - s BY <1>6 DEF Length
<1>8. PICK begins : begins = [i \in 1 .. n |-> w[1] + Preceding(lengths, i)] OBVIOUS
<1>9. \A i \in 1 .. n : /\ Preceding(lengths, i) \in Nat
                        /\ Preceding(lengths, i) + lengths[i] <= total
  BY <1>1, <1>3, <1>4, SessionsInARow
<1>10. begins \in [1 .. n -> Nat]
  <2>1. ASSUME NEW i \in 1 .. n PROVE w[1] + Preceding(lengths, i) \in Nat
    <3>1. w[1] \in Nat /\ Preceding(lengths, i) \in Nat BY <1>6, <1>9
    <3> HIDE <1>6
    <3> QED BY <3>1
  <2> QED BY <1>8, <2>1
<1>11. ASSUME NEW i \in 1 .. n
       PROVE  \E v \in W : v[1] <= begins[i] /\ begins[i] + lengths[i] <= v[2]
  <2>1. PICK p \in Nat, l \in Nat : p = Preceding(lengths, i) /\ l = lengths[i] /\ p + l <= total
    BY <1>3, <1>9
  <2>2. begins[i] = s + p BY <1>6, <1>8, <2>1
  <2>3. s <= s + p /\ (s + p) + l <= e BY <1>7, <2>1
  <2> QED BY <1>6, <2>1, <2>2, <2>3
<1>12. Within(w, n) = [i \in 1 .. n |-> <<begins[i], begins[i] + lengths[i]>>]
  <2>1. Within(w, n) = [i \in 1 .. n |-> <<w[1] + Preceding(lengths, i), w[1] + Preceding(lengths, i) + lengths[i]>>]
    BY <1>2, Zenon DEF Within
  <2> QED BY <1>8, <2>1
<1> QED BY <1>1, <1>3, <1>4, <1>5, <1>10, <1>11, <1>12, SessionsOf

\* _best_placement looks at sessions of the whole task only.
LEMMA CandidatesAre ==
  ASSUME NEW W, Wide(W), Remaining(Turn) \in Nat, NEW c \in Candidates(W)
  PROVE  SessionsIn(c, W, Remaining(Turn))
<1>1. c # <<>> /\ (c \in Smaller(W) \/ c \in Triples(W)) BY DEF Candidates
<1>2. CASE \E w \in W : c = Across(<<w>>)
  <2>1. PICK w \in W : c = Across(<<w>>) BY <1>2
  <2>2. 1 \in 1 .. MaxSegments /\ <<w>> \in [1 .. 1 -> W] BY DEF MaxSegments
  <2> QED BY <1>1, <2>1, <2>2, AcrossIs
<1>3. CASE \E p \in Pairs(W) : c = Across(p)
  <2>1. PICK p \in Pairs(W) : c = Across(p) BY <1>3
  <2>2. p \in W \X W BY DEF Pairs
  <2>3. 2 \in 1 .. MaxSegments /\ p \in [1 .. 2 -> W] BY <2>2 DEF MaxSegments
  <2> QED BY <1>1, <2>1, <2>3, AcrossIs
<1>4. CASE \E q \in W \X (2 .. MaxSegments) :
             /\ Length(q[1]) >= Remaining(Turn) /\ Remaining(Turn) >= q[2] * MinSegment
             /\ c = Within(q[1], q[2])
  <2>1. PICK q \in W \X (2 .. MaxSegments) :
             /\ Length(q[1]) >= Remaining(Turn) /\ Remaining(Turn) >= q[2] * MinSegment
             /\ c = Within(q[1], q[2])
    BY <1>4
  <2>2. q[1] \in W /\ q[2] \in 2 .. MaxSegments OBVIOUS
  <2>3. PICK total \in Nat : total = Remaining(Turn) OBVIOUS
  <2>4. Length(q[1]) >= total /\ total >= q[2] * MinSegment BY <2>1, <2>3
  <2> QED BY <2>1, <2>2, <2>3, <2>4, WithinIs
<1>5. CASE c \in Triples(W)
  <2>0. PICK p \in Pairs(W) : c \in {Across(<<p[1], p[2], w>>) : w \in Thirds(W, p)}
    BY <1>5, Zenon DEF Triples
  <2>1. PICK w \in Thirds(W, p) : c = Across(<<p[1], p[2], w>>) BY <2>0
  <2>2. p \in W \X W BY DEF Pairs
  <2>3. w \in W BY DEF Thirds
  <2>4. 3 \in 1 .. MaxSegments /\ <<p[1], p[2], w>> \in [1 .. 3 -> W] BY <2>2, <2>3 DEF MaxSegments
  <2> QED BY <1>1, <2>1, <2>4, AcrossIs
<1>6. c \in Smaller(W) => \/ \E w \in W : c = Across(<<w>>)
                          \/ \E p \in Pairs(W) : c = Across(p)
                          \/ \E q \in W \X (2 .. MaxSegments) :
                               /\ Length(q[1]) >= Remaining(Turn) /\ Remaining(Turn) >= q[2] * MinSegment
                               /\ c = Within(q[1], q[2])
  BY Zenon DEF Smaller
<1> QED BY <1>1, <1>2, <1>3, <1>4, <1>5, <1>6

\* The score of sessions is made of numbers.
LEMMA LoadTyped ==
  ASSUME load \in [FutureDays -> Nat], NEW n \in 1 .. MaxSegments, NEW c \in [1 .. n -> Nat \X Nat],
         \A i \in 1 .. n : c[i][1] < c[i][2], NEW d \in FutureDays
  PROVE  LoadWith(c, d) \in Nat
<1>1. PICK f : f = [i \in DOMAIN c |-> IF DayOf(c[i][1]) = d THEN Length(c[i]) ELSE 0] OBVIOUS
<1>2. \A i \in 1 .. n : Length(c[i]) \in Nat BY DEF Length
<1>3. DOMAIN f = 1 .. n /\ \A i \in 1 .. n : f[i] \in Nat BY <1>1, <1>2
<1>4. IsFiniteSet(1 .. n) BY FS_Interval, 1 \in Int, n \in Int
<1>5. Sum(f, 1 .. n) \in Nat BY <1>3, <1>4, SumNatural
<1>6. SumFunction(f) = Sum(f, 1 .. n) BY <1>3, FoldsAreSums
<1>7. LoadWith(c, d) = load[d] + SumFunction(f) BY <1>1, Zenon DEF LoadWith
<1> QED BY <1>5, <1>6, <1>7

\* Nothing planned leaves a day its load.
LEMMA NothingLoads ==
  ASSUME load \in [FutureDays -> Nat], NEW d \in FutureDays
  PROVE  LoadWith(<<>>, d) \in Nat
<1>1. PICK c : c = <<>> OBVIOUS
<1>2. PICK f : f = [i \in DOMAIN c |-> IF DayOf(c[i][1]) = d THEN Length(c[i]) ELSE 0] OBVIOUS
<1>3. DOMAIN f = {} BY <1>1, <1>2
<1>4. Sum(f, {}) = 0 BY SumEmpty
<1>5. SumFunction(f) = 0 BY <1>3, <1>4, FoldsAreSums
<1>6. LoadWith(c, d) = load[d] + SumFunction(f) BY <1>2, Zenon DEF LoadWith
<1> QED BY <1>1, <1>5, <1>6

DaysAreFinite == IsFiniteSet(FutureDays) /\ FutureDays # {}

\* There are finitely many days.
LEMMA FutureDaysAreFinite == DaysAreFinite
<1>1. LastDay \in Nat BY HorizonAssumption
<1>2. IsFiniteSet(0 .. LastDay) BY <1>1, FS_Interval, 0 \in Int, LastDay \in Int
<1>3. 0 \in 0 .. LastDay BY <1>1
<1> QED BY <1>2, <1>3 DEF FutureDays, DaysAreFinite

\* The sum of the squared loads is a natural number.
LEMMA SquaresTyped ==
  ASSUME NEW c, \A d \in FutureDays : LoadWith(c, d) \in Nat
  PROVE  Squares(c) \in Nat
<1>1. PICK f : f = [d \in FutureDays |-> LoadWith(c, d) * LoadWith(c, d)] OBVIOUS
<1>2. ASSUME NEW d \in FutureDays PROVE f[d] \in Nat
  <2>1. PICK l \in Int : l = LoadWith(c, d) OBVIOUS
  <2>2. l * l \in Nat BY SquareTyped
  <2>3. f[d] = l * l BY <1>1, <2>1
  <2> QED BY <2>2, <2>3
<1>3. DOMAIN f = FutureDays BY <1>1
<1>4. Sum(f, FutureDays) \in Nat BY <1>2, FutureDaysAreFinite, SumNatural DEF DaysAreFinite
<1>5. SumFunction(f) = Sum(f, FutureDays) BY <1>3, FoldsAreSums
<1>6. Squares(c) = SumFunction(f) BY <1>1, Zenon DEF Squares
<1> QED BY <1>4, <1>5, <1>6

\* The load of the fullest day is a natural number.
LEMMA FullestTyped ==
  ASSUME NEW c, \A d \in FutureDays : LoadWith(c, d) \in Nat
  PROVE  Fullest(c) \in Nat
<1>1. PICK f : f = [d \in FutureDays |-> 0 - LoadWith(c, d)] OBVIOUS
<1>2. \A d \in FutureDays : f[d] \in Int BY <1>1
<1>3. PICK x \in FutureDays : \A y \in FutureDays : f[x] <= f[y]
  BY <1>2, FutureDaysAreFinite, LeastCost DEF DaysAreFinite
<1>4. PICK m \in Nat : m = LoadWith(c, x) OBVIOUS
<1>5. ASSUME NEW d \in FutureDays PROVE LoadWith(c, d) <= m
  <2>1. PICK l \in Nat : l = LoadWith(c, d) OBVIOUS
  <2>2. 0 - m <= 0 - l BY <1>1, <1>3, <1>4, <2>1
  <2> QED BY <2>1, <2>2
<1>6. PICK T : T = {LoadWith(c, d) : d \in FutureDays} OBVIOUS
<1>7. T \subseteq Nat /\ T # {} /\ \A k \in T : k <= m
  BY <1>5, <1>6, FutureDaysAreFinite DEF DaysAreFinite
<1>8. Max(T) \in T BY <1>7, MaxIsGreatest
<1>9. Fullest(c) = Max(T) BY <1>6, Zenon DEF Fullest
<1> QED BY <1>7, <1>8, <1>9

\* The best of some sessions is one of them.
CheapestBy(f, C) == {c \in C : f[c] = Min({f[d] : d \in C})}

\* Of finitely many options there is a cheapest.
LEMMA CheapestExist ==
  ASSUME NEW C, C # {}, NEW f, \A c \in C : f[c] \in Nat
  PROVE  CheapestBy(f, C) # {} /\ CheapestBy(f, C) \subseteq C
<1>1. PICK T : T = {f[c] : c \in C} OBVIOUS
<1>2. T \subseteq Nat /\ T # {} BY <1>1
<1>3. Min(T) \in T BY <1>2, MinIsLeast
<1>4. PICK c \in C : f[c] = Min(T) BY <1>1, <1>3
<1>5. Min(T) = Min({f[d] : d \in C}) BY <1>1, Zenon
<1>6. f[c] = Min({f[d] : d \in C}) BY <1>4, <1>5, Zenon
<1> QED BY <1>6, Zenon DEF CheapestBy

SessionsOver(C) ==
  \A c \in C : /\ \E n \in 1 .. MaxSegments : c \in [1 .. n -> Nat \X Nat]
               /\ \A i \in DOMAIN c : c[i][1] < c[i][2]

Heads(C, i) == {c \in C : \A d \in C : i \in DOMAIN c => c[i][1] <= d[i][1]}

\* Of some candidates some start first at a given segment.
LEMMA HeadsExist ==
  ASSUME NEW n \in 1 .. MaxSegments, NEW C, C \subseteq [1 .. n -> Nat \X Nat], C # {}, NEW i
  PROVE  Heads(C, i) # {} /\ Heads(C, i) \subseteq C
<1>1. CASE i \in 1 .. n
  <2>1. PICK T : T = {c[i][1] : c \in C} OBVIOUS
  <2>2. T \subseteq Nat /\ T # {}
    <3>1. ASSUME NEW c \in C PROVE c[i][1] \in Nat
      <4>1. c \in [1 .. n -> Nat \X Nat] OBVIOUS
      <4>2. c[i] \in Nat \X Nat BY <1>1, <4>1
      <4> QED BY <4>2
    <3>2. T \subseteq Nat BY <2>1, <3>1, Zenon
    <3> QED BY <2>1, <3>2
  <2>3. PICK m \in T : \A k \in T : m <= k BY <2>2, LeastMember
  <2>4. PICK c \in C : c[i][1] = m BY <2>1, <2>3
  <2>5. c \in Heads(C, i)
    <3>1. \A d \in C : c[i][1] <= d[i][1] BY <2>1, <2>3, <2>4
    <3> QED BY <3>1 DEF Heads
  <2> QED BY <2>5 DEF Heads
<1>2. CASE i \notin 1 .. n
  <2>1. \A c \in C : DOMAIN c = 1 .. n OBVIOUS
  <2>2. Heads(C, i) = C BY <1>2, <2>1 DEF Heads
  <2> QED BY <2>2
<1> QED BY <1>1, <1>2

\* Of sessions that are equally many, one begins before all others.
LEMMA FirstSessionsExist ==
  ASSUME NEW n \in 1 .. MaxSegments, NEW C, C \subseteq [1 .. n -> Nat \X Nat], C # {}
  PROVE  \E c \in C : \A d \in C : ~StartsBefore(d, c)
<1>1. PICK C1 : C1 = Heads(C, 1) OBVIOUS
<1>2. C1 # {} /\ C1 \subseteq C BY <1>1, HeadsExist
<1>3. PICK C2 : C2 = Heads(C1, 2) OBVIOUS
<1>4. C2 # {} /\ C2 \subseteq C1
  <2>1. C1 \subseteq [1 .. n -> Nat \X Nat] BY <1>2
  <2> QED BY <1>2, <1>3, <2>1, HeadsExist
<1>5. PICK C3 : C3 = Heads(C2, 3) OBVIOUS
<1>6. C3 # {} /\ C3 \subseteq C2
  <2>1. C2 \subseteq [1 .. n -> Nat \X Nat] BY <1>2, <1>4
  <2> QED BY <1>4, <1>5, <2>1, HeadsExist
<1>7. PICK c \in C3 : TRUE BY <1>6
<1>8. c \in C /\ c \in C1 /\ c \in C2 BY <1>2, <1>4, <1>6
<1>9. ASSUME NEW d \in C, NEW i \in DOMAIN d, d[i][1] < c[i][1], \A j \in 1 .. i - 1 : d[j][1] = c[j][1]
      PROVE  FALSE
  <2>1. DOMAIN d = 1 .. n /\ DOMAIN c = 1 .. n BY <1>8
  <2>2. c[i] \in Nat \X Nat /\ d[i] \in Nat \X Nat BY <1>8, <2>1
  <2>3. c[i][1] \in Nat /\ d[i][1] \in Nat /\ ~ (c[i][1] <= d[i][1])
    <3>1. PICK x \in Nat, y \in Nat : x = c[i][1] /\ y = d[i][1] BY <2>2
    <3>2. y < x BY <1>9, <3>1
    <3>3. ~ (x <= y) BY <3>2
    <3> QED BY <3>1, <3>3
  <2>4. i = 1 \/ i = 2 \/ i = 3 BY <2>1 DEF MaxSegments
  <2>5. i # 1
    <3>1. i = 1 => c[1][1] <= d[1][1] BY <1>1, <1>8, <2>1 DEF Heads
    <3> QED BY <2>3, <3>1
  <2>6. 1 \in 1 .. i - 1 /\ 1 \in 1 .. n BY <2>1, <2>4, <2>5
  <2>7. d[1][1] = c[1][1] BY <1>9, <2>6
  <2>8. d \in C1
    <3>1. \A e \in C : c[1][1] <= e[1][1] BY <1>1, <1>8, <2>1, <2>6 DEF Heads
    <3> QED BY <1>1, <2>7, <3>1 DEF Heads
  <2>9. i # 2
    <3>1. i = 2 => c[2][1] <= d[2][1] BY <1>3, <1>8, <2>1, <2>8 DEF Heads
    <3> QED BY <2>3, <3>1
  <2>10. i = 3 /\ 2 \in 1 .. i - 1 /\ 2 \in 1 .. n BY <2>1, <2>4, <2>5, <2>9
  <2>11. d[2][1] = c[2][1] BY <1>9, <2>10
  <2>12. d \in C2
    <3>1. \A e \in C1 : c[2][1] <= e[2][1] BY <1>3, <1>8, <2>1, <2>10 DEF Heads
    <3> QED BY <1>3, <2>8, <2>11, <3>1 DEF Heads
  <2>13. c[3][1] <= d[3][1] BY <1>5, <1>7, <2>1, <2>10, <2>12 DEF Heads
  <2> QED BY <2>3, <2>10, <2>13
<1>10. \A d \in C : ~StartsBefore(d, c)
  BY <1>9 DEF StartsBefore
<1> QED BY <1>8, <1>10

\* The option taken is one of the options.
LEMMA BestIsOne ==
  ASSUME load \in [FutureDays -> Nat], NEW C, SessionsOver(C), C # {}, NEW preferred \in Nat
  PROVE  BestOf(C, preferred) \in C
<1> DEFINE C1 == LeastOf(C, LAMBDA c : Quality(Lengths(c), preferred))
           C2 == LeastOf(C1, Len)
           C3 == LeastOf(C2, Fullest)
           C4 == LeastOf(C3, Squares)
<1>0. ASSUME NEW c \in C
      PROVE  /\ Quality(Lengths(c), preferred) \in Nat /\ Len(c) \in Nat
             /\ Fullest(c) \in Nat /\ Squares(c) \in Nat
             /\ Len(c) \in 1 .. MaxSegments /\ c \in [1 .. Len(c) -> Nat \X Nat]
  <2>1. PICK n \in 1 .. MaxSegments : c \in [1 .. n -> Nat \X Nat] BY DEF SessionsOver
  <2>2. \A i \in 1 .. n : c[i][1] < c[i][2] BY <2>1 DEF SessionsOver
  <2>3. n \in Nat /\ n >= 1 OBVIOUS
  <2>4. Lengths(c) \in [1 .. n -> Nat] BY <2>1, <2>2, LengthsTyped
  <2>5. Lengths(c) \in [1 .. n -> Int] BY <2>4
  <2>6. Quality(Lengths(c), preferred) \in Nat BY <2>3, <2>5, QualityTyped
  <2>7. \A d \in FutureDays : LoadWith(c, d) \in Nat BY <2>1, <2>2, LoadTyped
  <2>8. Fullest(c) \in Nat /\ Squares(c) \in Nat BY <2>7, FullestTyped, SquaresTyped
  <2>9. Len(c) = n BY <2>1, <2>3
  <2> QED BY <2>1, <2>6, <2>8, <2>9
<1>1. C1 # {} /\ C1 \subseteq C
  <2>1. PICK f : f = [c \in C |-> Quality(Lengths(c), preferred)] OBVIOUS
  <2>2. \A c \in C : f[c] \in Nat /\ f[c] = Quality(Lengths(c), preferred) BY <1>0, <2>1
  <2>3. {f[c] : c \in C} = {Quality(Lengths(c), preferred) : c \in C} BY <2>2
  <2>4. C1 = CheapestBy(f, C) BY <2>2, <2>3, Zenon DEF LeastOf, CheapestBy
  <2> QED BY <2>2, <2>4, CheapestExist
<1>2. C2 # {} /\ C2 \subseteq C1
  <2> HIDE DEF C1
  <2>1. PICK f : f = [c \in C1 |-> Len(c)] OBVIOUS
  <2>2. \A c \in C1 : f[c] \in Nat /\ f[c] = Len(c) BY <1>0, <1>1, <2>1
  <2>3. {f[c] : c \in C1} = {Len(c) : c \in C1} BY <2>2
  <2>4. C2 = CheapestBy(f, C1) BY <2>2, <2>3, Zenon DEF LeastOf, CheapestBy
  <2> QED BY <1>1, <2>2, <2>4, CheapestExist
<1>3. \A c, d \in C2 : Len(c) = Len(d)
  <2> HIDE DEF C1
  <2> QED BY Zenon DEF LeastOf
<1>4. C3 # {} /\ C3 \subseteq C2
  <2> HIDE DEF C1, C2
  <2>1. PICK f : f = [c \in C2 |-> Fullest(c)] OBVIOUS
  <2>2. \A c \in C2 : f[c] \in Nat /\ f[c] = Fullest(c) BY <1>0, <1>1, <1>2, <2>1
  <2>3. {f[c] : c \in C2} = {Fullest(c) : c \in C2} BY <2>2
  <2>4. C3 = CheapestBy(f, C2) BY <2>2, <2>3, Zenon DEF LeastOf, CheapestBy
  <2> QED BY <1>2, <2>2, <2>4, CheapestExist
<1>5. C4 # {} /\ C4 \subseteq C3
  <2> HIDE DEF C1, C2, C3
  <2>1. PICK f : f = [c \in C3 |-> Squares(c)] OBVIOUS
  <2>2. \A c \in C3 : f[c] \in Nat /\ f[c] = Squares(c) BY <1>0, <1>1, <1>2, <1>4, <2>1
  <2>3. {f[c] : c \in C3} = {Squares(c) : c \in C3} BY <2>2
  <2>4. C4 = CheapestBy(f, C3) BY <2>2, <2>3, Zenon DEF LeastOf, CheapestBy
  <2> QED BY <1>4, <2>2, <2>4, CheapestExist
<1>6. BestOf(C, preferred) = CHOOSE c \in C4 : \A d \in C4 : ~StartsBefore(d, c)
  BY Zenon DEF BestOf
<1>7. \E c \in C4 : \A d \in C4 : ~StartsBefore(d, c)
  <2> HIDE DEF C1, C2, C3, C4
  <2>1. PICK a \in C4 : TRUE BY <1>5
  <2>2. PICK n : n = Len(a) OBVIOUS
  <2>3. a \in C2 /\ a \in C BY <1>1, <1>2, <1>4, <1>5
  <2>4. n \in 1 .. MaxSegments BY <1>0, <2>2, <2>3
  <2>5. ASSUME NEW c \in C4 PROVE c \in [1 .. n -> Nat \X Nat]
    <3>1. c \in C2 /\ c \in C BY <1>1, <1>2, <1>4, <1>5
    <3>2. Len(c) = n BY <1>3, <2>2, <2>3, <3>1
    <3> QED BY <1>0, <3>1, <3>2
  <2>6. C4 \subseteq [1 .. n -> Nat \X Nat] BY <2>5
  <2> QED BY <1>5, <2>4, <2>6, FirstSessionsExist
<1>8. BestOf(C, preferred) \in C4
  <2> HIDE DEF C1, C2, C3, C4
  <2> QED BY <1>6, <1>7, Zenon
<1> HIDE DEF C1, C2, C3, C4
<1> QED BY <1>1, <1>2, <1>4, <1>5, <1>8

\* The preview: before it begins it holds nothing; while it runs, what is taken
\* includes what stays and what was placed, and the tasks left have no segments.
Idling == Unplanned /\ ranked = <<>>

FutureTyped ==
  /\ FutureScene
  /\ load \in [FutureDays -> Nat] /\ DOMAIN why = Tasks
  /\ plan \in [Tasks -> Seq(Nat \X Nat)] /\ \A t \in Tasks : OneDay(ToSet(plan[t]))
  /\ ranked \in [DOMAIN ranked -> Nat] /\ DOMAIN ranked \subseteq Movable
  /\ OneDay(occupied)

PreviewIsKept ==
  /\ Idling => \A t \in Tasks : plan[t] = <<>>
  /\ ~Idling => /\ Blocking \cup Staying \subseteq occupied
                /\ \A t \in Movable : ToSet(plan[t]) \subseteq occupied
  /\ \A t \in DOMAIN ranked : plan[t] = <<>>

FuturePlanInv == FutureTyped /\ PreviewIsKept /\ FuturePlanHolds

\* A task with the changes asked for it is a task of the model.
LEMMA WantedTyped ==
  ASSUME FutureScene, NEW t \in Tasks
  PROVE  /\ Wanted(t) \in FutureRow
         /\ Remaining(t) \in Nat /\ OpensAt(t) \in Nat /\ ClosesAt(t) \in Nat
<1>1. row[t] \in FutureRow BY DEF FutureScene
<1>2. Wanted(t) \in FutureRow
  <2>1. CASE t \notin DOMAIN request.changes BY <1>1, <2>1 DEF Wanted
  <2>2. CASE t \in DOMAIN request.changes
    <3>1. PICK e \in Nat, a \in Nat, l \in Nat :
            /\ e = request.changes[t].estimated /\ a = request.changes[t].earliest
            /\ l = request.changes[t].deadline
      <4>1. request.changes \in [DOMAIN request.changes -> [estimated: Nat, earliest: Nat, deadline: Nat]]
        BY DEF FutureScene
      <4> QED BY <2>2, <4>1
    <3>2. Wanted(t) = [row[t] EXCEPT !.estimated = e, !.earliest = a, !.deadline = l]
      BY <2>2, <3>1 DEF Wanted
    <3> QED BY <1>1, <3>1, <3>2 DEF FutureRow
  <2> QED BY <2>1, <2>2
<1>3. PICK e \in Nat, a \in Nat, b \in Nat, d \in Nat :
        /\ e = Wanted(t).estimated /\ a = Wanted(t).actual
        /\ b = Wanted(t).earliest /\ d = Wanted(t).deadline
  BY <1>2 DEF FutureRow
<1>4. Remaining(t) \in Nat BY <1>3 DEF Remaining, Most
<1>5. OpensAt(t) \in Nat BY <1>3, HorizonAssumption DEF OpensAt, Most, HorizonStart
<1>6. ClosesAt(t) \in Nat BY <1>3, HorizonAssumption DEF ClosesAt, Least, HorizonEnd
<1> QED BY <1>2, <1>4, <1>5, <1>6

\* The task whose turn it is may be moved.
LEMMA TurnIsOne ==
  ASSUME FutureTyped, ranked # <<>>
  PROVE  Turn \in DOMAIN ranked /\ Turn \in Movable /\ Turn \in Tasks
<1>1. ranked \in [DOMAIN ranked -> Nat] /\ DOMAIN ranked \subseteq Movable BY DEF FutureTyped
<1>2. DOMAIN ranked # {} BY <1>1
<1>3. PICK T : T = {ranked[t] : t \in DOMAIN ranked} OBVIOUS
<1>4. T \subseteq Nat /\ T # {} BY <1>1, <1>2, <1>3
<1>5. PICK m \in T : \A k \in T : m <= k BY <1>4, LeastMember
<1>6. PICK t \in DOMAIN ranked : ranked[t] = m BY <1>3, <1>5
<1>7. \A u \in DOMAIN ranked : ranked[t] <= ranked[u] BY <1>3, <1>5, <1>6
<1>8. Turn = CHOOSE x \in DOMAIN ranked : \A u \in DOMAIN ranked : ranked[x] <= ranked[u]
  BY Zenon DEF Turn, FirstIn
<1>9. Turn \in DOMAIN ranked BY <1>7, <1>8, Zenon
<1> QED BY <1>1, <1>9 DEF Movable

\* What blocks and what stays are segments of one day each.
LEMMA TakenAtFirst ==
  ASSUME FutureScene
  PROVE  OneDay(Blocking \cup Staying)
<1>1. OneDay(Blocking) BY DEF FutureScene, OneDay, Blocking
<1>2. OneDay(Staying)
  <2>1. ASSUME NEW i \in Staying
        PROVE  i \in {j \in Nat \X Nat : j[1] < j[2] /\ j[2] <= (DayOf(j[1]) + 1) * 1440}
    <3>1. PICK t \in Tasks : i \in ToSet(row[t].existing) BY DEF Staying
    <3> QED BY <3>1 DEF FutureScene, OneDay
  <2> QED BY <2>1 DEF OneDay
<1> QED BY <1>1, <1>2 DEF OneDay

\* Sessions of a whole task, inside its limits and on nothing taken.
Fit(c, t) ==
  /\ c \in Seq(Nat \X Nat) /\ Len(c) <= MaxSegments /\ OneDay(ToSet(c))
  /\ c # <<>> => SumFunction(Lengths(c)) = Remaining(t)
  /\ \A i \in ToSet(c) : /\ Length(i) >= MinSegment /\ OpensAt(t) <= i[1] /\ i[2] <= ClosesAt(t)
                         /\ \A o \in occupied : ~Meet(i, o)

\* One element more is at most one more.
LEMMA OneMore ==
  ASSUME NEW S, IsFiniteSet(S), NEW n \in Nat, Cardinality(S) <= n, NEW x
  PROVE  /\ IsFiniteSet(S \cup {x}) /\ Cardinality(S \cup {x}) \in Nat
         /\ Cardinality(S \cup {x}) <= n + 1
<1>1. Cardinality(S) \in Nat BY FS_CardinalityType
<1>2. IsFiniteSet(S \cup {x}) BY FS_AddElement
<1>3. Cardinality(S \cup {x}) = Cardinality(S) \/ Cardinality(S \cup {x}) = Cardinality(S) + 1
  BY FS_AddElement
<1> QED BY <1>1, <1>2, <1>3

\* A task has MaxSegments sessions at most.
LEMMA FewSegments ==
  ASSUME NEW c \in Seq(Nat \X Nat), Len(c) <= MaxSegments
  PROVE  Cardinality(ToSet(c)) <= MaxSegments /\ IsFiniteSet(ToSet(c))
<1>1. PICK E : E = {} OBVIOUS
<1>2. IsFiniteSet(E) /\ Cardinality(E) <= 0 BY <1>1, FS_EmptySet
<1>3. PICK A : A = E \cup {c[1]} OBVIOUS
<1>4. IsFiniteSet(A) /\ Cardinality(A) <= 0 + 1 BY <1>2, <1>3, OneMore, 0 \in Nat
<1>5. PICK B : B = A \cup {c[2]} OBVIOUS
<1>6. IsFiniteSet(B) /\ Cardinality(B) <= (0 + 1) + 1 BY <1>4, <1>5, OneMore, 0 + 1 \in Nat
<1>7. PICK C : C = B \cup {c[3]} OBVIOUS
<1>8. IsFiniteSet(C) /\ Cardinality(C) <= ((0 + 1) + 1) + 1 /\ Cardinality(C) \in Nat
  BY <1>6, <1>7, OneMore, (0 + 1) + 1 \in Nat
<1>9. ToSet(c) \subseteq C
  <2>1. ASSUME NEW i \in DOMAIN c PROVE c[i] \in C
    <3>1. i = 1 \/ i = 2 \/ i = 3 BY DEF MaxSegments
    <3> QED BY <1>3, <1>5, <1>7, <3>1
  <2> QED BY <2>1 DEF ToSet
<1>10. IsFiniteSet(ToSet(c)) /\ Cardinality(ToSet(c)) <= Cardinality(C) /\ Cardinality(ToSet(c)) \in Nat
  BY <1>8, <1>9, FS_Subset, FS_CardinalityType
<1> QED BY <1>8, <1>10 DEF MaxSegments

\* An option lies in a free window and within the task's limits.
LEMMA OptionsAre ==
  ASSUME FutureTyped, ranked # <<>>
  PROVE  /\ Wide(Options)
         /\ \A w \in Options : /\ \E date \in FutureDays : WindowOf(w, occupied, date, OpensAt(Turn), ClosesAt(Turn))
<1>1. Turn \in Tasks BY TurnIsOne
<1>2. OpensAt(Turn) \in Nat /\ ClosesAt(Turn) \in Nat /\ OneDay(occupied)
  BY <1>1, WantedTyped DEF FutureTyped
<1>3. \A w \in Options : /\ \E date \in FutureDays : WindowOf(w, occupied, date, OpensAt(Turn), ClosesAt(Turn))
                         /\ Length(w) >= MinSegment
  BY <1>2, WindowsAre DEF Options
<1> QED BY <1>3 DEF Wide, WindowOf

\* Sessions in the task's windows fit.
LEMMA SessionsFit ==
  ASSUME FutureTyped, ranked # <<>>, NEW c, SessionsIn(c, Options, Remaining(Turn))
  PROVE  Fit(c, Turn)
<1>1. PICK n \in 1 .. MaxSegments : c \in [1 .. n -> Nat \X Nat] BY DEF SessionsIn
<1>2. c \in Seq(Nat \X Nat) /\ Len(c) = n /\ DOMAIN c = 1 .. n BY <1>1
<1>3. ASSUME NEW i \in ToSet(c)
      PROVE  /\ i \in Nat \X Nat /\ i[1] < i[2] /\ i[2] <= (DayOf(i[1]) + 1) * 1440
             /\ Length(i) >= MinSegment /\ OpensAt(Turn) <= i[1] /\ i[2] <= ClosesAt(Turn)
             /\ \A o \in occupied : ~Meet(i, o)
  <2>1. PICK k \in 1 .. n : i = c[k] BY <1>2 DEF ToSet
  <2>2. /\ i \in Nat \X Nat /\ i[1] < i[2] /\ Length(i) >= MinSegment
    BY <1>1, <1>2, <2>1 DEF SessionsIn
  <2>3. PICK w \in Options : w[1] <= i[1] /\ i[2] <= w[2] BY <1>2, <2>1 DEF SessionsIn
  <2>4. PICK date \in FutureDays : WindowOf(w, occupied, date, OpensAt(Turn), ClosesAt(Turn))
    BY OptionsAre
  <2>5. PICK a \in Nat, b \in Nat, s \in Nat, e \in Nat :
          a = i[1] /\ b = i[2] /\ s = w[1] /\ e = w[2] /\ a < b /\ s <= a /\ b <= e
    BY <2>2, <2>3, <2>4 DEF WindowOf
  <2>6. date \in Nat BY DEF FutureDays
  <2>7. date * 1440 <= a /\ b <= (date + 1) * 1440 BY <2>4, <2>5, <2>6 DEF WindowOf
  <2>8. b <= (DayOf(a) + 1) * 1440
    <3>1. a \div 1440 = date BY <2>5, <2>6, <2>7
    <3> QED BY <2>7, <3>1 DEF DayOf
  <2>9. OpensAt(Turn) \in Nat /\ ClosesAt(Turn) \in Nat BY TurnIsOne, WantedTyped DEF FutureTyped
  <2>10. OpensAt(Turn) <= a /\ b <= ClosesAt(Turn) BY <2>4, <2>5, <2>9 DEF WindowOf
  <2>11. ASSUME NEW o \in occupied PROVE ~Meet(i, o)
    <3>1. ~Meet(w, o) BY <2>4 DEF WindowOf
    <3>2. o[1] \in Nat /\ o[2] \in Nat BY OneDayOf DEF FutureTyped
    <3> QED BY <2>5, <3>1, <3>2 DEF Meet
  <2> QED BY <2>2, <2>5, <2>8, <2>10, <2>11
<1>4. OneDay(ToSet(c)) BY <1>3 DEF OneDay
<1>5. SumFunction(Lengths(c)) = Remaining(Turn) BY DEF SessionsIn
<1> QED BY <1>2, <1>3, <1>4, <1>5 DEF Fit

\* A task that is given nothing fits.
LEMMA NothingFits ==
  ASSUME NEW t
  PROVE  Fit(<<>>, t)
  BY DEF Fit, ToSet, OneDay, MaxSegments

\* What a preview keeps stands where it may.
LEMMA KeptFit ==
  ASSUME FutureTyped, ranked # <<>>, MayKeep
  PROVE  Fit(Sessions(Turn), Turn)
<1>1. Turn \in Tasks BY TurnIsOne
<1>2. Sessions(Turn) \in Seq(Nat \X Nat) /\ OneDay(ToSet(Sessions(Turn)))
  BY <1>1 DEF FutureTyped, FutureScene, FutureRow, Sessions
<1> QED BY <1>2 DEF MayKeep, Fit

\* What a preview places stands where it may.
LEMMA PlacedFit ==
  ASSUME FutureTyped, ranked # <<>>, Candidates(Options) # {}
  PROVE  Fit(BestOf(Candidates(Options), Preferred), Turn)
<1>1. Remaining(Turn) \in Nat BY TurnIsOne, WantedTyped DEF FutureTyped
<1>2. Wide(Options) BY OptionsAre
<1>3. \A c \in Candidates(Options) : SessionsIn(c, Options, Remaining(Turn)) BY <1>1, <1>2, CandidatesAre
<1>4. SessionsOver(Candidates(Options)) BY <1>3 DEF SessionsOver, SessionsIn
<1>5. Most(Remaining(Turn), 1) \in Nat BY <1>1 DEF Most
<1>6. Preferred \in Nat BY <1>5, PreferredTyped, Zenon DEF Preferred
<1>7. load \in [FutureDays -> Nat] BY DEF FutureTyped
<1>8. BestOf(Candidates(Options), Preferred) \in Candidates(Options) BY <1>4, <1>6, <1>7, BestIsOne
<1> QED BY <1>3, <1>8, SessionsFit

\* What a task's segments owe the others.
HoldsOf(t, P) ==
  LET S == ToSet(P[t]) IN
    /\ S # {} => /\ Cardinality(S) <= MaxSegments
                 /\ SumFunction(Lengths(P[t])) = Remaining(t)
    /\ \A i \in S : /\ Length(i) >= MinSegment /\ OpensAt(t) <= i[1] /\ i[2] <= ClosesAt(t)
                    /\ \A o \in Blocking \cup Staying : ~Meet(i, o)
    /\ \A u \in Movable \ {t} : \A i \in S, j \in ToSet(P[u]) : ~Meet(i, j)

\* The property, one task at a time.
LEMMA HoldsByTask == FuturePlanHolds <=> \A t \in Movable : HoldsOf(t, plan)
  BY Zenon DEF FuturePlanHolds, HoldsOf

\* Nothing but the plan of the preview has changed.
LEMMA SameScene ==
  ASSUME UNCHANGED <<row, request, events>>
  PROVE  /\ FutureScene => FutureScene'
         /\ Movable' = Movable /\ Blocking' = Blocking /\ Staying' = Staying
         /\ (\A t \in Movable : HoldsOf(t, plan')) => FuturePlanHolds'
<1>1. row' = row /\ request' = request /\ events' = events OBVIOUS
<1>2. FutureScene => FutureScene' BY <1>1, Zenon DEF FutureScene, Exported, InHorizon
<1>3. Movable' = Movable BY <1>1, Zenon DEF Movable, Asked
<1>4. Staying' = Staying BY <1>1, <1>3, Zenon DEF Staying, InHorizon
<1>5. Blocking' = Blocking BY <1>1, Zenon DEF Blocking, Exported, InHorizon
<1>6. \A t : Wanted(t)' = Wanted(t) BY <1>1, Zenon DEF Wanted
<1>7. \A t : /\ Remaining(t)' = Remaining(t) /\ OpensAt(t)' = OpensAt(t) /\ ClosesAt(t)' = ClosesAt(t)
  BY <1>6, Zenon DEF Remaining, OpensAt, ClosesAt
<1>8. ASSUME \A t \in Movable : HoldsOf(t, plan') PROVE FuturePlanHolds'
  BY <1>3, <1>4, <1>5, <1>7, <1>8, Zenon DEF FuturePlanHolds, HoldsOf
<1> QED BY <1>2, <1>3, <1>4, <1>5, <1>8

\* A task that is settled with sessions that fit leaves the state well typed.
LEMMA SettledTyped ==
  ASSUME FuturePlanInv, ranked # <<>>, NEW c, Fit(c, Turn), NEW outcome, Settled(c, outcome)
  PROVE  FutureTyped'
<1>1. UNCHANGED <<row, request, events>> BY DEF Settled
<1>2. FutureScene' /\ Movable' = Movable BY <1>1, SameScene DEF FuturePlanInv, FutureTyped
<1>3. Turn \in DOMAIN ranked /\ Turn \in Movable /\ Turn \in Tasks BY TurnIsOne DEF FuturePlanInv
<1>4. load' \in [FutureDays -> Nat]
  <2>1. ASSUME NEW d \in FutureDays PROVE LoadWith(c, d) \in Nat
    <3>1. load \in [FutureDays -> Nat] BY DEF FuturePlanInv, FutureTyped
    <3>2. CASE c = <<>> BY <3>1, <3>2, NothingLoads
    <3>3. CASE c # <<>>
      <4>1. c \in Seq(Nat \X Nat) /\ Len(c) <= MaxSegments /\ OneDay(ToSet(c)) BY DEF Fit
      <4>2. PICK n \in Nat : n = Len(c) BY <4>1
      <4>3. n \in 1 .. MaxSegments BY <3>3, <4>1, <4>2 DEF MaxSegments
      <4>4. c \in [1 .. n -> Nat \X Nat] BY <4>1, <4>2
      <4>5. \A i \in 1 .. n : c[i] \in ToSet(c) BY <4>4 DEF ToSet
      <4>6. \A i \in 1 .. n : c[i][1] < c[i][2] BY <4>1, <4>5 DEF OneDay
      <4> QED BY <3>1, <4>3, <4>4, <4>6, LoadTyped
    <3> QED BY <3>2, <3>3
  <2>2. load' = [d \in FutureDays |-> LoadWith(c, d)] BY DEF Settled
  <2> QED BY <2>1, <2>2
<1>5. DOMAIN why' = Tasks BY <1>3 DEF Settled, FuturePlanInv, FutureTyped
<1>6. /\ plan' \in [Tasks -> Seq(Nat \X Nat)] /\ \A t \in Tasks : OneDay(ToSet(plan'[t]))
  <2>1. plan' = [plan EXCEPT ![Turn] = c] BY DEF Settled
  <2>2. plan \in [Tasks -> Seq(Nat \X Nat)] /\ \A t \in Tasks : OneDay(ToSet(plan[t]))
    BY DEF FuturePlanInv, FutureTyped
  <2>3. c \in Seq(Nat \X Nat) /\ OneDay(ToSet(c)) BY DEF Fit
  <2>4. plan'[Turn] = c /\ \A t \in Tasks \ {Turn} : plan'[t] = plan[t] BY <1>3, <2>1, <2>2
  <2>5. plan' \in [Tasks -> Seq(Nat \X Nat)] BY <2>1, <2>2, <2>3
  <2> QED BY <2>2, <2>3, <2>4, <2>5
<1>7. ranked' \in [DOMAIN ranked' -> Nat] /\ DOMAIN ranked' \subseteq Movable
  <2>1. ranked' = [x \in DOMAIN ranked \ {Turn} |-> ranked[x]] BY DEF Settled, Restrict
  <2>2. ranked \in [DOMAIN ranked -> Nat] /\ DOMAIN ranked \subseteq Movable
    BY DEF FuturePlanInv, FutureTyped
  <2> QED BY <2>1, <2>2
<1>8. OneDay(occupied')
  <2>1. occupied' = occupied \cup ToSet(c) BY DEF Settled
  <2>2. OneDay(occupied) /\ OneDay(ToSet(c)) BY DEF FuturePlanInv, FutureTyped, Fit
  <2> QED BY <2>1, <2>2 DEF OneDay
<1>9. FutureScene' BY <1>2
<1>10. DOMAIN ranked' \subseteq Movable' BY <1>2, <1>7
<1>11. (\A t \in Tasks : OneDay(ToSet(plan[t])))' BY <1>6, Zenon DEF OneDay, ToSet, DayOf
<1>12. OneDay(occupied)' BY <1>8, Zenon DEF OneDay, DayOf
<1> QED BY <1>4, <1>5, <1>6, <1>7, <1>9, <1>10, <1>11, <1>12, Zenon DEF FutureTyped

\* A task settled, wholly or not at all, leaves the others theirs.
LEMMA SettledKeeps ==
  ASSUME FuturePlanInv, ranked # <<>>, NEW c, Fit(c, Turn), NEW outcome,
         outcome # "none", Settled(c, outcome)
  PROVE  FuturePlanInv'
<1>1. UNCHANGED <<row, request, events>> BY DEF Settled
<1>2. FutureTyped' BY SettledTyped
<1>3. Movable' = Movable /\ Blocking' = Blocking /\ Staying' = Staying BY <1>1, SameScene
<1>4. Turn \in DOMAIN ranked /\ Turn \in Movable /\ Turn \in Tasks BY TurnIsOne DEF FuturePlanInv
<1>5. plan'[Turn] = c /\ \A t \in Tasks \ {Turn} : plan'[t] = plan[t]
  BY <1>4 DEF Settled, FuturePlanInv, FutureTyped
<1>6. ~Idling BY DEF Idling
<1>7. Blocking \cup Staying \subseteq occupied /\ \A t \in Movable : ToSet(plan[t]) \subseteq occupied
  BY <1>6 DEF FuturePlanInv, PreviewIsKept
<1>8. occupied' = occupied \cup ToSet(c) BY DEF Settled
<1>9. Movable \subseteq Tasks BY DEF Movable
<1>10. PreviewIsKept'
  <2>1. ~Idling'
    <3>1. why'[Turn] = outcome BY <1>4 DEF Settled, FuturePlanInv, FutureTyped
    <3> QED BY <1>4, <3>1 DEF Idling, Unplanned
  <2>2. Blocking \cup Staying \subseteq occupied' BY <1>7, <1>8
  <2>3. \A t \in Movable : ToSet(plan'[t]) \subseteq occupied' BY <1>5, <1>7, <1>8, <1>9
  <2>4. \A t \in DOMAIN ranked' : plan'[t] = <<>>
    <3>1. DOMAIN ranked' = DOMAIN ranked \ {Turn} BY DEF Settled, Restrict
    <3>2. \A t \in DOMAIN ranked : t \in Tasks /\ plan[t] = <<>>
      BY <1>9 DEF FuturePlanInv, PreviewIsKept, FutureTyped
    <3> QED BY <1>5, <3>1, <3>2
  <2>5. (\A t \in Movable : ToSet(plan[t]) \subseteq occupied)' BY <1>3, <2>3, Zenon DEF ToSet
  <2>6. (Blocking \cup Staying \subseteq occupied)' BY <1>3, <2>2
  <2> QED BY <2>1, <2>4, <2>5, <2>6, Zenon DEF PreviewIsKept
<1>11. ASSUME NEW t \in Movable PROVE HoldsOf(t, plan')
  <2>1. CASE t = Turn
    <3>1. plan'[t] = c BY <1>5, <2>1
    <3>2. c \in Seq(Nat \X Nat) /\ Len(c) <= MaxSegments BY DEF Fit
    <3>3. ToSet(c) # {} => Cardinality(ToSet(c)) <= MaxSegments /\ SumFunction(Lengths(c)) = Remaining(t)
      <4>1. ToSet(c) # {} => c # <<>> BY DEF ToSet
      <4> QED BY <2>1, <3>2, <4>1, FewSegments DEF Fit
    <3>4. \A i \in ToSet(c) : /\ Length(i) >= MinSegment /\ OpensAt(t) <= i[1] /\ i[2] <= ClosesAt(t)
                              /\ \A o \in Blocking \cup Staying : ~Meet(i, o)
      BY <1>7, <2>1 DEF Fit
    <3>5. ASSUME NEW u \in Movable \ {t}, NEW i \in ToSet(c), NEW j \in ToSet(plan'[u]) PROVE ~Meet(i, j)
      <4>1. plan'[u] = plan[u] BY <1>5, <1>9, <2>1
      <4>2. j \in occupied BY <1>7, <4>1
      <4> QED BY <4>2 DEF Fit
    <3> QED BY <3>1, <3>3, <3>4, <3>5, Zenon DEF HoldsOf
  <2>2. CASE t # Turn
    <3>1. plan'[t] = plan[t] BY <1>5, <1>9, <2>2
    <3>2. HoldsOf(t, plan) BY HoldsByTask DEF FuturePlanInv
    <3>3. ASSUME NEW u \in Movable \ {t}, NEW i \in ToSet(plan[t]), NEW j \in ToSet(plan'[u]) PROVE ~Meet(i, j)
      <4>1. CASE u = Turn
        <5>1. j \in ToSet(c) /\ i \in occupied BY <1>5, <1>7, <4>1
        <5>2. ~Meet(j, i) BY <5>1 DEF Fit
        <5> QED BY <5>2, MeetBothWays
      <4>2. CASE u # Turn
        <5>1. plan'[u] = plan[u] BY <1>5, <1>9, <4>2
        <5> QED BY <3>2, <5>1, Zenon DEF HoldsOf
      <4> QED BY <4>1, <4>2
    <3> QED BY <3>1, <3>2, <3>3, Zenon DEF HoldsOf
  <2> QED BY <2>1, <2>2
<1>12. FuturePlanHolds' BY <1>1, <1>11, SameScene
<1> QED BY <1>2, <1>10, <1>12 DEF FuturePlanInv

\* A plan in which nothing is placed holds.
LEMMA EmptyPlanHolds ==
  ASSUME \A t \in Movable : plan[t] = <<>>
  PROVE  FuturePlanHolds
<1>1. \A t \in Movable : ToSet(plan[t]) = {} BY DEF ToSet
<1> QED BY <1>1 DEF FuturePlanHolds

\* With nothing planned, everything asked for holds.
LEMMA FutureInitKept ==
  ASSUME FutureInit, FutureScene
  PROVE  FuturePlanInv
<1>1. FutureTyped
  <2>1. ranked = <<>> /\ DOMAIN ranked = {} /\ ranked \in [DOMAIN ranked -> Nat] BY DEF FutureInit
  <2>2. \A t \in Tasks : plan[t] = <<>> BY DEF FutureInit
  <2>3. \A t \in Tasks : OneDay(ToSet(plan[t])) BY <2>2 DEF OneDay, ToSet
  <2>4. plan \in [Tasks -> Seq(Nat \X Nat)] BY DEF FutureInit
  <2>5. OneDay(occupied) BY DEF FutureInit, OneDay
  <2>6. load \in [FutureDays -> Nat] /\ DOMAIN why = Tasks BY DEF FutureInit
  <2> QED BY <2>1, <2>3, <2>4, <2>5, <2>6 DEF FutureTyped
<1>2. \A t \in Tasks : plan[t] = <<>> BY DEF FutureInit
<1>3. Idling BY DEF FutureInit, Idling, Unplanned
<1>4. PreviewIsKept BY <1>2, <1>3 DEF PreviewIsKept, FutureInit
<1>5. FuturePlanHolds BY <1>2, EmptyPlanHolds DEF Movable
<1> QED BY <1>1, <1>4, <1>5 DEF FuturePlanInv

\* A set of tasks is finite.
LEMMA TasksAreFinite ==
  ASSUME NEW S, S \subseteq Tasks
  PROVE  IsFiniteSet(S)
<1>1. IsFiniteSet(Tasks) BY HorizonAssumption
<1> QED BY <1>1, FS_Subset

\* A preview that is computed.
LEMMA PreviewKept ==
  ASSUME FuturePlanInv, Preview
  PROVE  FuturePlanInv'
<1>1. UNCHANGED <<row, request, events>> /\ UNCHANGED <<load, plan, why>> BY DEF Preview
<1>2. /\ FutureScene' /\ Movable' = Movable /\ Blocking' = Blocking /\ Staying' = Staying
  BY <1>1, SameScene DEF FuturePlanInv, FutureTyped
<1>3. occupied' = Blocking \cup Staying BY DEF Preview
<1>4. PICK R : R = [t \in Movable |-> {u \in Movable \ {t} : RankedBefore(t, u, Blocking \cup Staying)}] OBVIOUS
<1>5. /\ DOMAIN ranked' = Movable /\ ranked' \in [Movable -> Nat]
  <2>1. ranked' = InOrder(Movable, LAMBDA t, u : RankedBefore(t, u, Blocking \cup Staying)) BY DEF Preview
  <2>2. ranked' = [t \in Movable |-> Cardinality({u \in Movable \ {t} : RankedBefore(u, t, Blocking \cup Staying)})]
    BY <2>1, Zenon DEF InOrder
  <2>3. ASSUME NEW t \in Movable
        PROVE  Cardinality({u \in Movable \ {t} : RankedBefore(u, t, Blocking \cup Staying)}) \in Nat
    <3>1. PICK S : S = {u \in Movable \ {t} : RankedBefore(u, t, Blocking \cup Staying)} OBVIOUS
    <3>2. S \subseteq Tasks BY <3>1 DEF Movable
    <3>3. IsFiniteSet(S) BY <3>2, TasksAreFinite
    <3> QED BY <3>1, <3>3, FS_CardinalityType
  <2> QED BY <2>2, <2>3
<1>6. \A t \in Tasks : plan[t] = <<>>
  BY DEF Preview, FuturePlanInv, PreviewIsKept, Idling
<1>7. FutureTyped'
  <2>1. OneDay(occupied')
    <3>1. OneDay(Blocking \cup Staying) BY TakenAtFirst DEF FuturePlanInv, FutureTyped
    <3> QED BY <1>3, <3>1
  <2>2. OneDay(occupied)' BY <2>1, Zenon DEF OneDay, DayOf
  <2>3. load' \in [FutureDays -> Nat] /\ DOMAIN why' = Tasks /\ plan' \in [Tasks -> Seq(Nat \X Nat)]
    BY <1>1 DEF FuturePlanInv, FutureTyped
  <2>4. plan' = plan BY <1>1
  <2>5. \A t \in Tasks : OneDay(ToSet(plan[t])) BY DEF FuturePlanInv, FutureTyped
  <2>6. ranked' \in [DOMAIN ranked' -> Nat] /\ DOMAIN ranked' \subseteq Movable' BY <1>2, <1>5
  <2>7. \A t \in Tasks : OneDay(ToSet(plan'[t])) BY <2>4, <2>5, Zenon
  <2>8. (\A t \in Tasks : OneDay(ToSet(plan[t])))' BY <2>7, Zenon DEF OneDay, ToSet, DayOf
  <2> QED BY <1>2, <2>2, <2>3, <2>6, <2>8, Zenon DEF FutureTyped
<1>8. PreviewIsKept'
  <2>1. plan' = plan BY <1>1
  <2>2. \A t \in Movable : t \in Tasks BY DEF Movable
  <2>3. (\A t \in Tasks : plan[t] = <<>>)' BY <1>6, <2>1
  <2>4. \A t \in Movable : ToSet(plan[t]) \subseteq occupied' BY <1>6, <2>2 DEF ToSet
  <2>5. (\A t \in Movable : ToSet(plan[t]) \subseteq occupied)' BY <1>2, <2>1, <2>4, Zenon DEF ToSet
  <2>6. (Blocking \cup Staying \subseteq occupied)' BY <1>2, <1>3
  <2>7. (\A t \in DOMAIN ranked : plan[t] = <<>>)' BY <1>5, <1>6, <2>1, <2>2
  <2> QED BY <2>3, <2>5, <2>6, <2>7, Zenon DEF PreviewIsKept
<1>9. FuturePlanHolds'
  <2>1. plan' = plan BY <1>1
  <2>2. \A t \in Movable : HoldsOf(t, plan) BY HoldsByTask DEF FuturePlanInv
  <2>3. \A t \in Movable : HoldsOf(t, plan') BY <2>1, <2>2, Zenon
  <2> QED BY <1>1, <2>3, SameScene
<1> QED BY <1>7, <1>8, <1>9 DEF FuturePlanInv

\* Segments of a plan are in its horizon.
LEMMA InHorizonOf ==
  ASSUME FuturePlanInv, NEW t \in Movable, NEW i \in ToSet(plan[t])
  PROVE  InHorizon(i)
<1>0. FutureScene BY DEF FuturePlanInv, FutureTyped
<1>1. t \in Tasks BY DEF Movable
<1>2. OneDay(ToSet(plan[t])) BY <1>1 DEF FuturePlanInv, FutureTyped
<1>3. i[1] \in Nat /\ i[2] \in Nat /\ i[1] < i[2] BY <1>2, OneDayOf
<1>4. i[2] <= ClosesAt(t)
  <2>1. HoldsOf(t, plan) BY HoldsByTask DEF FuturePlanInv
  <2> QED BY <2>1, Zenon DEF HoldsOf
<1>5. PICK l \in Nat, f \in Nat : l = LastDay /\ f = FutureEnd /\ f <= 1440 BY HorizonAssumption
<1>6. ClosesAt(t) <= l * 1440 + f
  <2>1. PICK d \in Nat : d = Wanted(t).deadline BY <1>0, <1>1, WantedTyped DEF FutureRow
  <2> QED BY <1>5, <2>1 DEF ClosesAt, Least, HorizonEnd
<1>7. ClosesAt(t) \in Nat BY <1>0, <1>1, WantedTyped
<1>8. PICK s \in Nat, e \in Nat : s = i[1] /\ e = i[2] /\ s < e BY <1>3
<1>9. s < (l + 1) * 1440 BY <1>4, <1>5, <1>6, <1>7, <1>8
<1>10. s \div 1440 \in 0 .. l BY <1>9
<1> QED BY <1>5, <1>8, <1>10 DEF InHorizon, DayOf, FutureDays

\* The tasks after a plan was applied, and what they are asked for.
LEMMA AppliedRows ==
  ASSUME FutureScene, ApplyAndPlanAgain
  PROVE  /\ \A t \in Tasks \ Movable : row'[t] = row[t]
         /\ \A t \in Movable : row'[t] = [Wanted(t) EXCEPT !.existing = plan[t], !.draft = FALSE]
         /\ \A t \in Movable : t \in Tasks /\ ~row[t].protected /\ ~row'[t].protected
                               /\ row'[t].existing = plan[t] /\ ~row'[t].draft
         /\ \A t \in Tasks : ~row'[t].draft
         /\ request'.everything = request.everything /\ DOMAIN request'.changes = {}
         /\ request'.tasks = IF request.everything THEN {} ELSE Movable
<1>1. \A t \in Tasks \ Movable : row'[t] = row[t] BY DEF ApplyAndPlanAgain
<1>2. \A t \in Movable : t \in Tasks /\ ~row[t].protected BY DEF Movable
<1>3. \A t \in Movable : row'[t] = [Wanted(t) EXCEPT !.existing = plan[t], !.draft = FALSE]
  BY <1>2 DEF ApplyAndPlanAgain
<1>4. ASSUME NEW t \in Movable
      PROVE ~row'[t].protected /\ row'[t].existing = plan[t] /\ ~row'[t].draft
  <2>1. PICK w : w = Wanted(t) OBVIOUS
  <2>2. w \in FutureRow BY <1>2, <2>1, WantedTyped
  <2>3. row'[t] = [w EXCEPT !.existing = plan[t], !.draft = FALSE] BY <1>3, <2>1
  <2>4. w.protected = row[t].protected
    <3>1. row[t] \in FutureRow BY <1>2 DEF FutureScene
    <3> QED BY <2>1, <3>1 DEF Wanted, FutureRow
  <2>5. row'[t].protected = w.protected /\ row'[t].existing = plan[t] /\ row'[t].draft = FALSE
    BY <2>2, <2>3 DEF FutureRow
  <2> QED BY <1>2, <2>4, <2>5
<1>5. ASSUME NEW t \in Tasks \ Movable PROVE ~row[t].draft
  <2>1. row[t].draft => ~row[t].protected BY DEF FutureScene
  <2> QED BY <2>1 DEF Movable, Asked
<1>6. \A t \in Tasks : ~row'[t].draft BY <1>1, <1>4, <1>5
<1>7. /\ request'.everything = request.everything /\ DOMAIN request'.changes = {}
      /\ request'.tasks = IF request.everything THEN {} ELSE Movable
  <2>1. PICK asked : asked = IF request.everything THEN {} ELSE Movable OBVIOUS
  <2>2. request' = [request EXCEPT !.changes = <<>>, !.tasks = asked] BY <2>1 DEF ApplyAndPlanAgain
  <2>3. PICK C : C = {request.changes} OBVIOUS
  <2>4. request \in [everything: BOOLEAN, tasks: SUBSET Tasks, changes: C] BY <2>3 DEF FutureScene
  <2>5. request'.everything = request.everything /\ request'.changes = <<>> /\ request'.tasks = asked
    BY <2>2, <2>4
  <2>6. DOMAIN request'.changes = {} BY <2>5
  <2> QED BY <2>1, <2>5, <2>6
<1> QED BY <1>1, <1>2, <1>3, <1>4, <1>6, <1>7

\* An event of the Calendar that is left is exported after a plan was applied
\* when it was before.
LEMMA ExportedStill ==
  ASSUME FuturePlanInv, ApplyAndPlanAgain
  PROVE  \A e \in events : /\ (Exported(e) /\ e \in events') => Exported(e)'
                           /\ ~Exported(e) => e \in events' /\ ~Exported(e)'
<1>0. FutureScene BY DEF FuturePlanInv, FutureTyped
<1>1. /\ \A t \in Tasks \ Movable : row'[t] = row[t]
      /\ \A t \in Movable : row'[t].existing = plan[t]
  BY <1>0, AppliedRows
<1> SUFFICES ASSUME NEW e \in events
             PROVE  /\ Exported(e) /\ e \in events' => Exported(e)'
                    /\ ~Exported(e) => e \in events' /\ ~Exported(e)'
  OBVIOUS
<1>2. events' = {f \in events : ~Exported(f) \/ plan[f.of] # <<>> \/ f.of \notin Movable}
  BY DEF ApplyAndPlanAgain
<1>3. Exported(e)' <=> e.of \in Tasks /\ \E i \in ToSet(row'[e.of].existing) : InHorizon(i)
  BY Zenon DEF Exported, InHorizon
<1>4. ASSUME ~Exported(e) PROVE e \in events' /\ ~Exported(e)'
  <2>1. e.of \notin Tasks BY <1>0, <1>4 DEF FutureScene
  <2> QED BY <1>2, <1>3, <1>4, <2>1
<1>5. ASSUME Exported(e), e \in events' PROVE Exported(e)'
  <2>1. e.of \in Tasks /\ \E i \in ToSet(row[e.of].existing) : InHorizon(i) BY <1>5 DEF Exported
  <2>2. CASE e.of \notin Movable BY <1>1, <1>3, <2>1, <2>2
  <2>3. CASE e.of \in Movable
    <3>1. plan[e.of] # <<>> BY <1>2, <1>5, <2>3
    <3>2. plan[e.of] \in Seq(Nat \X Nat) BY <2>1 DEF FuturePlanInv, FutureTyped
    <3>3. plan[e.of][1] \in ToSet(plan[e.of]) BY <3>1, <3>2 DEF ToSet
    <3>4. InHorizon(plan[e.of][1]) BY <2>3, <3>3, InHorizonOf
    <3>5. row'[e.of].existing = plan[e.of] BY <1>1, <2>3
    <3> QED BY <1>3, <2>1, <3>3, <3>4, <3>5
  <2> QED BY <2>2, <2>3
<1> QED BY <1>4, <1>5

\* What was applied is a database again, and the next preview a request.
LEMMA AppliedScene ==
  ASSUME FuturePlanInv, ApplyAndPlanAgain
  PROVE  FutureScene'
<1>1. FutureScene BY DEF FuturePlanInv, FutureTyped
<1>2. \A t \in Movable : t \in Tasks BY DEF Movable
<1>3. ASSUME NEW t \in Tasks
      PROVE  row'[t] \in FutureRow /\ OneDay(ToSet(row'[t].existing))
  <2>1. CASE t \in Movable
    <3>1. PICK w : w = Wanted(t) OBVIOUS
    <3>2. w \in FutureRow BY <1>1, <3>1, WantedTyped
    <3>3. row'[t] = [w EXCEPT !.existing = plan[t], !.draft = FALSE]
      BY <2>1, <3>1 DEF ApplyAndPlanAgain
    <3>4. plan[t] \in Seq(Nat \X Nat) /\ OneDay(ToSet(plan[t])) BY DEF FuturePlanInv, FutureTyped
    <3>5. row'[t] \in FutureRow BY <3>2, <3>3, <3>4 DEF FutureRow
    <3>6. row'[t].existing = plan[t] BY <3>2, <3>3 DEF FutureRow
    <3> QED BY <3>4, <3>5, <3>6
  <2>2. CASE t \notin Movable
    <3>1. row'[t] = row[t] BY <2>2 DEF ApplyAndPlanAgain
    <3> QED BY <1>1, <3>1 DEF FutureScene
  <2> QED BY <2>1, <2>2
<1>4. row' \in [Tasks -> FutureRow]
  <2>1. DOMAIN row' = Tasks /\ row' = [t \in Tasks |-> row'[t]] BY DEF ApplyAndPlanAgain
  <2> QED BY <1>3, <2>1
<1>5. request' \in [everything: BOOLEAN, tasks: SUBSET Tasks, changes: {<<>>}]
  <2>1. PICK asked : asked = IF request.everything THEN {} ELSE Movable OBVIOUS
  <2>2. asked \in SUBSET Tasks BY <1>2, <2>1
  <2>3. request' = [request EXCEPT !.changes = <<>>, !.tasks = asked] BY <2>1 DEF ApplyAndPlanAgain
  <2>4. PICK C : C = {request.changes} OBVIOUS
  <2>5. request \in [everything: BOOLEAN, tasks: SUBSET Tasks, changes: C] BY <1>1, <2>4 DEF FutureScene
  <2> QED BY <2>2, <2>3, <2>5
<1>6. OneDay({e.at : e \in events'})
  <2>1. events' \subseteq events BY DEF ApplyAndPlanAgain
  <2> QED BY <1>1, <2>1 DEF FutureScene, OneDay
<1>7. \A t \in Tasks : OneDay(ToSet(row'[t].existing)) BY <1>3
<1>8. FutureRow' = FutureRow BY Zenon DEF FutureRow
<1>9. (\A t \in Tasks : OneDay(ToSet(row[t].existing)))' BY <1>7, Zenon DEF OneDay, ToSet, DayOf
<1>10. OneDay({e.at : e \in events})' BY <1>6, Zenon DEF OneDay, DayOf
<1>11. (row \in [Tasks -> FutureRow])' BY <1>4, <1>8
<1>12. request'.changes = <<>> BY <1>5
<1>13. (request \in [everything: BOOLEAN, tasks: SUBSET Tasks, changes: {request.changes}])' BY <1>5, <1>12
<1>14. /\ DOMAIN request'.changes \subseteq Tasks
       /\ request'.changes \in [DOMAIN request'.changes -> [estimated: Nat, earliest: Nat, deadline: Nat]]
  BY <1>12
<1>15. (\A t \in Tasks : row[t].draft => ~row[t].protected /\ \A u \in Tasks : ~row[u].draft => u < t)'
  BY <1>1, AppliedRows
<1>16. (\A e \in events : e.of \in Tasks => Exported(e))'
  <2>1. ASSUME NEW e \in events', e.of \in Tasks PROVE Exported(e)'
    <3>1. e \in events BY DEF ApplyAndPlanAgain
    <3>2. Exported(e) BY <1>1, <2>1, <3>1 DEF FutureScene
    <3> QED BY <3>1, <3>2, ExportedStill
  <2> QED BY <2>1
<1> QED BY <1>9, <1>10, <1>11, <1>13, <1>14, <1>15, <1>16, Zenon DEF FutureScene

\* A preview that is applied.
LEMMA ApplyKept ==
  ASSUME FuturePlanInv, ApplyAndPlanAgain
  PROVE  FuturePlanInv'
<1>1. FutureScene' BY AppliedScene
<1>2. FutureInit' \/ TRUE OBVIOUS
<1>3. /\ ranked' = <<>> /\ occupied' = {} /\ load' = [d \in FutureDays |-> 0]
      /\ plan' = [t \in Tasks |-> <<>>] /\ why' = [t \in Tasks |-> "none"]
  BY DEF ApplyAndPlanAgain
<1>4. FutureTyped'
  <2>1. DOMAIN ranked' = {} /\ ranked' \in [DOMAIN ranked' -> Nat] BY <1>3
  <2>2. \A t \in Tasks : plan'[t] = <<>> BY <1>3
  <2>3. \A t \in Tasks : OneDay(ToSet(plan'[t])) BY <2>2 DEF OneDay, ToSet
  <2>4. plan' \in [Tasks -> Seq(Nat \X Nat)] BY <1>3
  <2>5. OneDay(occupied') BY <1>3 DEF OneDay
  <2>6. load' \in [FutureDays -> Nat] /\ DOMAIN why' = Tasks BY <1>3
  <2>7. (\A t \in Tasks : OneDay(ToSet(plan[t])))' BY <2>3, Zenon DEF OneDay, ToSet, DayOf
  <2>8. OneDay(occupied)' BY <2>5, Zenon DEF OneDay, DayOf
  <2>9. DOMAIN ranked' \subseteq Movable' BY <2>1
  <2> QED BY <1>1, <2>1, <2>4, <2>6, <2>7, <2>8, <2>9, Zenon DEF FutureTyped
<1>5. \A t \in Tasks : plan'[t] = <<>> BY <1>3
<1>6. Idling' BY <1>3 DEF Idling, Unplanned
<1>7. DOMAIN ranked' = {} BY <1>3
<1>8. PreviewIsKept'
  <2>1. (\A t \in Tasks : plan[t] = <<>>)' BY <1>5
  <2>2. (\A t \in DOMAIN ranked : plan[t] = <<>>)' BY <1>7
  <2> QED BY <1>6, <2>1, <2>2, Zenon DEF PreviewIsKept
<1>9. FuturePlanHolds'
  <2>1. (\A t \in Movable : t \in Tasks)' BY DEF Movable
  <2>2. (\A t \in Movable : ToSet(plan[t]) = {})' BY <1>5, <2>1 DEF ToSet
  <2> QED BY <2>2 DEF FuturePlanHolds
<1> QED BY <1>4, <1>8, <1>9 DEF FuturePlanInv

\* Every step of the preview keeps the invariant.
LEMMA FutureStepKept ==
  ASSUME FuturePlanInv, [FutureNext]_futureVars
  PROVE  FuturePlanInv'
<1>1. CASE Preview BY <1>1, PreviewKept
<1>2. CASE NothingLeft
  <2>1. ranked # <<>> /\ Given(<<>>) BY <1>2 DEF NothingLeft
  <2> QED BY <2>1, NothingFits, SettledKeeps DEF Given
<1>3. CASE Keep
  <2>1. ranked # <<>> /\ MayKeep /\ Given(Sessions(Turn)) BY <1>3 DEF Keep
  <2>2. Fit(Sessions(Turn), Turn) BY <2>1, KeptFit DEF FuturePlanInv
  <2> QED BY <2>1, <2>2, SettledKeeps DEF Given
<1>4. CASE Place
  <2>1. /\ ranked # <<>> /\ Candidates(Options) # {}
        /\ Given(BestOf(Candidates(Options), Preferred))
    BY <1>4 DEF Place
  <2>2. Fit(BestOf(Candidates(Options), Preferred), Turn) BY <2>1, PlacedFit DEF FuturePlanInv
  <2> QED BY <2>1, <2>2, SettledKeeps DEF Given
<1>5. CASE GiveUp
  <2>1. PICK outcome : ranked # <<>> /\ outcome # "none" /\ Settled(<<>>, outcome)
    <3>1. PICK outcome : outcome = CASE Wanted(Turn).deadline < HorizonStart -> "deadline_impossible"
                     [] Wanted(Turn).earliest > HorizonEnd -> "earliest_start_outside_horizon"
                     [] Capacity(Options) < Remaining(Turn) -> "insufficient_feasible_capacity"
                     [] OTHER -> "fragmentation_segment_cap"
      OBVIOUS
    <3>2. outcome # "none" BY <3>1
    <3>3. ranked # <<>> /\ Settled(<<>>, outcome) BY <1>5, <3>1, Zenon DEF GiveUp
    <3> QED BY <3>2, <3>3
  <2> QED BY <2>1, NothingFits, SettledKeeps
<1>6. CASE ApplyAndPlanAgain BY <1>6, ApplyKept
<1>7. CASE UNCHANGED futureVars
  <2>1. UNCHANGED <<row, request, events>> BY <1>7 DEF futureVars
  <2>2. /\ ranked' = ranked /\ occupied' = occupied /\ load' = load /\ plan' = plan /\ why' = why
    BY <1>7 DEF futureVars
  <2>3. /\ FutureScene' /\ Movable' = Movable /\ Blocking' = Blocking /\ Staying' = Staying
    BY <2>1, SameScene DEF FuturePlanInv, FutureTyped
  <2>4. FutureTyped'
    <3>1. \A t \in Tasks : OneDay(ToSet(plan[t])) BY DEF FuturePlanInv, FutureTyped
    <3>2. \A t \in Tasks : OneDay(ToSet(plan'[t])) BY <2>2, <3>1, Zenon
    <3>3. (\A t \in Tasks : OneDay(ToSet(plan[t])))' BY <3>2, Zenon DEF OneDay, ToSet, DayOf
    <3>4. OneDay(occupied') BY <2>2 DEF FuturePlanInv, FutureTyped
    <3>5. OneDay(occupied)' BY <3>4, Zenon DEF OneDay, DayOf
    <3>6. /\ load' \in [FutureDays -> Nat] /\ DOMAIN why' = Tasks /\ plan' \in [Tasks -> Seq(Nat \X Nat)]
          /\ ranked' \in [DOMAIN ranked' -> Nat] /\ DOMAIN ranked' \subseteq Movable'
      BY <2>2, <2>3 DEF FuturePlanInv, FutureTyped
    <3> QED BY <2>3, <3>3, <3>5, <3>6, Zenon DEF FutureTyped
  <2>5. PreviewIsKept' BY <2>2, <2>3, Zenon DEF FuturePlanInv, PreviewIsKept, Idling, Unplanned, ToSet
  <2>6. FuturePlanHolds'
    <3>1. \A t \in Movable : HoldsOf(t, plan) BY HoldsByTask DEF FuturePlanInv
    <3>2. \A t \in Movable : HoldsOf(t, plan') BY <2>2, <3>1, Zenon
    <3> QED BY <2>1, <3>2, SameScene
  <2> QED BY <2>4, <2>5, <2>6 DEF FuturePlanInv
<1> QED BY <1>1, <1>2, <1>3, <1>4, <1>5, <1>6, <1>7 DEF FutureNext

\* Whatever is asked for and whatever blocks the days: a preview gives a task
\* all of its minutes inside its limits or none, and no two tasks share time.
THEOREM PreviewsHold == FutureSpec => []FuturePlanHolds
<1>1. FutureInit /\ FutureScene => FuturePlanInv BY FutureInitKept
<1>2. FuturePlanInv /\ [FutureNext]_futureVars => FuturePlanInv' BY FutureStepKept
<1>3. FuturePlanInv => FuturePlanHolds BY DEF FuturePlanInv
<1> QED BY <1>1, <1>2, <1>3, PTL DEF FutureSpec

-----------------------------------------------------------------------------
(* Choosing among fewer *)

\* The cheapest are those that cost no more than any.
LEMMA CheapestIs ==
  ASSUME NEW X, NEW f, \A x \in X : f[x] \in Nat, NEW c \in X
  PROVE  c \in CheapestBy(f, X) <=> \A d \in X : f[c] <= f[d]
<1>1. PICK T : T = {f[d] : d \in X} OBVIOUS
<1>2. T \subseteq Nat /\ f[c] \in T /\ T # {} BY <1>1
<1>3. Min(T) \in T /\ \A k \in T : Min(T) <= k BY <1>2, MinIsLeast
<1>4. c \in CheapestBy(f, X) <=> f[c] = Min(T) BY <1>1, Zenon DEF CheapestBy
<1>5. f[c] = Min(T) => \A d \in X : f[c] <= f[d] BY <1>1, <1>3
<1>6. ASSUME \A d \in X : f[c] <= f[d] PROVE f[c] = Min(T)
  <2>1. PICK d \in X : f[d] = Min(T) BY <1>1, <1>3
  <2>2. f[c] <= f[d] /\ f[d] <= f[c] /\ f[c] \in Nat /\ f[d] \in Nat BY <1>2, <1>3, <1>6, <2>1
  <2> QED BY <2>1, <2>2
<1> QED BY <1>4, <1>5, <1>6

\* Among fewer, when a cheapest of all is one of them.
LEMMA CheapestWithin ==
  ASSUME NEW X, NEW f, \A x \in X : f[x] \in Nat, NEW Y, CheapestBy(f, X) \cap Y # {}
  PROVE  CheapestBy(f, X \cap Y) = CheapestBy(f, X) \cap Y
<1>1. PICK a : a \in CheapestBy(f, X) /\ a \in Y OBVIOUS
<1>2. a \in X BY <1>1 DEF CheapestBy
<1>3. \A d \in X : f[a] <= f[d] BY <1>1, <1>2, CheapestIs
<1>4. \A x \in X \cap Y : f[x] \in Nat OBVIOUS
<1>5. ASSUME NEW c \in CheapestBy(f, X \cap Y) PROVE c \in CheapestBy(f, X) /\ c \in Y
  <2>1. c \in X \cap Y BY DEF CheapestBy
  <2>2. f[c] <= f[a] BY <1>1, <1>2, <1>4, <2>1, CheapestIs
  <2>3. ASSUME NEW d \in X PROVE f[c] <= f[d]
    <3>1. f[a] <= f[d] BY <1>3
    <3>2. f[a] \in Nat /\ f[c] \in Nat /\ f[d] \in Nat BY <1>2, <2>1
    <3> QED BY <2>2, <3>1, <3>2
  <2>4. c \in CheapestBy(f, X) BY <2>1, <2>3, CheapestIs
  <2> QED BY <2>1, <2>4
<1>6. ASSUME NEW c \in CheapestBy(f, X), c \in Y PROVE c \in CheapestBy(f, X \cap Y)
  <2>1. c \in X BY DEF CheapestBy
  <2>2. \A d \in X : f[c] <= f[d] BY <2>1, CheapestIs
  <2>3. c \in X \cap Y BY <1>6, <2>1
  <2> QED BY <1>4, <2>2, <2>3, CheapestIs
<1> QED BY <1>5, <1>6

\* Of two numbers one is the smaller.
LEMMA FirstOfTwo ==
  ASSUME NEW i \in Nat, NEW k \in Nat
  PROVE  \E m \in Nat : m <= i /\ m <= k /\ (m = i \/ m = k)
<1>1. CASE i <= k BY <1>1
<1>2. CASE k <= i BY <1>2
<1> QED BY <1>1, <1>2

\* What begins before what begins before the third begins before the third.
LEMMA StartsInOrder ==
  ASSUME NEW n \in 1 .. MaxSegments, NEW a \in [1 .. n -> Nat \X Nat], NEW b \in [1 .. n -> Nat \X Nat],
         NEW c \in [1 .. n -> Nat \X Nat], StartsBefore(a, b), StartsBefore(b, c)
  PROVE  StartsBefore(a, c)
<1>1. PICK i \in 1 .. n : a[i][1] < b[i][1] /\ \A j \in 1 .. i - 1 : a[j][1] = b[j][1]
  BY DEF StartsBefore
<1>2. PICK k \in 1 .. n : b[k][1] < c[k][1] /\ \A j \in 1 .. k - 1 : b[j][1] = c[j][1]
  BY DEF StartsBefore
<1>3. DOMAIN a = 1 .. n /\ i \in Nat /\ k \in Nat /\ n \in Nat /\ 1 <= i /\ 1 <= k /\ i <= n /\ k <= n
  BY DEF MaxSegments
<1>4. ASSUME NEW j \in 1 .. n PROVE a[j][1] \in Nat /\ b[j][1] \in Nat /\ c[j][1] \in Nat
  <2>1. a[j] \in Nat \X Nat /\ b[j] \in Nat \X Nat /\ c[j] \in Nat \X Nat OBVIOUS
  <2> QED BY <2>1
<1>5. PICK m \in Nat : m <= i /\ m <= k /\ (m = i \/ m = k) BY <1>3, FirstOfTwo
<1>6. m \in 1 .. n /\ (m = i \/ m \in 1 .. i - 1) /\ (m = k \/ m \in 1 .. k - 1)
  <2>1. 1 <= m /\ m <= n BY <1>3, <1>5
  <2>2. m = i \/ m <= i - 1 BY <1>3, <1>5
  <2>3. m = k \/ m <= k - 1 BY <1>3, <1>5
  <2> QED BY <1>3, <2>1, <2>2, <2>3
<1>7. PICK x \in Nat, y \in Nat, z \in Nat : x = a[m][1] /\ y = b[m][1] /\ z = c[m][1] BY <1>4, <1>6
<1>8. m = i => x < y BY <1>1, <1>7
<1>9. m \in 1 .. i - 1 => x = y BY <1>1, <1>7
<1>10. m = k => y < z BY <1>2, <1>7
<1>11. m \in 1 .. k - 1 => y = z BY <1>2, <1>7
<1>12. x < z
  <2>1. x < y \/ x = y BY <1>6, <1>8, <1>9
  <2>2. y < z \/ y = z BY <1>6, <1>10, <1>11
  <2>3. x < y \/ y < z BY <1>5, <1>8, <1>10
  <2> QED BY <2>1, <2>2, <2>3
<1>13. ASSUME NEW j \in 1 .. m - 1 PROVE a[j][1] = c[j][1]
  <2>1. j \in 1 .. i - 1 /\ j \in 1 .. k - 1 BY <1>3, <1>5
  <2> QED BY <1>1, <1>2, <2>1
<1> QED BY <1>3, <1>6, <1>7, <1>12, <1>13 DEF StartsBefore

\* One choice of sessions leaves another no chance: as good by the first two
\* measures, no fuller, and lighter or earlier.
Surpasses(c, d, preferred) ==
  /\ Quality(Lengths(c), preferred) = Quality(Lengths(d), preferred) /\ Len(c) = Len(d)
  /\ Fullest(c) <= Fullest(d) /\ Squares(c) <= Squares(d)
  /\ Squares(c) < Squares(d) \/ StartsBefore(c, d)

\* The five measures of some sessions.
Measured(C, preferred, Q, N, F, S) ==
  \A c \in C : /\ Q[c] = Quality(Lengths(c), preferred) /\ N[c] = Len(c)
               /\ F[c] = Fullest(c) /\ S[c] = Squares(c)
               /\ Q[c] \in Nat /\ N[c] \in Nat /\ F[c] \in Nat /\ S[c] \in Nat
               /\ N[c] \in 1 .. MaxSegments /\ c \in [1 .. N[c] -> Nat \X Nat]

LightestOf(C, Q, N, F, S) == CheapestBy(S, CheapestBy(F, CheapestBy(N, CheapestBy(Q, C))))

\* What best_candidate compares of sessions are numbers.
LEMMA MeasuresExist ==
  ASSUME load \in [FutureDays -> Nat], NEW C, SessionsOver(C), NEW preferred \in Nat
  PROVE  \E Q, N, F, S : Measured(C, preferred, Q, N, F, S)
<1>0. ASSUME NEW c \in C
      PROVE  /\ Quality(Lengths(c), preferred) \in Nat /\ Len(c) \in Nat
             /\ Fullest(c) \in Nat /\ Squares(c) \in Nat
             /\ Len(c) \in 1 .. MaxSegments /\ c \in [1 .. Len(c) -> Nat \X Nat]
  <2>1. PICK n \in 1 .. MaxSegments : c \in [1 .. n -> Nat \X Nat] BY DEF SessionsOver
  <2>2. \A i \in 1 .. n : c[i][1] < c[i][2] BY <2>1 DEF SessionsOver
  <2>3. n \in Nat /\ n >= 1 OBVIOUS
  <2>4. Lengths(c) \in [1 .. n -> Nat] BY <2>1, <2>2, LengthsTyped
  <2>5. Lengths(c) \in [1 .. n -> Int] BY <2>4
  <2>6. Quality(Lengths(c), preferred) \in Nat BY <2>3, <2>5, QualityTyped
  <2>7. \A d \in FutureDays : LoadWith(c, d) \in Nat BY <2>1, <2>2, LoadTyped
  <2>8. Fullest(c) \in Nat /\ Squares(c) \in Nat BY <2>7, FullestTyped, SquaresTyped
  <2>9. Len(c) = n BY <2>1, <2>3
  <2> QED BY <2>1, <2>6, <2>8, <2>9
<1>1. PICK Q : Q = [c \in C |-> Quality(Lengths(c), preferred)] OBVIOUS
<1>2. PICK N : N = [c \in C |-> Len(c)] OBVIOUS
<1>3. PICK F : F = [c \in C |-> Fullest(c)] OBVIOUS
<1>4. PICK S : S = [c \in C |-> Squares(c)] OBVIOUS
<1>5. ASSUME NEW c \in C
      PROVE  /\ Q[c] = Quality(Lengths(c), preferred) /\ N[c] = Len(c)
             /\ F[c] = Fullest(c) /\ S[c] = Squares(c)
  BY <1>1, <1>2, <1>3, <1>4
<1>6. Measured(C, preferred, Q, N, F, S) BY <1>0, <1>5 DEF Measured
<1> QED BY <1>6

\* The choice is the first in time of the lightest.
LEMMA BestIsFirst ==
  ASSUME NEW C, NEW preferred, NEW Q, NEW N, NEW F, NEW S, Measured(C, preferred, Q, N, F, S)
  PROVE  BestOf(C, preferred)
           = CHOOSE c \in LightestOf(C, Q, N, F, S) : \A d \in LightestOf(C, Q, N, F, S) : ~StartsBefore(d, c)
<1> DEFINE C1 == LeastOf(C, LAMBDA c : Quality(Lengths(c), preferred))
           C2 == LeastOf(C1, Len)
           C3 == LeastOf(C2, Fullest)
           C4 == LeastOf(C3, Squares)
<1>1. C1 = CheapestBy(Q, C)
  <2>1. \A c \in C : Q[c] = Quality(Lengths(c), preferred) BY DEF Measured
  <2>2. {Q[c] : c \in C} = {Quality(Lengths(c), preferred) : c \in C} BY <2>1
  <2> QED BY <2>1, <2>2, Zenon DEF LeastOf, CheapestBy
<1>2. C1 \subseteq C BY <1>1 DEF CheapestBy
<1>3. C2 = CheapestBy(N, C1)
  <2> HIDE DEF C1
  <2>1. \A c \in C1 : N[c] = Len(c) BY <1>2 DEF Measured
  <2>2. {N[c] : c \in C1} = {Len(c) : c \in C1} BY <2>1
  <2> QED BY <2>1, <2>2, Zenon DEF LeastOf, CheapestBy
<1>4. C2 \subseteq C
  <2> HIDE DEF C1, C2
  <2> QED BY <1>2, <1>3 DEF CheapestBy
<1>5. C3 = CheapestBy(F, C2)
  <2> HIDE DEF C1, C2
  <2>1. \A c \in C2 : F[c] = Fullest(c) BY <1>4 DEF Measured
  <2>2. {F[c] : c \in C2} = {Fullest(c) : c \in C2} BY <2>1
  <2> QED BY <2>1, <2>2, Zenon DEF LeastOf, CheapestBy
<1>6. C3 \subseteq C
  <2> HIDE DEF C1, C2, C3
  <2> QED BY <1>4, <1>5 DEF CheapestBy
<1>7. C4 = CheapestBy(S, C3)
  <2> HIDE DEF C1, C2, C3
  <2>1. \A c \in C3 : S[c] = Squares(c) BY <1>6 DEF Measured
  <2>2. {S[c] : c \in C3} = {Squares(c) : c \in C3} BY <2>1
  <2> QED BY <2>1, <2>2, Zenon DEF LeastOf, CheapestBy
<1>8. BestOf(C, preferred) = CHOOSE c \in C4 : \A d \in C4 : ~StartsBefore(d, c)
  BY Zenon DEF BestOf
<1>9. C4 = LightestOf(C, Q, N, F, S)
  <2> HIDE DEF C1, C2, C3, C4
  <2> QED BY <1>1, <1>3, <1>5, <1>7, Zenon DEF LightestOf
<1> HIDE DEF C1, C2, C3, C4
<1> QED BY <1>8, <1>9, Zenon

\* What is surpassed need not be looked at.
LEMMA FewerWillDo ==
  ASSUME load \in [FutureDays -> Nat], NEW A, SessionsOver(A), A # {}, NEW preferred \in Nat,
         NEW C, C \subseteq A, \A d \in A \ C : \E c \in C : Surpasses(c, d, preferred)
  PROVE  BestOf(C, preferred) = BestOf(A, preferred)
<1>1. PICK Q, N, F, S : Measured(A, preferred, Q, N, F, S) BY MeasuresExist
<1>2. Measured(C, preferred, Q, N, F, S) BY <1>1 DEF Measured
<1>3. PICK A1, A2, A3, A4 : /\ A1 = CheapestBy(Q, A) /\ A2 = CheapestBy(N, A1)
                            /\ A3 = CheapestBy(F, A2) /\ A4 = CheapestBy(S, A3)
  OBVIOUS
<1>4. \A c \in A : Q[c] \in Nat /\ N[c] \in Nat /\ F[c] \in Nat /\ S[c] \in Nat BY <1>1 DEF Measured
<1>5. A1 # {} /\ A1 \subseteq A BY <1>3, <1>4, CheapestExist
<1>6. A2 # {} /\ A2 \subseteq A1 BY <1>3, <1>4, <1>5, CheapestExist
<1>7. A3 # {} /\ A3 \subseteq A2
  <2>1. \A c \in A2 : F[c] \in Nat BY <1>4, <1>5, <1>6
  <2> QED BY <1>3, <1>6, <2>1, CheapestExist
<1>8. A4 # {} /\ A4 \subseteq A3
  <2>1. \A c \in A3 : S[c] \in Nat BY <1>4, <1>5, <1>6, <1>7
  <2> QED BY <1>3, <1>7, <2>1, CheapestExist
<1>9. A4 = LightestOf(A, Q, N, F, S) BY <1>3, Zenon DEF LightestOf
<1>10. PICK n \in 1 .. MaxSegments : A4 \subseteq [1 .. n -> Nat \X Nat]
  <2>1. PICK a \in A4 : TRUE BY <1>8
  <2>2. ASSUME NEW c \in A4 PROVE N[c] = N[a] /\ c \in A
    <3>1. c \in A2 /\ a \in A2 /\ c \in A BY <1>5, <1>6, <1>7, <1>8
    <3> QED BY <1>3, <3>1, Zenon DEF CheapestBy
  <2>3. \A c \in A4 : N[a] \in 1 .. MaxSegments /\ c \in [1 .. N[a] -> Nat \X Nat] BY <1>1, <2>2 DEF Measured
  <2> QED BY <2>1, <2>3
\* Something lightest that is not looked at is preceded by something that is.
<1>11. ASSUME NEW d \in A4, d \notin C PROVE \E c \in A4 : c \in C /\ StartsBefore(c, d)
  <2>1. d \in A /\ d \in A1 /\ d \in A2 /\ d \in A3 BY <1>5, <1>6, <1>7, <1>8
  <2>2. PICK c \in C : Surpasses(c, d, preferred) BY <1>11, <2>1
  <2>3. c \in A OBVIOUS
  <2>4. Q[c] = Q[d] /\ N[c] = N[d] /\ F[c] <= F[d] /\ S[c] <= S[d] /\ (S[c] < S[d] \/ StartsBefore(c, d))
    <3>1. /\ Q[c] = Quality(Lengths(c), preferred) /\ N[c] = Len(c) /\ F[c] = Fullest(c) /\ S[c] = Squares(c)
          /\ Q[d] = Quality(Lengths(d), preferred) /\ N[d] = Len(d) /\ F[d] = Fullest(d) /\ S[d] = Squares(d)
      BY <1>1, <2>1, <2>3 DEF Measured
    <3> QED BY <2>2, <3>1 DEF Surpasses
  <2>5. c \in A1 BY <1>3, <2>1, <2>3, <2>4, Zenon DEF CheapestBy
  <2>6. c \in A2 BY <1>3, <2>1, <2>4, <2>5, Zenon DEF CheapestBy
  <2>7. F[c] = F[d] /\ c \in A3
    <3>1. \A e \in A2 : F[e] \in Nat BY <1>4, <1>5, <1>6
    <3>2. F[d] <= F[c] BY <1>3, <2>1, <2>6, <3>1, CheapestIs
    <3>3. F[c] = F[d] BY <2>1, <2>4, <2>6, <3>1, <3>2
    <3> QED BY <1>3, <2>1, <2>6, <3>3, Zenon DEF CheapestBy
  <2>8. S[c] = S[d] /\ c \in A4
    <3>1. \A e \in A3 : S[e] \in Nat BY <1>4, <1>5, <1>6, <1>7
    <3>2. S[d] <= S[c] BY <1>3, <2>1, <2>7, <3>1, CheapestIs
    <3>3. S[c] = S[d] BY <2>1, <2>4, <2>7, <3>1, <3>2
    <3> QED BY <1>3, <2>1, <2>7, <3>3, Zenon DEF CheapestBy
  <2>9. StartsBefore(c, d) BY <1>4, <2>1, <2>3, <2>4, <2>8
  <2> QED BY <2>8, <2>9
<1>12. PICK first \in A4 : \A d \in A4 : ~StartsBefore(d, first) BY <1>8, <1>10, FirstSessionsExist
<1>13. first \in C BY <1>11, <1>12
<1>14. LightestOf(C, Q, N, F, S) = A4 \cap C
  <2>1. A \cap C = C OBVIOUS
  <2>2. first \in A1 /\ first \in A2 /\ first \in A3 BY <1>6, <1>7, <1>8
  <2>3. CheapestBy(Q, C) = A1 \cap C BY <1>3, <1>4, <1>13, <2>1, <2>2, CheapestWithin
  <2>4. CheapestBy(N, A1 \cap C) = A2 \cap C BY <1>3, <1>4, <1>5, <1>13, <2>2, CheapestWithin
  <2>5. CheapestBy(F, A2 \cap C) = A3 \cap C
    <3>1. \A c \in A2 : F[c] \in Nat BY <1>4, <1>5, <1>6
    <3> QED BY <1>3, <1>13, <2>2, <3>1, CheapestWithin
  <2>6. CheapestBy(S, A3 \cap C) = A4 \cap C
    <3>1. \A c \in A3 : S[c] \in Nat BY <1>4, <1>5, <1>6, <1>7
    <3> QED BY <1>3, <1>12, <1>13, <3>1, CheapestWithin
  <2> QED BY <2>3, <2>4, <2>5, <2>6, Zenon DEF LightestOf
<1>15. \A c : /\ c \in A4 /\ \A d \in A4 : ~StartsBefore(d, c)
          <=> /\ c \in A4 \cap C /\ \A d \in A4 \cap C : ~StartsBefore(d, c)
  <2> SUFFICES ASSUME NEW c
               PROVE  /\ c \in A4 /\ \A d \in A4 : ~StartsBefore(d, c)
                  <=> /\ c \in A4 \cap C /\ \A d \in A4 \cap C : ~StartsBefore(d, c)
    OBVIOUS
  <2>1. ASSUME c \in A4, \A d \in A4 : ~StartsBefore(d, c)
        PROVE  c \in A4 \cap C /\ \A d \in A4 \cap C : ~StartsBefore(d, c)
    BY <1>11, <2>1
  <2>2. ASSUME c \in A4 \cap C, \A d \in A4 \cap C : ~StartsBefore(d, c), NEW d \in A4, StartsBefore(d, c)
        PROVE  FALSE
    <3>1. d \notin C BY <2>2
    <3>2. PICK e \in A4 : e \in C /\ StartsBefore(e, d) BY <1>11, <3>1
    <3>3. /\ c \in [1 .. n -> Nat \X Nat] /\ d \in [1 .. n -> Nat \X Nat]
          /\ e \in [1 .. n -> Nat \X Nat]
      BY <1>10, <2>2, <3>2
    <3>4. StartsBefore(e, c) BY <2>2, <3>2, <3>3, StartsInOrder
    <3> QED BY <2>2, <3>2, <3>4
  <2> QED BY <2>1, <2>2
<1>16. (CHOOSE c \in A4 : \A d \in A4 : ~StartsBefore(d, c))
         = (CHOOSE c \in A4 \cap C : \A d \in A4 \cap C : ~StartsBefore(d, c))
  BY <1>15, Zenon
<1>17. BestOf(A, preferred) = CHOOSE c \in A4 : \A d \in A4 : ~StartsBefore(d, c)
  BY <1>1, <1>9, BestIsFirst
<1>18. BestOf(C, preferred) = CHOOSE c \in A4 \cap C : \A d \in A4 \cap C : ~StartsBefore(d, c)
  BY <1>2, <1>14, BestIsFirst
<1> QED BY <1>16, <1>17, <1>18

\* The days windows are on are days of the horizon.
InDays(W) == \A w \in W : DayOf(w[1]) \in FutureDays

Behind(W, p) == {w \in W : Earlier(p[2], w)}
DatesOf(p) == {DayOf(p[1][1]), DayOf(p[2][1])}

\* Another third window of the same length: an earlier one of the same day, or
\* one of a day that neither of the first two is on, with less load or earlier.
Instead(v, w, p) ==
  \/ DayOf(v[1]) = DayOf(w[1]) /\ Earlier(v, w)
  \/ /\ DayOf(v[1]) # DayOf(w[1]) /\ DayOf(v[1]) \notin DatesOf(p) /\ DayOf(w[1]) \notin DatesOf(p)
     /\ \/ load[DayOf(v[1])] < load[DayOf(w[1])]
        \/ load[DayOf(v[1])] = load[DayOf(w[1])] /\ Earlier(v, w)

\* Of windows there is an earliest.
LEMMA EarliestWindow ==
  ASSUME NEW W, W \subseteq Nat \X Nat, W # {}
  PROVE  \E w \in W : \A v \in W : ~Earlier(v, w) /\ w[1] <= v[1]
<1>1. PICK T : T = {w[1] : w \in W} OBVIOUS
<1>2. T \subseteq Nat /\ T # {} BY <1>1
<1>3. PICK m \in T : \A k \in T : m <= k BY <1>2, LeastMember
<1>4. PICK w \in W : w[1] = m BY <1>1, <1>3
<1>5. ASSUME NEW v \in W PROVE ~Earlier(v, w) /\ w[1] <= v[1]
  <2>1. m <= v[1] BY <1>1, <1>3
  <2>2. m \in Nat /\ v[1] \in Nat BY <1>2
  <2> QED BY <1>4, <2>1, <2>2 DEF Earlier
<1> QED BY <1>5

\* And of those with the least load.
Lighter(v, w) ==
  \/ load[DayOf(v[1])] < load[DayOf(w[1])]
  \/ load[DayOf(v[1])] = load[DayOf(w[1])] /\ Earlier(v, w)

\* Of some windows one is the lightest and, among these, the earliest.
LEMMA LightestWindow ==
  ASSUME load \in [FutureDays -> Nat], NEW W, W \subseteq Nat \X Nat, W # {}, InDays(W)
  PROVE  \E w \in W : \A v \in W : ~Lighter(v, w)
<1>1. PICK T : T = {load[DayOf(w[1])] : w \in W} OBVIOUS
<1>2. \A w \in W : load[DayOf(w[1])] \in Nat BY DEF InDays
<1>3. T \subseteq Nat /\ T # {} BY <1>1, <1>2
<1>4. PICK m \in T : \A k \in T : m <= k BY <1>3, LeastMember
<1>5. PICK V : V = {w \in W : load[DayOf(w[1])] = m} OBVIOUS
<1>6. V # {} /\ V \subseteq Nat \X Nat BY <1>1, <1>4, <1>5
<1>7. PICK w \in V : \A v \in V : ~Earlier(v, w) BY <1>6, EarliestWindow
<1>8. ASSUME NEW v \in W, Lighter(v, w) PROVE FALSE
  <2>1. PICK x \in Nat : x = load[DayOf(v[1])] BY <1>2
  <2>2. load[DayOf(w[1])] = m /\ m \in Nat BY <1>3, <1>5
  <2>3. m <= x BY <1>1, <1>4, <2>1
  <2>4. x = m /\ Earlier(v, w) BY <1>8, <2>1, <2>2, <2>3 DEF Lighter
  <2>5. v \in V BY <1>5, <2>1, <2>4
  <2> QED BY <1>7, <2>4, <2>5
<1> QED BY <1>5, <1>8

Firsts(W, p) ==
  {w \in Behind(W, p) : ~\E v \in Behind(W, p) : /\ Earlier(v, w) /\ DayOf(v[1]) = DayOf(w[1])
                                                /\ Length(v) = Length(w)}
Others(W, p) == {w \in Firsts(W, p) : DayOf(w[1]) \notin DatesOf(p)}

\* The windows of a third session, without the helper that lists them.
LEMMA ThirdsAre ==
  ASSUME NEW W, NEW p
  PROVE  Thirds(W, p) =
           {w \in Firsts(W, p) : DayOf(w[1]) \in DatesOf(p)}
             \cup {w \in Others(W, p) : ~\E v \in Others(W, p) : Length(v) = Length(w) /\ Lighter(v, w)}
             \cup {w \in Behind(W, p) : Len(Sessions(Turn)) = 3 /\ w[1] = Sessions(Turn)[3][1]}
  BY Zenon DEF Thirds, Firsts, Others, Behind, DatesOf, Lighter

\* Of the windows of one length and day, the first is a first.
LEMMA FirstOfItsDay ==
  ASSUME NEW W, Wide(W), NEW p, NEW w \in Behind(W, p)
  PROVE  \E v \in Firsts(W, p) : /\ Length(v) = Length(w) /\ DayOf(v[1]) = DayOf(w[1])
                                 /\ v[1] <= w[1]
<1>1. PICK V : V = {v \in Behind(W, p) : Length(v) = Length(w) /\ DayOf(v[1]) = DayOf(w[1])} OBVIOUS
<1>2. w \in V /\ V \subseteq Nat \X Nat BY <1>1 DEF Behind, Wide
<1>3. PICK v \in V : \A u \in V : ~Earlier(u, v) /\ v[1] <= u[1] BY <1>2, EarliestWindow
<1>4. ASSUME NEW u \in Behind(W, p), Earlier(u, v), DayOf(u[1]) = DayOf(v[1]), Length(u) = Length(v)
      PROVE  FALSE
  <2>1. u \in V BY <1>1, <1>4
  <2> QED BY <1>3, <1>4, <2>1
<1>5. v \in Firsts(W, p) BY <1>1, <1>4 DEF Firsts
<1> QED BY <1>1, <1>2, <1>3, <1>5

\* A third window that is not looked at has another in its place.
LEMMA AnotherThird ==
  ASSUME load \in [FutureDays -> Nat], NEW W, Wide(W), InDays(W), NEW p, NEW w \in Behind(W, p), w \notin Thirds(W, p)
  PROVE  \E v \in Thirds(W, p) : v \in Behind(W, p) /\ Length(v) = Length(w) /\ Instead(v, w, p)
<1>1. PICK v \in Firsts(W, p) : Length(v) = Length(w) /\ DayOf(v[1]) = DayOf(w[1]) /\ v[1] <= w[1]
  BY FirstOfItsDay
<1>2. v \in Behind(W, p) /\ v \in W /\ w \in W BY DEF Firsts, Behind
<1>3. v[1] \in Nat /\ w[1] \in Nat BY <1>2 DEF Wide
<1>4. CASE DayOf(w[1]) \in DatesOf(p)
  <2>1. v \in Thirds(W, p) BY <1>1, <1>4, ThirdsAre
  <2>2. v[1] # w[1]
    <3> SUFFICES ASSUME v[1] = w[1] PROVE FALSE OBVIOUS
    <3>1. w \notin Firsts(W, p) BY <1>4, ThirdsAre
    <3>2. PICK u \in Behind(W, p) : Earlier(u, w) /\ DayOf(u[1]) = DayOf(w[1]) /\ Length(u) = Length(w)
      BY <3>1 DEF Firsts
    <3>3. Earlier(u, v) BY <3>2 DEF Earlier
    <3> QED BY <1>1, <3>2, <3>3 DEF Firsts
  <2>3. Earlier(v, w) BY <1>1, <1>3, <2>2 DEF Earlier
  <2> QED BY <1>1, <1>2, <2>1, <2>3 DEF Instead
<1>5. CASE DayOf(w[1]) \notin DatesOf(p)
  <2>1. v \in Others(W, p) BY <1>1, <1>5 DEF Others
  <2>2. PICK V : V = {u \in Others(W, p) : Length(u) = Length(w)} OBVIOUS
  <2>3. v \in V /\ V \subseteq W BY <1>1, <2>1, <2>2 DEF Others, Firsts, Behind
  <2>4. V \subseteq Nat \X Nat /\ InDays(V) BY <2>3 DEF Wide, InDays
  <2>5. PICK u \in V : \A x \in V : ~Lighter(x, u) BY <2>3, <2>4, LightestWindow
  <2>6. u \in Thirds(W, p)
    <3>1. ~\E x \in Others(W, p) : Length(x) = Length(u) /\ Lighter(x, u) BY <2>2, <2>5
    <3>2. u \in Others(W, p) BY <2>2
    <3> QED BY <3>1, <3>2, ThirdsAre
  <2>7. u \in Behind(W, p) /\ Length(u) = Length(w) /\ DayOf(u[1]) \notin DatesOf(p)
    BY <2>2 DEF Others, Firsts
  <2>8. PICK x \in Nat, y \in Nat : x = load[DayOf(u[1])] /\ y = load[DayOf(w[1])]
    BY <1>2, <2>3 DEF InDays
  <2>9. PICK a \in Nat, b \in Nat, c \in Nat : a = u[1] /\ b = v[1] /\ c = w[1] /\ b <= c
    BY <1>1, <1>3, <2>3 DEF Wide
  <2>10. load[DayOf(v[1])] = y BY <1>1, <2>8
  <2>11. ~Lighter(v, u) BY <2>3, <2>5
  <2>12. ~ (y < x) /\ ~ (y = x /\ b < a) BY <2>8, <2>9, <2>10, <2>11 DEF Lighter, Earlier
  <2>13. x < y \/ (x = y /\ a <= c) BY <2>8, <2>9, <2>12
  <2>14. a = c => u = w
    <3>1. PICK e \in Nat, f \in Nat : u = <<a, e>> /\ w = <<c, f>> BY <1>2, <2>3, <2>9 DEF Wide
    <3>2. e - a = f - c BY <2>7, <3>1 DEF Length
    <3>3. a = c => e = f BY <3>2
    <3> QED BY <3>1, <3>3
  <2>15. u # w BY <2>6
  <2>16. x < y \/ (x = y /\ a < c) BY <2>9, <2>13, <2>14, <2>15
  <2>17. Lighter(u, w) BY <2>8, <2>9, <2>16 DEF Lighter, Earlier
  <2>18. Instead(u, w, p)
    <3>1. CASE DayOf(u[1]) = DayOf(w[1])
      <4>1. x = y BY <2>8, <3>1
      <4>2. Earlier(u, w) BY <2>9, <2>16, <2>8, <4>1 DEF Earlier
      <4> QED BY <3>1, <4>2 DEF Instead
    <3>2. CASE DayOf(u[1]) # DayOf(w[1]) BY <1>5, <2>7, <2>17, <3>2 DEF Instead, Lighter
    <3> QED BY <3>1, <3>2
  <2> QED BY <2>6, <2>7, <2>18
<1> QED BY <1>4, <1>5

\* The fullest day is one of them, and none is fuller.
LEMMA FullestIs ==
  ASSUME NEW c, \A d \in FutureDays : LoadWith(c, d) \in Nat
  PROVE  /\ Fullest(c) \in Nat /\ \E d \in FutureDays : Fullest(c) = LoadWith(c, d)
         /\ \A d \in FutureDays : LoadWith(c, d) <= Fullest(c)
<1>1. PICK f : f = [d \in FutureDays |-> 0 - LoadWith(c, d)] OBVIOUS
<1>2. \A d \in FutureDays : f[d] \in Int BY <1>1
<1>3. PICK x \in FutureDays : \A y \in FutureDays : f[x] <= f[y]
  BY <1>2, FutureDaysAreFinite, LeastCost DEF DaysAreFinite
<1>4. PICK m \in Nat : m = LoadWith(c, x) OBVIOUS
<1>5. ASSUME NEW d \in FutureDays PROVE LoadWith(c, d) <= m
  <2>1. PICK l \in Nat : l = LoadWith(c, d) OBVIOUS
  <2>2. 0 - m <= 0 - l BY <1>1, <1>3, <1>4, <2>1
  <2> QED BY <2>1, <2>2
<1>6. PICK T : T = {LoadWith(c, d) : d \in FutureDays} OBVIOUS
<1>7. T \subseteq Nat /\ T # {} /\ \A k \in T : k <= m
  BY <1>5, <1>6, FutureDaysAreFinite DEF DaysAreFinite
<1>8. Max(T) \in T /\ \A k \in T : k <= Max(T) BY <1>7, MaxIsGreatest
<1>9. Fullest(c) = Max(T) BY <1>6, Zenon DEF Fullest
<1>10. PICK d \in FutureDays : Max(T) = LoadWith(c, d) BY <1>6, <1>8
<1>11. \A e \in FutureDays : LoadWith(c, e) <= Max(T) BY <1>6, <1>8
<1> QED BY <1>7, <1>8, <1>9, <1>10, <1>11

\* Three sessions add to the days they are on.
LoadsOf(c, base, its, extra) ==
  \A d \in FutureDays : LoadWith(c, d) = base[d] + (IF its = d THEN extra ELSE 0)

\* The load of the days with two of them.
WithTwo(x, y, a, b) ==
  [d \in FutureDays |-> load[d] + (IF DayOf(x) = d THEN a ELSE 0) + (IF DayOf(y) = d THEN b ELSE 0)]

\* The load of three sessions is the load of two and the third on its day.
LEMMA LoadOfThree ==
  ASSUME load \in [FutureDays -> Nat], NEW a \in Nat, NEW b \in Nat, NEW l \in Nat, NEW c,
         DOMAIN c = 1 .. 3, Length(c[1]) = a, Length(c[2]) = b, Length(c[3]) = l,
         NEW base, base = WithTwo(c[1][1], c[2][1], a, b)
  PROVE  LoadsOf(c, base, DayOf(c[3][1]), l) /\ base \in [FutureDays -> Nat]
<1>0. base = [d \in FutureDays |-> load[d] + (IF DayOf(c[1][1]) = d THEN a ELSE 0)
                                           + (IF DayOf(c[2][1]) = d THEN b ELSE 0)]
  BY DEF WithTwo
<1>1. ASSUME NEW d \in FutureDays PROVE base[d] \in Nat
  <2>1. PICK m \in Nat : m = load[d] OBVIOUS
  <2>2. base[d] = m + (IF DayOf(c[1][1]) = d THEN a ELSE 0) + (IF DayOf(c[2][1]) = d THEN b ELSE 0) BY <1>0, <2>1
  <2> QED BY <2>2
<1>2. base \in [FutureDays -> Nat] BY <1>0, <1>1
<1>3. ASSUME NEW d \in FutureDays
      PROVE  LoadWith(c, d) = base[d] + (IF DayOf(c[3][1]) = d THEN l ELSE 0)
  <2>1. PICK f : f = [i \in DOMAIN c |-> IF DayOf(c[i][1]) = d THEN Length(c[i]) ELSE 0] OBVIOUS
  <2>2. DOMAIN f = 1 .. 3 BY <2>1
  <2>3. PICK x \in Nat, y \in Nat, z \in Nat :
          /\ x = (IF DayOf(c[1][1]) = d THEN a ELSE 0) /\ y = (IF DayOf(c[2][1]) = d THEN b ELSE 0)
          /\ z = (IF DayOf(c[3][1]) = d THEN l ELSE 0)
    OBVIOUS
  <2>4. f[1] = x /\ f[2] = y /\ f[3] = z
    <3>1. 1 \in 1 .. 3 /\ 2 \in 1 .. 3 /\ 3 \in 1 .. 3 OBVIOUS
    <3>2. f[1] = (IF DayOf(c[1][1]) = d THEN Length(c[1]) ELSE 0) BY <2>1, <3>1
    <3>3. f[2] = (IF DayOf(c[2][1]) = d THEN Length(c[2]) ELSE 0) BY <2>1, <3>1
    <3>4. f[3] = (IF DayOf(c[3][1]) = d THEN Length(c[3]) ELSE 0) BY <2>1, <3>1
    <3> QED BY <2>3, <3>2, <3>3, <3>4
  <2>5. Sum(f, 1 .. 3) = x + y + z
    <3>1. f[1] \in Int /\ f[2] \in Int /\ f[3] \in Int BY <2>4
    <3>2. Sum(f, 1 .. 3) = f[1] + f[2] + f[3] BY <3>1, ShortSums
    <3> QED BY <2>4, <3>2
  <2>6. SumFunction(f) = x + y + z BY <2>2, <2>5, FoldsAreSums
  <2>7. LoadWith(c, d) = load[d] + SumFunction(f) BY <2>1, Zenon DEF LoadWith
  <2>8. PICK m \in Nat : m = load[d] OBVIOUS
  <2>9. base[d] = m + x + y BY <1>0, <2>3, <2>8
  <2>10. LoadWith(c, d) = m + (x + y + z) BY <2>6, <2>7, <2>8
  <2>11. m + (x + y + z) = (m + x + y) + z OBVIOUS
  <2> QED BY <2>3, <2>9, <2>10, <2>11
<1> QED BY <1>2, <1>3 DEF LoadsOf

\* The square of a sum.
LEMMA SquareGrows ==
  ASSUME NEW m \in Nat, NEW l \in Nat, NEW a \in Nat, m <= l
  PROVE  /\ (l * l - (l + a) * (l + a)) + ((m + a) * (m + a) - m * m) <= 0
         /\ m < l /\ a > 0 => (l * l - (l + a) * (l + a)) + ((m + a) * (m + a) - m * m) < 0
<1>1. PICK e \in Nat : l = m + e
  <2>1. l - m \in Nat /\ l = m + (l - m) OBVIOUS
  <2> QED BY <2>1
<1>2. PICK k \in Nat : k = a * e OBVIOUS
<1>3. (l + a) * (l + a) = l * l + 2 * (a * l) + a * a OBVIOUS
<1>4. (m + a) * (m + a) = m * m + 2 * (a * m) + a * a OBVIOUS
<1>5. a * l = a * m + k BY <1>1, <1>2
<1>6. PICK p \in Nat, q \in Nat, r \in Nat, s \in Nat : p = l * l /\ q = m * m /\ r = a * a /\ s = a * m OBVIOUS
<1>7. (l * l - (l + a) * (l + a)) + ((m + a) * (m + a) - m * m)
        = (p - (p + 2 * (s + k) + r)) + ((q + 2 * s + r) - q)
  BY <1>3, <1>4, <1>5, <1>6
<1>8. (p - (p + 2 * (s + k) + r)) + ((q + 2 * s + r) - q) = 0 - 2 * k OBVIOUS
<1>9. m < l /\ a > 0 => k > 0
  <2> SUFFICES ASSUME m < l, a > 0 PROVE k > 0 OBVIOUS
  <2>1. e >= 1 /\ a >= 1 BY <1>1
  <2>2. PICK g \in Nat, h \in Nat : e = g + 1 /\ a = h + 1
    <3>1. e - 1 \in Nat /\ a - 1 \in Nat /\ e = (e - 1) + 1 /\ a = (a - 1) + 1 BY <2>1
    <3> QED BY <3>1
  <2>3. a * e = h * g + h + g + 1 BY <2>2
  <2>4. h * g \in Nat OBVIOUS
  <2> QED BY <1>2, <2>3, <2>4
<1> QED BY <1>7, <1>8, <1>9

SquaresOf(f) == Sum([d \in FutureDays |-> f[d] * f[d]], FutureDays)

\* The squared loads are those of the function of the loads.
LEMMA SquaresAre ==
  ASSUME NEW c, NEW f, f = [d \in FutureDays |-> LoadWith(c, d)]
  PROVE  Squares(c) = SquaresOf(f)
<1>1. PICK g : g = [d \in FutureDays |-> LoadWith(c, d) * LoadWith(c, d)] OBVIOUS
<1>2. DOMAIN g = FutureDays BY <1>1
<1>3. g = [d \in FutureDays |-> f[d] * f[d]] BY <1>1
<1>4. Squares(c) = SumFunction(g) BY <1>1, Zenon DEF Squares
<1>5. SumFunction(g) = Sum(g, FutureDays) BY <1>2, FoldsAreSums
<1> QED BY <1>3, <1>4, <1>5 DEF SquaresOf

\* Minutes that move from a day to one with no more load make no sum of
\* squares larger.
Moved(f, g, x, y, l, m, a) ==
  /\ f \in [FutureDays -> Nat] /\ g \in [FutureDays -> Nat]
  /\ x \in FutureDays /\ y \in FutureDays /\ x # y
  /\ f[x] = l + a /\ g[x] = l /\ f[y] = m /\ g[y] = m + a
  /\ \A d \in FutureDays : d # x /\ d # y => g[d] = f[d]

\* Minutes that move from a day to one that is no fuller leave no larger squares.
LEMMA SquaresShrink ==
  ASSUME NEW l \in Nat, NEW m \in Nat, NEW a \in Nat, m <= l,
         NEW f, NEW g, NEW x, NEW y, Moved(f, g, x, y, l, m, a)
  PROVE  /\ SquaresOf(f) \in Nat /\ SquaresOf(g) \in Nat /\ SquaresOf(g) <= SquaresOf(f)
         /\ m < l /\ a > 0 => SquaresOf(g) < SquaresOf(f)
<1> USE DEF Moved
<1>0. IsFiniteSet(FutureDays) BY FutureDaysAreFinite DEF DaysAreFinite
<1>1. PICK F : F = [d \in FutureDays |-> f[d] * f[d]] OBVIOUS
<1>2. PICK G : G = [d \in FutureDays |-> g[d] * g[d]] OBVIOUS
<1>3. ASSUME NEW d \in FutureDays PROVE F[d] \in Nat /\ G[d] \in Nat
  <2>1. PICK p \in Nat, q \in Nat : p = f[d] /\ q = g[d] OBVIOUS
  <2>2. p * p \in Nat /\ q * q \in Nat OBVIOUS
  <2>3. F[d] = p * p /\ G[d] = q * q BY <1>1, <1>2, <2>1
  <2> QED BY <2>2, <2>3
<1>4. PICK H : H = [d \in FutureDays |-> IF d = x THEN G[x] ELSE F[d]] OBVIOUS
<1>5. /\ F[x] = (l + a) * (l + a) /\ G[x] = l * l /\ F[y] = m * m /\ G[y] = (m + a) * (m + a)
      /\ H[x] = G[x] /\ H[y] = F[y]
  BY <1>1, <1>2, <1>4
<1>6. \A d \in FutureDays : H[d] \in Nat BY <1>3, <1>4
<1>7. ChangesAt(F, H, FutureDays, x) BY <1>3, <1>4, <1>6 DEF ChangesAt
<1>8. ChangesAt(H, G, FutureDays, y)
  <2>1. \A d \in FutureDays : d # y => G[d] = H[d] BY <1>1, <1>2, <1>4
  <2>2. \A d \in FutureDays : H[d] \in Int /\ G[d] \in Int BY <1>3, <1>6
  <2> QED BY <2>1, <2>2 DEF ChangesAt
<1>9. Sum(H, FutureDays) = Sum(F, FutureDays) + (H[x] - F[x]) BY <1>0, <1>7, SumChanges
<1>10. Sum(G, FutureDays) = Sum(H, FutureDays) + (G[y] - H[y]) BY <1>0, <1>8, SumChanges
<1>11. PICK s \in Nat, t \in Nat : s = Sum(F, FutureDays) /\ t = Sum(G, FutureDays)
  BY <1>0, <1>3, SumNatural
<1>12. PICK u \in Int, v \in Int : /\ u = l * l - (l + a) * (l + a) /\ v = (m + a) * (m + a) - m * m
  OBVIOUS
<1>13. H[x] - F[x] = u /\ G[y] - H[y] = v BY <1>5, <1>12
<1>14. t = (s + u) + v BY <1>9, <1>10, <1>11, <1>13
<1>15. u + v <= 0 /\ (m < l /\ a > 0 => u + v < 0) BY <1>12, SquareGrows
<1>16. t <= s /\ (m < l /\ a > 0 => t < s) BY <1>14, <1>15
<1>17. SquaresOf(f) = s /\ SquaresOf(g) = t BY <1>1, <1>2, <1>11 DEF SquaresOf
<1> QED BY <1>16, <1>17

\* Sessions at the heads of three windows: how long they are depends on the
\* lengths of the windows alone.
LEMMA SameAmounts ==
  ASSUME NEW p \in (Nat \X Nat) \X (Nat \X Nat), NEW v \in Nat \X Nat, NEW w \in Nat \X Nat,
         Length(v) = Length(w)
  PROVE  Lengths(<<p[1], p[2], v>>) = Lengths(<<p[1], p[2], w>>)
<1>1. PICK V, U : V = <<p[1], p[2], v>> /\ U = <<p[1], p[2], w>> OBVIOUS
<1>2. DOMAIN V = 1 .. 3 /\ DOMAIN U = 1 .. 3 BY <1>1
<1>3. ASSUME NEW i \in 1 .. 3 PROVE Length(V[i]) = Length(U[i])
  <2>1. i = 1 \/ i = 2 \/ i = 3 OBVIOUS
  <2>2. V[1] = U[1] /\ V[2] = U[2] /\ V[3] = v /\ U[3] = w BY <1>1
  <2> QED BY <2>1, <2>2
<1>4. Lengths(V) = [i \in 1 .. 3 |-> Length(V[i])] /\ Lengths(U) = [i \in 1 .. 3 |-> Length(U[i])]
  BY <1>2 DEF Lengths
<1>5. Lengths(V) = Lengths(U) BY <1>3, <1>4
<1> QED BY <1>1, <1>5

\* What three windows become, when they become anything.
LEMMA ThreeAre ==
  ASSUME NEW W, Wide(W), Remaining(Turn) \in Nat, NEW p \in W \X W, NEW w \in W,
         Across(<<p[1], p[2], w>>) # <<>>
  PROVE  \E a \in Nat, b \in Nat, l \in Nat :
           /\ l >= MinSegment /\ FitLengths(Remaining(Turn), Lengths(<<p[1], p[2], w>>)) = <<a, b, l>>
           /\ Across(<<p[1], p[2], w>>) = << <<p[1][1], p[1][1] + a>>, <<p[2][1], p[2][1] + b>>, <<w[1], w[1] + l>> >>
<1>1. PICK chosen : chosen = <<p[1], p[2], w>> OBVIOUS
<1>2. PICK amounts : amounts = FitLengths(Remaining(Turn), Lengths(chosen)) OBVIOUS
<1>3. Across(chosen) = [i \in DOMAIN amounts |-> <<chosen[i][1], chosen[i][1] + amounts[i]>>]
  BY <1>2, Zenon DEF Across
<1>4. amounts # <<>>
  <2>1. amounts = <<>> => DOMAIN amounts = {} OBVIOUS
  <2>2. DOMAIN amounts = {} => Across(chosen) = <<>> BY <1>3
  <2> QED BY <1>1, <2>1, <2>2
<1>5. chosen \in [1 .. 3 -> Nat \X Nat] /\ \A i \in 1 .. 3 : chosen[i][1] < chosen[i][2]
  <2>1. p[1] \in W /\ p[2] \in W OBVIOUS
  <2>2. chosen \in [1 .. 3 -> W] BY <1>1, <2>1
  <2> QED BY <2>2 DEF Wide
<1>6. Lengths(chosen) \in [1 .. 3 -> Nat] BY <1>5, LengthsTyped
<1>7. /\ amounts \in [1 .. 3 -> Nat]
      /\ \A i \in 1 .. 3 : MinSegment <= amounts[i] /\ amounts[i] <= Lengths(chosen)[i]
  <2>1. 3 \in Nat OBVIOUS
  <2> QED BY <1>2, <1>4, <1>6, <2>1, FittedLengths
<1>8. amounts = <<amounts[1], amounts[2], amounts[3]>> BY <1>7
<1>9. PICK a \in Nat, b \in Nat, l \in Nat : a = amounts[1] /\ b = amounts[2] /\ l = amounts[3] BY <1>7
<1>10. l >= MinSegment BY <1>7, <1>9 DEF MinSegment
<1>11. amounts = <<a, b, l>> /\ DOMAIN amounts = 1 .. 3 BY <1>7, <1>8, <1>9
<1>12. chosen[1] = p[1] /\ chosen[2] = p[2] /\ chosen[3] = w BY <1>1
<1>13. Across(chosen) = << <<p[1][1], p[1][1] + a>>, <<p[2][1], p[2][1] + b>>, <<w[1], w[1] + l>> >>
  <2>1. Across(chosen) = [i \in 1 .. 3 |-> <<chosen[i][1], chosen[i][1] + amounts[i]>>] BY <1>3, <1>11
  <2>2. /\ Across(chosen)[1] = <<p[1][1], p[1][1] + a>> /\ Across(chosen)[2] = <<p[2][1], p[2][1] + b>>
        /\ Across(chosen)[3] = <<w[1], w[1] + l>>
    BY <1>9, <1>12, <2>1
  <2>3. DOMAIN Across(chosen) = 1 .. 3 BY <2>1
  <2>4. Across(chosen) = <<Across(chosen)[1], Across(chosen)[2], Across(chosen)[3]>> BY <2>1
  <2> QED BY <2>2, <2>4
<1> QED BY <1>1, <1>2, <1>10, <1>11, <1>13

\* Three sessions, and the numbers they are made of.
Three(c, x, y, z, a, b, l) == c = << <<x, x + a>>, <<y, y + b>>, <<z, z + l>> >>

\* Three sessions, as a sequence.
LEMMA ThreeTyped ==
  ASSUME NEW c, NEW x \in Nat, NEW y \in Nat, NEW z \in Nat, NEW a \in Nat, NEW b \in Nat, NEW l \in Nat,
         Three(c, x, y, z, a, b, l)
  PROVE  /\ DOMAIN c = 1 .. 3 /\ Len(c) = 3 /\ Lengths(c) = <<a, b, l>>
         /\ c[1][1] = x /\ c[2][1] = y /\ c[3][1] = z
         /\ Length(c[1]) = a /\ Length(c[2]) = b /\ Length(c[3]) = l
<1>1. DOMAIN c = 1 .. 3 /\ Len(c) = 3 BY DEF Three
<1>2. c[1] = <<x, x + a>> /\ c[2] = <<y, y + b>> /\ c[3] = <<z, z + l>> BY DEF Three
<1>3. c[1][1] = x /\ c[2][1] = y /\ c[3][1] = z BY <1>2
<1>4. (x + a) - x = a /\ (y + b) - y = b /\ (z + l) - z = l OBVIOUS
<1>5. Length(c[1]) = a /\ Length(c[2]) = b /\ Length(c[3]) = l BY <1>2, <1>4 DEF Length
<1>6. Lengths(c) = [i \in 1 .. 3 |-> Length(c[i])] BY <1>1 DEF Lengths
<1>7. Lengths(c) = <<a, b, l>>
  <2>1. Lengths(c)[1] = a /\ Lengths(c)[2] = b /\ Lengths(c)[3] = l BY <1>5, <1>6
  <2>2. Lengths(c) = <<Lengths(c)[1], Lengths(c)[2], Lengths(c)[3]>> BY <1>6
  <2> QED BY <2>1, <2>2
<1> QED BY <1>1, <1>3, <1>5, <1>7

\* The third session moved to the head of the other window: no day is fuller,
\* and the days are more even or the session is earlier.
LEMMA ThirdMoved ==
  ASSUME load \in [FutureDays -> Nat], NEW preferred,
         NEW x \in Nat, NEW y \in Nat, NEW z \in Nat, NEW z2 \in Nat,
         NEW a \in Nat, NEW b \in Nat, NEW l \in Nat, l > 0,
         NEW c, Three(c, x, y, z2, a, b, l), NEW d, Three(d, x, y, z, a, b, l),
         DayOf(z) \in FutureDays, DayOf(z2) \in FutureDays,
         \/ DayOf(z2) = DayOf(z) /\ z2 < z
         \/ /\ DayOf(z2) # DayOf(z) /\ {DayOf(z), DayOf(z2)} \cap {DayOf(x), DayOf(y)} = {}
            /\ \/ load[DayOf(z2)] < load[DayOf(z)]
               \/ load[DayOf(z2)] = load[DayOf(z)] /\ z2 < z
  PROVE  Surpasses(c, d, preferred)
<1>1. /\ DOMAIN c = 1 .. 3 /\ Len(c) = 3 /\ Lengths(c) = <<a, b, l>>
      /\ c[1][1] = x /\ c[2][1] = y /\ c[3][1] = z2
      /\ Length(c[1]) = a /\ Length(c[2]) = b /\ Length(c[3]) = l
  BY ThreeTyped
<1>2. /\ DOMAIN d = 1 .. 3 /\ Len(d) = 3 /\ Lengths(d) = <<a, b, l>>
      /\ d[1][1] = x /\ d[2][1] = y /\ d[3][1] = z
      /\ Length(d[1]) = a /\ Length(d[2]) = b /\ Length(d[3]) = l
  BY ThreeTyped
<1>3. Quality(Lengths(c), preferred) = Quality(Lengths(d), preferred) /\ Len(c) = Len(d)
  BY <1>1, <1>2, Zenon
<1>4. PICK base : base = WithTwo(x, y, a, b) OBVIOUS
<1>5. base \in [FutureDays -> Nat] /\ LoadsOf(c, base, DayOf(z2), l)
  <2>1. base = WithTwo(c[1][1], c[2][1], a, b) BY <1>1, <1>4
  <2>2. LoadsOf(c, base, DayOf(c[3][1]), l) /\ base \in [FutureDays -> Nat]
    BY <1>1, <2>1, LoadOfThree
  <2> QED BY <1>1, <2>2
<1>6. LoadsOf(d, base, DayOf(z), l)
  <2>1. base = WithTwo(d[1][1], d[2][1], a, b) BY <1>2, <1>4
  <2>2. LoadsOf(d, base, DayOf(d[3][1]), l) BY <1>2, <2>1, LoadOfThree
  <2> QED BY <1>2, <2>2
<1>7. PICK f : f = [e \in FutureDays |-> LoadWith(d, e)] OBVIOUS
<1>8. PICK g : g = [e \in FutureDays |-> LoadWith(c, e)] OBVIOUS
<1>9. \A e \in FutureDays : /\ f[e] = base[e] + (IF DayOf(z) = e THEN l ELSE 0)
                            /\ g[e] = base[e] + (IF DayOf(z2) = e THEN l ELSE 0)
  BY <1>5, <1>6, <1>7, <1>8 DEF LoadsOf
<1>10. ASSUME NEW e \in FutureDays PROVE f[e] \in Nat /\ g[e] \in Nat
  <2>1. PICK m \in Nat : m = base[e] BY <1>5
  <2>2. f[e] = m + (IF DayOf(z) = e THEN l ELSE 0) /\ g[e] = m + (IF DayOf(z2) = e THEN l ELSE 0)
    BY <1>9, <2>1
  <2> QED BY <2>2
<1>11. f \in [FutureDays -> Nat] /\ g \in [FutureDays -> Nat] BY <1>7, <1>8, <1>10
<1>12. Squares(d) = SquaresOf(f) /\ Squares(c) = SquaresOf(g) BY <1>7, <1>8, SquaresAre
<1>13. /\ Fullest(d) \in Nat /\ \A e \in FutureDays : f[e] <= Fullest(d)
       /\ Fullest(c) \in Nat /\ \E e \in FutureDays : Fullest(c) = g[e]
  <2>1. \A e \in FutureDays : f[e] = LoadWith(d, e) /\ g[e] = LoadWith(c, e) BY <1>7, <1>8
  <2>2. \A e \in FutureDays : LoadWith(d, e) \in Nat /\ LoadWith(c, e) \in Nat BY <1>10, <2>1
  <2>3. /\ Fullest(d) \in Nat /\ \A e \in FutureDays : LoadWith(d, e) <= Fullest(d) BY <2>2, FullestIs
  <2>4. /\ Fullest(c) \in Nat /\ \E e \in FutureDays : Fullest(c) = LoadWith(c, e) BY <2>2, FullestIs
  <2> QED BY <2>1, <2>3, <2>4
<1>14. ASSUME z2 < z PROVE StartsBefore(c, d)
  <2>1. 3 \in DOMAIN c /\ c[3][1] < d[3][1] BY <1>1, <1>2, <1>14
  <2>2. ASSUME NEW j \in 1 .. 3 - 1 PROVE c[j][1] = d[j][1]
    <3>1. j = 1 \/ j = 2 OBVIOUS
    <3> QED BY <1>1, <1>2, <3>1
  <2> QED BY <2>1, <2>2 DEF StartsBefore
<1>15. CASE DayOf(z2) = DayOf(z) /\ z2 < z
  <2>1. \A e \in FutureDays : f[e] = g[e] BY <1>9, <1>15
  <2>2. f = g BY <1>11, <2>1
  <2>3. Squares(c) = Squares(d) BY <1>12, <2>2
  <2>4. Fullest(c) <= Fullest(d) BY <1>13, <2>2
  <2>5. Squares(d) \in Nat
    <3>1. \A e \in FutureDays : LoadWith(d, e) \in Nat BY <1>7, <1>10
    <3> QED BY <3>1, SquaresTyped
  <2>6. Squares(c) <= Squares(d) BY <2>3, <2>5
  <2> QED BY <1>3, <1>14, <1>15, <2>4, <2>6 DEF Surpasses
<1>16. CASE /\ DayOf(z2) # DayOf(z) /\ {DayOf(z), DayOf(z2)} \cap {DayOf(x), DayOf(y)} = {}
            /\ \/ load[DayOf(z2)] < load[DayOf(z)]
               \/ load[DayOf(z2)] = load[DayOf(z)] /\ z2 < z
  <2>1. PICK u, v : u = DayOf(z) /\ v = DayOf(z2) OBVIOUS
  <2>2. u \in FutureDays /\ v \in FutureDays /\ u # v /\ DayOf(x) \notin {u, v} /\ DayOf(y) \notin {u, v}
    BY <1>16, <2>1
  <2>3. PICK m \in Nat, n \in Nat : m = load[v] /\ n = load[u] BY <2>2
  <2>4. base[v] = m /\ base[u] = n
    <3>1. base[v] = load[v] + 0 + 0 BY <1>4, <2>2 DEF WithTwo
    <3>2. base[u] = load[u] + 0 + 0 BY <1>4, <2>2 DEF WithTwo
    <3> QED BY <2>3, <3>1, <3>2
  <2>5. f[u] = n + l /\ g[u] = n /\ f[v] = m /\ g[v] = m + l
    <3>1. f[u] = base[u] + l /\ g[v] = base[v] + l BY <1>9, <2>1, <2>2
    <3>2. f[v] = base[v] + 0 /\ g[u] = base[u] + 0 BY <1>9, <2>1, <2>2
    <3>3. m + 0 = m /\ n + 0 = n OBVIOUS
    <3> QED BY <2>4, <3>1, <3>2, <3>3
  <2>6. \A e \in FutureDays : e # u /\ e # v => g[e] = f[e] BY <1>9, <2>1
  <2>7. m <= n /\ (m = n => z2 < z) BY <1>16, <2>1, <2>3
  <2>8. /\ SquaresOf(f) \in Nat /\ SquaresOf(g) \in Nat /\ SquaresOf(g) <= SquaresOf(f)
        /\ m < n /\ l > 0 => SquaresOf(g) < SquaresOf(f)
    <3>1. Moved(f, g, u, v, n, m, l) BY <1>11, <2>2, <2>5, <2>6 DEF Moved
    <3> QED BY <2>7, <3>1, SquaresShrink
  <2>9. Squares(c) <= Squares(d) /\ (m < n => Squares(c) < Squares(d)) BY <1>12, <2>8
  <2>10. Fullest(c) <= Fullest(d)
    <3>1. PICK e \in FutureDays : Fullest(c) = g[e] BY <1>13
    <3>2. \E o \in FutureDays : g[e] <= f[o]
      <4>1. PICK k \in Nat : k = g[e] BY <1>11
      <4>2. CASE e = u \/ e = v
        <5>1. k <= n + l BY <2>5, <2>7, <4>1, <4>2
        <5> QED BY <2>2, <2>5, <4>1, <5>1
      <4>3. CASE e # u /\ e # v
        <5>1. g[e] = f[e] /\ k <= k BY <2>6, <4>3
        <5> QED BY <4>1, <5>1
      <4> QED BY <4>2, <4>3
    <3>3. PICK o \in FutureDays : g[e] <= f[o] BY <3>2
    <3>4. f[o] <= Fullest(d) BY <1>13
    <3>5. g[e] \in Nat /\ f[o] \in Nat BY <1>11
    <3> QED BY <1>13, <3>1, <3>3, <3>4, <3>5
  <2>11. m < n \/ m = n BY <2>7
  <2> QED BY <1>3, <1>14, <2>7, <2>9, <2>10, <2>11 DEF Surpasses
<1> QED BY <1>15, <1>16

AllTriples(W) == UNION {{Across(<<p[1], p[2], w>>) : w \in Behind(W, p)} : p \in Pairs(W)}
AllOf(W) == (Smaller(W) \cup AllTriples(W)) \ {<<>>}

\* Sessions in any three windows are surpassed by some that are looked at.
LEMMA LookedAtIsBetter ==
  ASSUME load \in [FutureDays -> Nat], NEW W, Wide(W), InDays(W), Remaining(Turn) \in Nat, NEW preferred,
         NEW d \in AllOf(W) \ Candidates(W)
  PROVE  \E c \in Candidates(W) : Surpasses(c, d, preferred)
<1>1. d # <<>> /\ d \in AllTriples(W) /\ d \notin Triples(W) BY DEF AllOf, Candidates
<1>2. PICK p \in Pairs(W) : d \in {Across(<<p[1], p[2], w>>) : w \in Behind(W, p)}
  BY <1>1, Zenon DEF AllTriples
<1>3. PICK w \in Behind(W, p) : d = Across(<<p[1], p[2], w>>) BY <1>2
<1>4. w \notin Thirds(W, p)
  <2> SUFFICES ASSUME w \in Thirds(W, p) PROVE FALSE OBVIOUS
  <2>1. d \in {Across(<<p[1], p[2], u>>) : u \in Thirds(W, p)} BY <1>3
  <2>2. d \in Triples(W) BY <2>1, Zenon DEF Triples
  <2> QED BY <1>1, <2>2
<1>5. PICK v \in Thirds(W, p) : v \in Behind(W, p) /\ Length(v) = Length(w) /\ Instead(v, w, p)
  BY <1>4, AnotherThird
<1>6. p \in W \X W /\ w \in W /\ v \in W BY <1>5 DEF Pairs, Behind
<1>7. p[1] \in W /\ p[2] \in W BY <1>6
<1>8. w \in Nat \X Nat /\ v \in Nat \X Nat /\ p[1] \in Nat \X Nat /\ p[2] \in Nat \X Nat
  BY <1>6, <1>7 DEF Wide
<1>9. PICK a \in Nat, b \in Nat, l \in Nat :
        /\ l >= MinSegment /\ FitLengths(Remaining(Turn), Lengths(<<p[1], p[2], w>>)) = <<a, b, l>>
        /\ d = << <<p[1][1], p[1][1] + a>>, <<p[2][1], p[2][1] + b>>, <<w[1], w[1] + l>> >>
  BY <1>1, <1>3, <1>6, ThreeAre
<1>10. Lengths(<<p[1], p[2], v>>) = Lengths(<<p[1], p[2], w>>)
  <2>1. p \in (Nat \X Nat) \X (Nat \X Nat) BY <1>6, <1>8
  <2> QED BY <1>5, <1>8, <2>1, SameAmounts
<1>11. FitLengths(Remaining(Turn), Lengths(<<p[1], p[2], v>>)) = <<a, b, l>> BY <1>9, <1>10, Zenon
<1>12. PICK c : c = Across(<<p[1], p[2], v>>) OBVIOUS
<1>13. c # <<>>
  <2>1. PICK amounts : amounts = <<a, b, l>> OBVIOUS
  <2>2. PICK chosen : chosen = <<p[1], p[2], v>> OBVIOUS
  <2>3. FitLengths(Remaining(Turn), Lengths(chosen)) = amounts BY <1>11, <2>1, <2>2
  <2>4. c = [i \in DOMAIN amounts |-> <<chosen[i][1], chosen[i][1] + amounts[i]>>]
    BY <1>12, <2>2, <2>3, Zenon DEF Across
  <2>5. DOMAIN c = 1 .. 3 BY <2>1, <2>4
  <2> QED BY <2>5
<1>14. PICK a2 \in Nat, b2 \in Nat, l2 \in Nat :
        /\ l2 >= MinSegment /\ FitLengths(Remaining(Turn), Lengths(<<p[1], p[2], v>>)) = <<a2, b2, l2>>
        /\ c = << <<p[1][1], p[1][1] + a2>>, <<p[2][1], p[2][1] + b2>>, <<v[1], v[1] + l2>> >>
  BY <1>6, <1>12, <1>13, ThreeAre
<1>15. a2 = a /\ b2 = b /\ l2 = l
  <2>1. <<a2, b2, l2>> = <<a, b, l>> BY <1>11, <1>14
  <2> QED BY <2>1
<1>16. c \in Candidates(W)
  <2>1. c \in {Across(<<p[1], p[2], u>>) : u \in Thirds(W, p)} BY <1>12
  <2>2. c \in Triples(W) BY <2>1, Zenon DEF Triples
  <2> QED BY <1>13, <2>2 DEF Candidates
<1>17. PICK x \in Nat, y \in Nat, z \in Nat, z2 \in Nat :
         x = p[1][1] /\ y = p[2][1] /\ z = w[1] /\ z2 = v[1]
  BY <1>8
<1>18. Three(d, x, y, z, a, b, l) BY <1>9, <1>17 DEF Three
<1>19. Three(c, x, y, z2, a, b, l) BY <1>14, <1>15, <1>17 DEF Three
<1>20. l > 0 BY <1>9 DEF MinSegment
<1>21. DayOf(z) \in FutureDays /\ DayOf(z2) \in FutureDays BY <1>6, <1>17 DEF InDays
<1>22. \/ DayOf(z2) = DayOf(z) /\ z2 < z
       \/ /\ DayOf(z2) # DayOf(z) /\ {DayOf(z), DayOf(z2)} \cap {DayOf(x), DayOf(y)} = {}
          /\ \/ load[DayOf(z2)] < load[DayOf(z)]
             \/ load[DayOf(z2)] = load[DayOf(z)] /\ z2 < z
  BY <1>5, <1>17 DEF Instead, Earlier, DatesOf
<1>23. Surpasses(c, d, preferred) BY <1>18, <1>19, <1>20, <1>21, <1>22, ThirdMoved
<1> QED BY <1>16, <1>23

\* Everything that might be looked at is sessions of the whole task.
LEMMA AllAreSessions ==
  ASSUME NEW W, Wide(W), Remaining(Turn) \in Nat
  PROVE  SessionsOver(AllOf(W)) /\ Candidates(W) \subseteq AllOf(W)
<1>1. ASSUME NEW c \in AllOf(W) PROVE SessionsIn(c, W, Remaining(Turn))
  <2>1. CASE c \in Smaller(W)
    <3>1. c \in Candidates(W) BY <2>1 DEF AllOf, Candidates
    <3> QED BY <3>1, CandidatesAre
  <2>2. CASE c \in AllTriples(W)
    <3>0. PICK p \in Pairs(W) : c \in {Across(<<p[1], p[2], w>>) : w \in Behind(W, p)}
      BY <2>2, Zenon DEF AllTriples
    <3>1. PICK w \in Behind(W, p) : c = Across(<<p[1], p[2], w>>) BY <3>0
    <3>2. p \in W \X W /\ w \in W BY DEF Pairs, Behind
    <3>3. 3 \in 1 .. MaxSegments /\ <<p[1], p[2], w>> \in [1 .. 3 -> W] BY <3>2 DEF MaxSegments
    <3>4. c # <<>> BY DEF AllOf
    <3> QED BY <3>1, <3>3, <3>4, AcrossIs
  <2> QED BY <2>1, <2>2 DEF AllOf
<1>2. SessionsOver(AllOf(W)) BY <1>1 DEF SessionsOver, SessionsIn
<1>3. \A p \in Pairs(W) : Thirds(W, p) \subseteq Behind(W, p) BY ThirdsAre DEF Firsts, Others
<1>4. Triples(W) \subseteq AllTriples(W)
  <2> SUFFICES ASSUME NEW c \in Triples(W) PROVE c \in AllTriples(W) OBVIOUS
  <2>1. PICK p \in Pairs(W) : c \in {Across(<<p[1], p[2], w>>) : w \in Thirds(W, p)}
    BY Zenon DEF Triples
  <2>2. PICK w \in Thirds(W, p) : c = Across(<<p[1], p[2], w>>) BY <2>1
  <2>3. w \in Behind(W, p) BY <1>3
  <2>4. c \in {Across(<<p[1], p[2], u>>) : u \in Behind(W, p)} BY <2>2, <2>3
  <2> QED BY <2>4, Zenon DEF AllTriples
<1> QED BY <1>2, <1>4 DEF AllOf, Candidates

\* The options of the task whose turn it is are such.
LEMMA OptionsLookedAt ==
  ASSUME FuturePlanInv, ranked # <<>>
  PROVE  /\ load \in [FutureDays -> Nat] /\ Preferred \in Nat
         /\ SessionsOver(AllOf(Options)) /\ Candidates(Options) \subseteq AllOf(Options)
         /\ \A d \in AllOf(Options) \ Candidates(Options) :
              \E c \in Candidates(Options) : Surpasses(c, d, Preferred)
<1>0. FutureTyped BY DEF FuturePlanInv
<1>1. Remaining(Turn) \in Nat BY <1>0, TurnIsOne, WantedTyped DEF FutureTyped
<1>2. Wide(Options) BY <1>0, OptionsAre
<1>3. InDays(Options)
  <2> SUFFICES ASSUME NEW w \in Options PROVE DayOf(w[1]) \in FutureDays BY DEF InDays
  <2>1. PICK date \in FutureDays : WindowOf(w, occupied, date, OpensAt(Turn), ClosesAt(Turn))
    BY <1>0, OptionsAre
  <2>2. PICK s \in Nat, e \in Nat : s = w[1] /\ e = w[2] BY <2>1 DEF WindowOf
  <2>3. date \in Nat BY DEF FutureDays
  <2>4. date * 1440 <= s /\ s < e /\ e <= (date + 1) * 1440 BY <2>1, <2>2 DEF WindowOf
  <2>5. s \div 1440 = date BY <2>3, <2>4
  <2> QED BY <2>2, <2>5 DEF DayOf
<1>4. Most(Remaining(Turn), 1) \in Nat BY <1>1 DEF Most
<1>5. Preferred \in Nat BY <1>4, PreferredTyped, Zenon DEF Preferred
<1>6. load \in [FutureDays -> Nat] BY <1>0 DEF FutureTyped
<1>7. SessionsOver(AllOf(Options)) /\ Candidates(Options) \subseteq AllOf(Options)
  BY <1>1, <1>2, AllAreSessions
<1>8. \A d \in AllOf(Options) \ Candidates(Options) :
        \E c \in Candidates(Options) : Surpasses(c, d, Preferred)
  BY <1>1, <1>2, <1>3, <1>6, LookedAtIsBetter
<1> QED BY <1>5, <1>6, <1>7, <1>8

\* Where there is anything to choose from, something is looked at.
LEMMA AllOrNone ==
  ASSUME FuturePlanInv, ranked # <<>>, AllOf(Options) # {}
  PROVE  Candidates(Options) # {}
<1>1. PICK d \in AllOf(Options) : TRUE OBVIOUS
<1>2. CASE d \in Candidates(Options) BY <1>2
<1>3. CASE d \notin Candidates(Options)
  <2>1. \E c \in Candidates(Options) : Surpasses(c, d, Preferred) BY <1>3, OptionsLookedAt
  <2> QED BY <2>1
<1> QED BY <1>2, <1>3

\* The reduction of the search is exact.
LEMMA ReductionOfAny ==
  ASSUME FuturePlanInv, ranked # <<>>, AllOf(Options) # {}
  PROVE  BestOf(Candidates(Options), Preferred) = BestOf(AllOf(Options), Preferred)
  BY OptionsLookedAt, FewerWillDo

-----------------------------------------------------------------------------
(* The order of the tasks *)

\* Keys of five numbers, compared one number after the other.
Keys == [1 .. 5 -> Int]
KeyLess(k, m) ==
  \/ k[1] < m[1]
  \/ k[1] = m[1] /\ \/ k[2] < m[2]
                    \/ k[2] = m[2] /\ \/ k[3] < m[3]
                                      \/ k[3] = m[3] /\ \/ k[4] < m[4]
                                                        \/ k[4] = m[4] /\ k[5] < m[5]

\* The parts of a key are numbers.
LEMMA KeyNumbers ==
  ASSUME NEW k \in Keys
  PROVE  k[1] \in Int /\ k[2] \in Int /\ k[3] \in Int /\ k[4] \in Int /\ k[5] \in Int
  BY DEF Keys

\* The first difference decides.
LEMMA FirstDifference ==
  ASSUME NEW k \in Keys, NEW m \in Keys, k[5] # m[5],
         NEW i, i = Min({j \in 1 .. 5 : k[j] # m[j]})
  PROVE  k[i] < m[i] <=> KeyLess(k, m)
<1>1. PICK D : D = {j \in 1 .. 5 : k[j] # m[j]} OBVIOUS
<1>2. D \subseteq Nat /\ 5 \in D BY <1>1
<1>3. i \in D /\ \A j \in D : i <= j BY <1>1, <1>2, MinIsLeast
<1>4. i \in 1 .. 5 /\ k[i] # m[i] BY <1>1, <1>3
<1>5. \A j \in 1 .. 5 : j < i => k[j] = m[j]
  <2> SUFFICES ASSUME NEW j \in 1 .. 5, j < i, k[j] # m[j] PROVE FALSE OBVIOUS
  <2>1. i <= j BY <1>1, <1>3
  <2> QED BY <1>4, <2>1
<1>6. PICK a \in Int, b \in Int, c \in Int, d \in Int, e \in Int :
        a = k[1] /\ b = k[2] /\ c = k[3] /\ d = k[4] /\ e = k[5]
  BY KeyNumbers
<1>7. PICK p \in Int, q \in Int, r \in Int, s \in Int, t \in Int :
        p = m[1] /\ q = m[2] /\ r = m[3] /\ s = m[4] /\ t = m[5]
  BY KeyNumbers
<1>8. CASE i = 1 BY <1>4, <1>6, <1>7, <1>8 DEF KeyLess
<1>9. CASE i = 2
  <2>1. a = p /\ b # q BY <1>4, <1>5, <1>6, <1>7, <1>9
  <2> QED BY <1>6, <1>7, <1>9, <2>1 DEF KeyLess
<1>10. CASE i = 3
  <2>1. a = p /\ b = q /\ c # r BY <1>4, <1>5, <1>6, <1>7, <1>10
  <2> QED BY <1>6, <1>7, <1>10, <2>1 DEF KeyLess
<1>11. CASE i = 4
  <2>1. a = p /\ b = q /\ c = r /\ d # s BY <1>4, <1>5, <1>6, <1>7, <1>11
  <2> QED BY <1>6, <1>7, <1>11, <2>1 DEF KeyLess
<1>12. CASE i = 5
  <2>1. a = p /\ b = q /\ c = r /\ d = s BY <1>5, <1>6, <1>7, <1>12
  <2> QED BY <1>6, <1>7, <1>12, <2>1 DEF KeyLess
<1> QED BY <1>4, <1>8, <1>9, <1>10, <1>11, <1>12

\* Keys that differ in their last numbers are in one order only.
LEMMA KeysInOrder ==
  /\ \A k, m \in Keys : ~ (KeyLess(k, m) /\ KeyLess(m, k))
  /\ \A k, m \in Keys : k[5] # m[5] => KeyLess(k, m) \/ KeyLess(m, k)
  /\ \A k, m, n \in Keys : KeyLess(k, m) /\ KeyLess(m, n) => KeyLess(k, n)
<1>1. ASSUME NEW k \in Keys, NEW m \in Keys, NEW n \in Keys
      PROVE  /\ ~ (KeyLess(k, m) /\ KeyLess(m, k))
             /\ k[5] # m[5] => KeyLess(k, m) \/ KeyLess(m, k)
             /\ KeyLess(k, m) /\ KeyLess(m, n) => KeyLess(k, n)
  <2>1. PICK a \in Int, b \in Int, c \in Int, d \in Int, e \in Int :
          a = k[1] /\ b = k[2] /\ c = k[3] /\ d = k[4] /\ e = k[5]
    BY KeyNumbers
  <2>2. PICK p \in Int, q \in Int, r \in Int, s \in Int, t \in Int :
          p = m[1] /\ q = m[2] /\ r = m[3] /\ s = m[4] /\ t = m[5]
    BY KeyNumbers
  <2>3. PICK f \in Int, g \in Int, h \in Int, i \in Int, j \in Int :
          f = n[1] /\ g = n[2] /\ h = n[3] /\ i = n[4] /\ j = n[5]
    BY KeyNumbers
  <2>4. ~ (KeyLess(k, m) /\ KeyLess(m, k)) BY <2>1, <2>2 DEF KeyLess
  <2>5. k[5] # m[5] => KeyLess(k, m) \/ KeyLess(m, k) BY <2>1, <2>2 DEF KeyLess
  <2>6. KeyLess(k, m) /\ KeyLess(m, n) => KeyLess(k, n) BY <2>1, <2>2, <2>3 DEF KeyLess
  <2> QED BY <2>4, <2>5, <2>6
<1> QED BY <1>1

\* Keys whose fourth numbers agree with the order of the fifth are in the same
\* order without the fourth.
LEMMA WithoutTheFourth ==
  ASSUME NEW k \in Keys, NEW m \in Keys, NEW k2 \in Keys, NEW m2 \in Keys,
         k[1] = k2[1] /\ k[2] = k2[2] /\ k[3] = k2[3] /\ k[5] = k2[5],
         m[1] = m2[1] /\ m[2] = m2[2] /\ m[3] = m2[3] /\ m[5] = m2[5],
         k2[4] = m2[4], k[4] < m[4] => k[5] < m[5], m[4] < k[4] => m[5] < k[5]
  PROVE  KeyLess(k2, m2) <=> KeyLess(k, m)
<1>1. PICK a \in Int, b \in Int, c \in Int, d \in Int, e \in Int :
        a = k[1] /\ b = k[2] /\ c = k[3] /\ d = k[4] /\ e = k[5]
  BY KeyNumbers
<1>2. PICK p \in Int, q \in Int, r \in Int, s \in Int, t \in Int :
        p = m[1] /\ q = m[2] /\ r = m[3] /\ s = m[4] /\ t = m[5]
  BY KeyNumbers
<1>3. d < s => e < t BY <1>1, <1>2
<1>4. s < d => t < e BY <1>1, <1>2
<1>5. PICK z \in Int : z = k2[4] /\ z = m2[4] BY KeyNumbers
<1>6. KeyLess(k, m) <=> \/ a < p
                        \/ a = p /\ \/ b < q
                                    \/ b = q /\ (c < r \/ (c = r /\ (d < s \/ (d = s /\ e < t))))
  BY <1>1, <1>2 DEF KeyLess
<1>7. KeyLess(k2, m2) <=> \/ a < p
                          \/ a = p /\ \/ b < q
                                      \/ b = q /\ (c < r \/ (c = r /\ (z < z \/ (z = z /\ e < t))))
  BY <1>1, <1>2, <1>5 DEF KeyLess
<1>8. (d < s \/ (d = s /\ e < t)) <=> (z < z \/ (z = z /\ e < t)) BY <1>3, <1>4
<1> QED BY <1>6, <1>7, <1>8

\* The places of tasks with such keys are different numbers.
LEMMA PlacesApart ==
  ASSUME NEW T, IsFiniteSet(T), NEW K \in [T -> Keys], \A t, u \in T : t # u => K[t][5] # K[u][5],
         NEW R, R = [t \in T |-> Cardinality({u \in T \ {t} : KeyLess(K[u], K[t])})]
  PROVE  R \in [T -> Nat] /\ \A t, u \in T : t # u => R[t] # R[u]
<1>1. PICK P : P = [t \in T |-> {u \in T \ {t} : KeyLess(K[u], K[t])}] OBVIOUS
<1>2. \A t \in T : R[t] = Cardinality(P[t]) BY <1>1
<1>3. ASSUME NEW t \in T PROVE IsFiniteSet(P[t]) /\ Cardinality(P[t]) \in Nat
  <2>1. P[t] \subseteq T BY <1>1
  <2> QED BY <2>1, FS_Subset, FS_CardinalityType
<1>4. R \in [T -> Nat] BY <1>2, <1>3
<1>5. ASSUME NEW t \in T, NEW u \in T, t # u, KeyLess(K[t], K[u]) PROVE R[t] # R[u]
  <2>1. P[t] \subseteq P[u]
    <3> SUFFICES ASSUME NEW v \in P[t] PROVE v \in P[u] OBVIOUS
    <3>1. v \in T /\ v # t /\ KeyLess(K[v], K[t]) BY <1>1
    <3>2. K[v] \in Keys /\ K[t] \in Keys /\ K[u] \in Keys BY <3>1
    <3>3. KeyLess(K[v], K[u]) BY <1>5, <3>1, <3>2, KeysInOrder
    <3>4. v # u
      <4>1. v = u => KeyLess(K[u], K[t]) BY <3>1
      <4> QED BY <1>5, <3>2, <4>1, KeysInOrder
    <3> QED BY <1>1, <3>1, <3>3, <3>4
  <2>2. t \in P[u] /\ t \notin P[t] BY <1>1, <1>5
  <2>3. P[t] # P[u] BY <2>2
  <2>4. Cardinality(P[t]) < Cardinality(P[u])
    <3>1. IsFiniteSet(P[u]) BY <1>3
    <3>2. Cardinality(P[t]) <= Cardinality(P[u]) /\ (Cardinality(P[t]) = Cardinality(P[u]) => P[t] = P[u])
      BY <2>1, <3>1, FS_Subset
    <3> QED BY <1>3, <2>3, <3>2
  <2>5. PICK x \in Nat, y \in Nat : x = Cardinality(P[t]) /\ y = Cardinality(P[u]) BY <1>3
  <2>6. x < y BY <2>4, <2>5
  <2>7. R[t] = x /\ R[u] = y BY <1>2, <2>5
  <2> QED BY <2>6, <2>7
<1>6. ASSUME NEW t \in T, NEW u \in T, t # u PROVE R[t] # R[u]
  <2>1. K[t] \in Keys /\ K[u] \in Keys /\ K[t][5] # K[u][5] BY <1>6
  <2>2. KeyLess(K[t], K[u]) \/ KeyLess(K[u], K[t]) BY <2>1, KeysInOrder
  <2> QED BY <1>5, <1>6, <2>2
<1> QED BY <1>4, <1>6

\* Free windows of the horizon are finitely many, and their minutes a number.
LEMMA CapacityTyped ==
  ASSUME NEW taken, OneDay(taken), NEW from \in Nat, NEW until \in Nat
  PROVE  Capacity(Windows(taken, from, until)) \in Nat
<1>1. PICK W : W = Windows(taken, from, until) OBVIOUS
<1>2. PICK N \in Nat : N = (LastDay + 1) * 1440
  <2>1. LastDay \in Nat BY HorizonAssumption
  <2> QED BY <2>1
<1>3. ASSUME NEW w \in W PROVE w \in (0 .. N) \X (0 .. N) /\ Length(w) \in Nat
  <2>1. PICK date \in FutureDays : WindowOf(w, taken, date, from, until) BY <1>1, WindowsAre
  <2>2. PICK s \in Nat, e \in Nat : w = <<s, e>> /\ s < e /\ e <= (date + 1) * 1440
    <3>1. w \in Nat \X Nat /\ w[1] < w[2] /\ w[2] <= (date + 1) * 1440 BY <2>1 DEF WindowOf
    <3> QED BY <3>1
  <2>3. (date + 1) * 1440 <= N
    <3>1. LastDay \in Nat /\ date \in Nat /\ date <= LastDay BY HorizonAssumption DEF FutureDays
    <3> QED BY <1>2, <3>1
  <2>4. date \in Nat BY DEF FutureDays
  <2>5. s <= N /\ e <= N BY <2>2, <2>3, <2>4
  <2>6. Length(w) = e - s BY <2>2 DEF Length
  <2> QED BY <2>2, <2>5, <2>6
<1>4. IsFiniteSet((0 .. N) \X (0 .. N))
  <2>1. IsFiniteSet(0 .. N) BY FS_Interval, 0 \in Int, N \in Int
  <2> QED BY <2>1, FS_Product
<1>5. IsFiniteSet(W) BY <1>3, <1>4, FS_Subset
<1>6. PICK f : f = [w \in W |-> Length(w)] OBVIOUS
<1>7. DOMAIN f = W /\ \A w \in W : f[w] \in Nat BY <1>3, <1>6
<1>8. Sum(f, W) \in Nat BY <1>5, <1>7, SumNatural
<1>9. SumFunction(f) = Sum(f, W) BY <1>7, FoldsAreSums
<1>10. Capacity(W) = SumFunction(f) BY <1>6, Zenon DEF Capacity
<1> QED BY <1>1, <1>8, <1>9, <1>10

\* What a task is ranked by.
KeyOf(x, taken) ==
  <<Capacity(Windows(taken, OpensAt(x), ClosesAt(x))) - Remaining(x),
    Wanted(x).priority, ClosesAt(x), IF row[x].draft THEN 1 ELSE 0, x>>

\* The key of a task is a key, and ends with the task.
LEMMA KeyTyped ==
  ASSUME FutureScene, NEW taken, OneDay(taken), NEW x \in Tasks
  PROVE  KeyOf(x, taken) \in Keys /\ KeyOf(x, taken)[5] = x
<1>1. /\ Wanted(x) \in FutureRow
      /\ Remaining(x) \in Nat /\ OpensAt(x) \in Nat /\ ClosesAt(x) \in Nat
  BY WantedTyped
<1>2. Capacity(Windows(taken, OpensAt(x), ClosesAt(x))) \in Nat BY <1>1, CapacityTyped
<1>3. PICK a \in Int : a = Capacity(Windows(taken, OpensAt(x), ClosesAt(x))) - Remaining(x) BY <1>1, <1>2
<1>4. PICK b \in Int : b = Wanted(x).priority BY <1>1 DEF FutureRow
<1>5. PICK d \in Int : d = IF row[x].draft THEN 1 ELSE 0 OBVIOUS
<1>6. PICK c \in Int : c = ClosesAt(x) BY <1>1
<1>7. x \in Int BY HorizonAssumption
<1>8. KeyOf(x, taken) = <<a, b, c, d, x>> BY <1>3, <1>4, <1>5, <1>6, Zenon DEF KeyOf
<1>9. <<a, b, c, d, x>> \in Keys
  <2>1. PICK k : k = <<a, b, c, d, x>> OBVIOUS
  <2>2. DOMAIN k = 1 .. 5 /\ k[1] = a /\ k[2] = b /\ k[3] = c /\ k[4] = d /\ k[5] = x BY <2>1
  <2>3. ASSUME NEW i \in 1 .. 5 PROVE k[i] \in Int
    <3>1. i = 1 \/ i = 2 \/ i = 3 \/ i = 4 \/ i = 5 OBVIOUS
    <3> QED BY <1>7, <2>2, <3>1
  <2>4. k = [i \in 1 .. 5 |-> k[i]] BY <2>1
  <2> QED BY <2>1, <2>3, <2>4 DEF Keys
<1> QED BY <1>8, <1>9

\* Ranked before is to have the smaller key.
LEMMA RankedByKey ==
  ASSUME FutureScene, NEW taken, OneDay(taken), NEW t \in Tasks, NEW u \in Tasks, t # u
  PROVE  RankedBefore(t, u, taken) <=> KeyLess(KeyOf(t, taken), KeyOf(u, taken))
<1>1. PICK k, m : k = KeyOf(t, taken) /\ m = KeyOf(u, taken) OBVIOUS
<1>2. k \in Keys /\ m \in Keys /\ k[5] = t /\ m[5] = u BY <1>1, KeyTyped
<1>3. PICK i : i = Min({j \in 1 .. 5 : k[j] # m[j]}) OBVIOUS
<1>4. k[i] < m[i] <=> KeyLess(k, m) BY <1>2, <1>3, FirstDifference
<1>5. RankedBefore(t, u, taken)
        <=> KeyOf(t, taken)[Min({j \in 1 .. 5 : KeyOf(t, taken)[j] # KeyOf(u, taken)[j]})]
              < KeyOf(u, taken)[Min({j \in 1 .. 5 : KeyOf(t, taken)[j] # KeyOf(u, taken)[j]})]
  BY Zenon DEF RankedBefore, KeyOf
<1>6. RankedBefore(t, u, taken) <=> k[i] < m[i] BY <1>1, <1>3, <1>5, Zenon
<1> QED BY <1>1, <1>4, <1>6

\* The order in which a preview takes the tasks.
Fixtures == Blocking \cup Staying
Order == [t \in Movable |-> Cardinality({u \in Movable \ {t} : RankedBefore(u, t, Fixtures)})]

\* Tasks are ranked as their keys are, each at a rank of its own.
LEMMA OrderByKeys ==
  ASSUME FutureScene
  PROVE  /\ \A t \in Movable : t \in Tasks /\ KeyOf(t, Fixtures) \in Keys /\ KeyOf(t, Fixtures)[5] = t
         /\ Order = [t \in Movable |-> Cardinality({u \in Movable \ {t} :
                                         KeyLess(KeyOf(u, Fixtures), KeyOf(t, Fixtures))})]
         /\ IsFiniteSet(Movable)
<1>1. OneDay(Fixtures) BY TakenAtFirst DEF Fixtures
<1>2. \A t \in Movable : t \in Tasks BY DEF Movable
<1>3. \A t \in Movable : t \in Tasks /\ KeyOf(t, Fixtures) \in Keys /\ KeyOf(t, Fixtures)[5] = t
  BY <1>1, <1>2, KeyTyped
<1>4. \A t, u \in Movable : t # u =>
        (RankedBefore(u, t, Fixtures) <=> KeyLess(KeyOf(u, Fixtures), KeyOf(t, Fixtures)))
  BY <1>1, <1>2, RankedByKey
<1>5. \A t \in Movable : {u \in Movable \ {t} : RankedBefore(u, t, Fixtures)}
                           = {u \in Movable \ {t} : KeyLess(KeyOf(u, Fixtures), KeyOf(t, Fixtures))}
  BY <1>4
<1>6. Order = [t \in Movable |-> Cardinality({u \in Movable \ {t} :
                                   KeyLess(KeyOf(u, Fixtures), KeyOf(t, Fixtures))})]
  BY <1>5, Zenon DEF Order
<1>7. IsFiniteSet(Movable) BY <1>2, TasksAreFinite
<1> QED BY <1>3, <1>6, <1>7

\* No two tasks have the same place.
LEMMA OrderIs ==
  ASSUME FutureScene
  PROVE  Order \in [Movable -> Nat] /\ \A t, u \in Movable : t # u => Order[t] # Order[u]
<1>1. PICK M : M = Movable OBVIOUS
<1>2. PICK K : K = [t \in M |-> KeyOf(t, Fixtures)] OBVIOUS
<1>3. K \in [M -> Keys] /\ \A t, u \in M : t # u => K[t][5] # K[u][5] BY <1>1, <1>2, OrderByKeys
<1>4. \A t \in M : {u \in M \ {t} : KeyLess(KeyOf(u, Fixtures), KeyOf(t, Fixtures))}
                     = {u \in M \ {t} : KeyLess(K[u], K[t])}
  BY <1>2
<1>5. Order = [t \in M |-> Cardinality({u \in M \ {t} : KeyLess(K[u], K[t])})]
  BY <1>1, <1>4, OrderByKeys, Zenon
<1>6. IsFiniteSet(M) BY <1>1, OrderByKeys
<1> QED BY <1>1, <1>3, <1>5, <1>6, PlacesApart

-----------------------------------------------------------------------------
(* What decides the segments of a task *)

\* The options and the choice among them, by the numbers they are made from:
\* minutes r, load L.
AcrossOf(r, chosen) ==
  LET amounts == FitLengths(r, Lengths(chosen))
  IN [i \in DOMAIN amounts |-> <<chosen[i][1], chosen[i][1] + amounts[i]>>]
WithinOf(r, w, n) ==
  LET lengths == Balanced(r, n)
      begins(i) == w[1] + Preceding(lengths, i)
  IN [i \in 1 .. n |-> <<begins(i), begins(i) + lengths[i]>>]
SmallerOf(r, W) ==
  {AcrossOf(r, <<w>>) : w \in W}
    \cup {AcrossOf(r, p) : p \in Pairs(W)}
    \cup {WithinOf(r, p[1], p[2]) : p \in {q \in W \X (2 .. MaxSegments) :
                                             /\ Length(q[1]) >= r
                                             /\ r >= q[2] * MinSegment}}
TriplesOf(r, W) == UNION {{AcrossOf(r, <<p[1], p[2], w>>) : w \in Behind(W, p)} : p \in Pairs(W)}
AllFor(r, W) == (SmallerOf(r, W) \cup TriplesOf(r, W)) \ {<<>>}

MinutesOn(c, d) == SumFunction([i \in DOMAIN c |-> IF DayOf(c[i][1]) = d THEN Length(c[i]) ELSE 0])
LoadFrom(L, c, d) == L[d] + MinutesOn(c, d)
FullestFrom(L, c) == Max({LoadFrom(L, c, d) : d \in FutureDays})
SquaresFrom(L, c) == SumFunction([d \in FutureDays |-> LoadFrom(L, c, d) * LoadFrom(L, c, d)])
BestFrom(L, C, q) ==
  LET byQuality == LeastOf(C, LAMBDA c : Quality(Lengths(c), q))
      byCount == LeastOf(byQuality, Len)
      byFullest == LeastOf(byCount, LAMBDA c : FullestFrom(L, c))
      byLoad == LeastOf(byFullest, LAMBDA c : SquaresFrom(L, c))
  IN CHOOSE c \in byLoad : \A d \in byLoad : ~StartsBefore(d, c)

\* The candidates of the task whose turn it is.
LEMMA AllIsFor ==
  ASSUME NEW W
  PROVE  AllOf(W) = AllFor(Remaining(Turn), W)
<1>1. \A chosen : Across(chosen) = AcrossOf(Remaining(Turn), chosen) BY Zenon DEF Across, AcrossOf
<1>2. \A w, n : Within(w, n) = WithinOf(Remaining(Turn), w, n) BY Zenon DEF Within, WithinOf
<1>3. Smaller(W) = SmallerOf(Remaining(Turn), W) BY <1>1, <1>2, Zenon DEF Smaller, SmallerOf
<1>4. AllTriples(W) = TriplesOf(Remaining(Turn), W)
  <2> DEFINE A(p) == {Across(<<p[1], p[2], w>>) : w \in Behind(W, p)}
             B(p) == {AcrossOf(Remaining(Turn), <<p[1], p[2], w>>) : w \in Behind(W, p)}
  <2>1. \A p : A(p) = B(p) BY <1>1, Zenon
  <2>2. \A c : c \in AllTriples(W) <=> \E p \in Pairs(W) : c \in A(p) BY Zenon DEF AllTriples
  <2>3. \A c : c \in TriplesOf(Remaining(Turn), W) <=> \E p \in Pairs(W) : c \in B(p) BY Zenon DEF TriplesOf
  <2> HIDE DEF A, B
  <2>4. \A c : c \in AllTriples(W) <=> c \in TriplesOf(Remaining(Turn), W) BY <2>1, <2>2, <2>3
  <2> QED BY <2>4, Zenon
<1> QED BY <1>3, <1>4, Zenon DEF AllOf, AllFor

\* The loads of a candidate are counted from the load that is kept.
LEMMA LoadIsFrom ==
  \A c : /\ \A d : LoadWith(c, d) = LoadFrom(load, c, d)
         /\ Fullest(c) = FullestFrom(load, c) /\ Squares(c) = SquaresFrom(load, c)
<1>1. \A c : \A d : LoadWith(c, d) = LoadFrom(load, c, d) BY Zenon DEF LoadWith, LoadFrom, MinutesOn
<1>2. \A c : Fullest(c) = FullestFrom(load, c) BY <1>1, Zenon DEF Fullest, FullestFrom
<1>3. \A c : Squares(c) = SquaresFrom(load, c) BY <1>1, Zenon DEF Squares, SquaresFrom
<1> QED BY <1>1, <1>2, <1>3

\* The best candidate is the best from the load that is kept.
LEMMA BestIsFrom ==
  ASSUME NEW C, NEW q
  PROVE  BestOf(C, q) = BestFrom(load, C, q)
<1>1. \A X : LeastOf(X, Fullest) = LeastOf(X, LAMBDA c : FullestFrom(load, c))
  BY LoadIsFrom, Zenon DEF LeastOf
<1>2. \A X : LeastOf(X, Squares) = LeastOf(X, LAMBDA c : SquaresFrom(load, c))
  BY LoadIsFrom, Zenon DEF LeastOf
<1> QED BY <1>1, <1>2, Zenon DEF BestOf, BestFrom

\* Sessions that stand where they are.
MayStand(c, r, opens, closes, q, taken) ==
  /\ c # <<>> /\ Len(c) <= MaxSegments
  /\ SumFunction(Lengths(c)) = r
  /\ \A i \in ToSet(c) :
       /\ InHorizon(i) /\ Length(i) >= MinSegment
       /\ opens <= i[1] /\ i[2] <= closes
       /\ \A o \in taken : ~Meet(i, o)
  /\ Reasonable(Lengths(c), q)

\* What a task with r minutes and these limits may be given: sessions that
\* stand, the best of all, or none when there is nothing to choose from.
DecidedFrom(r, opens, closes, q, W, taken, L, c) ==
  \/ r = 0 /\ c = <<>>
  \/ r # 0 /\ MayStand(c, r, opens, closes, q, taken)
  \/ r # 0 /\ AllFor(r, W) # {} /\ c = BestFrom(L, AllFor(r, W), q)
  \/ r # 0 /\ AllFor(r, W) = {} /\ c = <<>>

DecidedBy(r, opens, closes, nature, due, taken, L, c) ==
  LET W == Windows(taken, opens, closes)
      q == PreferredMinutes(Most(r, 1), nature, Capacity(W), due)
  IN DecidedFrom(r, opens, closes, q, W, taken, L, c)

Decides(t, taken, L, c) ==
  DecidedBy(Remaining(t), OpensAt(t), ClosesAt(t), Wanted(t).nature, Wanted(t).deadline # NoDate, taken, L, c)

\* What is decided of the task whose turn it is.
LEMMA DecidesTurn ==
  ASSUME NEW c
  PROVE  Decides(Turn, occupied, load, c)
           <=> DecidedFrom(Remaining(Turn), OpensAt(Turn), ClosesAt(Turn), Preferred, Options, occupied, load, c)
  BY Zenon DEF Decides, DecidedBy, Preferred, Options

\* Sessions may be kept when they may stand.
LEMMA MayKeepStands ==
  MayKeep <=> MayStand(Sessions(Turn), Remaining(Turn), OpensAt(Turn), ClosesAt(Turn), Preferred, occupied)
  BY Zenon DEF MayKeep, MayStand

\* A step that settles the task whose turn it is.
Settles == NothingLeft \/ Keep \/ Place \/ GiveUp

\* What it gives is decided, and is what the task has when that is decided so.
GivenIs(c, outcome) ==
  /\ ranked # <<>> /\ Fit(c, Turn) /\ outcome # "none" /\ Settled(c, outcome)
  /\ Decides(Turn, occupied, load, c)
  /\ Decides(Turn, occupied, load, Sessions(Turn)) => c = Sessions(Turn)

\* Each step that settles a task gives it what is decided.
LEMMA StepGives ==
  ASSUME FuturePlanInv, Settles
  PROVE  \E c, outcome : GivenIs(c, outcome)
<1>1. ranked # <<>> BY DEF Settles, NothingLeft, Keep, Place, GiveUp
<1>2. Remaining(Turn) \in Nat BY <1>1, TurnIsOne, WantedTyped DEF FuturePlanInv, FutureTyped
<1>3. AllOf(Options) = AllFor(Remaining(Turn), Options) BY AllIsFor
<1>4. Candidates(Options) = {} <=> AllOf(Options) = {}
  <2>1. Wide(Options) BY <1>1, OptionsAre DEF FuturePlanInv
  <2>2. Candidates(Options) \subseteq AllOf(Options) BY <1>2, <2>1, AllAreSessions
  <2>3. AllOf(Options) # {} => Candidates(Options) # {} BY <1>1, AllOrNone
  <2> QED BY <2>2, <2>3
<1>5. PICK S : S = Sessions(Turn) OBVIOUS
<1>6. ASSUME NEW c
      PROVE Decides(Turn, occupied, load, c)
              <=> DecidedFrom(Remaining(Turn), OpensAt(Turn), ClosesAt(Turn), Preferred, Options, occupied, load, c)
  BY DecidesTurn
<1>7. CASE NothingLeft
  <2>1. Remaining(Turn) = 0 /\ Given(<<>>) BY <1>7 DEF NothingLeft
  <2>2. Fit(<<>>, Turn) BY NothingFits
  <2>3. PICK outcome : outcome # "none" /\ Settled(<<>>, outcome) BY <2>1 DEF Given
  <2>4. Decides(Turn, occupied, load, <<>>) BY <1>6, <2>1, Zenon DEF DecidedFrom
  <2>5. Decides(Turn, occupied, load, S) => S = <<>> BY <1>6, <2>1, Zenon DEF DecidedFrom
  <2>6. GivenIs(<<>>, outcome) BY <1>1, <1>5, <2>2, <2>3, <2>4, <2>5 DEF GivenIs
  <2> QED BY <2>6
<1>8. CASE Keep
  <2>1. Remaining(Turn) # 0 /\ MayKeep /\ Given(Sessions(Turn)) BY <1>2, <1>8 DEF Keep
  <2>2. Fit(S, Turn) BY <1>1, <1>5, <2>1, KeptFit DEF FuturePlanInv
  <2>3. PICK outcome : outcome # "none" /\ Settled(S, outcome) BY <1>5, <2>1 DEF Given
  <2>4. Decides(Turn, occupied, load, S) BY <1>5, <1>6, <2>1, MayKeepStands, Zenon DEF DecidedFrom
  <2>5. GivenIs(S, outcome) BY <1>1, <1>5, <2>2, <2>3, <2>4 DEF GivenIs
  <2> QED BY <2>5
<1>9. CASE Place
  <2>1. /\ Remaining(Turn) # 0 /\ ~MayKeep /\ Candidates(Options) # {}
        /\ Given(BestOf(Candidates(Options), Preferred))
    BY <1>2, <1>9 DEF Place
  <2>2. PICK c : c = BestOf(Candidates(Options), Preferred) OBVIOUS
  <2>3. Fit(c, Turn) BY <1>1, <2>1, <2>2, PlacedFit DEF FuturePlanInv
  <2>4. PICK outcome : outcome # "none" /\ Settled(c, outcome) BY <2>1, <2>2 DEF Given
  <2>5. AllOf(Options) # {} BY <1>4, <2>1
  <2>6. c = BestOf(AllOf(Options), Preferred) BY <1>1, <2>2, <2>5, ReductionOfAny
  <2>7. c = BestFrom(load, AllFor(Remaining(Turn), Options), Preferred) BY <1>3, <2>6, BestIsFrom
  <2>8. AllFor(Remaining(Turn), Options) # {} BY <1>3, <2>5
  <2>9. Decides(Turn, occupied, load, c) BY <1>6, <2>1, <2>7, <2>8, Zenon DEF DecidedFrom
  <2>10. Decides(Turn, occupied, load, S) => S = c
    <3>1. ~MayStand(S, Remaining(Turn), OpensAt(Turn), ClosesAt(Turn), Preferred, occupied)
      BY <1>5, <2>1, MayKeepStands
    <3> QED BY <1>6, <2>1, <2>7, <2>8, <3>1, Zenon DEF DecidedFrom
  <2>11. GivenIs(c, outcome) BY <1>1, <1>5, <2>3, <2>4, <2>9, <2>10 DEF GivenIs
  <2> QED BY <2>11
<1>10. CASE GiveUp
  <2>1. Remaining(Turn) # 0 /\ ~MayKeep /\ Candidates(Options) = {} BY <1>2, <1>10 DEF GiveUp
  <2>2. PICK outcome : outcome # "none" /\ Settled(<<>>, outcome)
    <3>1. PICK outcome : outcome = CASE Wanted(Turn).deadline < HorizonStart -> "deadline_impossible"
                     [] Wanted(Turn).earliest > HorizonEnd -> "earliest_start_outside_horizon"
                     [] Capacity(Options) < Remaining(Turn) -> "insufficient_feasible_capacity"
                     [] OTHER -> "fragmentation_segment_cap"
      OBVIOUS
    <3>2. outcome # "none" BY <3>1
    <3>3. Settled(<<>>, outcome) BY <1>10, <3>1, Zenon DEF GiveUp
    <3> QED BY <3>2, <3>3
  <2>3. AllFor(Remaining(Turn), Options) = {} BY <1>3, <1>4, <2>1
  <2>4. Decides(Turn, occupied, load, <<>>) BY <1>6, <2>1, <2>3, Zenon DEF DecidedFrom
  <2>5. Decides(Turn, occupied, load, S) => S = <<>>
    <3>1. ~MayStand(S, Remaining(Turn), OpensAt(Turn), ClosesAt(Turn), Preferred, occupied)
      BY <1>5, <2>1, MayKeepStands
    <3> QED BY <1>6, <2>1, <2>3, <3>1, Zenon DEF DecidedFrom
  <2>6. Fit(<<>>, Turn) BY NothingFits
  <2>7. GivenIs(<<>>, outcome) BY <1>1, <1>5, <2>2, <2>4, <2>5, <2>6 DEF GivenIs
  <2> QED BY <2>7
<1> QED BY <1>7, <1>8, <1>9, <1>10 DEF Settles

-----------------------------------------------------------------------------
(* What the tasks before one have taken *)

EarlierTasks(t) == {u \in Movable : Order[u] < Order[t]}
TakenWith(P, S) == Fixtures \cup UNION {ToSet(P[u]) : u \in S}
LoadedWith(P, S) == [d \in FutureDays |-> Sum([u \in Tasks |-> MinutesOn(P[u], d)], S)]

\* The segments that P gives t are decided by those it gives the tasks before.
Decided(t, P) == Decides(t, TakenWith(P, EarlierTasks(t)), LoadedWith(P, EarlierTasks(t)), P[t])

\* Plans that agree on some tasks take the same time for these.
LEMMA TakenAgrees ==
  ASSUME NEW S \in SUBSET Tasks, NEW P, NEW Q, \A u \in S : P[u] = Q[u]
  PROVE  TakenWith(P, S) = TakenWith(Q, S) /\ LoadedWith(P, S) = LoadedWith(Q, S)
<1>1. TakenWith(P, S) = TakenWith(Q, S)
  <2>1. {ToSet(P[u]) : u \in S} = {ToSet(Q[u]) : u \in S} OBVIOUS
  <2> QED BY <2>1, Zenon DEF TakenWith
<1>2. IsFiniteSet(S) BY TasksAreFinite
<1>3. ASSUME NEW d \in FutureDays
      PROVE  Sum([u \in Tasks |-> MinutesOn(P[u], d)], S) = Sum([u \in Tasks |-> MinutesOn(Q[u], d)], S)
  <2>1. PICK f, g : f = [u \in Tasks |-> MinutesOn(P[u], d)] /\ g = [u \in Tasks |-> MinutesOn(Q[u], d)] OBVIOUS
  <2>2. \A u \in S : f[u] = g[u] BY <2>1
  <2>3. Sum(f, S) = Sum(g, S) BY <1>2, <2>2, SumAgrees
  <2> QED BY <2>1, <2>3
<1>4. LoadedWith(P, S) = LoadedWith(Q, S) BY <1>3, Zenon DEF LoadedWith
<1> QED BY <1>1, <1>4

\* A decision depends on the task and on those before it only.
LEMMA DecidedAgrees ==
  ASSUME NEW t \in Tasks, NEW P, NEW Q, \A u \in EarlierTasks(t) \cup {t} : P[u] = Q[u]
  PROVE  Decided(t, P) <=> Decided(t, Q)
<1>1. EarlierTasks(t) \in SUBSET Tasks BY DEF EarlierTasks, Movable
<1>2. \A u \in EarlierTasks(t) : P[u] = Q[u] OBVIOUS
<1>3. TakenWith(P, EarlierTasks(t)) = TakenWith(Q, EarlierTasks(t)) /\ LoadedWith(P, EarlierTasks(t)) = LoadedWith(Q, EarlierTasks(t))
  BY <1>1, <1>2, TakenAgrees
<1>4. P[t] = Q[t] OBVIOUS
<1> QED BY <1>3, <1>4, Zenon DEF Decided

\* Minutes of sessions are a number.
LEMMA MinutesTyped ==
  ASSUME NEW c \in Seq(Nat \X Nat), OneDay(ToSet(c)), NEW d
  PROVE  MinutesOn(c, d) \in Nat
<1>1. PICK f : f = [i \in DOMAIN c |-> IF DayOf(c[i][1]) = d THEN Length(c[i]) ELSE 0] OBVIOUS
<1>2. PICK n \in Nat : n = Len(c) OBVIOUS
<1>3. DOMAIN f = 1 .. n BY <1>1, <1>2
<1>4. ASSUME NEW i \in 1 .. n PROVE f[i] \in Nat
  <2>1. c[i] \in ToSet(c) BY <1>2 DEF ToSet
  <2>2. c[i][1] \in Nat /\ c[i][2] \in Nat /\ c[i][1] < c[i][2] BY <2>1, OneDayOf
  <2>3. Length(c[i]) \in Nat BY <2>2 DEF Length
  <2>4. f[i] = IF DayOf(c[i][1]) = d THEN Length(c[i]) ELSE 0 BY <1>1, <1>3
  <2> QED BY <2>3, <2>4
<1>5. IsFiniteSet(1 .. n) BY FS_Interval, 1 \in Int, n \in Int
<1>6. Sum(f, 1 .. n) \in Nat BY <1>4, <1>5, SumNatural
<1>7. SumFunction(f) = Sum(f, 1 .. n) BY <1>3, FoldsAreSums
<1>8. MinutesOn(c, d) = SumFunction(f) BY <1>1, Zenon DEF MinutesOn
<1> QED BY <1>6, <1>7, <1>8

\* One more task takes its segments and their minutes.
LEMMA TakenByOneMore ==
  ASSUME NEW S \in SUBSET Tasks, NEW e \in Tasks \ S, NEW P,
         \A u \in S \cup {e} : P[u] \in Seq(Nat \X Nat) /\ OneDay(ToSet(P[u]))
  PROVE  /\ TakenWith(P, S \cup {e}) = TakenWith(P, S) \cup ToSet(P[e])
         /\ LoadedWith(P, S \cup {e}) = [d \in FutureDays |-> LoadedWith(P, S)[d] + MinutesOn(P[e], d)]
<1>1. TakenWith(P, S \cup {e}) = TakenWith(P, S) \cup ToSet(P[e]) BY DEF TakenWith
<1>2. PICK T : T = S \cup {e} OBVIOUS
<1>3. T \ {e} = S /\ e \in T /\ T \subseteq Tasks BY <1>2
<1>4. IsFiniteSet(T) /\ IsFiniteSet(S) BY <1>3, TasksAreFinite
<1>5. ASSUME NEW d \in FutureDays
      PROVE  LoadedWith(P, T)[d] = LoadedWith(P, S)[d] + MinutesOn(P[e], d)
  <2>1. PICK f : f = [u \in Tasks |-> MinutesOn(P[u], d)] OBVIOUS
  <2>2. ASSUME NEW u \in T PROVE f[u] \in Nat
    <3>1. f[u] = MinutesOn(P[u], d) BY <1>3, <2>1
    <3>2. MinutesOn(P[u], d) \in Nat BY <1>2, MinutesTyped
    <3> QED BY <3>1, <3>2
  <2>3. Sum(f, T) = f[e] + Sum(f, S)
    <3>1. \A u \in T : f[u] \in Int BY <2>2
    <3>2. Sum(f, T) = f[e] + Sum(f, T \ {e}) BY <1>3, <1>4, <3>1, SumRemove
    <3> QED BY <1>3, <3>2
  <2>4. Sum(f, S) \in Nat
    <3>1. \A u \in S : f[u] \in Nat BY <1>2, <2>2
    <3> QED BY <1>4, <3>1, SumNatural
  <2>5. f[e] \in Nat /\ f[e] = MinutesOn(P[e], d) BY <1>3, <2>1, <2>2
  <2>6. LoadedWith(P, T)[d] = Sum(f, T) /\ LoadedWith(P, S)[d] = Sum(f, S) BY <2>1 DEF LoadedWith
  <2>7. PICK x \in Nat, y \in Nat : x = f[e] /\ y = Sum(f, S) BY <2>4, <2>5
  <2>8. LoadedWith(P, T)[d] = x + y /\ LoadedWith(P, S)[d] + MinutesOn(P[e], d) = y + x
    BY <2>3, <2>5, <2>6, <2>7
  <2> QED BY <2>7, <2>8
<1>6. LoadedWith(P, T) = [d \in FutureDays |-> LoadedWith(P, S)[d] + MinutesOn(P[e], d)]
  <2>1. LoadedWith(P, T) = [d \in FutureDays |-> LoadedWith(P, T)[d]] BY DEF LoadedWith
  <2> QED BY <1>5, <2>1
<1> QED BY <1>1, <1>2, <1>6

\* Before any task is settled only the fixtures are taken, and no day is loaded.
LEMMA NothingLoaded ==
  ASSUME NEW P
  PROVE  TakenWith(P, {}) = Fixtures /\ LoadedWith(P, {}) = [d \in FutureDays |-> 0]
<1>1. TakenWith(P, {}) = Fixtures BY DEF TakenWith
<1>2. \A d \in FutureDays : Sum([u \in Tasks |-> MinutesOn(P[u], d)], {}) = 0 BY SumEmpty
<1> QED BY <1>1, <1>2 DEF LoadedWith

-----------------------------------------------------------------------------
(* A preview decides the tasks in their order *)

SettledTasks == Movable \ DOMAIN ranked

\* While it runs, the tasks settled come before those left, what is taken and
\* placed is theirs, and each was decided by those before it.
InTheirOrder ==
  /\ \A t \in DOMAIN ranked : ranked[t] = Order[t]
  /\ \A t \in SettledTasks, u \in DOMAIN ranked : Order[t] < Order[u]
  /\ occupied = TakenWith(plan, SettledTasks) /\ load = LoadedWith(plan, SettledTasks)
  /\ \A t \in SettledTasks : Decided(t, plan)
  /\ earlier # <<>> => \A t \in SettledTasks : plan[t] = earlier[1][t]

\* The tasks have the segments of the plan before, which were decided so.
AsApplied(E) ==
  /\ E = [t \in Tasks |-> E[t]]
  /\ \A t \in Tasks \ Movable : E[t] = <<>>
  /\ \A t \in Movable : Sessions(t) = E[t] /\ Decided(t, E)

StableInv ==
  /\ FuturePlanInv
  /\ plan = [t \in Tasks |-> plan[t]] /\ \A t \in Tasks \ Movable : plan[t] = <<>>
  /\ IF Idling THEN load = [d \in FutureDays |-> 0] ELSE InTheirOrder
  /\ earlier # <<>> => AsApplied(earlier[1])

\* The tasks before the one whose turn it is are those settled.
LEMMA BeforeTurn ==
  ASSUME FuturePlanInv, InTheirOrder, ranked # <<>>
  PROVE  /\ EarlierTasks(Turn) = SettledTasks
         /\ \A t \in DOMAIN ranked \ {Turn} : Order[Turn] < Order[t]
<1>0. FutureScene /\ FutureTyped BY DEF FuturePlanInv, FutureTyped
<1>1. Turn \in DOMAIN ranked /\ Turn \in Movable BY <1>0, TurnIsOne
<1>2. Order \in [Movable -> Nat] /\ \A t, u \in Movable : t # u => Order[t] # Order[u] BY <1>0, OrderIs
<1>3. DOMAIN ranked \subseteq Movable /\ \A t \in DOMAIN ranked : ranked[t] = Order[t]
  BY <1>0 DEF FutureTyped, InTheirOrder
<1>4. \A u \in DOMAIN ranked : ranked[Turn] <= ranked[u]
  <2>1. PICK T : T = {ranked[t] : t \in DOMAIN ranked} OBVIOUS
  <2>2. \A t \in DOMAIN ranked : ranked[t] \in Nat BY <1>2, <1>3
  <2>3. T \subseteq Nat /\ T # {} BY <1>1, <2>1, <2>2
  <2>4. PICK m \in T : \A k \in T : m <= k BY <2>3, LeastMember
  <2>5. PICK t \in DOMAIN ranked : ranked[t] = m BY <2>1, <2>4
  <2>6. \A u \in DOMAIN ranked : ranked[t] <= ranked[u] BY <2>1, <2>4, <2>5
  <2>7. Turn = CHOOSE x \in DOMAIN ranked : \A u \in DOMAIN ranked : ranked[x] <= ranked[u]
    BY Zenon DEF Turn, FirstIn
  <2> QED BY <2>6, <2>7, Zenon
<1>5. ASSUME NEW t \in DOMAIN ranked \ {Turn} PROVE Order[Turn] < Order[t]
  <2>1. Order[Turn] <= Order[t] BY <1>1, <1>3, <1>4
  <2>2. Order[Turn] # Order[t] BY <1>1, <1>2, <1>3
  <2>3. Order[Turn] \in Nat /\ Order[t] \in Nat BY <1>1, <1>2, <1>3
  <2> QED BY <2>1, <2>2, <2>3
<1>6. ASSUME NEW u \in Movable PROVE u \in EarlierTasks(Turn) <=> u \in SettledTasks
  <2>1. CASE u \in DOMAIN ranked
    <3>1. ~ (Order[u] < Order[Turn])
      <4>1. Order[Turn] \in Nat /\ Order[u] \in Nat BY <1>1, <1>2
      <4>2. u # Turn => Order[Turn] < Order[u] BY <1>5, <2>1
      <4> QED BY <4>1, <4>2
    <3> QED BY <2>1, <3>1 DEF EarlierTasks, SettledTasks
  <2>2. CASE u \notin DOMAIN ranked
    <3>1. u \in SettledTasks BY <2>2 DEF SettledTasks
    <3>2. Order[u] < Order[Turn] BY <1>1, <3>1 DEF InTheirOrder
    <3> QED BY <3>1, <3>2 DEF EarlierTasks
  <2> QED BY <2>1, <2>2
<1> QED BY <1>5, <1>6 DEF EarlierTasks, SettledTasks

\* What a task is decided from is the same after a step.
SameLimits(t) ==
  /\ Remaining(t)' = Remaining(t) /\ OpensAt(t)' = OpensAt(t) /\ ClosesAt(t)' = ClosesAt(t)
  /\ Wanted(t)'.nature = Wanted(t).nature /\ Wanted(t)'.deadline = Wanted(t).deadline

\* Equal tasks, fixtures and order give equal decisions.
LEMMA SameDecisions ==
  ASSUME Movable' = Movable, Fixtures' = Fixtures, Order' = Order, \A t \in Movable : SameLimits(t)
  PROVE  \A t \in Movable : \A P : Decided(t, P)' <=> Decided(t, P)
<1> SUFFICES ASSUME NEW t \in Movable, NEW P PROVE Decided(t, P)' <=> Decided(t, P) OBVIOUS
<1>1. EarlierTasks(t)' = EarlierTasks(t) BY Zenon DEF EarlierTasks
<1>2. \A S : TakenWith(P, S)' = TakenWith(P, S) BY Zenon DEF TakenWith
<1>3. \A S : LoadedWith(P, S)' = LoadedWith(P, S) BY Zenon DEF LoadedWith
<1>4. SameLimits(t) OBVIOUS
<1>5. \A T, L, c : Decides(t, T, L, c)' <=> Decides(t, T, L, c) BY <1>4, Zenon DEF Decides, SameLimits
<1>6. PICK T, L : T = TakenWith(P, EarlierTasks(t)) /\ L = LoadedWith(P, EarlierTasks(t)) OBVIOUS
<1>7. TakenWith(P, EarlierTasks(t))' = T /\ LoadedWith(P, EarlierTasks(t))' = L
  <2>1. PICK S : S = EarlierTasks(t) OBVIOUS
  <2>2. TakenWith(P, S)' = T /\ LoadedWith(P, S)' = L BY <1>2, <1>3, <1>6, <2>1, Zenon
  <2>3. EarlierTasks(t)' = S BY <1>1, <2>1
  <2>4. TakenWith(P, EarlierTasks(t))' = TakenWith(P, S)' BY <2>3, Zenon DEF TakenWith
  <2>5. LoadedWith(P, EarlierTasks(t))' = LoadedWith(P, S)' BY <2>3, Zenon DEF LoadedWith
  <2> QED BY <2>2, <2>4, <2>5
<1>8. Decided(t, P) <=> Decides(t, T, L, P[t]) BY <1>6, Zenon DEF Decided
<1>9. Decided(t, P)' <=> Decides(t, T, L, P[t])' BY <1>7, Zenon DEF Decided, Decides
<1> QED BY <1>5, <1>8, <1>9

\* Equal comparisons give an equal order.
LEMMA OrderKept ==
  ASSUME Movable' = Movable, Fixtures' = Fixtures,
         \A t, u \in Movable : t # u => (RankedBefore(t, u, Fixtures)' <=> RankedBefore(t, u, Fixtures))
  PROVE  Order' = Order
<1>1. \A t \in Movable : {u \in Movable \ {t} : RankedBefore(u, t, Fixtures)'}
                           = {u \in Movable \ {t} : RankedBefore(u, t, Fixtures)}
  OBVIOUS
<1>2. Order' = [t \in Movable' |-> Cardinality({u \in Movable' \ {t} : RankedBefore(u, t, Fixtures)'})]
  BY Zenon DEF Order
<1>3. Order' = [t \in Movable |-> Cardinality({u \in Movable \ {t} : RankedBefore(u, t, Fixtures)'})]
  BY <1>2, Zenon
<1> QED BY <1>1, <1>3, Zenon DEF Order

\* Ranked by the keys that tasks have after a step.
LEMMA RankedNext ==
  ASSUME NEW t, NEW u, NEW T, T = Fixtures', NEW k \in Keys, NEW m \in Keys,
         k = KeyOf(t, T)', m = KeyOf(u, T)', k[5] # m[5]
  PROVE  RankedBefore(t, u, Fixtures)' <=> KeyLess(k, m)
<1>1. PICK i : i = Min({j \in 1 .. 5 : k[j] # m[j]}) OBVIOUS
<1>2. k[i] < m[i] <=> KeyLess(k, m) BY <1>1, FirstDifference
<1>3. RankedBefore(t, u, Fixtures)'
        <=> KeyOf(t, T)'[Min({j \in 1 .. 5 : KeyOf(t, T)'[j] # KeyOf(u, T)'[j]})]
              < KeyOf(u, T)'[Min({j \in 1 .. 5 : KeyOf(t, T)'[j] # KeyOf(u, T)'[j]})]
  BY Zenon DEF RankedBefore, KeyOf
<1>4. RankedBefore(t, u, Fixtures)' <=> k[i] < m[i] BY <1>1, <1>3, Zenon
<1> QED BY <1>2, <1>4

\* What leaves tasks, request and events alone leaves the order.
LEMMA SameOrder ==
  ASSUME FutureScene, UNCHANGED <<row, request, events>>
  PROVE  /\ Movable' = Movable /\ Fixtures' = Fixtures /\ Order' = Order
         /\ \A t : SameLimits(t) /\ Sessions(t)' = Sessions(t)
<1>1. row' = row /\ request' = request /\ events' = events OBVIOUS
<1>2. Movable' = Movable /\ Blocking' = Blocking /\ Staying' = Staying BY <1>1, SameScene
<1>3. Fixtures' = Fixtures BY <1>2 DEF Fixtures
<1>4. \A t : Wanted(t)' = Wanted(t) BY <1>1, Zenon DEF Wanted
<1>5. \A t : /\ Remaining(t)' = Remaining(t) /\ OpensAt(t)' = OpensAt(t) /\ ClosesAt(t)' = ClosesAt(t)
  BY <1>4, Zenon DEF Remaining, OpensAt, ClosesAt
<1>6. \A t : SameLimits(t) BY <1>4, <1>5, Zenon DEF SameLimits
<1>7. \A t : Sessions(t)' = Sessions(t) BY <1>1, Zenon DEF Sessions
<1>8. ASSUME NEW t \in Movable, NEW u \in Movable, t # u
      PROVE  RankedBefore(t, u, Fixtures)' <=> RankedBefore(t, u, Fixtures)
  <2>1. PICK T : T = Fixtures OBVIOUS
  <2>2. PICK k, m : k = KeyOf(t, T) /\ m = KeyOf(u, T) OBVIOUS
  <2>3. k \in Keys /\ m \in Keys /\ k[5] = t /\ m[5] = u BY <2>1, <2>2, OrderByKeys
  <2>4. k = KeyOf(t, T)' /\ m = KeyOf(u, T)' BY <1>1, <1>4, <1>5, <2>2, Zenon DEF KeyOf
  <2>5. T = Fixtures' BY <1>3, <2>1
  <2>6. RankedBefore(t, u, Fixtures)' <=> KeyLess(k, m) BY <1>8, <2>3, <2>4, <2>5, RankedNext
  <2>7. RankedBefore(t, u, T) <=> KeyLess(k, m)
    <3>1. OneDay(T) BY <2>1, TakenAtFirst DEF Fixtures
    <3>2. t \in Tasks /\ u \in Tasks BY DEF Movable
    <3>3. RankedBefore(t, u, T) <=> KeyLess(KeyOf(t, T), KeyOf(u, T)) BY <1>8, <3>1, <3>2, RankedByKey
    <3> QED BY <2>2, <3>3
  <2>8. RankedBefore(t, u, T) <=> RankedBefore(t, u, Fixtures) BY <2>1
  <2> QED BY <2>6, <2>7, <2>8
<1>9. Order' = Order BY <1>2, <1>3, <1>8, OrderKept
<1> QED BY <1>2, <1>3, <1>6, <1>7, <1>9

\* A plan before that was decided so still is.
LEMMA AppliedKept ==
  ASSUME FutureScene, UNCHANGED <<row, request, events>>, NEW E, AsApplied(E)
  PROVE  AsApplied(E)'
<1>1. Movable' = Movable /\ \A t : Sessions(t)' = Sessions(t) BY SameOrder
<1>2. \A t \in Movable : \A P : Decided(t, P)' <=> Decided(t, P)
  <2>1. \A t \in Movable : SameLimits(t) BY SameOrder
  <2> QED BY <2>1, SameOrder, SameDecisions
<1>3. E = [t \in Tasks |-> E[t]] /\ \A t \in Tasks \ Movable : E[t] = <<>>
  BY DEF AsApplied
<1>4. \A t \in Movable : Sessions(t) = E[t] /\ Decided(t, E) BY DEF AsApplied
<1>5. \A t \in Movable : Sessions(t)' = E[t] /\ Decided(t, E)' BY <1>1, <1>2, <1>4
<1> QED BY <1>1, <1>3, <1>5, Zenon DEF AsApplied

\* What a step gives the task whose turn it is, seen from the plan after it.
LEMMA GivenAre ==
  ASSUME StableInv, NEW c, NEW outcome, GivenIs(c, outcome), NEW Q, Q = plan'
  PROVE  /\ Q = [t \in Tasks |-> Q[t]] /\ Q[Turn] = c /\ \A t \in Tasks \ {Turn} : Q[t] = plan[t]
         /\ Turn \in Movable /\ Turn \in Tasks /\ Turn \notin SettledTasks /\ EarlierTasks(Turn) = SettledTasks
         /\ \A t \in SettledTasks : t \in Tasks /\ t # Turn
         /\ occupied = TakenWith(Q, SettledTasks) /\ load = LoadedWith(Q, SettledTasks)
         /\ InTheirOrder
<1>1. FuturePlanInv /\ FutureTyped /\ ranked # <<>> BY DEF StableInv, FuturePlanInv, GivenIs
<1>2. ~Idling BY <1>1 DEF Idling
<1>3. InTheirOrder BY <1>2 DEF StableInv
<1>4. Turn \in DOMAIN ranked /\ Turn \in Movable /\ Turn \in Tasks BY <1>1, TurnIsOne
<1>5. Turn \notin SettledTasks BY <1>4 DEF SettledTasks
<1>6. EarlierTasks(Turn) = SettledTasks BY <1>1, <1>3, BeforeTurn
<1>7. Q = [plan EXCEPT ![Turn] = c] BY DEF GivenIs, Settled
<1>8. plan = [t \in Tasks |-> plan[t]] BY DEF StableInv
<1>9. Q = [t \in Tasks |-> Q[t]] /\ Q[Turn] = c /\ \A t \in Tasks \ {Turn} : Q[t] = plan[t]
  BY <1>4, <1>7, <1>8
<1>10. \A t \in SettledTasks : t \in Tasks /\ t # Turn BY <1>5 DEF SettledTasks, Movable
<1>11. TakenWith(Q, SettledTasks) = TakenWith(plan, SettledTasks) /\ LoadedWith(Q, SettledTasks) = LoadedWith(plan, SettledTasks)
  <2>1. PICK P : P = plan OBVIOUS
  <2>2. SettledTasks \in SUBSET Tasks BY <1>10
  <2>3. \A u \in SettledTasks : P[u] = Q[u] BY <1>9, <1>10, <2>1
  <2>4. TakenWith(P, SettledTasks) = TakenWith(Q, SettledTasks) /\ LoadedWith(P, SettledTasks) = LoadedWith(Q, SettledTasks)
    BY <2>2, <2>3, TakenAgrees
  <2> QED BY <2>1, <2>4
<1>12. occupied = TakenWith(Q, SettledTasks) /\ load = LoadedWith(Q, SettledTasks) BY <1>3, <1>11 DEF InTheirOrder
<1> QED BY <1>3, <1>4, <1>5, <1>6, <1>9, <1>10, <1>12

\* The task is decided by those before it, and those before it as they were.
LEMMA GivenIsDecided ==
  ASSUME StableInv, NEW c, NEW outcome, GivenIs(c, outcome), NEW Q, Q = plan'
  PROVE  /\ \A t \in SettledTasks \cup {Turn} : Decided(t, Q)
         /\ earlier # <<>> => \A t \in SettledTasks \cup {Turn} : Q[t] = earlier[1][t]
<1>1. /\ Q = [t \in Tasks |-> Q[t]] /\ Q[Turn] = c /\ \A t \in Tasks \ {Turn} : Q[t] = plan[t]
      /\ Turn \in Movable /\ Turn \in Tasks /\ Turn \notin SettledTasks /\ EarlierTasks(Turn) = SettledTasks
      /\ \A t \in SettledTasks : t \in Tasks /\ t # Turn
      /\ occupied = TakenWith(Q, SettledTasks) /\ load = LoadedWith(Q, SettledTasks)
      /\ InTheirOrder
  BY GivenAre
<1>2. Decides(Turn, occupied, load, c) BY DEF GivenIs
<1>3. Decided(Turn, Q) BY <1>1, <1>2, Zenon DEF Decided
<1>4. ASSUME NEW t \in SettledTasks PROVE Decided(t, Q)
  <2>1. Decided(t, plan) BY <1>1 DEF InTheirOrder
  <2>2. PICK P : P = plan OBVIOUS
  <2>3. \A u \in EarlierTasks(t) \cup {t} : P[u] = Q[u]
    <3>1. t # Turn /\ t \in Tasks BY <1>1
    <3>2. ASSUME NEW u \in EarlierTasks(t) PROVE u \in Tasks /\ u # Turn
      <4>1. u \in Tasks /\ Order[u] < Order[t] BY DEF EarlierTasks, Movable
      <4>2. Turn \in DOMAIN ranked BY TurnIsOne DEF StableInv, FuturePlanInv, GivenIs
      <4>3. Order[t] < Order[Turn] BY <1>1, <4>2 DEF InTheirOrder
      <4>4. Order \in [Movable -> Nat] BY OrderIs DEF StableInv, FuturePlanInv, FutureTyped
      <4>5. t \in Movable /\ u \in Movable BY DEF SettledTasks, EarlierTasks
      <4>6. Order[t] \in Nat /\ Order[Turn] \in Nat /\ Order[u] \in Nat BY <1>1, <4>4, <4>5
      <4>7. Order[u] # Order[Turn] BY <4>1, <4>3, <4>6
      <4> QED BY <4>1, <4>7
    <3> QED BY <1>1, <2>2, <3>1, <3>2
  <2>4. t \in Tasks BY <1>1
  <2>5. Decided(t, P) <=> Decided(t, Q) BY <2>3, <2>4, DecidedAgrees
  <2>6. Decided(t, P) BY <2>1, <2>2
  <2> QED BY <2>5, <2>6
<1>5. ASSUME earlier # <<>> PROVE \A t \in SettledTasks \cup {Turn} : Q[t] = earlier[1][t]
  <2>1. PICK E : E = earlier[1] OBVIOUS
  <2>2. AsApplied(E) BY <1>5, <2>1 DEF StableInv
  <2>3. \A t \in SettledTasks : Q[t] = E[t] BY <1>1, <1>5, <2>1 DEF InTheirOrder
  <2>4. Sessions(Turn) = E[Turn] /\ Decided(Turn, E) BY <1>1, <2>2 DEF AsApplied
  <2>5. TakenWith(Q, SettledTasks) = TakenWith(E, SettledTasks) /\ LoadedWith(Q, SettledTasks) = LoadedWith(E, SettledTasks)
    <3>1. SettledTasks \in SUBSET Tasks BY <1>1
    <3> QED BY <2>3, <3>1, TakenAgrees
  <2>6. Decides(Turn, occupied, load, E[Turn])
    <3>1. Decides(Turn, TakenWith(E, EarlierTasks(Turn)), LoadedWith(E, EarlierTasks(Turn)), E[Turn]) BY <2>4 DEF Decided
    <3>2. TakenWith(E, EarlierTasks(Turn)) = occupied /\ LoadedWith(E, EarlierTasks(Turn)) = load BY <1>1, <2>5
    <3> QED BY <3>1, <3>2
  <2>7. c = E[Turn] BY <2>4, <2>6 DEF GivenIs
  <2> QED BY <1>1, <2>1, <2>3, <2>7
<1> QED BY <1>3, <1>4, <1>5

\* A step that settles a task keeps the settled ones before the rest.
LEMMA OrderGoesOn ==
  ASSUME StableInv, NEW c, NEW outcome, GivenIs(c, outcome)
  PROVE  InTheirOrder' /\ ~Idling'
<1>1. PICK Q : Q = plan' OBVIOUS
<1>2. /\ Q = [t \in Tasks |-> Q[t]] /\ Q[Turn] = c /\ \A t \in Tasks \ {Turn} : Q[t] = plan[t]
      /\ Turn \in Movable /\ Turn \in Tasks /\ Turn \notin SettledTasks /\ EarlierTasks(Turn) = SettledTasks
      /\ \A t \in SettledTasks : t \in Tasks /\ t # Turn
      /\ occupied = TakenWith(Q, SettledTasks) /\ load = LoadedWith(Q, SettledTasks)
      /\ InTheirOrder
  BY <1>1, GivenAre
<1>3. FuturePlanInv /\ FutureTyped /\ FutureScene /\ ranked # <<>>
  BY DEF StableInv, FuturePlanInv, FutureTyped, GivenIs
<1>4. UNCHANGED <<row, request, events>> /\ earlier' = earlier BY DEF GivenIs, Settled
<1>5. Movable' = Movable /\ Fixtures' = Fixtures /\ Order' = Order BY <1>3, <1>4, SameOrder
<1>6. \A t \in Movable : \A P : Decided(t, P)' <=> Decided(t, P)
  <2>1. \A t \in Movable : SameLimits(t) BY <1>3, <1>4, SameOrder
  <2> QED BY <1>5, <2>1, SameDecisions
<1>7. Turn \in DOMAIN ranked BY <1>3, TurnIsOne
<1>8. DOMAIN ranked' = DOMAIN ranked \ {Turn} /\ \A t \in DOMAIN ranked' : ranked'[t] = ranked[t]
  <2>1. ranked' = [x \in DOMAIN ranked \ {Turn} |-> ranked[x]] BY DEF GivenIs, Settled, Restrict
  <2> QED BY <2>1
<1>9. SettledTasks' = SettledTasks \cup {Turn} BY <1>2, <1>5, <1>7, <1>8 DEF SettledTasks
<1>10. \A t \in DOMAIN ranked' : ranked'[t] = Order[t] BY <1>2, <1>8 DEF InTheirOrder
<1>11. \A t \in SettledTasks \cup {Turn}, u \in DOMAIN ranked' : Order[t] < Order[u]
  <2>1. \A u \in DOMAIN ranked \ {Turn} : Order[Turn] < Order[u] BY <1>2, <1>3, BeforeTurn
  <2> QED BY <1>2, <1>8, <2>1 DEF InTheirOrder
<1>12. occupied' = TakenWith(Q, SettledTasks \cup {Turn}) /\ load' = LoadedWith(Q, SettledTasks \cup {Turn})
  <2>1. PICK S, e : S = SettledTasks /\ e = Turn OBVIOUS
  <2>2. S \in SUBSET Tasks /\ e \in Tasks \ S BY <1>2, <2>1
  <2>3. \A u \in S \cup {e} : Q[u] \in Seq(Nat \X Nat) /\ OneDay(ToSet(Q[u]))
    <3>1. Q[e] \in Seq(Nat \X Nat) /\ OneDay(ToSet(Q[e])) BY <1>2, <2>1 DEF GivenIs, Fit
    <3>2. \A u \in S : plan[u] \in Seq(Nat \X Nat) /\ OneDay(ToSet(plan[u]))
      BY <1>3, <2>2 DEF FutureTyped
    <3>3. \A u \in S : Q[u] = plan[u] BY <1>2, <2>1
    <3> QED BY <3>1, <3>2, <3>3
  <2>4. /\ TakenWith(Q, S \cup {e}) = TakenWith(Q, S) \cup ToSet(Q[e])
        /\ LoadedWith(Q, S \cup {e}) = [d \in FutureDays |-> LoadedWith(Q, S)[d] + MinutesOn(Q[e], d)]
    BY <2>2, <2>3, TakenByOneMore
  <2>5. occupied' = occupied \cup ToSet(c) /\ load' = [d \in FutureDays |-> LoadWith(c, d)]
    BY DEF GivenIs, Settled
  <2>6. load' = [d \in FutureDays |-> load[d] + MinutesOn(c, d)]
    BY <2>5, LoadIsFrom, Zenon DEF LoadFrom
  <2>7. load = LoadedWith(Q, S) /\ occupied = TakenWith(Q, S) /\ Q[e] = c BY <1>2, <2>1
  <2>8. load' = LoadedWith(Q, S \cup {e}) BY <2>4, <2>6, <2>7, Zenon
  <2>9. occupied' = TakenWith(Q, S \cup {e}) BY <2>4, <2>5, <2>7
  <2> QED BY <2>1, <2>8, <2>9
<1>13. /\ \A t \in SettledTasks \cup {Turn} : Decided(t, Q)
       /\ earlier # <<>> => \A t \in SettledTasks \cup {Turn} : Q[t] = earlier[1][t]
  BY <1>1, GivenIsDecided
<1>14. \A t \in SettledTasks \cup {Turn} : Decided(t, Q)'
  <2>1. \A t \in SettledTasks \cup {Turn} : t \in Movable BY <1>2 DEF SettledTasks
  <2> QED BY <1>6, <1>13, <2>1
<1>15. ~Idling'
  <2>1. why'[Turn] = outcome /\ outcome # "none" BY <1>2, <1>3 DEF GivenIs, Settled, FutureTyped
  <2> QED BY <1>2, <2>1 DEF Idling, Unplanned
<1>16. /\ TakenWith(plan, SettledTasks)' = TakenWith(Q, SettledTasks \cup {Turn})
       /\ LoadedWith(plan, SettledTasks)' = LoadedWith(Q, SettledTasks \cup {Turn})
  <2>1. PICK T : T = SettledTasks \cup {Turn} OBVIOUS
  <2>2. SettledTasks' = T /\ plan' = Q BY <1>1, <1>9, <2>1
  <2>3. TakenWith(plan, SettledTasks)' = TakenWith(Q, T) BY <1>5, <2>2, Zenon DEF TakenWith
  <2>4. LoadedWith(plan, SettledTasks)' = LoadedWith(Q, T) BY <2>2, Zenon DEF LoadedWith
  <2> QED BY <2>1, <2>3, <2>4
<1>17. ASSUME NEW t \in SettledTasks' PROVE Decided(t, plan)'
  <2>1. Decided(t, Q)' BY <1>9, <1>14
  <2> QED BY <1>1, <2>1, Zenon DEF Decided, TakenWith, LoadedWith, Decides
<1>18. \A t \in SettledTasks' : earlier' # <<>> => plan'[t] = earlier'[1][t] BY <1>1, <1>4, <1>9, <1>13
<1>19. \A t \in DOMAIN ranked' : ranked'[t] = Order'[t] BY <1>5, <1>10
<1>20. \A t \in SettledTasks', u \in DOMAIN ranked' : Order'[t] < Order'[u] BY <1>5, <1>9, <1>11
<1>21. occupied' = TakenWith(plan, SettledTasks)' /\ load' = LoadedWith(plan, SettledTasks)' BY <1>12, <1>16
<1> QED BY <1>15, <1>17, <1>18, <1>19, <1>20, <1>21, Zenon DEF InTheirOrder

\* The plan before, by its name.
LEMMA SameApplied ==
  ASSUME NEW E, AsApplied(E)', earlier'[1] = E
  PROVE  AsApplied(earlier[1])'
<1>1. ASSUME NEW t PROVE Decided(t, E)' => Decided(t, earlier[1])'
  BY Zenon DEF Decided, Decides, TakenWith, LoadedWith
<1>2. /\ E = [t \in Tasks |-> E[t]]
      /\ \A t \in Tasks \ Movable' : E[t] = <<>>
      /\ \A t \in Movable' : Sessions(t)' = E[t] /\ Decided(t, E)'
  BY Zenon DEF AsApplied
<1>3. \A t \in Movable' : Sessions(t)' = earlier'[1][t] /\ Decided(t, earlier[1])' BY <1>1, <1>2
<1>4. /\ earlier'[1] = [t \in Tasks |-> earlier'[1][t]]
      /\ \A t \in Tasks \ Movable' : earlier'[1][t] = <<>>
  BY <1>2
<1> QED BY <1>3, <1>4, Zenon DEF AsApplied

\* A step that settles a task keeps the invariant.
LEMMA SettlesKeeps ==
  ASSUME StableInv, Settles
  PROVE  StableInv'
<1>1. PICK c, outcome : GivenIs(c, outcome) BY StepGives DEF StableInv
<1>2. FuturePlanInv' BY <1>1, SettledKeeps DEF StableInv, GivenIs
<1>3. InTheirOrder' /\ ~Idling' BY <1>1, OrderGoesOn
<1>4. PICK Q : Q = plan' OBVIOUS
<1>5. /\ Q = [t \in Tasks |-> Q[t]] /\ \A t \in Tasks \ {Turn} : Q[t] = plan[t]
      /\ Turn \in Movable
  BY <1>1, <1>4, GivenAre
<1>6. UNCHANGED <<row, request, events>> /\ earlier' = earlier BY <1>1 DEF GivenIs, Settled
<1>7. FutureScene BY DEF StableInv, FuturePlanInv, FutureTyped
<1>8. Movable' = Movable BY <1>6, SameScene
<1>9. plan' = [t \in Tasks |-> plan'[t]] BY <1>4, <1>5
<1>10. \A t \in Tasks \ Movable' : plan'[t] = <<>> BY <1>4, <1>5, <1>8 DEF StableInv
<1>11. ASSUME earlier' # <<>> PROVE AsApplied(earlier[1])'
  <2>1. PICK E : E = earlier[1] OBVIOUS
  <2>2. AsApplied(E) BY <1>6, <1>11, <2>1 DEF StableInv
  <2>3. AsApplied(E)' BY <1>6, <1>7, <2>2, AppliedKept
  <2>4. earlier'[1] = E BY <1>6, <2>1
  <2> QED BY <2>3, <2>4, SameApplied
<1> QED BY <1>2, <1>3, <1>9, <1>10, <1>11, Zenon DEF StableInv

-----------------------------------------------------------------------------
(* The preview after the one that was applied *)

\* The same tasks are asked for, and the same time is taken.
LEMMA AppliedSame ==
  ASSUME FuturePlanInv, ApplyAndPlanAgain
  PROVE  Movable' = Movable /\ Fixtures' = Fixtures
<1>0. FutureScene BY DEF FuturePlanInv, FutureTyped
<1>1. /\ \A t \in Tasks \ Movable : row'[t] = row[t]
      /\ \A t \in Movable : t \in Tasks /\ ~row[t].protected /\ ~row'[t].protected
                            /\ row'[t].existing = plan[t] /\ ~row'[t].draft
      /\ \A t \in Tasks : ~row'[t].draft
      /\ request'.everything = request.everything
      /\ request'.tasks = IF request.everything THEN {} ELSE Movable
  BY <1>0, AppliedRows
<1>2. Movable' = {t \in Tasks : ~row'[t].protected
                               /\ (row'[t].draft \/ request'.everything \/ t \in request'.tasks)}
  BY Zenon DEF Movable, Asked
<1>3. ASSUME NEW t \in Tasks PROVE t \in Movable' <=> t \in Movable
  <2>1. CASE t \in Movable
    <3>1. ~row'[t].protected BY <1>1, <2>1
    <3>2. request'.everything \/ t \in request'.tasks BY <1>1, <2>1
    <3> QED BY <1>2, <2>1, <3>1, <3>2
  <2>2. CASE t \notin Movable
    <3>1. row'[t].protected = row[t].protected /\ ~row'[t].draft BY <1>1, <2>2
    <3>2. t \notin request'.tasks BY <1>1, <2>2
    <3>3. ~row[t].protected => ~request.everything BY <2>2 DEF Movable, Asked
    <3> QED BY <1>1, <1>2, <2>2, <3>1, <3>2, <3>3
  <2> QED BY <2>1, <2>2
<1>4. Movable' = Movable
  <2>1. Movable \subseteq Tasks /\ Movable' \subseteq Tasks BY <1>2 DEF Movable
  <2> QED BY <1>3, <2>1
<1>5. Staying' = Staying
  <2>1. Staying' = UNION {{i \in ToSet(row'[t].existing) : InHorizon(i)} : t \in Tasks \ Movable}
    BY <1>4, Zenon DEF Staying, InHorizon
  <2>2. \A t \in Tasks \ Movable : {i \in ToSet(row'[t].existing) : InHorizon(i)}
                                     = {i \in ToSet(row[t].existing) : InHorizon(i)}
    BY <1>1
  <2> QED BY <2>1, <2>2 DEF Staying
<1>6. \A e \in events : /\ (Exported(e) /\ e \in events') => Exported(e)'
                        /\ ~Exported(e) => e \in events' /\ ~Exported(e)'
  BY ExportedStill
<1>7. Blocking' = Blocking
  <2>1. events' \subseteq events BY DEF ApplyAndPlanAgain
  <2>2. Blocking' = {e.at : e \in {f \in events' : ~Exported(f)'}} BY Zenon DEF Blocking, Exported
  <2>3. {f \in events' : ~Exported(f)'} = {f \in events : ~Exported(f)} BY <1>6, <2>1
  <2> QED BY <2>2, <2>3 DEF Blocking
<1> QED BY <1>4, <1>5, <1>7 DEF Fixtures

\* What is planned of a task, and what it is ranked by, is as it was.
LEMMA AppliedLimits ==
  ASSUME FutureScene, ApplyAndPlanAgain, NEW t \in Movable
  PROVE  SameLimits(t) /\ Wanted(t)'.priority = Wanted(t).priority
<1>1. /\ row'[t] = [Wanted(t) EXCEPT !.existing = plan[t], !.draft = FALSE]
      /\ t \in Tasks /\ DOMAIN request'.changes = {}
  BY AppliedRows
<1>2. PICK w, v : w = Wanted(t) /\ v = row'[t] OBVIOUS
<1>3. w \in FutureRow BY <1>1, <1>2, WantedTyped
<1>4. v = [w EXCEPT !.existing = plan[t], !.draft = FALSE] BY <1>1, <1>2
<1>5. /\ v.estimated = w.estimated /\ v.actual = w.actual /\ v.priority = w.priority
      /\ v.nature = w.nature /\ v.earliest = w.earliest /\ v.deadline = w.deadline
  BY <1>3, <1>4 DEF FutureRow
<1>6. Wanted(t)' = v
  <2>1. t \notin DOMAIN request'.changes BY <1>1
  <2>2. Wanted(t)' = row'[t] BY <2>1, Zenon DEF Wanted
  <2> QED BY <1>2, <2>2
<1>7. Remaining(t)' = Remaining(t) BY <1>2, <1>5, <1>6, Zenon DEF Remaining
<1>8. OpensAt(t)' = OpensAt(t) /\ ClosesAt(t)' = ClosesAt(t) BY <1>2, <1>5, <1>6, Zenon DEF OpensAt, ClosesAt
<1>9. Wanted(t)'.nature = Wanted(t).nature /\ Wanted(t)'.deadline = Wanted(t).deadline
      /\ Wanted(t)'.priority = Wanted(t).priority
  BY <1>2, <1>5, <1>6, Zenon
<1> QED BY <1>7, <1>8, <1>9 DEF SameLimits

\* Drafts come after the saved tasks, and when all are saved by their rank of id.
LEMMA AppliedOrder ==
  ASSUME FuturePlanInv, ApplyAndPlanAgain
  PROVE  Order' = Order
<1>0. FutureScene BY DEF FuturePlanInv, FutureTyped
<1>1. Movable' = Movable /\ Fixtures' = Fixtures BY AppliedSame
<1>2. PICK T : T = Fixtures OBVIOUS
<1>3. T = Fixtures' BY <1>1, <1>2
<1>4. ASSUME NEW x \in Movable, NEW k, k = KeyOf(x, T), NEW k2, k2 = KeyOf(x, T)'
      PROVE  /\ k \in Keys /\ k2 \in Keys /\ k[5] = x /\ k2[5] = x
             /\ k2[1] = k[1] /\ k2[2] = k[2] /\ k2[3] = k[3]
             /\ k[4] = (IF row[x].draft THEN 1 ELSE 0) /\ k2[4] = 0
  <2>1. SameLimits(x) /\ Wanted(x)'.priority = Wanted(x).priority BY <1>0, AppliedLimits
  <2>2. x \in Tasks /\ ~row'[x].draft BY <1>0, AppliedRows
  <2>3. k \in Keys /\ k[5] = x BY <1>2, <1>4, OrderByKeys, <1>0
  <2>4. PICK a, b, c, d : /\ a = Capacity(Windows(T, OpensAt(x), ClosesAt(x))) - Remaining(x)
                          /\ b = Wanted(x).priority /\ c = ClosesAt(x)
                          /\ d = IF row[x].draft THEN 1 ELSE 0
    OBVIOUS
  <2>5. k = <<a, b, c, d, x>> BY <1>4, <2>4, Zenon DEF KeyOf
  <2>6. k2 = <<a, b, c, 0, x>>
    <3>1. /\ Capacity(Windows(T, OpensAt(x), ClosesAt(x)))' - Remaining(x)' = a
          /\ Wanted(x)'.priority = b /\ ClosesAt(x)' = c
      BY <2>1, <2>4, Zenon DEF SameLimits
    <3>2. (IF row'[x].draft THEN 1 ELSE 0) = 0 BY <2>2
    <3> QED BY <1>4, <3>1, <3>2, Zenon DEF KeyOf
  <2>7. k2[5] = x /\ k2[1] = k[1] /\ k2[2] = k[2] /\ k2[3] = k[3] /\ k[4] = d /\ k2[4] = 0
    BY <2>5, <2>6
  <2>8. k2 \in Keys
    <3>1. k[1] \in Int /\ k[2] \in Int /\ k[3] \in Int /\ k[5] \in Int BY <2>3, KeyNumbers
    <3>2. ASSUME NEW i \in 1 .. 5 PROVE k2[i] \in Int
      <4>1. i = 1 \/ i = 2 \/ i = 3 \/ i = 4 \/ i = 5 OBVIOUS
      <4> QED BY <2>3, <2>7, <3>1, <4>1
    <3>3. k2 = [i \in 1 .. 5 |-> k2[i]] BY <2>6
    <3> QED BY <3>2, <3>3 DEF Keys
  <2> QED BY <2>3, <2>4, <2>7, <2>8
<1>5. ASSUME NEW t \in Movable, NEW u \in Movable, t # u
      PROVE  RankedBefore(t, u, Fixtures)' <=> RankedBefore(t, u, Fixtures)
  <2>1. PICK k, m : k = KeyOf(t, T) /\ m = KeyOf(u, T) OBVIOUS
  <2>2. PICK k2, m2 : k2 = KeyOf(t, T)' /\ m2 = KeyOf(u, T)' OBVIOUS
  <2>3. /\ k \in Keys /\ k2 \in Keys /\ k[5] = t /\ k2[5] = t
        /\ k2[1] = k[1] /\ k2[2] = k[2] /\ k2[3] = k[3]
        /\ k[4] = (IF row[t].draft THEN 1 ELSE 0) /\ k2[4] = 0
    BY <1>4, <2>1, <2>2
  <2>4. /\ m \in Keys /\ m2 \in Keys /\ m[5] = u /\ m2[5] = u
        /\ m2[1] = m[1] /\ m2[2] = m[2] /\ m2[3] = m[3]
        /\ m[4] = (IF row[u].draft THEN 1 ELSE 0) /\ m2[4] = 0
    BY <1>4, <2>1, <2>2
  <2>5. k[4] < m[4] => k[5] < m[5]
    <3>1. k[4] < m[4] => row[u].draft /\ ~row[t].draft BY <2>3, <2>4
    <3>2. t \in Tasks /\ u \in Tasks BY DEF Movable
    <3>3. row[u].draft /\ ~row[t].draft => t < u BY <1>0, <3>2 DEF FutureScene
    <3> QED BY <2>3, <2>4, <3>1, <3>3
  <2>6. m[4] < k[4] => m[5] < k[5]
    <3>1. m[4] < k[4] => row[t].draft /\ ~row[u].draft BY <2>3, <2>4
    <3>2. t \in Tasks /\ u \in Tasks BY DEF Movable
    <3>3. row[t].draft /\ ~row[u].draft => u < t BY <1>0, <3>2 DEF FutureScene
    <3> QED BY <2>3, <2>4, <3>1, <3>3
  <2>7. KeyLess(k2, m2) <=> KeyLess(k, m) BY <2>3, <2>4, <2>5, <2>6, WithoutTheFourth
  <2>8. RankedBefore(t, u, Fixtures)' <=> KeyLess(k2, m2) BY <1>3, <1>5, <2>2, <2>3, <2>4, RankedNext
  <2>9. RankedBefore(t, u, T) <=> KeyLess(k, m)
    <3>1. OneDay(T) BY <1>0, <1>2, TakenAtFirst DEF Fixtures
    <3>2. t \in Tasks /\ u \in Tasks BY DEF Movable
    <3>3. RankedBefore(t, u, T) <=> KeyLess(KeyOf(t, T), KeyOf(u, T)) BY <1>0, <1>5, <3>1, <3>2, RankedByKey
    <3> QED BY <2>1, <3>3
  <2> QED BY <1>2, <2>7, <2>8, <2>9
<1> QED BY <1>1, <1>5, OrderKept

\* Before the first preview nothing is planned.
LEMMA StableAtFirst ==
  ASSUME FutureInit, FutureScene
  PROVE  StableInv
<1>1. FuturePlanInv BY FutureInitKept
<1>2. plan = [t \in Tasks |-> <<>>] /\ load = [d \in FutureDays |-> 0] /\ earlier = <<>>
  BY DEF FutureInit
<1>3. plan = [t \in Tasks |-> plan[t]] /\ \A t \in Tasks \ Movable : plan[t] = <<>> BY <1>2
<1>4. Idling BY DEF FutureInit, Idling, Unplanned
<1> QED BY <1>1, <1>2, <1>3, <1>4 DEF StableInv

\* A preview that begins: every task is left, in its place.
LEMMA StablePreview ==
  ASSUME StableInv, Preview
  PROVE  StableInv'
<1>0. FuturePlanInv /\ FutureTyped /\ FutureScene BY DEF StableInv, FuturePlanInv, FutureTyped
<1>1. FuturePlanInv' BY <1>0, PreviewKept
<1>2. UNCHANGED <<row, request, events>> /\ load' = load /\ plan' = plan /\ why' = why /\ earlier' = earlier
  BY DEF Preview
<1>3. Movable' = Movable /\ Fixtures' = Fixtures /\ Order' = Order BY <1>0, <1>2, SameOrder
<1>4. occupied' = Fixtures BY DEF Preview, Fixtures
<1>5. ranked' = Order
  <2>1. ranked' = InOrder(Movable, LAMBDA t, u : RankedBefore(t, u, Blocking \cup Staying)) BY DEF Preview
  <2>2. ranked' = [t \in Movable |-> Cardinality({u \in Movable \ {t} : RankedBefore(u, t, Blocking \cup Staying)})]
    BY <2>1, Zenon DEF InOrder
  <2> QED BY <2>2, Zenon DEF Order, Fixtures
<1>6. DOMAIN ranked' = Movable /\ Movable # {}
  <2>1. DOMAIN Order = Movable BY DEF Order
  <2> QED BY <1>5, <2>1 DEF Preview
<1>7. Idling BY DEF Preview, Idling
<1>8. load = [d \in FutureDays |-> 0] BY <1>7 DEF StableInv
<1>9. ~Idling'
  <2>1. ranked' # <<>>
    <3>1. ranked' = <<>> => DOMAIN ranked' = {} OBVIOUS
    <3> QED BY <1>6, <3>1
  <2> QED BY <2>1 DEF Idling
<1>10. SettledTasks' = {} BY <1>3, <1>6 DEF SettledTasks
<1>11. InTheirOrder'
  <2>1. \A t \in DOMAIN ranked' : ranked'[t] = Order'[t] BY <1>3, <1>5
  <2>2. PICK Q : Q = plan' OBVIOUS
  <2>3. TakenWith(plan, SettledTasks)' = TakenWith(Q, {})
    <3>1. TakenWith(plan, SettledTasks)' = Fixtures' \cup UNION {ToSet(plan'[u]) : u \in SettledTasks'}
      BY Zenon DEF TakenWith, ToSet
    <3>2. TakenWith(Q, {}) = Fixtures \cup UNION {ToSet(Q[u]) : u \in {}} BY Zenon DEF TakenWith
    <3> QED BY <1>3, <1>10, <2>2, <3>1, <3>2
  <2>4. LoadedWith(plan, SettledTasks)' = LoadedWith(Q, {})
    <3>1. LoadedWith(plan, SettledTasks)' = [d \in FutureDays |-> Sum([u \in Tasks |-> MinutesOn(plan'[u], d)], SettledTasks')]
      BY Zenon DEF LoadedWith
    <3> QED BY <1>10, <2>2, <3>1, Zenon DEF LoadedWith
  <2>5. occupied' = TakenWith(plan, SettledTasks)' /\ load' = LoadedWith(plan, SettledTasks)'
    BY <1>2, <1>4, <1>8, <2>3, <2>4, NothingLoaded
  <2>6. /\ \A t \in SettledTasks', u \in DOMAIN ranked' : Order'[t] < Order'[u]
        /\ \A t \in SettledTasks' : Decided(t, plan)'
        /\ \A t \in SettledTasks' : plan'[t] = earlier'[1][t]
    BY <1>10
  <2> QED BY <2>1, <2>5, <2>6, Zenon DEF InTheirOrder
<1>12. plan' = [t \in Tasks |-> plan'[t]] /\ \A t \in Tasks \ Movable' : plan'[t] = <<>>
  BY <1>2, <1>3 DEF StableInv
<1>13. ASSUME earlier' # <<>> PROVE AsApplied(earlier[1])'
  <2>1. PICK E : E = earlier[1] OBVIOUS
  <2>2. AsApplied(E) BY <1>2, <1>13, <2>1 DEF StableInv
  <2>3. AsApplied(E)' BY <1>0, <1>2, <2>2, AppliedKept
  <2>4. earlier'[1] = E BY <1>2, <2>1
  <2> QED BY <2>3, <2>4, SameApplied
<1> QED BY <1>1, <1>9, <1>11, <1>12, <1>13, Zenon DEF StableInv

\* A plan that is applied: the tasks have the segments it decided.
LEMMA StableApply ==
  ASSUME StableInv, ApplyAndPlanAgain
  PROVE  StableInv'
<1>0. FuturePlanInv /\ FutureTyped /\ FutureScene BY DEF StableInv, FuturePlanInv, FutureTyped
<1>1. FuturePlanInv' BY <1>0, ApplyKept
<1>2. /\ ranked' = <<>> /\ load' = [d \in FutureDays |-> 0]
      /\ plan' = [t \in Tasks |-> <<>>] /\ why' = [t \in Tasks |-> "none"] /\ earlier' = <<plan>>
  BY DEF ApplyAndPlanAgain
<1>3. Movable' = Movable /\ Fixtures' = Fixtures /\ Order' = Order BY <1>0, AppliedSame, AppliedOrder
<1>4. Idling' BY <1>2 DEF Idling, Unplanned
<1>5. plan' = [t \in Tasks |-> plan'[t]] /\ \A t \in Tasks \ Movable' : plan'[t] = <<>> BY <1>2
<1>6. ~Idling /\ ranked = <<>> BY DEF ApplyAndPlanAgain, Planned, Idling
<1>7. InTheirOrder /\ SettledTasks = Movable
  <2>1. DOMAIN ranked = {} BY <1>6
  <2> QED BY <1>6, <2>1 DEF StableInv, SettledTasks
<1>8. PICK E : E = plan OBVIOUS
<1>9. \A t \in Movable : Decided(t, E)' <=> Decided(t, E)
  <2>1. \A t \in Movable : SameLimits(t) BY <1>0, AppliedLimits
  <2> QED BY <1>3, <2>1, SameDecisions
<1>10. \A t \in Movable : Decided(t, E) BY <1>7, <1>8 DEF InTheirOrder
<1>11. \A t \in Movable : Sessions(t)' = E[t]
  <2>1. \A t \in Movable : row'[t].existing = plan[t] BY <1>0, AppliedRows
  <2> QED BY <1>8, <2>1, Zenon DEF Sessions
<1>12. E = [t \in Tasks |-> E[t]] /\ \A t \in Tasks \ Movable : E[t] = <<>> BY <1>8 DEF StableInv
<1>13. AsApplied(E)'
  <2>1. \A t \in Movable' : Sessions(t)' = E[t] /\ Decided(t, E)' BY <1>3, <1>9, <1>10, <1>11
  <2>2. \A t \in Tasks \ Movable' : E[t] = <<>> BY <1>3, <1>12
  <2> QED BY <1>12, <2>1, <2>2, Zenon DEF AsApplied
<1>14. earlier'[1] = E BY <1>2, <1>8
<1>15. AsApplied(earlier[1])' BY <1>13, <1>14, SameApplied
<1> QED BY <1>1, <1>2, <1>4, <1>5, <1>15, Zenon DEF StableInv

\* A step that changes nothing keeps the invariant.
LEMMA StableStutter ==
  ASSUME StableInv, UNCHANGED futureVars
  PROVE  StableInv'
<1>0. FuturePlanInv /\ FutureTyped /\ FutureScene BY DEF StableInv, FuturePlanInv, FutureTyped
<1>1. FuturePlanInv' BY <1>0, FutureStepKept
<1>2. /\ UNCHANGED <<row, request, events>> /\ ranked' = ranked /\ occupied' = occupied
      /\ load' = load /\ plan' = plan /\ why' = why /\ earlier' = earlier
  BY DEF futureVars
<1>3. Movable' = Movable /\ Fixtures' = Fixtures /\ Order' = Order BY <1>0, <1>2, SameOrder
<1>4. Idling' <=> Idling BY <1>2, Zenon DEF Idling, Unplanned
<1>5. PICK Q, S : Q = plan /\ S = SettledTasks OBVIOUS
<1>6. SettledTasks' = S BY <1>2, <1>3, <1>5 DEF SettledTasks
<1>7. /\ TakenWith(plan, SettledTasks)' = TakenWith(Q, S)
      /\ LoadedWith(plan, SettledTasks)' = LoadedWith(Q, S)
  <2>1. plan' = Q BY <1>2, <1>5
  <2>2. TakenWith(plan, SettledTasks)' = TakenWith(Q, S) BY <1>3, <1>6, <2>1, Zenon DEF TakenWith
  <2>3. LoadedWith(plan, SettledTasks)' = LoadedWith(Q, S) BY <1>6, <2>1, Zenon DEF LoadedWith
  <2> QED BY <2>2, <2>3
<1>8. ASSUME InTheirOrder PROVE InTheirOrder'
  <2>1. \A t \in DOMAIN ranked' : ranked'[t] = Order'[t] BY <1>2, <1>3, <1>8 DEF InTheirOrder
  <2>2. \A t \in SettledTasks', u \in DOMAIN ranked' : Order'[t] < Order'[u]
    BY <1>2, <1>3, <1>5, <1>6, <1>8 DEF InTheirOrder
  <2>3. occupied' = TakenWith(plan, SettledTasks)' /\ load' = LoadedWith(plan, SettledTasks)'
    BY <1>2, <1>5, <1>7, <1>8 DEF InTheirOrder
  <2>4. ASSUME NEW t \in SettledTasks' PROVE Decided(t, plan)'
    <3>1. t \in Movable BY <1>5, <1>6 DEF SettledTasks
    <3>2. \A u \in Movable : SameLimits(u) BY <1>0, <1>2, SameOrder
    <3>3. Decided(t, Q)' <=> Decided(t, Q) BY <1>3, <3>1, <3>2, SameDecisions
    <3>4. Decided(t, Q) BY <1>5, <1>6, <1>8 DEF InTheirOrder
    <3>5. plan' = Q BY <1>2, <1>5
    <3>6. Decided(t, Q)' BY <3>3, <3>4
    <3> QED BY <3>5, <3>6, Zenon DEF Decided, TakenWith, LoadedWith, Decides
  <2>5. \A t \in SettledTasks' : earlier' # <<>> => plan'[t] = earlier'[1][t]
    BY <1>2, <1>5, <1>6, <1>8 DEF InTheirOrder
  <2> QED BY <2>1, <2>2, <2>3, <2>4, <2>5, Zenon DEF InTheirOrder
<1>9. plan' = [t \in Tasks |-> plan'[t]] /\ \A t \in Tasks \ Movable' : plan'[t] = <<>>
  BY <1>2, <1>3 DEF StableInv
<1>10. ASSUME earlier' # <<>> PROVE AsApplied(earlier[1])'
  <2>1. PICK E : E = earlier[1] OBVIOUS
  <2>2. AsApplied(E) BY <1>2, <1>10, <2>1 DEF StableInv
  <2>3. AsApplied(E)' BY <1>0, <1>2, <2>2, AppliedKept
  <2>4. earlier'[1] = E BY <1>2, <2>1
  <2> QED BY <2>3, <2>4, SameApplied
<1>11. Idling => load' = [d \in FutureDays |-> 0] BY <1>2 DEF StableInv
<1>12. ~Idling => InTheirOrder' BY <1>8 DEF StableInv
<1> QED BY <1>1, <1>4, <1>9, <1>10, <1>11, <1>12, Zenon DEF StableInv

\* Every step keeps the invariant.
LEMMA StableStepKept ==
  ASSUME StableInv, [FutureNext]_futureVars
  PROVE  StableInv'
<1>1. CASE Preview BY <1>1, StablePreview
<1>2. CASE Settles BY <1>2, SettlesKeeps
<1>3. CASE ApplyAndPlanAgain BY <1>3, StableApply
<1>4. CASE UNCHANGED futureVars BY <1>4, StableStutter
<1> QED BY <1>1, <1>2, <1>3, <1>4 DEF FutureNext, Settles

\* The reduction is exact where the invariant holds, and a finished second
\* preview has given every task what the first one did.
LEMMA ExactAndStable ==
  ASSUME StableInv
  PROVE  ReductionIsExact
<1>0. FuturePlanInv BY DEF StableInv
<1>1. ASSUME ranked # <<>>, NEW W, W = Options
      PROVE  LET all == (Smaller(W) \cup UNION {{Across(<<p[1], p[2], w>>) :
                     w \in {v \in W : Earlier(p[2], v)}} : p \in Pairs(W)}) \ {<<>>}
             IN all # {} => BestOf(Candidates(W), Preferred) = BestOf(all, Preferred)
  <2>1. AllOf(W) # {} => BestOf(Candidates(W), Preferred) = BestOf(AllOf(W), Preferred)
    BY <1>0, <1>1, ReductionOfAny
  <2> QED BY <2>1, Zenon DEF AllOf, AllTriples, Behind
<1>2. ASSUME Planned, earlier # <<>> PROVE plan = earlier[1]
  <2>1. ~Idling /\ ranked = <<>> BY <1>2 DEF Planned, Idling
  <2>2. SettledTasks = Movable
    <3>1. DOMAIN ranked = {} BY <2>1
    <3> QED BY <3>1 DEF SettledTasks
  <2>3. InTheirOrder BY <2>1 DEF StableInv
  <2>4. PICK E : E = earlier[1] OBVIOUS
  <2>5. AsApplied(E) BY <1>2, <2>4 DEF StableInv
  <2>6. \A t \in Movable : plan[t] = E[t] BY <1>2, <2>2, <2>3, <2>4 DEF InTheirOrder
  <2>7. \A t \in Tasks \ Movable : plan[t] = <<>> /\ E[t] = <<>> BY <2>5 DEF StableInv, AsApplied
  <2>8. \A t \in Tasks : plan[t] = E[t] BY <2>6, <2>7
  <2>9. plan = [t \in Tasks |-> plan[t]] /\ E = [t \in Tasks |-> E[t]] BY <2>5 DEF StableInv, AsApplied
  <2>10. plan = E BY <2>8, <2>9
  <2> QED BY <2>4, <2>10
<1> QED BY <1>1, <1>2, Zenon DEF ReductionIsExact

\* Whatever the tasks, the windows and the load of the days: looking at the
\* third windows that are worth a look finds what looking at all would find,
\* and planning again what was just applied moves nothing (future_planner.py).
THEOREM ReductionHolds == FutureSpec => []ReductionIsExact
<1>1. FutureInit /\ FutureScene => StableInv BY StableAtFirst
<1>2. StableInv /\ [FutureNext]_futureVars => StableInv' BY StableStepKept
<1>3. StableInv => ReductionIsExact BY ExactAndStable
<1> QED BY <1>1, <1>2, <1>3, PTL DEF FutureSpec
==============================================================================
