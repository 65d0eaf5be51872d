----------------------------- MODULE MCPlanning -----------------------------
(***************************************************************************)
(* The planners and the pages that use them, checked in one run: a         *)
(* behaviour is one of the day's operations ("day"), of the multi-day      *)
(* preview ("future"), of a task's timer ("timer"), of drafted tasks       *)
(* ("drafts"), of the page of Future Planning ("dialogue") or of what the  *)
(* pages show of a command ("results").                                    *)
(*                                                                         *)
(* One day of three tasks.  The catalogue holds the tasks that make the    *)
(* allocator's branches meet: long ones that prefer sessions, with and     *)
(* without a deadline, fillers of 360, 60 and 10 minutes, one with an      *)
(* earliest start, and a Fixed one.                                        *)
(*                                                                         *)
(* Three tasks over three evenings, whose events leave windows of 30 to 60 *)
(* minutes of equal and of different lengths, so that the longer tasks     *)
(* need three of them.                                                     *)
(***************************************************************************)
EXTENDS DayPlanning, FuturePlanning, TaskTimer, TodayDrafts, PlanningDialogue,
        PageResults, TLC

CONSTANTS a1, a2   \* two accounts

VARIABLE part

Is(minutes, priority, nature, earliest, deadline, fixed, isBreak) ==
  [minutes |-> minutes, priority |-> priority, nature |-> nature,
   earliest |-> earliest, deadline |-> deadline, fixed |-> fixed, isBreak |-> isBreak]

MCCatalogue ==
  {Is(480, 2, "generic", 0, 1290, <<>>, FALSE), Is(360, 3, "leisure", 0, Never, <<>>, FALSE),
   Is(60, 4, "practical", 600, Never, <<>>, FALSE), Is(10, 1, "generic", 0, Never, <<>>, FALSE),
   Is(60, 1, "generic", 0, Never, <<660, 720>>, FALSE),
   Is(30, 1, "generic", 0, Never, <<700, 730>>, TRUE)}

MCCalendars ==
  {{<<600, 630>>}, {<<490, 600>>, <<700, 1100>>, <<1150, 1400>>}}

\* An event after the deadline of the catalogue's long task.
MCLateCalendars == {{<<1320, 1400>>}}

At2(date, from, to) == <<date * 1440 + from, date * 1440 + to>>

Of(estimated, nature, earliest, deadline, existing) ==
  [estimated |-> estimated, actual |-> 0, priority |-> 3, nature |-> nature, earliest |-> earliest,
   deadline |-> deadline, protected |-> FALSE, existing |-> existing, draft |-> FALSE]

MCRows ==
  {[Of(140, "generic", 0, NoDate, <<>>) EXCEPT !.actual = 40],
   Of(30, "leisure", 0, 1440 + 1300, <<At2(1, 1200, 1230)>>),
   Of(130, "generic", 0, NoDate, <<At2(0, 1200, 1240), At2(1, 1200, 1240), At2(2, 1380, 1430)>>),
   Of(70, "high_focus", 1440 + 1210, NoDate, <<At2(1, 1380, 1420), At2(2, 1200, 1230)>>),
   [Of(60, "practical", 0, NoDate, <<At2(1, 1200, 1240)>>) EXCEPT !.protected = TRUE],
   [Of(60, "practical", 0, 2 * 1440 + 1439, <<>>) EXCEPT !.draft = TRUE]}

MCRequests ==
  {[everything |-> TRUE, tasks |-> {}, changes |-> <<>>],
   [everything |-> FALSE, tasks |-> {1, 2}, changes |-> <<>>],
   [everything |-> TRUE, tasks |-> {},
    changes |-> 1 :> [estimated |-> 40, earliest |-> 0, deadline |-> 2 * 1440 + 1260]]}

Event(date, from, to, of) == [at |-> At2(date, from, to), of |-> of]
EachDay(from, to) == {Event(d, from, to, 0) : d \in FutureDays}

MCEvents ==
  {EachDay(1430, 1439) \cup EachDay(1240, 1380) \cup {Event(1, 1200, 1240, 1)},
   EachDay(1430, 1439) \cup {Event(d, 1230, 1260 + 60 * d, 0) : d \in FutureDays},
   EachDay(1430, 1439) \cup EachDay(1230, 1300) \cup EachDay(1330, 1400)}

\* At least two tasks are alike.
Scenes ==
  /\ row \in {f \in [Tasks -> MCRows] : f[1] = f[2] \/ f[1] = f[3] \/ f[2] = f[3]}
  /\ request \in MCRequests /\ events \in MCEvents
  /\ FutureScene
NoScene ==
  /\ row = [t \in Tasks |-> CHOOSE r \in MCRows : TRUE]
  /\ request = [everything |-> TRUE, tasks |-> {}, changes |-> <<>>] /\ events = {}

NoDay ==
  /\ AllocationInit
  /\ task = [t \in Ids |-> CHOOSE x \in MCCatalogue : TRUE] /\ calendar = {} /\ spec = task
  /\ status = [t \in Ids |-> "absent"] /\ day = [t \in Ids |-> <<>>]
  /\ op = NoOp /\ loose = {} /\ count = 0

MCMinutes == [i \in Items |-> 1]

pageVars == <<timerVars, draftVars, dialogueVars, resultVars>>

MCAccount == CHOOSE f \in [Tabs -> {a1, a2}] :
               Cardinality({s \in Tabs : f[s] = a1}) = 2

\* The two sessions of one account may be exchanged.
Symmetry == {p \in Permutations(Tabs) : \A s \in Tabs : MCAccount[p[s]] = MCAccount[s]}

Init ==
  /\ FutureInit
  /\ \/ part = "day" /\ PlanningInit /\ NoScene
     \/ part = "future" /\ NoDay /\ Scenes
     \/ part \in {"timer", "drafts", "dialogue", "results"} /\ NoDay /\ NoScene
  /\ TimerInit /\ (part # "timer" => ~timed.isBreak)
  /\ DraftsInit /\ (part # "drafts" => plans = {} /\ others[0] = 0)
  /\ DialogueInit /\ (part # "dialogue" => \A t \in Titles : matching[t] = 0)
  /\ ResultsInit

Next ==
  /\ UNCHANGED part
  /\ \/ part = "day" /\ PlanningNext /\ UNCHANGED <<futureVars, pageVars>>
     \/ part = "future" /\ FutureNext /\ UNCHANGED <<planVars, pageVars>>
     \/ /\ \/ part = "timer" /\ TimerNext /\ UNCHANGED <<draftVars, dialogueVars, resultVars>>
           \/ part = "drafts" /\ DraftsNext /\ UNCHANGED <<timerVars, dialogueVars, resultVars>>
           \/ part = "dialogue" /\ DialogueNext /\ UNCHANGED <<timerVars, draftVars, resultVars>>
           \/ part = "results" /\ ResultsNext /\ UNCHANGED <<timerVars, draftVars, dialogueVars>>
        /\ UNCHANGED <<planVars, futureVars>>

Spec == Init /\ [][Next]_<<planVars, futureVars, pageVars, part>>
=============================================================================
