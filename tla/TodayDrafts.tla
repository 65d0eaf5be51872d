---------------------------- MODULE TodayDrafts ----------------------------
(***************************************************************************)
(* Drafted tasks on Today's Schedule: one browser session asks the AI for  *)
(* a draft, or fills in the form for one task, and when the day would      *)
(* become heavier than usual it is asked first, with the draft kept in the *)
(* session's state until it is saved, split over two days or cancelled.    *)
(*                                                                         *)
(* A click runs the page's script again from its first line, which reads   *)
(* today's plan; the section for a day without a plan ("onboard") and the  *)
(* one for a day with a plan ("more") keep warnings of their own, so that  *)
(* a warning is on screen only while its section is.  A split saves task   *)
(* by task, first today's and then tomorrow's.  Other sessions of the user *)
(* may create plans and free room at any moment.                           *)
(***************************************************************************)
EXTENDS Naturals, FiniteSets, FiniteSetsExt

CONSTANTS
  Items,        \* the drafted tasks, in the order of their priority
  FixedItems,   \* those with a fixed time
  Minutes,      \* estimated_minutes of each
  Recommended,  \* recommended_daily_minutes of the analytics profile
  WarnFrom,     \* the least load that is over it by CAPACITY_OVERLOAD_MARGIN
  Trusted,      \* whether the profile's confidence suffices for a warning
  Usual,        \* minutes of other tasks that today's plan may hold at first
  LastDate,      \* bound: the last date that comes
  MaxFaults,    \* bound: statements that fail, and sessions that are lost
  NoPlan

ASSUME DraftsAssumption ==
  /\ Items \subseteq Nat /\ Items # {} /\ FixedItems \subseteq Items /\ Minutes \in [Items -> Nat \ {0}]
  /\ {Recommended, WarnFrom, Usual, LastDate, MaxFaults} \subseteq Nat /\ NoPlan \notin Nat
  /\ WarnFrom > Recommended /\ Trusted \in BOOLEAN

VARIABLES
  today,     \* the user's date
  plans,     \* dates that have a plan
  others,    \* minutes of the other tasks in each date's plan
  rows,      \* the rows saved for each drafted task, by date
  session,   \* the session's state and where its script is
  history,   \* confirmations begun, tasks whose INSERT failed, how it ended
  faults     \* faults so far

draftVars == <<today, plans, others, rows, session, history, faults>>

Dates == 0..LastDate + 1

DraftsInit ==
  /\ today = 0 /\ faults = 0
  /\ plans \in SUBSET {0, 1}
  /\ others \in {[d \in Dates |-> IF d = 0 /\ d \in plans THEN m ELSE 0] : m \in {0, Usual}}
  /\ rows = [i \in Items |-> [d \in Dates |-> 0]]
  /\ session = [pc |-> "form", kind |-> "none", section |-> "none", asked |-> NoPlan,
                warned |-> FALSE, kept |-> {}, target |-> NoPlan]
  /\ history = [confirms |-> 0, failed |-> {}, ended |-> "no"]

Section == IF today \in plans THEN "more" ELSE "onboard"

DraftMinutes(S) == MapThenSumSet(LAMBDA i : Minutes[i], S)

\* check_capacity_for_today: existing_minutes, and whether it warns
Load == others[today] + MapThenSumSet(LAMBDA i : rows[i][today] * Minutes[i], Items)
Triggered(S) == Trusted /\ Recommended > 0 /\ Load + DraftMinutes(S) >= WarnFrom

\* The task of the manual form is the first; the AI drafts them all.
DraftedBy(kind) == IF kind = "manual" THEN {CHOOSE i \in Items : \A j \in Items : i <= j} ELSE Items
Drafted == DraftedBy(session.kind)

\* _capacity_split: fixed tasks stay, then greedily by priority; what is in the
\* plan already does not reduce the budget.
CapacitySplit ==
  LET spent == DraftMinutes(FixedItems)
      budget == IF Recommended > spent THEN Recommended - spent ELSE 0
      flexible == Items \ FixedItems
      fits[i \in flexible] == DraftMinutes({j \in flexible : j < i /\ fits[j]}) + Minutes[i] <= budget
  IN {i \in flexible : fits[i]}

To(pc) == session' = [session EXCEPT !.pc = pc]
Ended(how) ==
  /\ session' = [session EXCEPT !.pc = "closed", !.section = "none"]
  /\ history' = [history EXCEPT !.ended = how]

Fails == faults < MaxFaults /\ faults' = faults + 1

Saved(S, d) == [i \in Items |-> [rows[i] EXCEPT ![d] = @ + IF i \in S THEN 1 ELSE 0]]

-----------------------------------------------------------------------------
\* _handle_ai_generation and the two forms: a warning, or saved at once.
Ask(kind) ==
  /\ session.pc = "form"
  /\ session' = [session EXCEPT
       !.kind = kind, !.section = Section, !.asked = today, !.warned = Triggered(DraftedBy(kind)),
       !.pc = IF Triggered(DraftedBy(kind)) THEN "warned" ELSE IF kind = "ai" THEN "applying" ELSE "adding"]
  /\ UNCHANGED <<today, plans, others, rows, history, faults>>

Warned == session.pc = "warned" /\ session.section = Section

\* Cancel, Skip, and the suggestion, which only fills in the text again.
Cancel == Warned /\ Ended("cancelled") /\ UNCHANGED <<today, plans, others, rows, faults>>

\* "Create It Anyway" and "Add It Anyway"
Proceed ==
  /\ Warned
  /\ To(IF session.kind = "ai" THEN "applying" ELSE "adding")
  /\ UNCHANGED <<today, plans, others, rows, history, faults>>

\* The manual warning is computed again whenever it is rendered.
RenderAgain ==
  /\ Warned /\ session.kind = "manual" /\ ~Triggered(Drafted)
  /\ To("adding")
  /\ UNCHANGED <<today, plans, others, rows, history, faults>>

\* save_planner_draft: plan and tasks in one transaction; a failure keeps the
\* warning, if there was one.
ApplyDraft ==
  /\ session.pc = "applying"
  /\ \/ /\ plans' = plans \cup {today} /\ rows' = Saved(Items, today)
        /\ Ended("applied") /\ UNCHANGED faults
     \/ /\ Fails /\ To(IF session.warned THEN "warned" ELSE "form")
        /\ UNCHANGED <<plans, rows, history>>
  /\ UNCHANGED <<today, others>>

\* _commit_manual_task: the warning is cleared whatever happens.  A plan of
\* another day, and a plan that somebody else has created, are refused.
AddManual ==
  /\ session.pc = "adding"
  /\ LET create == session.section = "onboard" IN
     \/ /\ IF create THEN today \notin plans ELSE session.asked = today
        /\ plans' = plans \cup {today} /\ rows' = Saved(Drafted, today)
        /\ Ended("applied") /\ UNCHANGED faults
     \/ /\ ~(IF create THEN today \notin plans ELSE session.asked = today)
        /\ Ended("refused") /\ UNCHANGED <<plans, rows, faults>>
     \/ /\ Fails /\ Ended("refused")
        /\ \/ UNCHANGED plans
           \/ create /\ plans' = plans \cup {today}
        /\ UNCHANGED rows
  /\ UNCHANGED <<today, others>>

-----------------------------------------------------------------------------
(* "Confirm": a split over today and tomorrow *)

\* The boxes start as CapacitySplit says, and any may be flipped.
Confirm(flips) ==
  /\ Warned /\ session.kind = "ai"
  /\ session' = [session EXCEPT
       !.pc = "keeping", !.target = IF today \in plans THEN today ELSE NoPlan,
       !.kept = FixedItems \cup (CapacitySplit \ flips) \cup (flips \ CapacitySplit)]
  /\ history' = [history EXCEPT !.confirms = @ + 1]
  /\ UNCHANGED <<today, plans, others, rows, faults>>

\* create_today_plan returns None when somebody was faster or it fails.
CreateToday ==
  /\ session.pc = "keeping" /\ session.target = NoPlan
  /\ \/ /\ today \notin plans
        /\ plans' = plans \cup {today}
        /\ session' = [session EXCEPT !.target = today]
        /\ UNCHANGED faults
     \/ /\ IF today \in plans THEN UNCHANGED faults ELSE Fails
        /\ To("warned") /\ UNCHANGED plans
  /\ UNCHANGED <<today, others, rows, history>>

\* save_draft_tasks_to_plan: task by task; one that fails is passed over.
Saves(S, d) ==
  \/ rows' = Saved(S, d) /\ UNCHANGED <<faults, history>>
  \/ \E i \in S : /\ Fails
                  /\ rows' = Saved(S \ {i}, d)
                  /\ history' = [history EXCEPT !.failed = @ \cup {i}]

KeepToday ==
  /\ session.pc = "keeping" /\ session.target # NoPlan
  /\ Saves(session.kept, session.target)
  /\ To("deferring")
  /\ UNCHANGED <<today, plans, others>>

\* Mutant of Deferred: the flexible tasks, kept or not.
DeferredToo == Items \ FixedItems

Deferred == Items \ session.kept

\* defer_draft_tasks_to_tomorrow: an error in finding or creating the plan ends
\* the script with the warning still there.
DeferRest ==
  /\ session.pc = "deferring"
  /\ \/ /\ plans' = IF Deferred = {} THEN plans ELSE plans \cup {today + 1}
        /\ Saves(Deferred, today + 1)
        /\ To("closing")
     \/ Deferred # {} /\ Fails /\ To("warned") /\ UNCHANGED <<plans, rows, history>>
  /\ UNCHANGED <<today, others>>

Close ==
  /\ session.pc = "closing"
  /\ Ended("split")
  /\ UNCHANGED <<today, plans, others, rows, faults>>

-----------------------------------------------------------------------------
(* Around the session *)

\* The quick actions, here or elsewhere: a task of today is deleted or deferred.
FreeRoom ==
  /\ others[today] > 0
  /\ \/ others' = [others EXCEPT ![today] = @ - 1] /\ UNCHANGED plans
     \/ /\ others' = [others EXCEPT ![today] = @ - 1, ![today + 1] = @ + 1]
        /\ plans' = plans \cup {today + 1}
  /\ UNCHANGED <<today, rows, session, history, faults>>

PlanElsewhere ==
  /\ \E d \in {today, today + 1} : d \notin plans /\ plans' = plans \cup {d}
  /\ UNCHANGED <<today, others, rows, session, history, faults>>

Midnight ==
  /\ today < LastDate
  /\ today' = today + 1
  /\ UNCHANGED <<plans, others, rows, session, history, faults>>

\* The server is restarted or the browser tab is reloaded.
LoseSession ==
  /\ session.pc \notin {"form", "closed"} /\ Fails
  /\ Ended("lost")
  /\ UNCHANGED <<today, plans, others, rows>>

DraftsNext ==
  \/ \E kind \in {"ai", "manual"} : Ask(kind)
  \/ Cancel \/ Proceed \/ RenderAgain \/ ApplyDraft \/ AddManual
  \/ \E flips \in SUBSET (Items \ FixedItems) : Confirm(flips)
  \/ CreateToday \/ KeepToday \/ DeferRest \/ Close
  \/ FreeRoom \/ PlanElsewhere \/ Midnight \/ LoseSession

-----------------------------------------------------------------------------
Copies(i) == MapThenSumSet(LAMBDA d : rows[i][d], Dates)
On(i) == {d \in Dates : rows[i][d] > 0}

\* "tomorrow ... would otherwise just vanish instead of actually showing up": a
\* drafted task gets a row for each confirmation at most, none when the draft is
\* cancelled or refused before one, and exactly one when it is applied, on one
\* day; a split leaves no task out whose own INSERT did not fail, and what it
\* defers comes on a later day than all it keeps.
DraftsLandOnce ==
  /\ history.ended \in {"no", "cancelled", "lost", "split"} =>
       \A i \in Items : Copies(i) <= history.confirms
  /\ history.ended = "refused" => \A i \in Items : Copies(i) = 0
  /\ history.ended = "applied" /\ history.confirms = 0 =>
       /\ \A i \in Items : Copies(i) = IF i \in Drafted THEN 1 ELSE 0
       /\ Cardinality(UNION {On(i) : i \in Items}) = 1
  /\ history.ended = "split" =>
       /\ \A i \in Items \ history.failed : Copies(i) >= 1
       /\ history.confirms = 1 => \A i \in session.kept, j \in Deferred, d, e \in Dates :
            rows[i][d] > 0 /\ rows[j][e] > 0 => d < e
=============================================================================
