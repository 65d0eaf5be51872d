--------------------------- MODULE ProjectionsProofs ---------------------------
(***************************************************************************)
(* Proofs about what is derived from the schedule, for any tasks, windows, *)
(* events, revisions and preferences and any number of commands: reminders *)
(* follow the plan, and so do the events in Google Calendar.               *)
(*                                                                         *)
(* Reminders: ReminderInv says of every key (task, revision, preferences)  *)
(* what its rows may be, and of every task that is due that its present    *)
(* key has its reminder or an event to come will give it one.              *)
(*                                                                         *)
(* Export: ExportBase is what the state is made of; on top of it           *)
(*   OneEventInv  a second id of a segment is used only when its first is  *)
(*                gone or was never created;                               *)
(*   WorkInv      a segment that Google does not show as it is has an      *)
(*                operation waiting, or is being exported right now;       *)
(*   StrayInv     every live event is held by a segment, is to be deleted, *)
(*                or has been created and is still to be saved.            *)
(***************************************************************************)
EXTENDS MCProjections, TLAPS

-----------------------------------------------------------------------------
(* Reminders *)

IntentStatuses == {"none", "queued", "processing", "processed", "expired", "cancelled"}
AlarmStatuses == {"none", "scheduled", "cancelled"}

ReminderTypeOK ==
  /\ revision \in Revisions /\ config \in Configs
  /\ placed \in [PlanTasks -> Revisions \cup {NotPlaced, Over}]
  /\ intents \in [Identities -> IntentStatuses]
  /\ alarms \in [Identities -> AlarmStatuses]
  /\ checking \subseteq Identities
  /\ \A e \in events : e.tasks \subseteq PlanTasks

\* Revisions only grow, so a key that was used is of an earlier revision, or of
\* this one and then its task has been placed in it.
KeysOK ==
  /\ \A t \in PlanTasks : Pending(t) => placed[t] <= revision
  /\ \A i \in Identities :
       /\ intents[i] # "none" => i[2] <= revision /\ (i[2] = revision => placed[i[1]] # NotPlaced)
       /\ alarms[i] # "none" => intents[i] # "none"
  /\ \A i \in checking : intents[i] = "processing"

\* A task that a lifecycle event names is over, and stays so.
EndedOK ==
  \A e \in events : e.kind # "schedule" => \A t \in e.tasks : placed[t] = Over

Named(t) == \E e \in events : t \in e.tasks

\* An alarm that is not on time is the business of an event to come.
AlarmsOK ==
  ~raced => \A i \in Identities :
    alarms[i] = "scheduled" \/ i \in checking => i[3] = config /\ (OnTime(i) \/ Named(i[1]))

\* The key a task has now.
Key(t) == <<t, revision, config>>

\* What waits for a task is of the present revision, its present key has not
\* been used up, and it has its reminder or is to have it.
TaskOK(t) ==
  Pending(t) /\ t \notin silenced =>
    /\ \A i \in Of({t}) : OnTime(i) /\ intents[i] \in {"queued", "processing"} => i[2] = revision
    /\ config \notin Off =>
         /\ \/ intents[Key(t)] \in {"none", "queued"} \/ Key(t) \in checking
            \/ alarms[Key(t)] = "scheduled"
         /\ \/ Reminded(t)
            \/ \E e \in events : e.kind = "schedule" /\ t \in e.tasks
            \/ \E i \in checking : i[1] = t /\ OnTime(i) /\ i[3] = config

ReminderInv ==
  ReminderTypeOK /\ KeysOK /\ EndedOK /\ AlarmsOK /\ \A t \in PlanTasks : TaskOK(t)

\* What a reconciliation of some tasks leaves, and what it enqueues.
Kept(i, tasks, c) ==
  i[1] \in tasks => c \notin Off /\ placed[i[1]] # Over /\ i[2] = revision
Asked(i, tasks, c) ==
  i[1] \in tasks /\ c \notin Off /\ Pending(i[1]) /\ i[2] = revision /\ i[3] = c

LEMMA IdentityIs ==
  /\ \A i \in Identities : i[1] \in PlanTasks /\ i[2] \in Revisions /\ i[3] \in Configs
  /\ \A t \in PlanTasks, r \in Revisions, c \in Configs : <<t, r, c>> \in Identities
  /\ Revisions \subseteq Nat /\ NotPlaced # Over
  /\ NotPlaced \notin Revisions /\ Over \notin Revisions
BY ReminderAssumption DEF Identities

RowTables == [intents : [Identities -> IntentStatuses], alarms : [Identities -> AlarmStatuses]]

LEMMA BothTyped == ReminderTypeOK => Both \in RowTables /\ Both.intents = intents /\ Both.alarms = alarms
BY DEF ReminderTypeOK, Both, RowTables

LEMMA CancelledRows ==
  ASSUME NEW rows \in RowTables, NEW which, NEW R, R = Cancelled(rows, which)
  PROVE  /\ R \in RowTables
         /\ \A i \in Identities :
              /\ R.intents[i] = IF i \in which /\ rows.intents[i] = "queued" THEN "cancelled"
                                ELSE rows.intents[i]
              /\ R.alarms[i] = IF i \in which /\ rows.alarms[i] = "scheduled" THEN "cancelled"
                               ELSE rows.alarms[i]
<1>1. /\ rows.intents \in [Identities -> IntentStatuses]
      /\ rows.alarms \in [Identities -> AlarmStatuses]
  BY DEF RowTables
<1>2. /\ R.intents = CancelIn(rows.intents, {"queued"}, which)
      /\ R.alarms = CancelIn(rows.alarms, {"scheduled"}, which)
      /\ R = [intents |-> R.intents, alarms |-> R.alarms]
  BY DEF Cancelled
<1>3. /\ R.intents \in [Identities -> IntentStatuses]
      /\ R.alarms \in [Identities -> AlarmStatuses]
  BY <1>1, <1>2 DEF CancelIn, IntentStatuses, AlarmStatuses
<1>4. R \in RowTables
  BY <1>2, <1>3 DEF RowTables
<1> QED BY <1>1, <1>2, <1>4 DEF CancelIn

LEMMA EnqueuedRows ==
  ASSUME NEW rows \in RowTables, NEW wanted, NEW R, R = Enqueued(rows, wanted)
  PROVE  /\ R \in RowTables
         /\ \A i \in Identities :
              /\ R.intents[i] = IF i \in wanted /\ rows.intents[i] = "none" THEN "queued"
                                ELSE rows.intents[i]
              /\ R.alarms[i] = rows.alarms[i]
<1> DEFINE J == [i \in Identities |->
                   IF i \in wanted /\ rows.intents[i] = "none" THEN "queued" ELSE rows.intents[i]]
<1>1. /\ rows.intents \in [Identities -> IntentStatuses]
      /\ rows.alarms \in [Identities -> AlarmStatuses]
  BY DEF RowTables
<1>2. J \in [Identities -> IntentStatuses]
  BY <1>1 DEF IntentStatuses
<1>3. R = [rows EXCEPT !.intents = J]
  BY DEF Enqueued
<1>4. R \in RowTables /\ R.intents = J /\ R.alarms = rows.alarms
  <2> HIDE DEF J
  <2> QED BY <1>2, <1>3 DEF RowTables
<1> QED BY <1>4

LEMMA ReconciledRows ==
  ASSUME NEW rows \in RowTables, NEW tasks \in SUBSET PlanTasks, NEW c,
         NEW R, R = Reconciled(rows, tasks, c),
         placed \in [PlanTasks -> Revisions \cup {NotPlaced, Over}]
  PROVE  /\ R \in RowTables
         /\ \A i \in Identities :
              /\ R.intents[i] = IF Asked(i, tasks, c) /\ rows.intents[i] = "none" THEN "queued"
                                ELSE IF ~Kept(i, tasks, c) /\ rows.intents[i] = "queued"
                                THEN "cancelled" ELSE rows.intents[i]
              /\ R.alarms[i] = IF ~Kept(i, tasks, c) /\ rows.alarms[i] = "scheduled"
                               THEN "cancelled" ELSE rows.alarms[i]
<1> DEFINE on == {t \in tasks : c \notin Off /\ placed[t] # Over}
           wanted == Wanted(on, placed, revision, c)
           which == Of(tasks \ on) \cup Superseded(on, revision)
           Q == Enqueued(rows, wanted)
<1>1. R = Cancelled(Q, which)
  BY DEF Reconciled
<1>2. ASSUME NEW i \in Identities
      PROVE  (i \in wanted <=> Asked(i, tasks, c)) /\ (i \in which <=> ~Kept(i, tasks, c))
  <2>1. i \in wanted <=> Asked(i, tasks, c)
    BY IdentityIs DEF Wanted, Asked, Of, Pending
  <2>2. i \in which <=> ~Kept(i, tasks, c)
    BY IdentityIs DEF Kept, Of, Superseded
  <2> QED BY <2>1, <2>2
<1>3. \A i \in Identities : Asked(i, tasks, c) => Kept(i, tasks, c)
  BY IdentityIs DEF Asked, Kept, Pending
<1> HIDE DEF which, wanted
<1>4. /\ Q \in RowTables
      /\ \A i \in Identities :
              /\ Q.intents[i] = IF i \in wanted /\ rows.intents[i] = "none" THEN "queued"
                                ELSE rows.intents[i]
              /\ Q.alarms[i] = rows.alarms[i]
  BY EnqueuedRows
<1> HIDE DEF Q
<1>5. /\ R \in RowTables
      /\ \A i \in Identities :
              /\ R.intents[i] = IF i \in which /\ Q.intents[i] = "queued" THEN "cancelled"
                                ELSE Q.intents[i]
              /\ R.alarms[i] = IF i \in which /\ Q.alarms[i] = "scheduled" THEN "cancelled"
                               ELSE Q.alarms[i]
  BY <1>1, <1>4, CancelledRows
<1>6. ASSUME NEW i \in Identities
      PROVE  /\ R.intents[i] = IF Asked(i, tasks, c) /\ rows.intents[i] = "none" THEN "queued"
                               ELSE IF ~Kept(i, tasks, c) /\ rows.intents[i] = "queued"
                               THEN "cancelled" ELSE rows.intents[i]
             /\ R.alarms[i] = IF ~Kept(i, tasks, c) /\ rows.alarms[i] = "scheduled"
                              THEN "cancelled" ELSE rows.alarms[i]
  BY <1>2, <1>3, <1>4, <1>5
<1> QED BY <1>5, <1>6

LEMMA ReminderInitInv == ReminderInit => ReminderInv
<1> SUFFICES ASSUME ReminderInit PROVE ReminderInv
  OBVIOUS
<1>1. ReminderTypeOK
  BY ReminderAssumption DEF ReminderInit, ReminderTypeOK, IntentStatuses, AlarmStatuses
<1>2. KeysOK /\ EndedOK /\ AlarmsOK
  BY IdentityIs DEF ReminderInit, KeysOK, EndedOK, AlarmsOK, Pending
<1>3. ASSUME NEW t \in PlanTasks PROVE TaskOK(t)
  BY <1>3, IdentityIs DEF ReminderInit, TaskOK, Pending
<1> QED BY <1>1, <1>2, <1>3 DEF ReminderInv

LEMMA OfIs == \A t \in PlanTasks : \A i : i \in Of({t}) <=> i \in Identities /\ i[1] = t
BY DEF Of

LEMMA KeyIs ==
  ASSUME ReminderTypeOK, NEW t \in PlanTasks
  PROVE  /\ Key(t) \in Identities /\ Key(t) \in Of({t})
         /\ Key(t)[1] = t /\ Key(t)[2] = revision /\ Key(t)[3] = config
BY IdentityIs, OfIs DEF ReminderTypeOK, Key

LEMMA RescheduleStep ==
  ASSUME ReminderInv, NEW moved \in SUBSET PlanTasks, NEW out \in SUBSET PlanTasks,
         Reschedule(moved, out)
  PROVE  ReminderInv'
<1> DEFINE e0 == [kind |-> "schedule", tasks |-> moved \cup out]
<1>1. /\ revision' = revision + 1 /\ revision' \in Revisions /\ revision \in Nat
      /\ placed \in [PlanTasks -> Revisions \cup {NotPlaced, Over}]
      /\ UNCHANGED <<config, intents, alarms, checking, changes, raced>>
      /\ events' = events \cup {e0}
      /\ e0.kind = "schedule" /\ e0.tasks = moved \cup out
  BY IdentityIs DEF Reschedule, ReminderInv, ReminderTypeOK
<1>2. ASSUME NEW t \in PlanTasks
      PROVE  /\ t \in moved => placed'[t] = revision + 1 /\ placed[t] # Over /\ Named(t)'
             /\ t \in out \ moved => placed'[t] = NotPlaced /\ placed[t] # Over /\ Named(t)'
             /\ t \notin moved \cup out => placed'[t] = placed[t] /\ (Named(t) => Named(t)')
  BY <1>1, IdentityIs DEF Reschedule, Named, Pending
<1>3. ReminderTypeOK'
  <2>1. placed' \in [PlanTasks -> Revisions \cup {NotPlaced, Over}]
    BY <1>1 DEF Reschedule
  <2> QED BY <1>1, <2>1 DEF ReminderInv, ReminderTypeOK
<1>4. KeysOK'
  <2>1. ASSUME NEW t \in PlanTasks, Pending(t)' PROVE placed'[t] <= revision'
    <3>1. CASE t \in moved
      BY <1>1, <1>2, <3>1
    <3>2. CASE t \in out \ moved
      BY <1>2, <2>1, <3>2, IdentityIs DEF Pending
    <3>3. CASE t \notin moved \cup out
      <4>1. placed'[t] = placed[t] /\ placed[t] \in Nat /\ placed[t] <= revision
        BY <1>2, <2>1, <3>3, IdentityIs DEF Pending, ReminderInv, KeysOK
      <4> QED BY <1>1, <4>1
    <3> QED BY <3>1, <3>2, <3>3
  <2>2. ASSUME NEW i \in Identities, intents[i] # "none" PROVE i[2] <= revision' /\ i[2] # revision'
    BY <1>1, <2>2, IdentityIs DEF ReminderInv, KeysOK
  <2> QED BY <1>1, <2>1, <2>2 DEF ReminderInv, KeysOK
<1>5. EndedOK'
  BY <1>1, <1>2 DEF ReminderInv, EndedOK, ReminderTypeOK
<1>6. AlarmsOK'
  <2>1. ASSUME NEW i \in Identities, OnTime(i) \/ Named(i[1]) PROVE OnTime(i)' \/ Named(i[1])'
    BY <1>2, <2>1, IdentityIs DEF OnTime, Pending
  <2> QED BY <1>1, <2>1 DEF ReminderInv, AlarmsOK
<1>7. ASSUME NEW t \in PlanTasks PROVE TaskOK(t)'
  <2> SUFFICES ASSUME Pending(t)', t \notin silenced' PROVE
        /\ \A i \in Of({t}) : OnTime(i)' /\ intents[i] \in {"queued", "processing"} => i[2] = revision'
        /\ config \notin Off =>
             /\ \/ intents[Key(t)'] \in {"none", "queued"} \/ Key(t)' \in checking
                \/ alarms[Key(t)'] = "scheduled"
             /\ \/ Reminded(t)'
                \/ \E e \in events' : e.kind = "schedule" /\ t \in e.tasks
                \/ \E i \in checking : i[1] = t /\ OnTime(i)' /\ i[3] = config
    BY <1>1 DEF TaskOK
  <2>1. intents[Key(t)'] = "none"
    <3>1. Key(t)' \in Identities /\ Key(t)'[2] = revision + 1
      BY <1>3, <1>1, IdentityIs DEF Key, ReminderTypeOK
    <3> QED BY <1>1, <3>1 DEF ReminderInv, KeysOK
  <2>2. CASE t \in moved \cup out
    <3>1. \E e \in events' : e.kind = "schedule" /\ t \in e.tasks
      BY <1>1, <2>2
    <3>2. ASSUME NEW i \in Of({t}), OnTime(i)' PROVE intents[i] \notin {"queued", "processing"}
      <4>1. i \in Identities /\ i[1] = t /\ i[2] \in Nat
        BY OfIs, IdentityIs
      <4>2. t \in moved
        BY <1>2, <2>2, IdentityIs DEF Pending
      <4>3. i[2] >= revision + 1
        BY <1>2, <3>2, <4>1, <4>2 DEF OnTime
      <4> QED BY <1>1, <4>1, <4>3 DEF ReminderInv, KeysOK
    <3> QED BY <2>1, <3>1, <3>2
  <2>3. CASE t \notin moved \cup out
    <3>1. placed'[t] = placed[t] /\ Pending(t) /\ t \notin silenced
      BY <1>2, <2>3 DEF Pending, Reschedule
    <3>2. \A i \in Of({t}) : intents[i] \notin {"queued", "processing"}
      BY <1>1, <2>3, <3>1 DEF Reschedule
    <3>3. \A i \in Of({t}) : OnTime(i)' <=> OnTime(i)
      BY <3>1, OfIs DEF OnTime, Pending
    <3>4. ASSUME config \notin Off
          PROVE  \/ Reminded(t)'
                 \/ \E e \in events' : e.kind = "schedule" /\ t \in e.tasks
      <4>1. \/ Reminded(t)
            \/ \E e \in events : e.kind = "schedule" /\ t \in e.tasks
            \/ \E i \in checking : i[1] = t /\ OnTime(i) /\ i[3] = config
        BY <3>1, <3>4 DEF ReminderInv, TaskOK
      <4>2. ~ \E i \in checking : i[1] = t
        BY <3>2, OfIs DEF ReminderInv, KeysOK, ReminderTypeOK
      <4>3. Reminded(t) => Reminded(t)'
        BY <1>1, <3>3 DEF Reminded
      <4> QED BY <1>1, <4>1, <4>2, <4>3
    <3> QED BY <2>1, <3>2, <3>4
  <2> QED BY <2>2, <2>3
<1> QED BY <1>3, <1>4, <1>5, <1>6, <1>7 DEF ReminderInv

LEMMA EndTaskStep ==
  ASSUME ReminderInv, NEW u \in PlanTasks, EndTask(u)
  PROVE  ReminderInv'
<1> DEFINE e0 == [kind |-> "lifecycle", tasks |-> {u}]
<1>1. /\ UNCHANGED <<revision, config, intents, alarms, checking, changes, raced, silenced>>
      /\ events' = events \cup {e0} /\ e0.kind = "lifecycle" /\ e0.tasks = {u}
      /\ placed' \in [PlanTasks -> Revisions \cup {NotPlaced, Over}]
      /\ placed'[u] = Over /\ \A t \in PlanTasks \ {u} : placed'[t] = placed[t]
  BY DEF EndTask, ReminderInv, ReminderTypeOK
<1>2. /\ ~Pending(u)' /\ Named(u)'
      /\ \A t \in PlanTasks : Named(t) => Named(t)'
  BY <1>1, IdentityIs DEF Pending, Named
<1>3. ReminderTypeOK'
  BY <1>1 DEF ReminderInv, ReminderTypeOK
<1>4. KeysOK'
  <2>1. \A t \in PlanTasks : Pending(t)' => placed'[t] <= revision
    BY <1>1, <1>2 DEF ReminderInv, KeysOK, Pending
  <2>2. \A t \in PlanTasks : placed[t] # NotPlaced => placed'[t] # NotPlaced
    BY <1>1, IdentityIs
  <2> QED BY <1>1, <2>1, <2>2, IdentityIs DEF ReminderInv, KeysOK
<1>5. EndedOK'
  BY <1>1 DEF ReminderInv, EndedOK, ReminderTypeOK
<1>6. AlarmsOK'
  <2>1. ASSUME NEW i \in Identities, OnTime(i) \/ Named(i[1]) PROVE OnTime(i)' \/ Named(i[1])'
    BY <1>1, <1>2, <2>1, IdentityIs DEF OnTime, Pending
  <2> QED BY <1>1, <2>1 DEF ReminderInv, AlarmsOK
<1>7. ASSUME NEW t \in PlanTasks PROVE TaskOK(t)'
  <2> SUFFICES ASSUME t # u PROVE TaskOK(t)'
    BY <1>2 DEF TaskOK
  <2>1. (Pending(t)' <=> Pending(t)) /\ \A i \in Of({t}) : OnTime(i)' <=> OnTime(i)
    BY <1>1, OfIs DEF Pending, OnTime
  <2>2. Key(t)' = Key(t) /\ (Reminded(t)' <=> Reminded(t))
    BY <1>1, <2>1 DEF Key, Reminded
  <2>3. \A i \in checking : i[1] = t => i \in Of({t})
    BY OfIs DEF ReminderInv, ReminderTypeOK
  <2>4. (\E i \in checking : i[1] = t /\ OnTime(i) /\ i[3] = config)
        => \E i \in checking : i[1] = t /\ OnTime(i)' /\ i[3] = config
    BY <2>1, <2>3
  <2>5. TaskOK(t)
    BY DEF ReminderInv
  <2> QED BY <1>1, <2>1, <2>2, <2>4, <2>5 DEF TaskOK
<1> QED BY <1>3, <1>4, <1>5, <1>6, <1>7 DEF ReminderInv

LEMMA ChangeConfigStep ==
  ASSUME ReminderInv, NEW c \in Configs, ChangeConfig(c)
  PROVE  ReminderInv'
<1> DEFINE due == {t \in PlanTasks : Pending(t)}
           cleared == Cancelled(Both, Identities)
           rows == Reconciled(cleared, due, c)
<1>1. /\ UNCHANGED <<revision, placed, events, checking>>
      /\ config' = c /\ intents' = rows.intents /\ alarms' = rows.alarms
      /\ silenced' = silenced \cup Refused(cleared, due, c)
      /\ raced' = (raced \/ checking # {})
  BY DEF ChangeConfig
<1>2. ReminderTypeOK /\ KeysOK /\ EndedOK /\ placed \in [PlanTasks -> Revisions \cup {NotPlaced, Over}]
      /\ revision \in Revisions
  BY DEF ReminderInv, ReminderTypeOK
<1>3. /\ cleared \in RowTables
      /\ \A i \in Identities :
           /\ cleared.intents[i] = IF intents[i] = "queued" THEN "cancelled" ELSE intents[i]
           /\ cleared.alarms[i] = IF alarms[i] = "scheduled" THEN "cancelled" ELSE alarms[i]
  BY <1>2, BothTyped, CancelledRows
<1>4. /\ rows \in RowTables
      /\ \A i \in Identities :
              /\ rows.intents[i] = IF Asked(i, due, c) /\ cleared.intents[i] = "none" THEN "queued"
                                   ELSE IF ~Kept(i, due, c) /\ cleared.intents[i] = "queued"
                                   THEN "cancelled" ELSE cleared.intents[i]
              /\ rows.alarms[i] = IF ~Kept(i, due, c) /\ cleared.alarms[i] = "scheduled"
                                  THEN "cancelled" ELSE cleared.alarms[i]
  <2> HIDE DEF cleared
  <2> QED BY <1>2, <1>3, ReconciledRows
<1> HIDE DEF cleared, rows
<1>5. ASSUME NEW i \in Identities
      PROVE  /\ alarms'[i] # "scheduled"
             /\ alarms'[i] = "none" <=> alarms[i] = "none"
             /\ intents[i] = "none" /\ intents'[i] # "none" => Asked(i, due, c) /\ intents'[i] = "queued"
             /\ intents[i] # "none" => intents'[i] # "none" /\ intents'[i] # "queued"
             /\ intents'[i] = "processing" <=> intents[i] = "processing"
             /\ Asked(i, due, c) /\ cleared.intents[i] = "none" => intents'[i] = "queued"
  BY <1>1, <1>3, <1>4
<1>6. ReminderTypeOK'
  BY <1>1, <1>2, <1>4 DEF ReminderTypeOK, RowTables
<1>7. KeysOK'
  <2>1. \A i \in Identities : Asked(i, due, c) => i[2] = revision /\ placed[i[1]] # NotPlaced
    BY IdentityIs DEF Asked, Pending
  <2>2. revision \in Nat /\ \A i \in Identities : i[2] \in Nat
    BY <1>2, IdentityIs
  <2>3. ASSUME NEW i \in Identities
        PROVE  /\ intents'[i] # "none" => i[2] <= revision /\ (i[2] = revision => placed[i[1]] # NotPlaced)
               /\ alarms'[i] # "none" => intents'[i] # "none"
    <3>1. /\ alarms'[i] # "none" => intents[i] # "none"
          /\ intents[i] # "none" => intents'[i] # "none"
      BY <1>2, <1>5 DEF KeysOK
    <3>2. CASE intents[i] # "none"
      BY <1>2, <3>1, <3>2 DEF KeysOK
    <3>3. CASE intents[i] = "none" /\ intents'[i] # "none"
      <4>1. Asked(i, due, c)
        BY <1>5, <3>3
      <4>2. i[2] = revision /\ placed[i[1]] # NotPlaced
        BY <2>1, <4>1
      <4> QED BY <2>2, <3>1, <4>2
    <3> QED BY <3>1, <3>2, <3>3
  <2>4. \A i \in checking : intents'[i] = "processing"
    BY <1>2, <1>5 DEF KeysOK, ReminderTypeOK
  <2> QED BY <1>1, <1>2, <2>3, <2>4 DEF KeysOK, Pending
<1>8. EndedOK'
  BY <1>1, <1>2 DEF EndedOK
<1>9. AlarmsOK'
  BY <1>1, <1>5 DEF AlarmsOK
<1>10. ASSUME NEW t \in PlanTasks PROVE TaskOK(t)'
  <2> SUFFICES ASSUME Pending(t), t \notin silenced' PROVE
        /\ \A i \in Of({t}) : OnTime(i)' /\ intents'[i] \in {"queued", "processing"} => i[2] = revision
        /\ c \notin Off => intents'[Key(t)'] = "queued" /\ Reminded(t)'
    BY <1>1 DEF TaskOK, Pending
  <2>1. \A i \in Of({t}) : i \in Identities /\ i[1] = t /\ (OnTime(i)' <=> OnTime(i))
    BY <1>1, OfIs DEF OnTime, Pending
  <2>2. ASSUME NEW i \in Of({t}), OnTime(i), intents'[i] \in {"queued", "processing"}
        PROVE  i[2] = revision
    <3>1. intents[i] \in {"queued", "processing"} \/ Asked(i, due, c)
      BY <1>5, <2>1, <2>2
    <3>2. t \notin silenced
      BY <1>1
    <3> QED BY <2>2, <3>1, <3>2 DEF ReminderInv, TaskOK, Asked
  <2>3. ASSUME c \notin Off PROVE intents'[Key(t)'] = "queued" /\ Reminded(t)'
    <3>0. PICK i \in Identities : i = <<t, revision, c>>
      BY IdentityIs, <1>2
    <3>1. i \in Identities /\ i \in Of({t}) /\ i[1] = t /\ i[2] = revision /\ i[3] = c
      BY <3>0, OfIs
    <3>8. Key(t)' = i
      BY <1>1, <3>0 DEF Key
    <3>2. Asked(i, due, c)
      BY <2>3, <3>1 DEF Asked
    <3>3. i \in Wanted(due, placed, revision, c)
      BY <2>3, <3>1 DEF Wanted, Of, Pending
    <3>4. cleared.intents[i] = "none"
      BY <1>1, <3>1, <3>3 DEF Refused
    <3>5. intents'[i] = "queued"
      BY <1>5, <3>1, <3>2, <3>4
    <3>6. OnTime(i)'
      <4>1. placed[t] <= revision /\ revision \in Nat /\ placed[t] \in Nat
        BY <1>2, IdentityIs DEF KeysOK, Pending
      <4> QED BY <1>1, <3>1, <4>1 DEF OnTime, Pending
    <3>7. Reminded(t)'
      BY <1>1, <3>1, <3>5, <3>6 DEF Reminded
    <3> QED BY <3>5, <3>7, <3>8
  <2> QED BY <2>1, <2>2, <2>3
<1> QED BY <1>6, <1>7, <1>8, <1>9, <1>10 DEF ReminderInv

\* Events that end tasks cancel what waits for them.
LEMMA ProcessLifecycle ==
  ASSUME ReminderInv, NEW e \in events, e.kind # "schedule", ProcessChange(e)
  PROVE  ReminderInv'
<1> DEFINE rows == Cancelled(Both, Of(e.tasks))
<1>1. /\ UNCHANGED <<revision, placed, config, checking, silenced>>
      /\ events' = events \ {e} /\ intents' = rows.intents /\ alarms' = rows.alarms
      /\ raced' = (raced \/ checking # {})
  BY DEF ProcessChange
<1>2. ReminderTypeOK /\ KeysOK /\ EndedOK /\ e.tasks \subseteq PlanTasks
  BY DEF ReminderInv, ReminderTypeOK
<1>3. \A t \in e.tasks : placed[t] = Over
  BY <1>2 DEF EndedOK
<1>4. /\ rows \in RowTables
      /\ \A i \in Identities :
           /\ rows.intents[i] = IF i \in Of(e.tasks) /\ intents[i] = "queued" THEN "cancelled" ELSE intents[i]
           /\ rows.alarms[i] = IF i \in Of(e.tasks) /\ alarms[i] = "scheduled" THEN "cancelled" ELSE alarms[i]
  BY <1>2, BothTyped, CancelledRows
<1> HIDE DEF rows
<1>5. ASSUME NEW i \in Identities
      PROVE  /\ i[1] \notin e.tasks => intents'[i] = intents[i] /\ alarms'[i] = alarms[i]
             /\ i[1] \in e.tasks => alarms'[i] # "scheduled" /\ intents'[i] # "queued"
             /\ intents'[i] # "none" <=> intents[i] # "none"
             /\ alarms'[i] # "none" <=> alarms[i] # "none"
             /\ intents[i] = "processing" => intents'[i] = "processing"
             /\ alarms'[i] = "scheduled" => alarms[i] = "scheduled"
  BY <1>1, <1>4 DEF Of
<1>6. ReminderTypeOK'
  BY <1>1, <1>2, <1>4 DEF ReminderTypeOK, RowTables
<1>7. KeysOK'
  BY <1>1, <1>2, <1>5 DEF KeysOK, Pending, ReminderTypeOK
<1>8. EndedOK'
  BY <1>1, <1>2 DEF EndedOK
<1>9. AlarmsOK'
  <2>1. ASSUME NEW i \in Identities, Named(i[1]), i[1] \notin e.tasks PROVE Named(i[1])'
    BY <1>1, <2>1 DEF Named
  <2>2. \A i \in Identities : OnTime(i) => OnTime(i)'
    BY <1>1 DEF OnTime, Pending
  <2>3. ASSUME ~raced', NEW i \in Identities, alarms'[i] = "scheduled" \/ i \in checking'
        PROVE  i[3] = config' /\ (OnTime(i)' \/ Named(i[1])')
    <3>1. alarms'[i] = "scheduled" /\ ~raced
      BY <1>1, <2>3
    <3>2. alarms[i] = "scheduled" /\ i[1] \notin e.tasks
      BY <1>5, <3>1
    <3>3. i[3] = config /\ (OnTime(i) \/ Named(i[1]))
      BY <3>1, <3>2 DEF ReminderInv, AlarmsOK
    <3> QED BY <1>1, <2>1, <2>2, <3>2, <3>3
  <2> QED BY <2>3 DEF AlarmsOK
<1>10. ASSUME NEW t \in PlanTasks PROVE TaskOK(t)'
  <2>1. CASE t \in e.tasks
    BY <1>1, <1>3, <2>1, IdentityIs DEF TaskOK, Pending
  <2>2. CASE t \notin e.tasks
    <3>1. \A i \in Of({t}) : i \in Identities /\ i[1] = t /\ intents'[i] = intents[i] /\ alarms'[i] = alarms[i]
                             /\ (OnTime(i)' <=> OnTime(i))
      BY <1>1, <1>5, <2>2, OfIs DEF OnTime, Pending
    <3>2. Key(t)' = Key(t) /\ Key(t) \in Of({t})
      BY <1>1, <1>2, KeyIs DEF Key
    <3>3. Reminded(t)' <=> Reminded(t)
      BY <1>1, <3>1 DEF Reminded
    <3>4. (\E f \in events : f.kind = "schedule" /\ t \in f.tasks)
          => \E f \in events' : f.kind = "schedule" /\ t \in f.tasks
      BY <1>1
    <3>5. (\E i \in checking : i[1] = t /\ OnTime(i) /\ i[3] = config)
          => \E i \in checking' : i[1] = t /\ OnTime(i)' /\ i[3] = config'
      BY <1>1 DEF OnTime, Pending
    <3>6. TaskOK(t) /\ (Pending(t)' <=> Pending(t)) /\ silenced' = silenced /\ checking' = checking
          /\ config' = config /\ revision' = revision
      BY <1>1 DEF ReminderInv, Pending
    <3> QED BY <3>1, <3>2, <3>3, <3>4, <3>5, <3>6 DEF TaskOK
  <2> QED BY <2>1, <2>2
<1> QED BY <1>6, <1>7, <1>8, <1>9, <1>10 DEF ReminderInv

\* Events of schedule operations reconcile the tasks they name.
LEMMA ProcessSchedule ==
  ASSUME ReminderInv, NEW e \in events, e.kind = "schedule", ProcessChange(e)
  PROVE  ReminderInv'
<1> DEFINE tasks == e.tasks
           rows == Reconciled(Both, tasks, config)
<1>1. /\ UNCHANGED <<revision, placed, config, checking>>
      /\ events' = events \ {e} /\ intents' = rows.intents /\ alarms' = rows.alarms
      /\ raced' = (raced \/ checking # {})
      /\ silenced' = silenced \cup
           {t \in Refused(Both, tasks, config) : \A i \in Of({t}) :
              rows.alarms[i] # "scheduled" /\ rows.intents[i] \notin {"queued", "processing"}}
  BY DEF ProcessChange
<1>2. ReminderTypeOK /\ KeysOK /\ EndedOK /\ tasks \subseteq PlanTasks
  BY DEF ReminderInv, ReminderTypeOK
<1>3. /\ revision \in Nat /\ \A i \in Identities : i[1] \in PlanTasks /\ i[2] \in Nat
      /\ placed \in [PlanTasks -> Revisions \cup {NotPlaced, Over}]
      /\ \A t \in PlanTasks : Pending(t) => placed[t] \in Nat /\ placed[t] <= revision
  BY <1>2, IdentityIs DEF ReminderTypeOK, KeysOK, Pending
<1> HIDE DEF tasks
<1>4. /\ rows \in RowTables
      /\ \A i \in Identities :
           /\ rows.intents[i] = IF Asked(i, tasks, config) /\ intents[i] = "none" THEN "queued"
                                ELSE IF ~Kept(i, tasks, config) /\ intents[i] = "queued"
                                THEN "cancelled" ELSE intents[i]
           /\ rows.alarms[i] = IF ~Kept(i, tasks, config) /\ alarms[i] = "scheduled"
                               THEN "cancelled" ELSE alarms[i]
  BY <1>2, <1>3, BothTyped, ReconciledRows
<1> HIDE DEF rows
<1>5. ASSUME NEW i \in Identities
      PROVE  /\ i[1] \notin tasks => intents'[i] = intents[i] /\ alarms'[i] = alarms[i]
             /\ Kept(i, tasks, config) => alarms'[i] = alarms[i]
             /\ Kept(i, tasks, config) => intents'[i] = intents[i] \/ intents'[i] = "queued"
             /\ alarms'[i] = "scheduled" => alarms[i] = "scheduled" /\ Kept(i, tasks, config)
             /\ intents[i] # "none" => intents'[i] # "none"
             /\ intents[i] = "none" /\ intents'[i] # "none" => Asked(i, tasks, config)
             /\ Asked(i, tasks, config) => intents'[i] # "none" /\ Kept(i, tasks, config)
             /\ Asked(i, tasks, config) /\ intents[i] = "none" => intents'[i] = "queued"
             /\ Asked(i, tasks, config) /\ intents[i] # "none" => intents'[i] = intents[i]
             /\ intents'[i] \in {"queued", "processing"} =>
                  intents[i] \in {"queued", "processing"} \/ Asked(i, tasks, config)
             /\ alarms'[i] # "none" <=> alarms[i] # "none"
             /\ intents[i] = "processing" => intents'[i] = "processing"
  BY <1>1, <1>4, IdentityIs DEF Kept, Asked, Pending
<1>6. ReminderTypeOK'
  BY <1>1, <1>2, <1>4 DEF ReminderTypeOK, RowTables
<1>7. KeysOK'
  <2>1. \A i \in Identities : Asked(i, tasks, config) => i[2] = revision /\ placed[i[1]] # NotPlaced
    BY IdentityIs DEF Asked, Pending
  <2>2. ASSUME NEW i \in Identities
        PROVE  /\ intents'[i] # "none" => i[2] <= revision /\ (i[2] = revision => placed[i[1]] # NotPlaced)
               /\ alarms'[i] # "none" => intents'[i] # "none"
    <3>1. CASE intents[i] # "none"
      BY <1>2, <1>5, <3>1 DEF KeysOK
    <3>2. CASE intents[i] = "none"
      BY <1>2, <1>3, <1>5, <2>1, <3>2 DEF KeysOK
    <3> QED BY <3>1, <3>2
  <2>3. \A i \in checking : intents'[i] = "processing"
    BY <1>2, <1>5 DEF KeysOK, ReminderTypeOK
  <2> QED BY <1>1, <1>2, <2>2, <2>3 DEF KeysOK, Pending
<1>8. EndedOK'
  BY <1>1, <1>2 DEF EndedOK
<1>9. AlarmsOK'
  <2>1. ASSUME NEW i \in Identities, Named(i[1]), i[1] \notin tasks PROVE Named(i[1])'
    BY <1>1, <2>1 DEF Named, tasks
  <2>2. \A i \in Identities : OnTime(i) => OnTime(i)'
    BY <1>1 DEF OnTime, Pending
  <2>3. ASSUME ~raced', NEW i \in Identities, alarms'[i] = "scheduled" \/ i \in checking'
        PROVE  i[3] = config' /\ (OnTime(i)' \/ Named(i[1])')
    <3>1. alarms'[i] = "scheduled" /\ ~raced
      BY <1>1, <2>3
    <3>2. alarms[i] = "scheduled" /\ Kept(i, tasks, config)
      BY <1>5, <3>1
    <3>3. i[3] = config /\ (OnTime(i) \/ Named(i[1]))
      BY <3>1, <3>2 DEF ReminderInv, AlarmsOK
    <3>4. CASE i[1] \in tasks
      <4>1. i[2] = revision /\ placed[i[1]] # Over
        BY <3>2, <3>4 DEF Kept
      <4>2. intents[i] # "none"
        BY <1>2, <3>2 DEF KeysOK
      <4>3. placed[i[1]] # NotPlaced
        BY <1>2, <4>1, <4>2 DEF KeysOK
      <4>4. Pending(i[1])
        BY <1>3, <4>1, <4>3 DEF Pending
      <4>5. OnTime(i)
        BY <1>3, <4>1, <4>4 DEF OnTime
      <4> QED BY <1>1, <2>2, <3>3, <4>5
    <3> QED BY <1>1, <2>1, <2>2, <3>3, <3>4
  <2> QED BY <2>3 DEF AlarmsOK
<1>10. ASSUME NEW t \in PlanTasks PROVE TaskOK(t)'
  <2> SUFFICES ASSUME Pending(t), t \notin silenced' PROVE TaskOK(t)'
    BY <1>1 DEF TaskOK, Pending
  <2>1. TaskOK(t) /\ t \notin silenced
    BY <1>1 DEF ReminderInv
  <2>2. \A i \in Of({t}) : i \in Identities /\ i[1] = t /\ (OnTime(i)' <=> OnTime(i))
    BY <1>1, OfIs DEF OnTime, Pending
  <2>3. ASSUME NEW i \in Of({t}), OnTime(i), intents'[i] \in {"queued", "processing"}
        PROVE  i[2] = revision
    <3>1. intents[i] \in {"queued", "processing"} \/ Asked(i, tasks, config)
      BY <1>5, <2>2, <2>3
    <3> QED BY <2>1, <2>3, <3>1 DEF TaskOK, Asked
  <2>4. PICK k \in Identities : k = Key(t)
    BY <1>2, KeyIs
  <2>5. k \in Of({t}) /\ k[1] = t /\ k[2] = revision /\ k[3] = config /\ Key(t)' = k
    BY <1>1, <1>2, <2>4, KeyIs DEF Key
  <2>6. OnTime(k)
    BY <1>3, <2>5 DEF OnTime
  <2>7. ASSUME config \notin Off
        PROVE  /\ intents'[k] \in {"none", "queued"} \/ k \in checking \/ alarms'[k] = "scheduled"
               /\ \/ Reminded(t)'
                  \/ \E f \in events' : f.kind = "schedule" /\ t \in f.tasks
                  \/ \E i \in checking' : i[1] = t /\ OnTime(i)' /\ i[3] = config'
    <3>1. Kept(k, tasks, config)
      BY <1>3, <2>5, <2>7, IdentityIs DEF Kept, Pending
    <3>2. intents[k] \in {"none", "queued"} \/ k \in checking \/ alarms[k] = "scheduled"
      BY <2>1, <2>4, <2>7 DEF TaskOK
    <3>3. intents'[k] \in {"none", "queued"} \/ k \in checking \/ alarms'[k] = "scheduled"
      BY <1>5, <3>1, <3>2
    <3>4. CASE t \in tasks
      <4>1. Asked(k, tasks, config)
        BY <2>5, <2>7, <3>4 DEF Asked
      <4>2. intents'[k] = "queued" \/ k \in checking \/ alarms'[k] = "scheduled"
        BY <1>5, <3>3, <4>1
      <4>3. k \in checking => \E i \in checking' : i[1] = t /\ OnTime(i)' /\ i[3] = config'
        BY <1>1, <2>2, <2>5, <2>6
      <4>4. intents'[k] = "queued" \/ alarms'[k] = "scheduled" => Reminded(t)'
        BY <1>1, <2>2, <2>5, <2>6 DEF Reminded
      <4> QED BY <3>3, <4>2, <4>3, <4>4
    <3>5. CASE t \notin tasks
      <4>1. \/ Reminded(t)
            \/ \E f \in events : f.kind = "schedule" /\ t \in f.tasks
            \/ \E i \in checking : i[1] = t /\ OnTime(i) /\ i[3] = config
        BY <2>1, <2>7 DEF TaskOK
      <4>2. Reminded(t) => Reminded(t)'
        <5>1. \A i \in Of({t}) : intents'[i] = intents[i] /\ alarms'[i] = alarms[i]
          BY <1>5, <2>2, <3>5
        <5> QED BY <1>1, <2>2, <5>1 DEF Reminded
      <4>3. (\E f \in events : f.kind = "schedule" /\ t \in f.tasks)
            => \E f \in events' : f.kind = "schedule" /\ t \in f.tasks
        BY <1>1, <3>5 DEF tasks
      <4>4. (\E i \in checking : i[1] = t /\ OnTime(i) /\ i[3] = config)
            => \E i \in checking' : i[1] = t /\ OnTime(i)' /\ i[3] = config'
        BY <1>1 DEF OnTime, Pending
      <4> QED BY <3>3, <4>1, <4>2, <4>3, <4>4
    <3> QED BY <3>4, <3>5
  <2> QED BY <1>1, <2>2, <2>3, <2>5, <2>7 DEF TaskOK
<1> QED BY <1>6, <1>7, <1>8, <1>9, <1>10 DEF ReminderInv

LEMMA CheckReminderStep ==
  ASSUME ReminderInv, NEW j \in Identities, CheckReminder(j)
  PROVE  ReminderInv'
<1>1. /\ UNCHANGED <<revision, placed, config, alarms, events, changes, raced, silenced>>
      /\ intents[j] = "queued" /\ checking = {}
      /\ checking' \subseteq {j}
      /\ IF IsCurrent(j) THEN intents' = [intents EXCEPT ![j] = "processing"] /\ checking' = {j}
                         ELSE intents' = [intents EXCEPT ![j] = "expired"] /\ checking' = {}
  BY DEF CheckReminder
<1>2. ReminderTypeOK /\ KeysOK /\ EndedOK
  BY DEF ReminderInv
<1>3. /\ \A i \in Identities : i # j => intents'[i] = intents[i]
      /\ IsCurrent(j) => intents'[j] = "processing"
      /\ ~IsCurrent(j) => intents'[j] = "expired"
  BY <1>1, <1>2 DEF ReminderTypeOK
<1>4. ReminderTypeOK'
  BY <1>1, <1>2 DEF ReminderTypeOK, IntentStatuses
<1>5. KeysOK'
  <2>1. \A i \in Identities : intents'[i] # "none" <=> intents[i] # "none"
    BY <1>1, <1>3
  <2>2. \A i \in checking' : intents'[i] = "processing"
    BY <1>1, <1>3
  <2> QED BY <1>1, <1>2, <2>1, <2>2 DEF KeysOK, Pending
<1>6. EndedOK'
  BY <1>1, <1>2 DEF EndedOK
<1>7. (\A i \in Identities : OnTime(i)' <=> OnTime(i)) /\ \A t \in PlanTasks : Named(t)' <=> Named(t)
  BY <1>1 DEF OnTime, Pending, Named
<1>8. IsCurrent(j) => OnTime(j) /\ j[3] = config /\ j[2] = revision
  BY <1>2, IdentityIs DEF IsCurrent, OnTime, KeysOK, Pending
<1>9. AlarmsOK'
  <2>1. \A i \in checking' : i[3] = config /\ OnTime(i)
    BY <1>1, <1>8
  <2> QED BY <1>1, <1>7, <2>1, IdentityIs DEF ReminderInv, AlarmsOK
<1>10. ASSUME NEW t \in PlanTasks PROVE TaskOK(t)'
  <2> SUFFICES ASSUME Pending(t), t \notin silenced PROVE TaskOK(t)'
    BY <1>1 DEF TaskOK, Pending
  <2>1. TaskOK(t)
    BY DEF ReminderInv
  <2>2. \A i \in Of({t}) : i \in Identities /\ i[1] = t
    BY OfIs
  <2>3. ASSUME NEW i \in Of({t}), OnTime(i), intents'[i] \in {"queued", "processing"}
        PROVE  i[2] = revision
    <3>1. intents[i] \in {"queued", "processing"}
      BY <1>1, <1>3, <2>2, <2>3
    <3> QED BY <2>1, <2>3, <3>1 DEF TaskOK
  <2>4. PICK k \in Identities : k = Key(t)
    BY <1>2, KeyIs
  <2>5. k \in Of({t}) /\ k[1] = t /\ k[2] = revision /\ k[3] = config /\ Key(t)' = k
    BY <1>1, <1>2, <2>4, KeyIs DEF Key
  <2>6. IsCurrent(k)
    BY <2>5 DEF IsCurrent
  <2>7. ASSUME config \notin Off
        PROVE  /\ intents'[k] \in {"none", "queued"} \/ k \in checking' \/ alarms'[k] = "scheduled"
               /\ \/ Reminded(t)'
                  \/ \E f \in events' : f.kind = "schedule" /\ t \in f.tasks
                  \/ \E i \in checking' : i[1] = t /\ OnTime(i)' /\ i[3] = config'
    <3>1. intents[k] \in {"none", "queued"} \/ alarms[k] = "scheduled"
      BY <1>1, <2>1, <2>4, <2>7 DEF TaskOK
    <3>2. intents'[k] \in {"none", "queued"} \/ k \in checking' \/ alarms'[k] = "scheduled"
      BY <1>1, <1>3, <2>6, <3>1
    <3>3. Reminded(t) \/ \E f \in events : f.kind = "schedule" /\ t \in f.tasks
      BY <1>1, <2>1, <2>7 DEF TaskOK
    <3>4. ASSUME Reminded(t)
          PROVE  Reminded(t)' \/ \E i \in checking' : i[1] = t /\ OnTime(i)' /\ i[3] = config'
      <4>1. PICK i \in Of({t}) : OnTime(i) /\ i[3] = config
                                 /\ (alarms[i] = "scheduled" \/ intents[i] = "queued")
        BY <3>4 DEF Reminded
      <4>2. CASE i = j
        <5>1. CASE alarms[i] = "scheduled"
          BY <1>1, <1>7, <2>2, <4>1, <5>1 DEF Reminded
        <5>2. CASE intents[i] = "queued"
          <6>1. i[2] = revision
            BY <2>1, <4>1, <5>2 DEF TaskOK
          <6>2. IsCurrent(j)
            BY <2>2, <4>1, <4>2, <6>1 DEF IsCurrent
          <6> QED BY <1>1, <1>7, <2>2, <4>1, <4>2, <6>2
        <5> QED BY <4>1, <5>1, <5>2
      <4>3. CASE i # j
        <5>1. alarms'[i] = "scheduled" \/ intents'[i] = "queued"
          BY <1>1, <1>3, <2>2, <4>1, <4>3
        <5> QED BY <1>1, <1>7, <2>2, <4>1, <5>1 DEF Reminded
      <4> QED BY <4>2, <4>3
    <3> QED BY <1>1, <3>2, <3>3, <3>4
  <2> QED BY <1>1, <1>7, <2>2, <2>3, <2>5, <2>7 DEF TaskOK
<1> QED BY <1>4, <1>5, <1>6, <1>9, <1>10 DEF ReminderInv

LEMMA CommitReminderStep ==
  ASSUME ReminderInv, NEW j \in Identities, CommitReminder(j)
  PROVE  ReminderInv'
<1>1. /\ UNCHANGED <<revision, placed, config, events, changes, raced, silenced>>
      /\ j \in checking /\ checking' = checking \ {j}
      /\ intents' = [intents EXCEPT ![j] = "processed"]
      /\ alarms' = [alarms EXCEPT ![j] = "scheduled"]
  BY DEF CommitReminder
<1>2. ReminderTypeOK /\ KeysOK /\ EndedOK
  BY DEF ReminderInv
<1>3. /\ \A i \in Identities : i # j => intents'[i] = intents[i] /\ alarms'[i] = alarms[i]
      /\ intents'[j] = "processed" /\ alarms'[j] = "scheduled" /\ intents[j] = "processing"
  BY <1>1, <1>2 DEF ReminderTypeOK, KeysOK
<1>4. ReminderTypeOK'
  BY <1>1, <1>2 DEF ReminderTypeOK, IntentStatuses, AlarmStatuses
<1>5. KeysOK'
  <2>1. \A i \in Identities : /\ intents'[i] # "none" <=> intents[i] # "none"
                              /\ alarms'[i] # "none" => intents'[i] # "none"
    BY <1>2, <1>3 DEF KeysOK
  <2>2. \A i \in checking' : intents'[i] = "processing"
    BY <1>1, <1>2, <1>3 DEF KeysOK, ReminderTypeOK
  <2> QED BY <1>1, <1>2, <2>1, <2>2 DEF KeysOK, Pending
<1>6. EndedOK'
  BY <1>1, <1>2 DEF EndedOK
<1>7. (\A i \in Identities : OnTime(i)' <=> OnTime(i)) /\ \A t \in PlanTasks : Named(t)' <=> Named(t)
  BY <1>1 DEF OnTime, Pending, Named
<1>9. AlarmsOK'
  <2>1. \A i \in Identities : alarms'[i] = "scheduled" \/ i \in checking'
                              => alarms[i] = "scheduled" \/ i \in checking
    BY <1>1, <1>3
  <2> QED BY <1>1, <1>7, <2>1, IdentityIs DEF ReminderInv, AlarmsOK
<1>10. ASSUME NEW t \in PlanTasks PROVE TaskOK(t)'
  <2> SUFFICES ASSUME Pending(t), t \notin silenced PROVE TaskOK(t)'
    BY <1>1 DEF TaskOK, Pending
  <2>1. TaskOK(t)
    BY DEF ReminderInv
  <2>2. \A i \in Of({t}) : i \in Identities /\ i[1] = t
    BY OfIs
  <2>3. ASSUME NEW i \in Of({t}), OnTime(i), intents'[i] \in {"queued", "processing"}
        PROVE  i[2] = revision
    BY <1>3, <2>1, <2>2, <2>3 DEF TaskOK
  <2>4. PICK k \in Identities : k = Key(t)
    BY <1>2, KeyIs
  <2>5. k \in Of({t}) /\ Key(t)' = k
    BY <1>1, <1>2, <2>4, KeyIs DEF Key
  <2>6. \A i \in Of({t}) : alarms[i] = "scheduled" \/ intents[i] = "queued"
                           => alarms'[i] = "scheduled" \/ intents'[i] = "queued"
    BY <1>3, <2>2
  <2>7. ASSUME config \notin Off
        PROVE  /\ intents'[k] \in {"none", "queued"} \/ k \in checking' \/ alarms'[k] = "scheduled"
               /\ \/ Reminded(t)'
                  \/ \E f \in events' : f.kind = "schedule" /\ t \in f.tasks
                  \/ \E i \in checking' : i[1] = t /\ OnTime(i)' /\ i[3] = config'
    <3>1. intents[k] \in {"none", "queued"} \/ k \in checking \/ alarms[k] = "scheduled"
      BY <2>1, <2>4, <2>7 DEF TaskOK
    <3>2. intents'[k] \in {"none", "queued"} \/ k \in checking' \/ alarms'[k] = "scheduled"
      BY <1>1, <1>3, <3>1
    <3>3. \/ Reminded(t)
          \/ \E f \in events : f.kind = "schedule" /\ t \in f.tasks
          \/ \E i \in checking : i[1] = t /\ OnTime(i) /\ i[3] = config
      BY <2>1, <2>7 DEF TaskOK
    <3>4. Reminded(t) => Reminded(t)'
      BY <1>1, <1>7, <2>2, <2>6 DEF Reminded
    <3>5. ASSUME NEW i \in checking, i[1] = t, OnTime(i), i[3] = config
          PROVE  Reminded(t)' \/ i \in checking'
      <4>1. i = j => i \in Of({t}) /\ alarms'[i] = "scheduled"
        BY <1>2, <1>3, <3>5, OfIs DEF ReminderTypeOK
      <4> QED BY <1>1, <1>7, <2>2, <3>5, <4>1 DEF Reminded
    <3> QED BY <1>1, <1>2, <1>7, <3>2, <3>3, <3>4, <3>5 DEF ReminderTypeOK
  <2> QED BY <1>1, <1>7, <2>2, <2>3, <2>5, <2>7 DEF TaskOK
<1> QED BY <1>4, <1>5, <1>6, <1>9, <1>10 DEF ReminderInv

LEMMA ReminderStutter == ASSUME ReminderInv, UNCHANGED reminderVars PROVE ReminderInv'
<1>1. /\ UNCHANGED <<revision, placed, config, intents, alarms, events, checking, changes, raced, silenced>>
  BY DEF reminderVars
<1>2. ReminderTypeOK' /\ KeysOK' /\ EndedOK' /\ AlarmsOK'
  BY <1>1 DEF ReminderInv, ReminderTypeOK, KeysOK, EndedOK, AlarmsOK, Pending, Named, OnTime
<1>3. \A t \in PlanTasks : TaskOK(t)'
  BY <1>1 DEF ReminderInv, TaskOK, Pending, Key, Reminded, OnTime
<1> QED BY <1>2, <1>3 DEF ReminderInv

LEMMA ReminderStep == ASSUME ReminderInv, ReminderNext PROVE ReminderInv'
<1>1. ASSUME NEW moved \in SUBSET PlanTasks, NEW out \in SUBSET PlanTasks, Reschedule(moved, out)
      PROVE  ReminderInv'
  BY <1>1, RescheduleStep
<1>2. ASSUME NEW t \in PlanTasks, EndTask(t) PROVE ReminderInv'
  BY <1>2, EndTaskStep
<1>3. ASSUME NEW c \in Configs, ChangeConfig(c) PROVE ReminderInv'
  BY <1>3, ChangeConfigStep
<1>4. ASSUME NEW e \in events, ProcessChange(e) PROVE ReminderInv'
  BY <1>4, ProcessSchedule, ProcessLifecycle
<1>5. ASSUME NEW i \in Identities, CheckReminder(i) \/ CommitReminder(i) PROVE ReminderInv'
  BY <1>5, CheckReminderStep, CommitReminderStep
<1> QED BY <1>1, <1>2, <1>3, <1>4, <1>5 DEF ReminderNext

LEMMA RemindersAreRight == ReminderInv => RemindersFollow
<1> SUFFICES ASSUME ReminderInv, Quiet PROVE
      /\ ~raced => \A i \in Identities : alarms[i] = "scheduled" => OnTime(i) /\ i[3] = config
      /\ \A t \in PlanTasks : Due(t) /\ t \notin silenced => Reminded(t)
  BY DEF RemindersFollow, AlarmsAreCurrent, NoReminderIsLost
<1>1. events = {} /\ checking = {}
  BY DEF Quiet
<1>2. \A t \in PlanTasks : ~Named(t)
  BY <1>1 DEF Named
<1>3. ~raced => \A i \in Identities : alarms[i] = "scheduled" => OnTime(i) /\ i[3] = config
  BY <1>2, IdentityIs DEF ReminderInv, AlarmsOK
<1>4. \A t \in PlanTasks : Due(t) /\ t \notin silenced => Reminded(t)
  BY <1>1 DEF ReminderInv, TaskOK, Due
<1> QED BY <1>3, <1>4

-----------------------------------------------------------------------------
(* The export: what its state is made of *)

SegStatuses == {"not_synced", "pending_update", "synced", "update_error", "create_error"}
Segs == [row : 0 .. MaxCommands, window : Windows \cup {Unplaced},
         event : Events \cup Foreign \cup {NoEvent},
         provenance : {"legacy_unknown", "imported", "coachai_created"}, status : SegStatuses]
Schedules == [status : {"none", "applied", "undone"}, before : {<<>>} \cup [Tasks -> Segs],
              after : {<<>>} \cup [Tasks -> Segs], alive : SUBSET Tasks, last : BOOLEAN]
Operations == [kind : {"none", "reconcile", "upsert", "delete"},
               status : {"none", "queued", "processing", "retrying", "failed", "completed"},
               about : SUBSET (Tasks \cup Events), of : 0 .. MaxCommands]
Specs == [task : Flexible, seg : Segs]
Results == [task : Flexible, row : 0 .. MaxCommands, event : Events, status : SegStatuses]
Workers == [pc : {"idle", "loading", "deleting", "exporting", "ending"}, op : 0 .. MaxCommands,
            orphans : SUBSET Events, specs : SUBSET Specs, results : SUBSET Results,
            failing : BOOLEAN]

ExportTypeOK ==
  /\ seg \in [Tasks -> Segs] /\ alive \subseteq Tasks /\ commands \in 0 .. MaxCommands
  /\ schedule \in [1 .. MaxCommands -> Schedules]
  /\ operation \in [1 .. MaxCommands -> Operations]
  /\ google \in [Events \cup Foreign -> Windows \cup {"absent", "gone"}]
  /\ worker \in Workers

\* Events of a task's rows up to a number.
EarlyEvents(t, n) == ({t} \X (0 .. n)) \X {"v1", "replacement-v1"}

\* A segment of a flexible task has no event or one of CoachAI's, of its own row
\* or an earlier one; one of an imported task has the user's event or none.
SegOK(t, s) ==
  /\ s \in Segs
  /\ t \in Flexible => \/ s.event = NoEvent /\ s.provenance = "legacy_unknown"
                       \/ s.event \in EarlyEvents(t, s.row) /\ s.provenance = "coachai_created"
  /\ t \in Flexible /\ ~Placed(s) => s = NoRow
  /\ t \in Imported => \/ s.event = NoEvent /\ s.provenance = "legacy_unknown" /\ s.window = Unplaced
                       \/ s.event \in Foreign /\ s.provenance = "imported"

SegmentsOK ==
  /\ \A t \in Tasks : SegOK(t, seg[t]) /\ seg[t].row <= commands
  /\ \A t \in Imported \cap alive : seg[t].event \in Foreign
  /\ \A c \in 1 .. MaxCommands : schedule[c].status # "none" =>
       /\ c <= commands /\ schedule[c].before \in [Tasks -> Segs] /\ schedule[c].after \in [Tasks -> Segs]
       /\ \A t \in Tasks : /\ SegOK(t, schedule[c].before[t]) /\ SegOK(t, schedule[c].after[t])
                           /\ schedule[c].before[t].row <= commands
                           /\ schedule[c].after[t].row <= commands
       /\ \A t \in Imported \cap schedule[c].alive : schedule[c].before[t].event \in Foreign

OperationsOK ==
  \A c \in 1 .. MaxCommands :
    /\ operation[c].kind = "delete" => operation[c].about \subseteq Events
    /\ operation[c].kind = "upsert" => operation[c].about \subseteq Tasks
    /\ operation[c].kind = "reconcile" =>
         operation[c].of \in 1 .. commands /\ schedule[operation[c].of].status # "none"
    /\ c > commands => operation[c] = NoOperation

WorkerOK ==
  /\ worker.pc = "idle" => worker.orphans = {}
  /\ worker.pc # "idle" => worker.op \in 1 .. commands
  /\ worker.pc \in {"idle", "loading", "deleting"} =>
       worker.specs = {} /\ worker.results = {} /\ ~worker.failing
  /\ worker.pc = "ending" => worker.specs = {}
  /\ \A spec \in worker.specs :
       /\ spec.task \in Exported(operation[worker.op]) /\ SegOK(spec.task, spec.seg)
       /\ Placed(spec.seg) /\ spec.seg.row <= commands
       /\ \A q \in worker.specs : q.task = spec.task => q = spec
  /\ \A r \in worker.results :
       /\ r.task \in Exported(operation[worker.op]) /\ r.event \in EarlyEvents(r.task, r.row)
       /\ r.row <= commands
       /\ \A q \in worker.results : q.task = r.task => q = r
       /\ \A spec \in worker.specs : spec.task # r.task

ExportBase == ExportTypeOK /\ SegmentsOK /\ OperationsOK /\ WorkerOK

LEMMA ExportFacts ==
  /\ MaxCommands \in Nat /\ NoEvent \notin Events /\ NoEvent \notin Foreign
  /\ Unplaced \notin Windows /\ "absent" \notin Windows /\ "gone" \notin Windows
  /\ \A t \in Tasks : t \in Flexible \/ t \in Imported
  /\ \A t \in Flexible : t \notin Imported /\ t \in Tasks
  /\ \A t \in Imported : t \notin Flexible /\ t \in Tasks
BY ExportAssumption, NameAssumption DEF Tasks

LEMMA EventsApart == \A e \in Events : e \notin Foreign
BY DEF Events, Foreign

LEMMA EarlyIs ==
  ASSUME NEW t \in Tasks, NEW n \in 0 .. MaxCommands
  PROVE  /\ EarlyEvents(t, n) \subseteq Events
         /\ <<<<t, n>>, "v1">> \in EarlyEvents(t, n)
         /\ <<<<t, n>>, "replacement-v1">> \in EarlyEvents(t, n)
BY ExportFacts DEF EarlyEvents, Events, Rows

LEMMA EarlierIs ==
  ASSUME NEW t, NEW n \in Nat, NEW m \in Nat, m <= n PROVE EarlyEvents(t, m) \subseteq EarlyEvents(t, n)
<1>1. 0 .. m \subseteq 0 .. n
  OBVIOUS
<1> QED BY <1>1 DEF EarlyEvents

\* The events of two tasks differ.
LEMMA EarlyApart ==
  ASSUME NEW t, NEW u, t # u, NEW n, NEW m, NEW e \in EarlyEvents(t, n) PROVE e \notin EarlyEvents(u, m)
BY DEF EarlyEvents

MovedTo(s, n, w, st) == [s EXCEPT !.row = n, !.window = w, !.status = st]

LEMMA SegExcept ==
  ASSUME NEW s \in Segs, NEW n \in 0 .. MaxCommands, NEW w \in Windows \cup {Unplaced},
         NEW st \in SegStatuses, NEW q, q = MovedTo(s, n, w, st)
  PROVE  /\ q \in Segs /\ q.row = n /\ q.window = w /\ q.status = st
         /\ q.event = s.event /\ q.provenance = s.provenance
<1> DEFINE a == [s EXCEPT !.row = n]
           b == [a EXCEPT !.window = w]
<1>1. a \in Segs /\ a.row = n /\ a.window = s.window /\ a.event = s.event /\ a.provenance = s.provenance
  BY DEF Segs
<1>2. b \in Segs /\ b.row = n /\ b.window = w /\ b.event = s.event /\ b.provenance = s.provenance
  <2> HIDE DEF a
  <2> QED BY <1>1 DEF Segs
<1>3. q = [b EXCEPT !.status = st]
  BY DEF MovedTo
<1> HIDE DEF b
<1> QED BY <1>2, <1>3 DEF Segs

LEMMA NoRowIs ==
  /\ NoRow \in Segs /\ NoRow.row = 0 /\ NoRow.window = Unplaced /\ NoRow.event = NoEvent
  /\ NoRow.provenance = "legacy_unknown" /\ NoRow.status = "not_synced"
BY ExportFacts DEF NoRow, Segs, SegStatuses

LEMMA NoRowOK == \A t \in Tasks : SegOK(t, NoRow)
BY NoRowIs DEF SegOK

LEMMA ReplacedIs ==
  ASSUME NEW s \in Segs, NEW w \in Windows \cup {Unplaced}, NEW q, q = Replaced(s, w),
         commands + 1 \in 0 .. MaxCommands
  PROVE  IF w = Unplaced THEN q = NoRow
         ELSE /\ q \in Segs /\ q.row = commands + 1 /\ q.window = w
              /\ q.event = s.event /\ q.provenance = s.provenance
              /\ q.status = IF s.provenance = "coachai_created" /\ s.window # w
                            THEN "pending_update" ELSE s.status
<1>1. CASE w = Unplaced
  BY <1>1 DEF Replaced
<1>2. CASE w # Unplaced
  <2> DEFINE st == IF s.provenance = "coachai_created" /\ s.window # w
                   THEN "pending_update" ELSE s.status
  <2>1. st \in SegStatuses
    BY DEF Segs, SegStatuses
  <2>2. q = MovedTo(s, commands + 1, w, st)
    BY <1>2 DEF Replaced, MovedTo
  <2> HIDE DEF st
  <2>3. /\ q \in Segs /\ q.row = commands + 1 /\ q.window = w /\ q.status = st
        /\ q.event = s.event /\ q.provenance = s.provenance
    BY <2>1, <2>2, SegExcept
  <2> QED BY <1>2, <2>3 DEF st
<1> QED BY <1>1, <1>2

RestoredTo(s, n, st) == [s EXCEPT !.row = n, !.status = st]

LEMMA RestoredIs ==
  ASSUME NEW s \in Segs, NEW st \in SegStatuses, NEW n \in 0 .. MaxCommands,
         NEW q, q = RestoredTo(s, n, st)
  PROVE  /\ q \in Segs /\ q.row = n /\ q.window = s.window /\ q.status = st
         /\ q.event = s.event /\ q.provenance = s.provenance
<1> DEFINE a == [s EXCEPT !.row = n]
<1>1. a \in Segs /\ a.row = n /\ a.window = s.window /\ a.event = s.event /\ a.provenance = s.provenance
  BY DEF Segs
<1>2. q = [a EXCEPT !.status = st]
  BY DEF RestoredTo
<1> HIDE DEF a
<1> QED BY <1>1, <1>2 DEF Segs

LEMMA RecordedIs ==
  ASSUME NEW s \in Segs, NEW r \in Results, NEW q, q = Recorded(s, r)
  PROVE  /\ q \in Segs /\ q.row = s.row /\ q.window = s.window /\ q.status = r.status
         /\ q.event = r.event /\ q.provenance = "coachai_created"
<1> DEFINE a == [s EXCEPT !.event = r.event]
           b == [a EXCEPT !.provenance = "coachai_created"]
<1>0. r.event \in Events /\ r.status \in SegStatuses
  BY DEF Results
<1>1. a \in Segs /\ a.row = s.row /\ a.window = s.window /\ a.event = r.event
  BY <1>0 DEF Segs
<1>2. b \in Segs /\ b.row = s.row /\ b.window = s.window /\ b.event = r.event /\ b.provenance = "coachai_created"
  <2> HIDE DEF a
  <2> QED BY <1>1 DEF Segs
<1>3. q = [b EXCEPT !.status = r.status]
  BY DEF Recorded
<1> HIDE DEF b
<1> QED BY <1>0, <1>2, <1>3 DEF Segs

-----------------------------------------------------------------------------
(* What every command does *)

\* A snapshot of a task that an operation has kept.
InSnapshot(t, s) == \E c \in 1 .. MaxCommands : schedule[c].status # "none" /\ schedule[c].before[t] = s

\* A task keeps its segment, loses it, or has it again in a new row, with the
\* event it has or one a snapshot has; only an unchanged one can be in error.
SegmentTaken(t) ==
  \/ seg'[t] = seg[t]
  \/ seg'[t] = NoRow
  \/ t \in Imported /\ seg'[t].row <= commands + 1
  \/ /\ t \in Flexible /\ seg'[t].row = commands + 1 /\ Placed(seg'[t])
     /\ \/ seg'[t].event = seg[t].event
        \/ \E s : InSnapshot(t, s) /\ seg'[t].event = s.event
     /\ seg'[t].event # NoEvent /\ seg'[t].status = "create_error" =>
          Placed(seg[t]) /\ seg[t].event = seg'[t].event /\ seg[t].status = "create_error"
          /\ seg[t].window = seg'[t].window

ScheduleTaken(c) ==
  /\ c # commands + 1 => /\ schedule'[c].before = schedule[c].before
                         /\ schedule'[c].after = schedule[c].after
                         /\ schedule'[c].alive = schedule[c].alive
                         /\ schedule'[c].status = "none" <=> schedule[c].status = "none"
                         /\ ~undone' => schedule'[c].status = schedule[c].status
  /\ c = commands + 1 => \/ schedule'[c].status = "none"
                         \/ schedule'[c].status = "applied" /\ schedule'[c].before = seg
                            /\ schedule'[c].after = seg' /\ schedule'[c].alive = alive

OperationTaken ==
  /\ operation' \in [1 .. MaxCommands -> Operations]
  /\ \A c \in 1 .. MaxCommands : c # commands + 1 => operation'[c] = operation[c]
  /\ LET o == operation'[commands + 1] IN
       /\ o = NoOperation \/ o.status = "queued"
       /\ o.kind = "delete" => o.about \subseteq Events
       /\ o.kind = "upsert" => o.about \subseteq Tasks
       /\ o.kind = "reconcile" => o.of \in 1 .. commands + 1 /\ schedule'[o.of].status # "none"
       /\ \A t \in Flexible \cap alive' : seg'[t] # seg[t] => o.kind = "reconcile"

\* A command of the user: what every one of them leaves alone and keeps.
Taken ==
  /\ commands + 1 \in 1 .. MaxCommands /\ commands' = commands + 1
  /\ overlapped' = (overlapped \/ Begun)
  /\ UNCHANGED <<google, worker, faults>>
  /\ alive' \subseteq alive /\ (undone => undone') /\ (deferred => deferred')
  /\ seg' \in [Tasks -> Segs]
  /\ \A t \in Tasks : SegOK(t, seg'[t]) /\ SegmentTaken(t)
  /\ \A t \in Imported \cap alive' : seg'[t].event \in Foreign
  /\ schedule' \in [1 .. MaxCommands -> Schedules]
  /\ \A c \in 1 .. MaxCommands : ScheduleTaken(c)
  /\ OperationTaken

LEMMA CommandedIs ==
  ASSUME ExportBase, Commanded
  PROVE  /\ commands \in Nat /\ commands + 1 \in 1 .. MaxCommands /\ commands + 1 \in 0 .. MaxCommands
         /\ commands' = commands + 1 /\ overlapped' = (overlapped \/ Begun)
         /\ UNCHANGED <<google, worker, faults>>
BY ExportFacts DEF Commanded, ExportBase, ExportTypeOK

LEMMA TakenBase == ASSUME ExportBase, Taken PROVE ExportBase'
<1>1. /\ commands \in Nat /\ commands + 1 \in 1 .. MaxCommands /\ MaxCommands \in Nat
      /\ commands' = commands + 1 /\ UNCHANGED <<google, worker>> /\ alive' \subseteq alive
  BY ExportFacts DEF ExportBase, ExportTypeOK, Taken
<1>2. ExportTypeOK'
  BY <1>1 DEF ExportBase, ExportTypeOK, Taken, OperationTaken
<1>3. SegmentsOK'
  <2>1. ASSUME NEW t \in Tasks PROVE SegOK(t, seg'[t]) /\ seg'[t].row <= commands + 1
    <3>1. SegOK(t, seg'[t]) /\ SegmentTaken(t) /\ seg[t].row <= commands /\ seg[t].row \in Nat
      BY DEF Taken, ExportBase, SegmentsOK, ExportTypeOK, Segs
    <3> QED BY <1>1, <3>1, NoRowIs DEF SegmentTaken
  <2>2. ASSUME NEW c \in 1 .. MaxCommands, schedule'[c].status # "none"
        PROVE  /\ c <= commands + 1
               /\ schedule'[c].before \in [Tasks -> Segs] /\ schedule'[c].after \in [Tasks -> Segs]
               /\ \A t \in Tasks : /\ SegOK(t, schedule'[c].before[t]) /\ SegOK(t, schedule'[c].after[t])
                                   /\ schedule'[c].before[t].row <= commands + 1
                                   /\ schedule'[c].after[t].row <= commands + 1
               /\ \A t \in Imported \cap schedule'[c].alive : schedule'[c].before[t].event \in Foreign
    <3>1. ScheduleTaken(c)
      BY DEF Taken
    <3>2. CASE c = commands + 1
      <4>1. schedule'[c].before = seg /\ schedule'[c].after = seg' /\ schedule'[c].alive = alive
        BY <2>2, <3>1, <3>2 DEF ScheduleTaken
      <4>2. \A t \in Tasks : SegOK(t, seg[t]) /\ seg[t].row \in Nat /\ seg[t].row <= commands
        BY DEF ExportBase, SegmentsOK, ExportTypeOK, Segs
      <4>3. \A t \in Imported \cap alive : seg[t].event \in Foreign
        BY DEF ExportBase, SegmentsOK
      <4>4. seg \in [Tasks -> Segs] /\ seg' \in [Tasks -> Segs]
        BY DEF ExportBase, ExportTypeOK, Taken
      <4>5. \A t \in Tasks : seg[t].row <= commands + 1
        BY <1>1, <4>2
      <4> QED BY <1>1, <2>1, <3>2, <4>1, <4>2, <4>3, <4>4, <4>5
    <3>3. CASE c # commands + 1
      <4>1. /\ schedule[c].status # "none"
            /\ schedule'[c].before = schedule[c].before /\ schedule'[c].after = schedule[c].after
            /\ schedule'[c].alive = schedule[c].alive
        BY <2>2, <3>1, <3>3 DEF ScheduleTaken
      <4>2. /\ c <= commands /\ schedule[c].before \in [Tasks -> Segs] /\ schedule[c].after \in [Tasks -> Segs]
            /\ \A t \in Tasks : /\ SegOK(t, schedule[c].before[t]) /\ SegOK(t, schedule[c].after[t])
                                /\ schedule[c].before[t].row <= commands
                                /\ schedule[c].after[t].row <= commands
            /\ \A t \in Imported \cap schedule[c].alive : schedule[c].before[t].event \in Foreign
        BY <4>1 DEF ExportBase, SegmentsOK
      <4>3. \A t \in Tasks : schedule[c].before[t].row \in Nat /\ schedule[c].after[t].row \in Nat
        BY <4>2 DEF Segs
      <4>4. \A t \in Tasks : schedule[c].before[t].row <= commands + 1 /\ schedule[c].after[t].row <= commands + 1
        BY <1>1, <4>2, <4>3
      <4>5. c <= commands + 1
        BY <1>1, <4>2
      <4> QED BY <4>1, <4>2, <4>4, <4>5
    <3> QED BY <3>2, <3>3
  <2>3. \A t \in Imported \cap alive' : seg'[t].event \in Foreign
    BY DEF Taken
  <2> QED BY <1>1, <2>1, <2>2, <2>3 DEF SegmentsOK
<1>4. OperationsOK'
  <2>1. ASSUME NEW c \in 1 .. MaxCommands
        PROVE  /\ operation'[c].kind = "delete" => operation'[c].about \subseteq Events
               /\ operation'[c].kind = "upsert" => operation'[c].about \subseteq Tasks
               /\ operation'[c].kind = "reconcile" =>
                    operation'[c].of \in 1 .. commands' /\ schedule'[operation'[c].of].status # "none"
               /\ c > commands' => operation'[c] = NoOperation
    <3>1. CASE c = commands + 1
      BY <1>1, <3>1 DEF Taken, OperationTaken
    <3>2. CASE c # commands + 1
      <4>1. operation'[c] = operation[c]
        BY <3>2 DEF Taken, OperationTaken
      <4>2. /\ operation[c].kind = "delete" => operation[c].about \subseteq Events
            /\ operation[c].kind = "upsert" => operation[c].about \subseteq Tasks
            /\ operation[c].kind = "reconcile" =>
                 operation[c].of \in 1 .. commands /\ schedule[operation[c].of].status # "none"
            /\ c > commands => operation[c] = NoOperation
        BY DEF ExportBase, OperationsOK
      <4>3. ASSUME NEW d \in 1 .. commands, schedule[d].status # "none" PROVE schedule'[d].status # "none"
        <5>1. d \in 1 .. MaxCommands /\ d # commands + 1
          BY <1>1
        <5> QED BY <4>3, <5>1 DEF Taken, ScheduleTaken
      <4> QED BY <1>1, <4>1, <4>2, <4>3
    <3> QED BY <3>1, <3>2
  <2> QED BY <2>1 DEF OperationsOK
<1>5. WorkerOK'
  <2>1. worker.pc # "idle" => operation'[worker.op] = operation[worker.op]
    <3>1. worker.pc # "idle" => worker.op \in 1 .. MaxCommands /\ worker.op # commands + 1
      BY <1>1 DEF ExportBase, WorkerOK
    <3> QED BY <3>1 DEF Taken, OperationTaken
  <2>2. worker.pc = "idle" => worker.specs = {} /\ worker.results = {}
    BY DEF ExportBase, WorkerOK
  <2>3. \A q \in worker.specs : q.seg.row \in Nat
    BY DEF ExportBase, ExportTypeOK, Workers, Specs, Segs
  <2>4. \A r \in worker.results : r.row \in Nat
    BY DEF ExportBase, ExportTypeOK, Workers, Results
  <2> QED BY <1>1, <2>1, <2>2, <2>3, <2>4 DEF ExportBase, WorkerOK
<1> QED BY <1>2, <1>3, <1>4, <1>5 DEF ExportBase

-----------------------------------------------------------------------------
(* The commands *)

OperationIs(kind, of, about) == [kind |-> kind, status |-> "queued", about |-> about, of |-> of]

LEMMA QueuedIs ==
  ASSUME ExportBase, commands + 1 \in 1 .. MaxCommands, NEW kind \in {"reconcile", "upsert", "delete"},
         NEW of \in 0 .. MaxCommands, NEW about \in SUBSET (Tasks \cup Events),
         NEW Q, Q = Queued(kind, of, about)
  PROVE  /\ Q \in [1 .. MaxCommands -> Operations]
         /\ \A c \in 1 .. MaxCommands : c # commands + 1 => Q[c] = operation[c]
         /\ Q[commands + 1].status = "queued" /\ Q[commands + 1].kind = kind
         /\ Q[commands + 1].about = about /\ Q[commands + 1].of = of
<1> DEFINE o == OperationIs(kind, of, about)
<1>1. /\ o \in Operations /\ o.status = "queued" /\ o.kind = kind /\ o.about = about /\ o.of = of
  BY DEF Operations, OperationIs
<1>2. Q = [operation EXCEPT ![commands + 1] = o]
  BY DEF Queued, OperationIs
<1> HIDE DEF o
<1> QED BY <1>1, <1>2 DEF ExportBase, ExportTypeOK

LEMMA UnlastIs ==
  ASSUME NEW s \in Schedules, NEW q, q = [s EXCEPT !.last = FALSE]
  PROVE  /\ q \in Schedules /\ q.before = s.before /\ q.after = s.after /\ q.status = s.status
         /\ q.alive = s.alive
BY DEF Schedules

LEMMA ScheduleSame ==
  ASSUME ExportBase, schedule' = schedule
  PROVE  schedule' \in [1 .. MaxCommands -> Schedules] /\ \A c \in 1 .. MaxCommands : ScheduleTaken(c)
<1>1. commands \in Nat /\ \A c \in 1 .. MaxCommands : c = commands + 1 => schedule[c].status = "none"
  BY ExportFacts DEF ExportBase, ExportTypeOK, SegmentsOK
<1> QED BY <1>1 DEF ExportBase, ExportTypeOK, ScheduleTaken

LEMMA ScheduleUnlast ==
  ASSUME ExportBase, schedule' = [c \in 1 .. MaxCommands |-> [schedule[c] EXCEPT !.last = FALSE]]
  PROVE  schedule' \in [1 .. MaxCommands -> Schedules] /\ \A c \in 1 .. MaxCommands : ScheduleTaken(c)
<1>1. commands \in Nat /\ \A c \in 1 .. MaxCommands : c = commands + 1 => schedule[c].status = "none"
  BY ExportFacts DEF ExportBase, ExportTypeOK, SegmentsOK
<1>2. ASSUME NEW c \in 1 .. MaxCommands
      PROVE  /\ schedule'[c] \in Schedules /\ schedule'[c].before = schedule[c].before
             /\ schedule'[c].after = schedule[c].after /\ schedule'[c].status = schedule[c].status
             /\ schedule'[c].alive = schedule[c].alive
  <2>1. schedule'[c] = [schedule[c] EXCEPT !.last = FALSE] /\ schedule[c] \in Schedules
    BY DEF ExportBase, ExportTypeOK
  <2> QED BY <2>1, UnlastIs
<1> QED BY <1>1, <1>2 DEF ScheduleTaken

LEMMA OperationSame ==
  ASSUME ExportBase, operation' = operation, commands + 1 \in 1 .. MaxCommands,
         \A t \in Flexible \cap alive' : seg'[t] = seg[t]
  PROVE  OperationTaken
<1>1. operation[commands + 1] = NoOperation
  BY ExportFacts DEF ExportBase, ExportTypeOK, OperationsOK
<1>2. operation \in [1 .. MaxCommands -> Operations]
  BY DEF ExportBase, ExportTypeOK
<1> QED BY <1>1, <1>2 DEF OperationTaken, NoOperation

LEMMA SegmentGone ==
  ASSUME ExportBase, NEW u \in Tasks, seg' = [seg EXCEPT ![u] = NoRow]
  PROVE  /\ seg' \in [Tasks -> Segs] /\ \A t \in Tasks : SegOK(t, seg'[t]) /\ SegmentTaken(t)
         /\ \A t \in Tasks \ {u} : seg'[t] = seg[t]
         /\ \A t \in Imported \cap (alive \ {u}) : seg'[t].event \in Foreign
<1>1. \A t \in Tasks : seg'[t] = IF t = u THEN NoRow ELSE seg[t]
  BY DEF ExportBase, ExportTypeOK
<1>2. \A t \in Imported \cap (alive \ {u}) : seg'[t].event \in Foreign
  BY <1>1, ExportFacts DEF ExportBase, SegmentsOK
<1> QED BY <1>1, <1>2, NoRowIs, NoRowOK DEF ExportBase, ExportTypeOK, SegmentsOK, SegmentTaken

LEMMA SegmentSame ==
  ASSUME ExportBase, seg' = seg
  PROVE  /\ seg' \in [Tasks -> Segs] /\ \A t \in Tasks : SegOK(t, seg'[t]) /\ SegmentTaken(t)
         /\ \A t \in Imported \cap alive : seg'[t].event \in Foreign
BY DEF ExportBase, ExportTypeOK, SegmentsOK, SegmentTaken

LEMMA OwnedAre == ASSUME ExportBase, NEW t \in Tasks PROVE OwnedEvents(t) \subseteq Events
<1>1. SegOK(t, seg[t]) /\ seg[t].row \in 0 .. MaxCommands
  BY DEF ExportBase, SegmentsOK, ExportTypeOK, Segs
<1> QED BY <1>1, EarlyIs, ExportFacts DEF OwnedEvents, Ours, SegOK

LEMMA DeleteTaken == ASSUME ExportBase, NEW t \in Tasks, DeleteTask(t) PROVE Taken
<1>1. Commanded /\ alive' = alive \ {t} /\ seg' = [seg EXCEPT ![t] = NoRow]
      /\ UNCHANGED <<schedule, undone, deferred>>
      /\ operation' = IF OwnedEvents(t) = {} THEN operation ELSE Queued("delete", 0, OwnedEvents(t))
  BY DEF DeleteTask
<1>2. OperationTaken
  <2>1. \A u \in Flexible \cap alive' : seg'[u] = seg[u]
    BY <1>1, SegmentGone, ExportFacts
  <2>2. CASE OwnedEvents(t) = {}
    BY <1>1, <2>1, <2>2, CommandedIs, OperationSame
  <2>3. CASE OwnedEvents(t) # {}
    <3>1. OwnedEvents(t) \subseteq Events /\ operation' = Queued("delete", 0, OwnedEvents(t))
      BY <1>1, <2>3, OwnedAre
    <3>2. /\ operation' \in [1 .. MaxCommands -> Operations]
          /\ \A c \in 1 .. MaxCommands : c # commands + 1 => operation'[c] = operation[c]
          /\ operation'[commands + 1].status = "queued" /\ operation'[commands + 1].kind = "delete"
          /\ operation'[commands + 1].about = OwnedEvents(t)
      BY <1>1, <3>1, CommandedIs, QueuedIs, ExportFacts
    <3> QED BY <2>1, <3>1, <3>2 DEF OperationTaken
  <2> QED BY <2>2, <2>3
<1> QED BY <1>1, <1>2, CommandedIs, SegmentGone, ScheduleSame DEF Taken

LEMMA DeferTaken == ASSUME ExportBase, NEW t \in Tasks, Defer(t) PROVE Taken
<1>1. Commanded /\ alive' = alive \ {t} /\ seg' = [seg EXCEPT ![t] = NoRow]
      /\ schedule' = [c \in 1 .. MaxCommands |-> [schedule[c] EXCEPT !.last = FALSE]]
      /\ UNCHANGED <<operation, undone>> /\ deferred' = TRUE
  BY DEF Defer
<1>2. \A u \in Flexible \cap alive' : seg'[u] = seg[u]
  BY <1>1, SegmentGone, ExportFacts
<1> QED BY <1>1, <1>2, CommandedIs, SegmentGone, ScheduleUnlast, OperationSame DEF Taken

LEMMA MoveFixedTaken ==
  ASSUME ExportBase, NEW t \in Tasks, NEW w \in Windows, MoveFixed(t, w) PROVE Taken
<1>1. Commanded /\ t \in Imported /\ t \in alive
      /\ seg' = [seg EXCEPT ![t].row = commands + 1, ![t].window = w]
      /\ schedule' = [c \in 1 .. MaxCommands |-> [schedule[c] EXCEPT !.last = FALSE]]
      /\ UNCHANGED <<alive, operation, undone, deferred>>
  BY DEF MoveFixed
<1> DEFINE q == MovedTo(seg[t], commands + 1, w, seg[t].status)
<1>2. seg[t] \in Segs /\ seg[t].status \in SegStatuses /\ SegOK(t, seg[t])
  BY DEF ExportBase, ExportTypeOK, Segs, SegmentsOK
<1>3. /\ q \in Segs /\ q.row = commands + 1 /\ q.window = w
      /\ q.event = seg[t].event /\ q.provenance = seg[t].provenance
  BY <1>1, <1>2, CommandedIs, SegExcept
<1>4. seg' = [seg EXCEPT ![t] = q]
  <2>1. q = [seg[t] EXCEPT !.row = commands + 1, !.window = w]
    BY <1>2 DEF MovedTo, Segs
  <2> QED BY <1>1, <2>1
<1> HIDE DEF q
<1>5. \A u \in Tasks : seg'[u] = IF u = t THEN q ELSE seg[u]
  BY <1>4 DEF ExportBase, ExportTypeOK
<1>6. seg' \in [Tasks -> Segs] /\ \A u \in Tasks : SegOK(u, seg'[u]) /\ SegmentTaken(u)
  <2>0. seg[t].event \in Foreign
    BY <1>1 DEF ExportBase, SegmentsOK
  <2>1. SegOK(t, q)
    BY <1>1, <1>2, <1>3, <2>0, ExportFacts DEF SegOK
  <2>2. seg'[t] = q /\ t \in Imported /\ seg'[t].row <= commands + 1
    <3>1. commands + 1 \in Nat
      BY <1>1, CommandedIs
    <3>2. seg'[t] = q
      BY <1>5
    <3> QED BY <1>1, <1>3, <3>1, <3>2
  <2>3. seg' \in [Tasks -> Segs]
    BY <1>3, <1>4 DEF ExportBase, ExportTypeOK
  <2>4. ASSUME NEW u \in Tasks PROVE SegOK(u, seg'[u]) /\ SegmentTaken(u)
    <3>1. CASE u = t
      BY <2>1, <2>2, <3>1 DEF SegmentTaken
    <3>2. CASE u # t
      BY <1>5, <3>2 DEF SegmentTaken, ExportBase, SegmentsOK
    <3> QED BY <3>1, <3>2
  <2> QED BY <2>3, <2>4
<1>7. \A u \in Flexible \cap alive' : seg'[u] = seg[u]
  BY <1>1, <1>5, ExportFacts
<1>8. \A u \in Imported \cap alive' : seg'[u].event \in Foreign
  BY <1>1, <1>3, <1>5, ExportFacts DEF ExportBase, SegmentsOK
<1> QED BY <1>1, <1>6, <1>7, <1>8, CommandedIs, ScheduleUnlast, OperationSame DEF Taken

LEMMA RequestTaken ==
  ASSUME ExportBase, NEW t \in Tasks, RequestExport(t) \/ RequestDelete(t) PROVE Taken
<1>1. Commanded /\ UNCHANGED <<seg, alive, schedule, undone, deferred>>
      /\ \/ operation' = Queued("upsert", 0, {t})
         \/ operation' = Queued("delete", 0, OwnedEvents(t))
  BY DEF RequestExport, RequestDelete
<1>2. CASE operation' = Queued("upsert", 0, {t})
  <2>1. /\ operation' \in [1 .. MaxCommands -> Operations]
        /\ \A c \in 1 .. MaxCommands : c # commands + 1 => operation'[c] = operation[c]
        /\ operation'[commands + 1].status = "queued" /\ operation'[commands + 1].kind = "upsert"
        /\ operation'[commands + 1].about = {t}
    BY <1>1, <1>2, CommandedIs, QueuedIs, ExportFacts
  <2>2. OperationTaken
    BY <1>1, <2>1 DEF OperationTaken
  <2> QED BY <1>1, <2>2, CommandedIs, SegmentSame, ScheduleSame DEF Taken
<1>3. CASE operation' = Queued("delete", 0, OwnedEvents(t))
  <2>0. OwnedEvents(t) \subseteq Events
    BY OwnedAre
  <2>1. /\ operation' \in [1 .. MaxCommands -> Operations]
        /\ \A c \in 1 .. MaxCommands : c # commands + 1 => operation'[c] = operation[c]
        /\ operation'[commands + 1].status = "queued" /\ operation'[commands + 1].kind = "delete"
        /\ operation'[commands + 1].about = OwnedEvents(t)
    BY <1>1, <1>3, <2>0, CommandedIs, QueuedIs, ExportFacts
  <2>2. OperationTaken
    BY <1>1, <2>0, <2>1 DEF OperationTaken
  <2> QED BY <1>1, <2>2, CommandedIs, SegmentSame, ScheduleSame DEF Taken
<1> QED BY <1>1, <1>2, <1>3

LEMMA PlaceTaken ==
  ASSUME ExportBase, NEW windows \in [Flexible -> Windows \cup {Unplaced}], Place(windows)
  PROVE  Taken
<1> DEFINE new == [t \in Tasks |-> IF t \in Flexible /\ t \in alive
                                   THEN Replaced(seg[t], windows[t]) ELSE seg[t]]
           s0 == [status |-> "applied", before |-> seg, after |-> new, alive |-> alive, last |-> TRUE]
<1>1. Commanded /\ seg' = new /\ UNCHANGED <<alive, undone, deferred>>
      /\ schedule' = [c \in 1 .. MaxCommands |->
           IF c = commands + 1 THEN s0 ELSE [schedule[c] EXCEPT !.last = FALSE]]
      /\ operation' = Queued("reconcile", commands + 1, {})
  BY DEF Place
<1>2. \A t \in Tasks : SegOK(t, seg[t]) /\ seg[t] \in Segs /\ seg[t].row \in Nat /\ seg[t].row <= commands
  BY DEF ExportBase, ExportTypeOK, SegmentsOK, Segs
<1>3. ASSUME NEW t \in Tasks
      PROVE  new[t] \in Segs /\ SegOK(t, new[t]) /\ (seg' = new => SegmentTaken(t))
  <2>1. CASE t \in Flexible /\ t \in alive
    <3>1. PICK q : q = Replaced(seg[t], windows[t])
      OBVIOUS
    <3>2. new[t] = q /\ windows[t] \in Windows \cup {Unplaced}
      BY <2>1, <3>1
    <3>3. IF windows[t] = Unplaced THEN q = NoRow
         ELSE /\ q \in Segs /\ q.row = commands + 1 /\ q.window = windows[t]
              /\ q.event = seg[t].event /\ q.provenance = seg[t].provenance
              /\ q.status = IF seg[t].provenance = "coachai_created" /\ seg[t].window # windows[t]
                            THEN "pending_update" ELSE seg[t].status
      BY <1>1, <1>2, <3>1, <3>2, CommandedIs, ReplacedIs
    <3> HIDE DEF new
    <3>4. CASE windows[t] = Unplaced
      BY <3>2, <3>3, <3>4, NoRowIs, NoRowOK DEF SegmentTaken
    <3>5. CASE windows[t] # Unplaced
      <4>1. EarlyEvents(t, seg[t].row) \subseteq EarlyEvents(t, commands + 1)
        BY <1>1, <1>2, CommandedIs, EarlierIs
      <4>2. SegOK(t, q) /\ Placed(q)
        BY <1>2, <2>1, <3>2, <3>3, <3>5, <4>1, ExportFacts DEF SegOK, Placed
      <4>3. q.event # NoEvent /\ q.status = "create_error" =>
              Placed(seg[t]) /\ seg[t].event = q.event /\ seg[t].status = "create_error"
              /\ seg[t].window = q.window
        BY <1>2, <2>1, <3>3, <3>5, NoRowIs DEF SegOK
      <4> QED BY <2>1, <3>2, <3>3, <3>5, <4>2, <4>3 DEF SegmentTaken
    <3> QED BY <3>4, <3>5
  <2>2. CASE ~(t \in Flexible /\ t \in alive)
    BY <1>2, <2>2 DEF SegmentTaken
  <2> QED BY <2>1, <2>2
<1>4. new \in [Tasks -> Segs]
  BY <1>3
<1> HIDE DEF new
<1>5. s0 \in Schedules
  BY <1>4 DEF Schedules, ExportBase, ExportTypeOK
<1>6. ASSUME NEW c \in 1 .. MaxCommands
      PROVE  schedule'[c] \in Schedules /\ ScheduleTaken(c)
  <2>1. CASE c = commands + 1
    <3>1. schedule'[c] = s0
      BY <1>1, <2>1
    <3>2. schedule'[c].status = "applied" /\ schedule'[c].before = seg /\ schedule'[c].after = seg'
          /\ schedule'[c].alive = alive
      BY <1>1, <3>1
    <3> QED BY <1>5, <2>1, <3>1, <3>2 DEF ScheduleTaken
  <2>2. CASE c # commands + 1
    <3>1. schedule'[c] = [schedule[c] EXCEPT !.last = FALSE] /\ schedule[c] \in Schedules
      BY <1>1, <2>2 DEF ExportBase, ExportTypeOK
    <3>2. /\ schedule'[c] \in Schedules /\ schedule'[c].before = schedule[c].before
          /\ schedule'[c].after = schedule[c].after /\ schedule'[c].status = schedule[c].status
          /\ schedule'[c].alive = schedule[c].alive
      BY <3>1, UnlastIs
    <3> QED BY <2>2, <3>2 DEF ScheduleTaken
  <2> QED BY <2>1, <2>2
<1>7. schedule' \in [1 .. MaxCommands -> Schedules]
  <2>1. schedule' = [c \in 1 .. MaxCommands |-> schedule'[c]]
    BY <1>1
  <2> QED BY <1>6, <2>1
<1>8. OperationTaken
  <2>1. /\ operation' \in [1 .. MaxCommands -> Operations]
        /\ \A c \in 1 .. MaxCommands : c # commands + 1 => operation'[c] = operation[c]
        /\ operation'[commands + 1].status = "queued" /\ operation'[commands + 1].kind = "reconcile"
        /\ operation'[commands + 1].of = commands + 1
    BY <1>1, CommandedIs, QueuedIs
  <2>2. schedule'[commands + 1].status = "applied" /\ commands + 1 \in 1 .. commands + 1
    BY <1>1, CommandedIs
  <2> QED BY <2>1, <2>2 DEF OperationTaken
<1>9. \A t \in Tasks : SegOK(t, seg'[t]) /\ SegmentTaken(t)
  BY <1>1, <1>3
<1>10. \A t \in Imported \cap alive' : seg'[t].event \in Foreign
  <2>1. \A t \in Imported : new[t] = seg[t]
    BY ExportFacts DEF new
  <2> QED BY <1>1, <2>1 DEF ExportBase, SegmentsOK
<1> QED BY <1>1, <1>4, <1>6, <1>7, <1>8, <1>9, <1>10, CommandedIs DEF Taken

LEMMA UndoTaken == ASSUME ExportBase, NEW c \in 1 .. commands, Undo(c) PROVE Taken
<1> DEFINE restored == [t \in Tasks |->
        LET old == schedule[c].before[t] IN
        IF t \notin Flexible \/ ~Placed(old) THEN old
        ELSE [old EXCEPT !.row = commands + 1,
                         !.status = IF Ours(old) THEN "pending_update" ELSE old.status]]
<1>1. Commanded /\ schedule[c].status = "applied" /\ schedule[c].alive = alive /\ seg' = restored
      /\ schedule' = [schedule EXCEPT ![c].status = "undone", ![c].last = FALSE]
      /\ operation' = Queued("reconcile", c, {}) /\ undone' = TRUE
      /\ UNCHANGED <<alive, deferred>>
  BY DEF Undo
<1>2. c \in 1 .. MaxCommands /\ c \in 0 .. MaxCommands /\ c # commands + 1 /\ commands \in Nat
  BY ExportFacts DEF ExportBase, ExportTypeOK
<1>0. commands + 1 \in 0 .. MaxCommands
  BY <1>1, CommandedIs
<1>3. /\ schedule[c].before \in [Tasks -> Segs] /\ schedule[c] \in Schedules
      /\ \A t \in Tasks : SegOK(t, schedule[c].before[t]) /\ schedule[c].before[t].row <= commands
  BY <1>1, <1>2 DEF ExportBase, SegmentsOK, ExportTypeOK
<1>4. ASSUME NEW t \in Tasks
      PROVE  restored[t] \in Segs /\ SegOK(t, restored[t]) /\ (seg' = restored => SegmentTaken(t))
  <2>1. PICK old : old = schedule[c].before[t]
    OBVIOUS
  <2>2. old \in Segs /\ SegOK(t, old) /\ InSnapshot(t, old)
    BY <1>1, <1>2, <1>3, <2>1 DEF InSnapshot
  <2>3. CASE t \in Flexible /\ Placed(old)
    <3> DEFINE st == IF Ours(old) THEN "pending_update" ELSE old.status
    <3>1. PICK q : q = RestoredTo(old, commands + 1, st)
      OBVIOUS
    <3>2. restored[t] = q
      BY <2>1, <2>3, <3>1 DEF RestoredTo
    <3>3. st \in SegStatuses
      BY <2>2 DEF Segs, SegStatuses
    <3>4. /\ q \in Segs /\ q.row = commands + 1 /\ q.window = old.window /\ q.status = st
          /\ q.event = old.event /\ q.provenance = old.provenance
      <4> HIDE DEF st
      <4> QED BY <1>0, <2>2, <3>1, <3>3, RestoredIs
    <3>5. old.row \in Nat /\ old.row <= commands
      BY <1>3, <2>1, <2>2 DEF Segs
    <3> HIDE DEF restored
    <3>6. EarlyEvents(t, old.row) \subseteq EarlyEvents(t, commands + 1)
      BY <1>2, <3>5, EarlierIs
    <3>7. SegOK(t, q) /\ Placed(q)
      BY <2>2, <2>3, <3>4, <3>6, ExportFacts DEF SegOK, Placed
    <3>8. q.event # NoEvent => q.status # "create_error"
      <4>1. old.event # NoEvent => old.provenance = "coachai_created"
        BY <2>2, <2>3 DEF SegOK
      <4>2. q.event # NoEvent => Ours(old)
        BY <3>4, <4>1 DEF Ours
      <4> QED BY <3>4, <4>2
    <3> QED BY <2>2, <2>3, <3>2, <3>4, <3>7, <3>8 DEF SegmentTaken
  <2>4. CASE t \in Flexible /\ ~Placed(old)
    <3>1. restored[t] = old /\ old = NoRow
      BY <2>1, <2>2, <2>4 DEF SegOK
    <3> HIDE DEF restored
    <3> QED BY <2>2, <3>1 DEF SegmentTaken
  <2>5. CASE t \notin Flexible
    <3>1. restored[t] = old /\ t \in Imported
      BY <2>1, <2>5, ExportFacts
    <3> HIDE DEF restored
    <3>2. old.row \in Nat /\ old.row <= commands
      BY <1>3, <2>1, <2>2 DEF Segs
    <3> QED BY <1>2, <2>2, <3>1, <3>2 DEF SegmentTaken
  <2> QED BY <2>3, <2>4, <2>5
<1>5. restored \in [Tasks -> Segs]
  BY <1>4
<1> HIDE DEF restored
<1>6. ASSUME NEW d \in 1 .. MaxCommands PROVE schedule'[d] \in Schedules /\ ScheduleTaken(d)
  <2>0. schedule \in [1 .. MaxCommands -> Schedules]
    BY DEF ExportBase, ExportTypeOK
  <2>1. CASE d = c
    <3>1. schedule'[c] = [schedule[c] EXCEPT !.status = "undone", !.last = FALSE]
      BY <1>1, <1>2, <2>0
    <3>2. /\ schedule'[c] \in Schedules /\ schedule'[c].before = schedule[c].before
          /\ schedule'[c].after = schedule[c].after /\ schedule'[c].status = "undone"
          /\ schedule'[c].alive = schedule[c].alive
      BY <1>3, <3>1 DEF Schedules
    <3> QED BY <1>1, <1>2, <2>1, <3>2 DEF ScheduleTaken
  <2>2. CASE d # c
    <3>1. schedule'[d] = schedule[d] /\ schedule[d] \in Schedules
      BY <1>1, <2>0, <2>2
    <3>2. d = commands + 1 => schedule[d].status = "none"
      BY <1>2 DEF ExportBase, SegmentsOK
    <3> QED BY <3>1, <3>2 DEF ScheduleTaken
  <2> QED BY <2>1, <2>2
<1>7. schedule' \in [1 .. MaxCommands -> Schedules]
  <2>1. schedule' = [d \in 1 .. MaxCommands |-> schedule'[d]]
    BY <1>1 DEF ExportBase, ExportTypeOK
  <2> QED BY <1>6, <2>1
<1>8. OperationTaken
  <2>1. /\ operation' \in [1 .. MaxCommands -> Operations]
        /\ \A d \in 1 .. MaxCommands : d # commands + 1 => operation'[d] = operation[d]
        /\ operation'[commands + 1].status = "queued" /\ operation'[commands + 1].kind = "reconcile"
        /\ operation'[commands + 1].of = c
    BY <1>1, <1>2, CommandedIs, QueuedIs
  <2>2. schedule'[c].status # "none" /\ c \in 1 .. commands + 1
    <3>1. schedule'[c].status = "none" <=> schedule[c].status = "none"
      BY <1>2, <1>6 DEF ScheduleTaken
    <3>2. c \in 1 .. commands + 1
      BY <1>2
    <3> QED BY <1>1, <3>1, <3>2
  <2> QED BY <2>1, <2>2 DEF OperationTaken
<1>9. \A t \in Tasks : SegOK(t, seg'[t]) /\ SegmentTaken(t)
  BY <1>1, <1>4
<1>10. \A t \in Imported \cap alive' : seg'[t].event \in Foreign
  <2>1. \A t \in Imported : restored[t] = schedule[c].before[t]
    BY ExportFacts DEF restored
  <2> QED BY <1>1, <1>2, <2>1 DEF ExportBase, SegmentsOK
<1> QED BY <1>1, <1>5, <1>6, <1>7, <1>8, <1>9, <1>10, CommandedIs DEF Taken

-----------------------------------------------------------------------------
(* The worker's steps, and the user's *)

\* What a step leaves of the base when it leaves the rows alone.
LEMMA FrameBase ==
  ASSUME ExportBase, UNCHANGED Rest, UNCHANGED operation,
         google' \in [Events \cup Foreign -> Windows \cup {"absent", "gone"}], worker' \in Workers
  PROVE  ExportTypeOK' /\ SegmentsOK' /\ OperationsOK'
<1>1. UNCHANGED <<seg, alive, commands, schedule, operation>>
  BY DEF Rest
<1>2. ExportTypeOK'
  BY <1>1 DEF ExportBase, ExportTypeOK
<1>3. SegmentsOK'
  BY <1>1 DEF ExportBase, SegmentsOK
<1>4. OperationsOK'
  BY <1>1 DEF ExportBase, OperationsOK
<1> QED BY <1>2, <1>3, <1>4

LEMMA SetIs ==
  ASSUME ExportBase, NEW c \in 1 .. MaxCommands, NEW st \in {"processing", "retrying", "failed", "completed"},
         NEW Q, Q = Set(c, st)
  PROVE  /\ Q \in [1 .. MaxCommands -> Operations]
         /\ \A d \in 1 .. MaxCommands : /\ Q[d].kind = operation[d].kind /\ Q[d].about = operation[d].about
                                        /\ Q[d].of = operation[d].of
                                        /\ Q[d].status = IF d = c THEN st ELSE operation[d].status
                                        /\ Exported(Q[d]) = Exported(operation[d])
                                        /\ d # c => Q[d] = operation[d]
<1>1. operation \in [1 .. MaxCommands -> Operations]
  BY DEF ExportBase, ExportTypeOK
<1>2. PICK o : o = [operation[c] EXCEPT !.status = st]
  OBVIOUS
<1>3. /\ o \in Operations /\ o.kind = operation[c].kind /\ o.about = operation[c].about
      /\ o.of = operation[c].of /\ o.status = st
  BY <1>1, <1>2 DEF Operations
<1>4. Q = [operation EXCEPT ![c] = o]
  BY <1>2 DEF Set
<1>5. ASSUME NEW d \in 1 .. MaxCommands
      PROVE  /\ Q[d].kind = operation[d].kind /\ Q[d].about = operation[d].about
             /\ Q[d].of = operation[d].of
             /\ Q[d].status = IF d = c THEN st ELSE operation[d].status
             /\ d # c => Q[d] = operation[d]
  BY <1>1, <1>3, <1>4
<1>6. ASSUME NEW d \in 1 .. MaxCommands PROVE Exported(Q[d]) = Exported(operation[d])
  BY <1>5 DEF Exported
<1> QED BY <1>1, <1>3, <1>4, <1>5, <1>6

LEMMA SetBase ==
  ASSUME ExportBase, NEW c \in 1 .. commands, NEW st \in {"processing", "retrying", "failed", "completed"},
         operation' = Set(c, st), UNCHANGED <<commands, schedule>>
  PROVE  OperationsOK' /\ operation' \in [1 .. MaxCommands -> Operations]
<1>1. c \in 1 .. MaxCommands
  BY ExportFacts DEF ExportBase, ExportTypeOK
<1>2. /\ operation' \in [1 .. MaxCommands -> Operations]
      /\ \A d \in 1 .. MaxCommands : /\ operation'[d].kind = operation[d].kind
                                     /\ operation'[d].about = operation[d].about
                                     /\ operation'[d].of = operation[d].of
                                     /\ d # c => operation'[d] = operation[d]
  BY <1>1, SetIs
<1>3. commands \in Nat
  BY DEF ExportBase, ExportTypeOK
<1> QED BY <1>2, <1>3 DEF ExportBase, OperationsOK

LEMMA IdleIs ==
  /\ Idle \in Workers /\ Idle.pc = "idle" /\ Idle.op = 0 /\ Idle.orphans = {} /\ Idle.specs = {}
  /\ Idle.results = {} /\ Idle.failing = FALSE
BY ExportFacts DEF Idle, Workers

\* The worker gives up or has done its operation.
LEMMA IdleBase ==
  ASSUME ExportBase, worker' = Idle, NEW c \in 1 .. commands,
         NEW st \in {"processing", "retrying", "failed", "completed"},
         operation' = Set(c, st), UNCHANGED <<Rest, google>>
  PROVE  ExportBase'
<1>1. OperationsOK' /\ operation' \in [1 .. MaxCommands -> Operations]
  BY SetBase DEF Rest
<1>2. ExportTypeOK'
  BY <1>1, IdleIs DEF ExportBase, ExportTypeOK, Rest
<1>3. SegmentsOK'
  BY DEF ExportBase, SegmentsOK, Rest
<1>4. WorkerOK'
  BY IdleIs DEF WorkerOK
<1> QED BY <1>1, <1>2, <1>3, <1>4 DEF ExportBase

LEMMA AbortIs ==
  ASSUME ExportBase, Abort \/ End
  PROVE  /\ worker.op \in 1 .. commands /\ worker' = Idle /\ UNCHANGED <<Rest, google>>
         /\ \E st \in {"retrying", "failed", "completed"} :
              /\ operation' = Set(worker.op, st)
              /\ st = "completed" => worker.pc = "ending" /\ ~worker.failing
BY DEF Abort, End, Outcomes, ExportBase, WorkerOK

LEMMA AbortBase == ASSUME ExportBase, Abort \/ End PROVE ExportBase'
BY AbortIs, IdleBase

LEMMA ClaimIs ==
  ASSUME ExportBase, NEW c \in 1 .. commands, Claim(c)
  PROVE  /\ worker.pc = "idle" /\ operation[c].status \in {"queued", "retrying"}
         /\ worker' \in Workers /\ worker'.pc = "loading" /\ worker'.op = c /\ worker'.orphans = {}
         /\ worker'.specs = {} /\ worker'.results = {} /\ worker'.failing = FALSE
         /\ operation' = Set(c, "processing") /\ UNCHANGED <<Rest, google, faults>>
<1>1. c \in 0 .. MaxCommands
  BY ExportFacts DEF ExportBase, ExportTypeOK
<1> QED BY <1>1, IdleIs DEF Claim, Workers

LEMMA ClaimBase == ASSUME ExportBase, NEW c \in 1 .. commands, Claim(c) PROVE ExportBase'
<1>1. OperationsOK' /\ operation' \in [1 .. MaxCommands -> Operations]
  BY ClaimIs, SetBase DEF Rest
<1>2. ExportTypeOK'
  BY <1>1, ClaimIs DEF ExportBase, ExportTypeOK, Rest
<1>3. SegmentsOK'
  <2>1. UNCHANGED <<seg, alive, commands, schedule>>
    BY ClaimIs DEF Rest
  <2> QED BY <2>1 DEF ExportBase, SegmentsOK
<1>4. WorkerOK'
  BY ClaimIs DEF WorkerOK, Rest
<1> QED BY <1>1, <1>2, <1>3, <1>4 DEF ExportBase

\* The events an operation deletes.
Doomed(op) ==
  CASE op.kind = "delete"    -> op.about
    [] op.kind = "reconcile" -> Orphans(schedule[op.of])
    [] OTHER                 -> {}

LEMMA DoomedIs ==
  ASSUME ExportBase, NEW c \in 1 .. MaxCommands PROVE Doomed(operation[c]) \subseteq Events
<1>1. CASE operation[c].kind = "delete"
  BY <1>1 DEF Doomed, ExportBase, OperationsOK
<1>2. CASE operation[c].kind = "reconcile"
  <2>1. PICK d \in 1 .. MaxCommands : d = operation[c].of /\ schedule[d].status # "none"
    <3>1. operation[c].of \in 1 .. commands /\ schedule[operation[c].of].status # "none"
      BY <1>2 DEF ExportBase, OperationsOK
    <3>2. 1 .. commands \subseteq 1 .. MaxCommands
      BY ExportFacts DEF ExportBase, ExportTypeOK
    <3> QED BY <3>1, <3>2
  <2>2. ASSUME NEW t \in Tasks, NEW s, SegOK(t, s), Ours(s) PROVE s.event \in Events
    <3>1. s.event \in EarlyEvents(t, s.row) /\ s.row \in 0 .. MaxCommands
      BY <2>2, ExportFacts DEF SegOK, Ours, Segs
    <3>2. EarlyEvents(t, s.row) \subseteq Events
      BY <3>1, EarlyIs
    <3> QED BY <3>1, <3>2
  <2>3. \A t \in Tasks : SegOK(t, schedule[d].before[t]) /\ SegOK(t, schedule[d].after[t])
    BY <2>1 DEF ExportBase, SegmentsOK
  <2>4. Orphans(schedule[d]) \subseteq Events
    BY <2>2, <2>3 DEF Orphans
  <2>5. Doomed(operation[c]) = Orphans(schedule[d])
    BY <1>2, <2>1 DEF Doomed
  <2> QED BY <2>4, <2>5
<1>3. CASE operation[c].kind \notin {"delete", "reconcile"}
  BY <1>3 DEF Doomed
<1> QED BY <1>1, <1>2, <1>3

LEMMA LoadIs ==
  ASSUME ExportBase, Load
  PROVE  /\ worker.pc = "loading" /\ worker.op \in 1 .. commands
         /\ worker' \in Workers /\ worker'.pc = "deleting" /\ worker'.op = worker.op
         /\ worker'.orphans = Doomed(operation[worker.op])
         /\ worker'.specs = {} /\ worker'.results = {} /\ worker'.failing = FALSE
         /\ UNCHANGED <<Rest, operation, google, faults>>
<1>1. /\ worker.pc = "loading" /\ worker.op \in 1 .. MaxCommands /\ worker.op \in 1 .. commands
      /\ worker \in Workers /\ worker.specs = {} /\ worker.results = {} /\ ~worker.failing
  BY ExportFacts DEF Load, ExportBase, WorkerOK, ExportTypeOK
<1>2. PICK D : D = Doomed(operation[worker.op])
  OBVIOUS
<1>3. D \in SUBSET Events
  BY <1>1, <1>2, DoomedIs
<1>4. worker' = [worker EXCEPT !.pc = "deleting", !.orphans = D] /\ UNCHANGED <<Rest, operation, google, faults>>
  BY <1>2 DEF Load, Doomed
<1> QED BY <1>1, <1>2, <1>3, <1>4 DEF Workers

LEMMA LoadBase == ASSUME ExportBase, Load PROVE ExportBase'
<1>0. UNCHANGED Rest /\ UNCHANGED operation /\ worker' \in Workers
      /\ google' \in [Events \cup Foreign -> Windows \cup {"absent", "gone"}]
  BY LoadIs DEF ExportBase, ExportTypeOK
<1>1. ExportTypeOK' /\ SegmentsOK' /\ OperationsOK'
  BY <1>0, FrameBase
<1>2. WorkerOK'
  BY LoadIs DEF WorkerOK, Rest
<1> QED BY <1>1, <1>2 DEF ExportBase

LEMMA DeleteEventIs ==
  ASSUME ExportBase, NEW e \in Events \cup Foreign, DeleteEvent(e)
  PROVE  /\ worker.pc = "deleting" /\ e \in Events
         /\ google' \in [Events \cup Foreign -> Windows \cup {"absent", "gone"}]
         /\ \A x \in Events \cup Foreign : google'[x] = IF x = e /\ google[x] # "absent" THEN "gone" ELSE google[x]
         /\ worker' \in Workers /\ worker'.pc = worker.pc /\ worker'.op = worker.op
         /\ worker'.orphans = worker.orphans \ {e}
         /\ worker'.specs = {} /\ worker'.results = {} /\ worker'.failing = FALSE
         /\ UNCHANGED <<Rest, operation, faults>>
<1>1. /\ worker.pc = "deleting" /\ worker \in Workers /\ e \in worker.orphans
      /\ worker.specs = {} /\ worker.results = {} /\ ~worker.failing
      /\ worker' = [worker EXCEPT !.orphans = @ \ {e}]
      /\ UNCHANGED <<Rest, operation, faults>>
  BY DEF DeleteEvent, ExportBase, WorkerOK, ExportTypeOK
<1>2. e \in Events
  BY <1>1 DEF Workers
<1>3. /\ google \in [Events \cup Foreign -> Windows \cup {"absent", "gone"}]
      /\ google' = [google EXCEPT ![e] = IF google[e] = "absent" THEN google[e] ELSE "gone"]
  BY DEF DeleteEvent, ExportBase, ExportTypeOK
<1>4. /\ google' \in [Events \cup Foreign -> Windows \cup {"absent", "gone"}]
      /\ \A x \in Events \cup Foreign : google'[x] = IF x = e /\ google[x] # "absent" THEN "gone" ELSE google[x]
  BY <1>3
<1>5. /\ worker' \in Workers /\ worker'.pc = worker.pc /\ worker'.op = worker.op
      /\ worker'.orphans = worker.orphans \ {e}
      /\ worker'.specs = worker.specs /\ worker'.results = worker.results /\ worker'.failing = worker.failing
  BY <1>1 DEF Workers
<1> QED BY <1>1, <1>2, <1>4, <1>5

LEMMA DeleteEventBase ==
  ASSUME ExportBase, NEW e \in Events \cup Foreign, DeleteEvent(e) PROVE ExportBase'
<1>0. UNCHANGED Rest /\ UNCHANGED operation /\ worker' \in Workers
      /\ google' \in [Events \cup Foreign -> Windows \cup {"absent", "gone"}]
  BY DeleteEventIs DEF ExportBase, ExportTypeOK
<1>1. ExportTypeOK' /\ SegmentsOK' /\ OperationsOK'
  BY <1>0, FrameBase
<1>2. WorkerOK'
  BY DeleteEventIs DEF ExportBase, WorkerOK, Rest
<1> QED BY <1>1, <1>2 DEF ExportBase

LEMMA UserDeletesIs ==
  ASSUME ExportBase, NEW e \in Events, UserDeletes(e)
  PROVE  /\ google' \in [Events \cup Foreign -> Windows \cup {"absent", "gone"}]
         /\ google[e] \in Windows
         /\ \A x \in Events \cup Foreign : google'[x] = IF x = e THEN "gone" ELSE google[x]
         /\ UNCHANGED <<Rest, operation, worker>>
BY DEF UserDeletes, ExportBase, ExportTypeOK

LEMMA UserDeletesBase == ASSUME ExportBase, NEW e \in Events, UserDeletes(e) PROVE ExportBase'
<1>0. UNCHANGED Rest /\ UNCHANGED operation /\ worker' \in Workers
      /\ google' \in [Events \cup Foreign -> Windows \cup {"absent", "gone"}]
  BY UserDeletesIs DEF ExportBase, ExportTypeOK
<1>1. ExportTypeOK' /\ SegmentsOK' /\ OperationsOK'
  BY <1>0, FrameBase
<1>2. WorkerOK'
  BY UserDeletesIs DEF ExportBase, WorkerOK, Rest
<1> QED BY <1>1, <1>2 DEF ExportBase

\* The tasks that are exported, and what of them.
LEMMA ExportableIs ==
  ASSUME ExportBase, NEW t \in alive PROVE Exportable(seg[t]) <=> t \in Flexible /\ Placed(seg[t])
<1>1. t \in Tasks /\ SegOK(t, seg[t])
  BY DEF ExportBase, ExportTypeOK, SegmentsOK
<1>2. CASE t \in Flexible
  <2>1. seg[t].event # NoEvent => seg[t].provenance = "coachai_created"
    BY <1>1, <1>2 DEF SegOK
  <2> QED BY <1>2, <2>1 DEF Exportable
<1>3. CASE t \in Imported
  <2>1. seg[t].event \in Foreign
    BY <1>3 DEF ExportBase, SegmentsOK
  <2>2. seg[t].provenance = "imported" /\ seg[t].event # NoEvent
    BY <1>1, <1>3, <2>1, ExportFacts DEF SegOK
  <2> QED BY <1>3, <2>2, ExportFacts DEF Exportable
<1> QED BY <1>1, <1>2, <1>3, ExportFacts

SpecOf(t) == [task |-> t, seg |-> seg[t]]

LEMMA LoadSpecsIs ==
  ASSUME ExportBase, LoadSpecs
  PROVE  /\ worker.pc = "deleting" /\ worker.orphans = {} /\ worker.op \in 1 .. commands
         /\ worker' \in Workers /\ worker'.pc = "exporting" /\ worker'.op = worker.op
         /\ worker'.orphans = {} /\ worker'.results = {} /\ worker'.failing = FALSE
         /\ UNCHANGED <<Rest, operation, google, faults>>
         /\ \A spec \in worker'.specs :
              /\ spec \in Specs /\ spec.task \in alive /\ spec.task \in Exported(operation[worker.op])
              /\ spec.seg = seg[spec.task] /\ Placed(spec.seg) /\ spec = SpecOf(spec.task)
         /\ \A t \in Flexible \cap alive :
              t \in Exported(operation[worker.op]) /\ Placed(seg[t]) => SpecOf(t) \in worker'.specs
<1> DEFINE tasks == {t \in Exported(operation[worker.op]) \cap alive : Exportable(seg[t])}
           specs == {SpecOf(t) : t \in tasks}
<1>1. /\ worker.pc = "deleting" /\ worker.orphans = {} /\ worker \in Workers /\ worker.op \in 1 .. commands
      /\ worker.results = {} /\ ~worker.failing
      /\ worker' = [worker EXCEPT !.pc = "exporting", !.specs = specs]
      /\ UNCHANGED <<Rest, operation, google, faults>>
  BY DEF LoadSpecs, ExportBase, WorkerOK, ExportTypeOK, SpecOf
<1>2. ASSUME NEW t \in tasks
      PROVE  /\ t \in Flexible /\ t \in alive /\ t \in Exported(operation[worker.op]) /\ Placed(seg[t])
             /\ SpecOf(t) \in Specs /\ SpecOf(t).task = t /\ SpecOf(t).seg = seg[t]
  <2>1. t \in alive /\ t \in Exported(operation[worker.op]) /\ t \in Flexible /\ Placed(seg[t])
    BY ExportableIs
  <2>2. seg[t] \in Segs
    BY <2>1, ExportFacts DEF ExportBase, ExportTypeOK
  <2> QED BY <2>1, <2>2 DEF SpecOf, Specs
<1>3. \A spec \in specs :
        /\ spec \in Specs /\ spec.task \in alive /\ spec.task \in Exported(operation[worker.op])
        /\ spec.seg = seg[spec.task] /\ Placed(spec.seg) /\ spec = SpecOf(spec.task)
  BY <1>2
<1>4. \A t \in Flexible \cap alive :
        t \in Exported(operation[worker.op]) /\ Placed(seg[t]) => SpecOf(t) \in specs
  BY ExportableIs
<1>5. specs \in SUBSET Specs
  BY <1>3
<1> HIDE DEF specs, tasks
<1>6. /\ worker' \in Workers /\ worker'.pc = "exporting" /\ worker'.op = worker.op
      /\ worker'.orphans = worker.orphans /\ worker'.results = worker.results
      /\ worker'.failing = worker.failing /\ worker'.specs = specs
  BY <1>1, <1>5 DEF Workers
<1> QED BY <1>1, <1>3, <1>4, <1>6

LEMMA LoadSpecsBase == ASSUME ExportBase, LoadSpecs PROVE ExportBase'
<1>0. UNCHANGED Rest /\ UNCHANGED operation /\ worker' \in Workers
      /\ google' \in [Events \cup Foreign -> Windows \cup {"absent", "gone"}]
  BY LoadSpecsIs DEF ExportBase, ExportTypeOK
<1>1. ExportTypeOK' /\ SegmentsOK' /\ OperationsOK'
  BY <1>0, FrameBase
<1>2. ASSUME NEW spec \in worker'.specs
      PROVE  /\ spec.task \in Exported(operation[worker.op]) /\ SegOK(spec.task, spec.seg)
             /\ Placed(spec.seg) /\ spec.seg.row <= commands
             /\ \A q \in worker'.specs : q.task = spec.task => q = spec
  <2>1. /\ spec \in Specs /\ spec.task \in alive /\ spec.task \in Exported(operation[worker.op])
        /\ spec.seg = seg[spec.task] /\ Placed(spec.seg) /\ spec = SpecOf(spec.task)
    BY <1>2, LoadSpecsIs
  <2>2. spec.task \in Tasks
    BY <2>1 DEF ExportBase, ExportTypeOK
  <2>3. SegOK(spec.task, spec.seg) /\ spec.seg.row <= commands
    BY <2>1, <2>2 DEF ExportBase, SegmentsOK
  <2>4. \A q \in worker'.specs : q.task = spec.task => q = spec
    BY <2>1, LoadSpecsIs
  <2> QED BY <2>1, <2>3, <2>4
<1>3. WorkerOK'
  <2>1. /\ worker'.op = worker.op /\ operation' = operation /\ commands' = commands
        /\ worker'.pc = "exporting" /\ worker'.results = {} /\ worker.op \in 1 .. commands
    BY LoadSpecsIs DEF Rest
  <2> QED BY <1>2, <2>1 DEF WorkerOK
<1> QED BY <1>1, <1>3 DEF ExportBase

\* What is known of a segment that the worker is to export.
LEMMA SpecIs ==
  ASSUME ExportBase, NEW spec \in worker.specs
  PROVE  /\ spec \in Specs /\ spec.task \in Flexible /\ spec.task \in Tasks /\ spec.seg \in Segs
         /\ spec.seg.row \in Nat /\ spec.seg.row \in 0 .. MaxCommands /\ spec.seg.row <= commands
         /\ spec.seg.window \in Windows /\ worker.pc = "exporting"
         /\ spec.task \in Exported(operation[worker.op]) /\ worker.op \in 1 .. commands
         /\ \/ spec.seg.event = NoEvent
            \/ spec.seg.event \in EarlyEvents(spec.task, spec.seg.row) /\ spec.seg.event # NoEvent
         /\ \A q \in worker.specs : q.task = spec.task => q = spec
         /\ \A r \in worker.results : r.task # spec.task
<1>1. /\ spec.task \in Exported(operation[worker.op]) /\ SegOK(spec.task, spec.seg)
      /\ Placed(spec.seg) /\ spec.seg.row <= commands
      /\ \A q \in worker.specs : q.task = spec.task => q = spec
      /\ \A r \in worker.results : r.task # spec.task
  BY DEF ExportBase, WorkerOK
<1>2. /\ spec \in Specs /\ spec.task \in Flexible /\ spec.task \in Tasks /\ spec.seg \in Segs
  BY ExportFacts DEF ExportBase, ExportTypeOK, Workers, Specs
<1>3. spec.seg.row \in 0 .. MaxCommands /\ spec.seg.window \in Windows
  BY <1>1, <1>2 DEF Segs, Placed
<1>4. worker.pc \in {"idle", "loading", "deleting", "exporting", "ending"}
  BY DEF ExportBase, ExportTypeOK, Workers
<1>5. worker.pc = "exporting" /\ worker.op \in 1 .. commands
  BY <1>4 DEF ExportBase, WorkerOK
<1>6. EarlyEvents(spec.task, spec.seg.row) \subseteq Events
  BY <1>2, <1>3, EarlyIs
<1>7. \/ spec.seg.event = NoEvent
      \/ spec.seg.event \in EarlyEvents(spec.task, spec.seg.row) /\ spec.seg.event # NoEvent
  BY <1>1, <1>2, <1>6, ExportFacts DEF SegOK
<1>8. spec.seg.row \in Nat
  BY <1>3
<1> QED BY <1>1, <1>2, <1>3, <1>5, <1>7, <1>8

\* The event an export works on is one of the segment's own.
LEMMA IdIs ==
  ASSUME ExportBase, NEW spec \in worker.specs
  PROVE  /\ IdFor(spec) \in EarlyEvents(spec.task, spec.seg.row) /\ IdFor(spec) \in Events
         /\ FirstId(spec) \in Events /\ NextId(spec) \in Events /\ IdFor(spec) # NoEvent
<1>1. /\ spec.task \in Tasks /\ spec.seg.row \in 0 .. MaxCommands
      /\ \/ spec.seg.event = NoEvent
         \/ spec.seg.event \in EarlyEvents(spec.task, spec.seg.row) /\ spec.seg.event # NoEvent
  BY SpecIs
<1>2. /\ EarlyEvents(spec.task, spec.seg.row) \subseteq Events
      /\ FirstId(spec) \in EarlyEvents(spec.task, spec.seg.row)
      /\ NextId(spec) \in EarlyEvents(spec.task, spec.seg.row)
  BY <1>1, EarlyIs DEF FirstId, NextId
<1>3. IdFor(spec) \in EarlyEvents(spec.task, spec.seg.row)
  BY <1>1, <1>2 DEF IdFor
<1> QED BY <1>2, <1>3, ExportFacts

LEMMA ShowsIs ==
  ASSUME ExportBase, NEW spec \in worker.specs, Accepted(spec)
  PROVE  Shows(spec) \in Windows \cup {"gone"} /\ (Creates(spec.seg) => Shows(spec) \in Windows)
<1>1. google[IdFor(spec)] \in Windows \cup {"absent", "gone"} /\ spec.seg.window \in Windows
  BY IdIs, SpecIs DEF ExportBase, ExportTypeOK
<1> QED BY <1>1 DEF Accepted, Shows

LEMMA ResultIs ==
  ASSUME ExportBase, NEW spec \in worker.specs, NEW st \in SegStatuses, NEW r, r = Result(spec, st)
  PROVE  /\ r \in Results /\ r.task = spec.task /\ r.row = spec.seg.row /\ r.event = IdFor(spec)
         /\ r.status = st
<1>1. spec.task \in Flexible /\ spec.seg.row \in 0 .. MaxCommands /\ IdFor(spec) \in Events
  BY SpecIs, IdIs
<1> QED BY <1>1 DEF Result, Results

\* One segment is exported, or its export fails.
Exports(spec) == ExportSegment(spec) \/ ExportFails(spec)

LEMMA ExportsIs ==
  ASSUME ExportBase, NEW spec \in worker.specs, Exports(spec)
  PROVE  /\ worker.pc = "exporting" /\ worker.op \in 1 .. commands
         /\ google' \in [Events \cup Foreign -> Windows \cup {"absent", "gone"}]
         /\ \/ google' = google
            \/ /\ Accepted(spec)
               /\ \A x \in Events \cup Foreign : google'[x] = IF x = IdFor(spec) THEN Shows(spec) ELSE google[x]
         /\ worker' \in Workers /\ worker'.pc = "exporting" /\ worker'.op = worker.op
         /\ worker'.orphans = worker.orphans
         /\ UNCHANGED <<Rest, operation>>
         /\ \E r \in Results :
              /\ r.task = spec.task /\ r.row = spec.seg.row /\ r.event = IdFor(spec)
              /\ worker'.results = worker.results \cup {r}
              /\ \/ /\ Accepted(spec) /\ r.status = "synced" /\ worker'.specs = worker.specs \ {spec}
                    /\ worker'.failing = worker.failing
                    /\ google'[IdFor(spec)] = Shows(spec)
                 \/ /\ r.status = IF spec.seg.event # NoEvent THEN "update_error" ELSE "create_error"
                    /\ worker'.specs = {} /\ worker'.failing = TRUE
<1>1. worker.pc = "exporting" /\ worker.op \in 1 .. commands /\ worker \in Workers
  BY SpecIs DEF ExportBase, ExportTypeOK
<1>2. google \in [Events \cup Foreign -> Windows \cup {"absent", "gone"}] /\ IdFor(spec) \in Events
  BY IdIs DEF ExportBase, ExportTypeOK
<1>3. PICK w : w = Shows(spec)
  OBVIOUS
<1>4. Accepted(spec) => w \in Windows \cup {"absent", "gone"}
  BY <1>3, ShowsIs
<1>5. ASSUME Accepted(spec), google' = [google EXCEPT ![IdFor(spec)] = Shows(spec)]
      PROVE  /\ google' \in [Events \cup Foreign -> Windows \cup {"absent", "gone"}]
             /\ \A x \in Events \cup Foreign : google'[x] = IF x = IdFor(spec) THEN Shows(spec) ELSE google[x]
             /\ google'[IdFor(spec)] = Shows(spec)
  <2>1. PICK i \in Events : i = IdFor(spec)
    BY <1>2
  <2>2. google' = [google EXCEPT ![i] = w] /\ w \in Windows \cup {"absent", "gone"}
    BY <1>3, <1>4, <1>5, <2>1
  <2>3. /\ google' \in [Events \cup Foreign -> Windows \cup {"absent", "gone"}]
        /\ \A x \in Events \cup Foreign : google'[x] = IF x = i THEN w ELSE google[x]
    BY <1>2, <2>2
  <2> QED BY <1>3, <2>1, <2>3
<1>6. CASE ExportSegment(spec)
  <2>1. PICK r : r = Result(spec, "synced")
    OBVIOUS
  <2>2. /\ r \in Results /\ r.task = spec.task /\ r.row = spec.seg.row /\ r.event = IdFor(spec)
        /\ r.status = "synced"
    BY <2>1, ResultIs DEF SegStatuses
  <2>3. /\ Accepted(spec) /\ google' = [google EXCEPT ![IdFor(spec)] = Shows(spec)]
        /\ worker' = [worker EXCEPT !.specs = worker.specs \ {spec}, !.results = worker.results \cup {r}]
        /\ UNCHANGED <<Rest, operation>>
    BY <1>6, <2>1 DEF ExportSegment
  <2>4. worker.results \cup {r} \in SUBSET Results /\ worker.specs \ {spec} \in SUBSET Specs
    BY <1>1, <2>2 DEF Workers
  <2>5. /\ worker' \in Workers /\ worker'.pc = "exporting" /\ worker'.op = worker.op
        /\ worker'.orphans = worker.orphans /\ worker'.failing = worker.failing
        /\ worker'.specs = worker.specs \ {spec} /\ worker'.results = worker.results \cup {r}
    BY <1>1, <2>3, <2>4 DEF Workers
  <2> QED BY <1>1, <1>5, <2>2, <2>3, <2>5
<1>7. CASE ExportFails(spec)
  <2> DEFINE st == IF spec.seg.event # NoEvent THEN "update_error" ELSE "create_error"
  <2>1. PICK r : r = Result(spec, st)
    OBVIOUS
  <2>2. /\ r \in Results /\ r.task = spec.task /\ r.row = spec.seg.row /\ r.event = IdFor(spec)
        /\ r.status = st
    BY <2>1, ResultIs DEF SegStatuses
  <2>3. /\ \/ google' = google
           \/ Accepted(spec) /\ google' = [google EXCEPT ![IdFor(spec)] = Shows(spec)]
        /\ worker' = [worker EXCEPT !.specs = {}, !.failing = TRUE, !.results = worker.results \cup {r}]
        /\ UNCHANGED <<Rest, operation>>
    BY <1>7, <2>1 DEF ExportFails
  <2>4. worker.results \cup {r} \in SUBSET Results
    BY <1>1, <2>2 DEF Workers
  <2>5. /\ worker' \in Workers /\ worker'.pc = "exporting" /\ worker'.op = worker.op
        /\ worker'.orphans = worker.orphans /\ worker'.failing = TRUE
        /\ worker'.specs = {} /\ worker'.results = worker.results \cup {r}
    BY <1>1, <2>3, <2>4 DEF Workers
  <2> HIDE DEF st
  <2>6. google' \in [Events \cup Foreign -> Windows \cup {"absent", "gone"}]
    BY <1>2, <1>5, <2>3
  <2>7. \/ google' = google
        \/ /\ Accepted(spec)
           /\ \A x \in Events \cup Foreign : google'[x] = IF x = IdFor(spec) THEN Shows(spec) ELSE google[x]
    BY <1>5, <2>3
  <2>8. r.status = IF spec.seg.event # NoEvent THEN "update_error" ELSE "create_error"
    BY <2>2 DEF st
  <2> QED BY <1>1, <2>2, <2>3, <2>5, <2>6, <2>7, <2>8
<1> QED BY <1>6, <1>7 DEF Exports

LEMMA ExportsBase == ASSUME ExportBase, NEW spec \in worker.specs, Exports(spec) PROVE ExportBase'
<1>1. /\ UNCHANGED Rest /\ UNCHANGED operation /\ worker' \in Workers
      /\ google' \in [Events \cup Foreign -> Windows \cup {"absent", "gone"}]
      /\ worker'.pc = "exporting" /\ worker'.op = worker.op /\ worker.op \in 1 .. commands
  BY ExportsIs
<1>2. ExportTypeOK' /\ SegmentsOK' /\ OperationsOK'
  BY <1>1, FrameBase
<1>3. PICK r \in Results :
        /\ r.task = spec.task /\ r.row = spec.seg.row /\ r.event = IdFor(spec)
        /\ worker'.results = worker.results \cup {r}
        /\ worker'.specs = worker.specs \ {spec} \/ worker'.specs = {}
  BY ExportsIs
<1>4. commands' = commands /\ operation' = operation
  BY <1>1 DEF Rest
<1>5. ASSUME NEW s \in worker'.specs
      PROVE  /\ s.task \in Exported(operation[worker.op]) /\ SegOK(s.task, s.seg)
             /\ Placed(s.seg) /\ s.seg.row <= commands
             /\ \A q \in worker'.specs : q.task = s.task => q = s
             /\ s.task # spec.task
  <2>1. s \in worker.specs /\ s # spec
    BY <1>3
  <2>2. /\ s.task \in Exported(operation[worker.op]) /\ SegOK(s.task, s.seg)
        /\ Placed(s.seg) /\ s.seg.row <= commands
        /\ \A q \in worker.specs : q.task = s.task => q = s
    BY <2>1 DEF ExportBase, WorkerOK
  <2> QED BY <1>3, <2>1, <2>2
<1>6. ASSUME NEW p \in worker'.results
      PROVE  /\ p.task \in Exported(operation[worker.op]) /\ p.event \in EarlyEvents(p.task, p.row)
             /\ p.row <= commands
             /\ \A q \in worker'.results : q.task = p.task => q = p
             /\ \A s \in worker'.specs : s.task # p.task
  <2>1. CASE p = r
    BY <1>3, <1>5, <2>1, SpecIs, IdIs
  <2>2. CASE p # r
    <3>1. p \in worker.results /\ p.task # spec.task
      BY <1>3, <2>2, SpecIs
    <3>2. /\ p.task \in Exported(operation[worker.op]) /\ p.event \in EarlyEvents(p.task, p.row)
          /\ p.row <= commands
          /\ \A q \in worker.results : q.task = p.task => q = p
          /\ \A s \in worker.specs : s.task # p.task
      BY <3>1 DEF ExportBase, WorkerOK
    <3> QED BY <1>3, <3>1, <3>2
  <2> QED BY <2>1, <2>2
<1>7. WorkerOK'
  BY <1>1, <1>4, <1>5, <1>6 DEF WorkerOK
<1> QED BY <1>2, <1>7 DEF ExportBase

\* The outcomes are saved, unless a row is gone.
Current == \A r \in worker.results : seg[r.task].row = r.row /\ Placed(seg[r.task])

LEMMA PersistIs ==
  ASSUME ExportBase, Persist
  PROVE  /\ worker.pc = "exporting" /\ worker.specs = {} /\ worker.op \in 1 .. commands
         /\ worker' \in Workers /\ worker'.pc = "ending" /\ worker'.op = worker.op
         /\ worker'.orphans = worker.orphans /\ worker'.specs = {} /\ worker'.results = worker.results
         /\ worker'.failing = (worker.failing \/ ~Current)
         /\ UNCHANGED <<alive, commands, schedule, overlapped, undone, deferred, operation, google, faults>>
         /\ ~Current => seg' = seg
         /\ seg' \in [Tasks -> Segs]
         /\ \A t \in Tasks : \/ seg'[t] = seg[t] /\ (Current => \A r \in worker.results : r.task # t)
                             \/ \E r \in worker.results :
                                  /\ Current /\ r.task = t /\ t \in Flexible
                                  /\ seg[t].row = r.row /\ Placed(seg[t])
                                  /\ seg'[t].row = seg[t].row /\ seg'[t].window = seg[t].window
                                  /\ seg'[t].event = r.event /\ seg'[t].status = r.status
                                  /\ seg'[t].provenance = "coachai_created"
<1> DEFINE saved == [t \in Tasks |->
                   IF \E r \in worker.results : r.task = t
                   THEN Recorded(seg[t], CHOOSE r \in worker.results : r.task = t)
                   ELSE seg[t]]
<1>1. /\ worker.pc = "exporting" /\ worker.specs = {} /\ worker.op \in 1 .. commands /\ worker \in Workers
      /\ worker' = [worker EXCEPT !.pc = "ending", !.failing = worker.failing \/ ~Current]
      /\ UNCHANGED <<alive, commands, schedule, overlapped, undone, deferred, operation, google, faults>>
      /\ seg' = IF ~Current THEN seg ELSE saved
  BY DEF Persist, ExportBase, WorkerOK, ExportTypeOK, Current
<1>2. /\ worker' \in Workers /\ worker'.pc = "ending" /\ worker'.op = worker.op
      /\ worker'.orphans = worker.orphans /\ worker'.specs = {} /\ worker'.results = worker.results
      /\ worker'.failing = (worker.failing \/ ~Current)
  <2>1. PICK f \in BOOLEAN : f = (worker.failing \/ ~Current)
    BY <1>1 DEF Workers
  <2>2. worker' = [worker EXCEPT !.pc = "ending", !.failing = f]
    BY <1>1, <2>1
  <2> QED BY <1>1, <2>1, <2>2 DEF Workers
<1>3. ASSUME Current, NEW t \in Tasks
      PROVE  /\ saved[t] \in Segs
             /\ \/ saved[t] = seg[t] /\ \A r \in worker.results : r.task # t
                \/ \E r \in worker.results :
                     /\ Current /\ r.task = t /\ t \in Flexible
                     /\ seg[t].row = r.row /\ Placed(seg[t])
                     /\ saved[t].row = seg[t].row /\ saved[t].window = seg[t].window
                     /\ saved[t].event = r.event /\ saved[t].status = r.status
                     /\ saved[t].provenance = "coachai_created"
  <2>1. CASE \E r \in worker.results : r.task = t
    <3>1. PICK r \in worker.results : r = CHOOSE q \in worker.results : q.task = t
      BY <2>1
    <3>2. r.task = t
      BY <2>1, <3>1
    <3>3. r \in Results /\ seg[t] \in Segs /\ t \in Flexible
      BY <3>2, ExportFacts DEF ExportBase, ExportTypeOK, Workers, Results
    <3>4. PICK q : q = Recorded(seg[t], r)
      OBVIOUS
    <3>5. saved[t] = q
      BY <2>1, <3>1, <3>4
    <3> HIDE DEF saved
    <3>6. /\ q \in Segs /\ q.row = seg[t].row /\ q.window = seg[t].window /\ q.status = r.status
          /\ q.event = r.event /\ q.provenance = "coachai_created"
      BY <3>3, <3>4, RecordedIs
    <3> QED BY <1>3, <3>2, <3>3, <3>5, <3>6 DEF Current
  <2>2. CASE ~ \E r \in worker.results : r.task = t
    BY <2>2 DEF ExportBase, ExportTypeOK
  <2> QED BY <2>1, <2>2
<1>4. Current => saved \in [Tasks -> Segs]
  BY <1>3
<1>5. seg \in [Tasks -> Segs]
  BY DEF ExportBase, ExportTypeOK
<1>6. seg' \in [Tasks -> Segs]
  <2> HIDE DEF saved
  <2> QED BY <1>1, <1>4, <1>5
<1>7. ASSUME NEW t \in Tasks
      PROVE  \/ seg'[t] = seg[t] /\ (Current => \A r \in worker.results : r.task # t)
             \/ \E r \in worker.results :
                  /\ Current /\ r.task = t /\ t \in Flexible
                  /\ seg[t].row = r.row /\ Placed(seg[t])
                  /\ seg'[t].row = seg[t].row /\ seg'[t].window = seg[t].window
                  /\ seg'[t].event = r.event /\ seg'[t].status = r.status
                  /\ seg'[t].provenance = "coachai_created"
  <2> HIDE DEF saved
  <2>1. CASE Current
    <3>1. seg' = saved
      BY <1>1, <2>1
    <3> QED BY <1>3, <2>1, <3>1
  <2>2. CASE ~Current
    BY <1>1, <2>2
  <2> QED BY <2>1, <2>2
<1> HIDE DEF saved
<1> QED BY <1>1, <1>2, <1>6, <1>7

LEMMA PersistBase == ASSUME ExportBase, Persist PROVE ExportBase'
<1>1. /\ worker' \in Workers /\ seg' \in [Tasks -> Segs]
      /\ UNCHANGED <<alive, commands, schedule, operation, google>>
  BY PersistIs
<1>2. ExportTypeOK'
  BY <1>1 DEF ExportBase, ExportTypeOK
<1>3. OperationsOK'
  BY <1>1 DEF ExportBase, OperationsOK
<1>4. ASSUME NEW t \in Tasks
      PROVE  /\ SegOK(t, seg'[t]) /\ seg'[t].row <= commands
             /\ t \in Imported => seg'[t] = seg[t]
  <2>1. SegOK(t, seg[t]) /\ seg[t].row <= commands
    BY DEF ExportBase, SegmentsOK
  <2>2. CASE seg'[t] = seg[t]
    BY <2>1, <2>2
  <2>3. CASE seg'[t] # seg[t]
    <3>1. PICK r \in worker.results :
            /\ r.task = t /\ t \in Flexible /\ seg[t].row = r.row /\ Placed(seg[t])
            /\ seg'[t].row = seg[t].row /\ seg'[t].window = seg[t].window
            /\ seg'[t].event = r.event /\ seg'[t].provenance = "coachai_created"
      BY <2>3, PersistIs
    <3>2. r.event \in EarlyEvents(t, seg'[t].row)
      BY <3>1 DEF ExportBase, WorkerOK
    <3>3. seg'[t] \in Segs /\ Placed(seg'[t]) /\ t \notin Imported
      BY <1>1, <3>1, ExportFacts DEF Placed
    <3> QED BY <2>1, <3>1, <3>2, <3>3 DEF SegOK
  <2> QED BY <2>2, <2>3
<1>5. SegmentsOK'
  <2>1. \A t \in Imported \cap alive : seg'[t].event \in Foreign
    BY <1>4, ExportFacts DEF ExportBase, SegmentsOK
  <2> QED BY <1>1, <1>4, <2>1 DEF ExportBase, SegmentsOK
<1>6. WorkerOK'
  <2>1. /\ worker'.pc = "ending" /\ worker'.op = worker.op /\ worker'.specs = {}
        /\ worker'.results = worker.results /\ worker.op \in 1 .. commands
    BY PersistIs
  <2> QED BY <1>1, <2>1 DEF ExportBase, WorkerOK
<1> QED BY <1>2, <1>3, <1>5, <1>6 DEF ExportBase

-----------------------------------------------------------------------------
(* The export as a whole *)

\* The commands are alike; the rest are the worker's steps and the user's.
LEMMA ExportCases ==
  ASSUME ExportBase, ExportNext
  PROVE  \/ Taken
         \/ \E c \in 1 .. commands : Claim(c)
         \/ Load \/ LoadSpecs \/ Persist \/ Abort \/ End
         \/ \E e \in Events \cup Foreign : DeleteEvent(e)
         \/ \E e \in Events : UserDeletes(e)
         \/ \E spec \in worker.specs : Exports(spec)
<1>1. ASSUME NEW windows \in [Flexible -> Windows \cup {Unplaced}], Place(windows) PROVE Taken
  BY <1>1, PlaceTaken
<1>2. ASSUME NEW c \in 1 .. commands, Undo(c) PROVE Taken
  BY <1>2, UndoTaken
<1>3. ASSUME NEW t \in Tasks, \/ DeleteTask(t) \/ Defer(t) \/ RequestExport(t) \/ RequestDelete(t)
                              \/ \E window \in Windows : MoveFixed(t, window)
      PROVE  Taken
  BY <1>3, DeleteTaken, DeferTaken, RequestTaken, MoveFixedTaken
<1> QED BY <1>1, <1>2, <1>3 DEF ExportNext, Process, Exports

LEMMA ExportInitBase == ASSUME ExportInit PROVE ExportBase
<1>1. ASSUME NEW t \in Imported
      PROVE  /\ ForeignRow(t) \in Segs /\ ForeignRow(t).event \in Foreign /\ ForeignRow(t).row = 0
             /\ ForeignRow(t).provenance = "imported"
  <2>1. PICK w \in Windows : w = CHOOSE x \in Windows : TRUE
    BY ExportAssumption
  <2>2. PICK f : f = <<<<t, 0>>, "foreign">>
    OBVIOUS
  <2>3. f \in Foreign
    BY <2>2 DEF Foreign
  <2> DEFINE a == [NoRow EXCEPT !.window = w]
             b == [a EXCEPT !.event = f]
  <2>4. ForeignRow(t) = [b EXCEPT !.provenance = "imported"]
    BY <2>1, <2>2 DEF ForeignRow
  <2>5. a \in Segs /\ a.row = 0
    BY NoRowIs DEF Segs
  <2>6. b \in Segs /\ b.row = 0 /\ b.event = f
    <3> HIDE DEF a
    <3> QED BY <2>3, <2>5 DEF Segs
  <2> HIDE DEF b
  <2> QED BY <2>3, <2>4, <2>6 DEF Segs
<1>2. \A t \in Tasks : seg[t] = IF t \in Imported THEN ForeignRow(t) ELSE NoRow
  BY DEF ExportInit
<1>3. \A t \in Tasks : seg[t] \in Segs /\ SegOK(t, seg[t]) /\ seg[t].row = 0
  BY <1>1, <1>2, NoRowIs, NoRowOK, ExportFacts DEF SegOK
<1>4. /\ alive = Tasks /\ commands = 0 /\ worker = Idle
      /\ schedule = [c \in 1 .. MaxCommands |-> NoSchedule]
      /\ operation = [c \in 1 .. MaxCommands |-> NoOperation]
  BY DEF ExportInit
<1>5. NoSchedule \in Schedules /\ NoSchedule.status = "none"
  BY DEF NoSchedule, Schedules
<1>6. NoOperation \in Operations /\ NoOperation.kind = "none"
  BY ExportFacts DEF NoOperation, Operations
<1>7. google \in [Events \cup Foreign -> Windows \cup {"absent", "gone"}]
  BY ExportAssumption DEF ExportInit
<1>8. seg \in [Tasks -> Segs]
  <2>1. seg = [t \in Tasks |-> seg[t]]
    BY DEF ExportInit
  <2> QED BY <1>3, <2>1
<1>9. ExportTypeOK
  BY <1>4, <1>5, <1>6, <1>7, <1>8, IdleIs, ExportFacts DEF ExportTypeOK
<1>10. SegmentsOK
  BY <1>1, <1>2, <1>3, <1>4, <1>5, ExportFacts DEF SegmentsOK
<1>11. OperationsOK
  BY <1>4, <1>6 DEF OperationsOK
<1>12. WorkerOK
  BY <1>4, IdleIs DEF WorkerOK
<1> QED BY <1>9, <1>10, <1>11, <1>12 DEF ExportBase

LEMMA ExportStepBase == ASSUME ExportBase, ExportNext PROVE ExportBase'
BY ExportCases, TakenBase, ClaimBase, LoadBase, LoadSpecsBase, PersistBase, AbortBase,
   DeleteEventBase, UserDeletesBase, ExportsBase

LEMMA ExportStutterBase == ASSUME ExportBase, UNCHANGED exportVars PROVE ExportBase'
<1>1. UNCHANGED Rest /\ UNCHANGED operation /\ worker' = worker /\ google' = google
  BY DEF exportVars, Rest
<1>2. worker \in Workers /\ google \in [Events \cup Foreign -> Windows \cup {"absent", "gone"}]
  BY DEF ExportBase, ExportTypeOK
<1>3. ExportTypeOK' /\ SegmentsOK' /\ OperationsOK'
  BY <1>1, <1>2, FrameBase
<1>4. WorkerOK'
  BY <1>1 DEF ExportBase, WorkerOK, Rest
<1> QED BY <1>3, <1>4 DEF ExportBase

LEMMA ForeignStep == ASSUME ExportBase, ExportNext PROVE \A e \in Foreign : google'[e] = google[e]
<1>1. CASE google' = google
  BY <1>1
<1>2. ASSUME NEW e \in Events \cup Foreign, DeleteEvent(e) PROVE \A f \in Foreign : google'[f] = google[f]
  BY <1>2, DeleteEventIs, EventsApart
<1>3. ASSUME NEW e \in Events, UserDeletes(e) PROVE \A f \in Foreign : google'[f] = google[f]
  BY <1>3, UserDeletesIs, EventsApart
<1>4. ASSUME NEW spec \in worker.specs, Exports(spec) PROVE \A f \in Foreign : google'[f] = google[f]
  <2>1. IdFor(spec) \in Events
    BY IdIs
  <2>2. \A x \in Events \cup Foreign : x # IdFor(spec) => google'[x] = google[x]
    BY <1>4, ExportsIs
  <2> QED BY <2>1, <2>2, EventsApart
<1>5. Taken => google' = google
  BY DEF Taken
<1>6. ASSUME NEW c \in 1 .. commands, Claim(c) PROVE google' = google
  BY <1>6, ClaimIs
<1>7. Load => google' = google
  BY LoadIs
<1>8. LoadSpecs => google' = google
  BY LoadSpecsIs
<1>9. Persist => google' = google
  BY PersistIs
<1>10. Abort \/ End => google' = google
  BY AbortIs
<1> QED BY <1>1, <1>2, <1>3, <1>4, <1>5, <1>6, <1>7, <1>8, <1>9, <1>10, ExportCases

-----------------------------------------------------------------------------
(* One event per segment *)

\* The two ids a row of a task can ask Google for.
V1(t, n) == <<<<t, n>>, "v1">>
V2(t, n) == <<<<t, n>>, "replacement-v1">>

\* The row of a task is known with an event: by the table or by the worker.
Holds(t, n, e) ==
  \/ t \in Flexible /\ Placed(seg[t]) /\ seg[t].row = n /\ seg[t].event = e
  \/ \E spec \in worker.specs : spec.task = t /\ spec.seg.row = n /\ spec.seg.event = e
  \/ \E r \in worker.results : r.task = t /\ r.row = n /\ r.event = e

\* Some row of the task, or a snapshot, has the event.
Mentioned(t, e) ==
  \/ \E n \in 0 .. MaxCommands : Holds(t, n, e)
  \/ \E c \in 1 .. MaxCommands : schedule[c].status # "none" /\ schedule[c].before[t].event = e

\* The first event of the row does not exist and cannot be created any more.
NeverFirst(t, n) ==
  /\ n <= commands /\ google[V1(t, n)] = "absent"
  /\ ~Mentioned(t, V1(t, n)) /\ ~Holds(t, n, NoEvent)

\* Rows to come have no events, nor have the rows of imported tasks.  The second
\* event of a row is for one whose first was deleted or never is; a row with the
\* event of an earlier row never gets a first.
FreshOK ==
  \A t \in Tasks, n \in 0 .. MaxCommands :
    t \in Imported \/ n > commands => google[V1(t, n)] = "absent" /\ google[V2(t, n)] = "absent"
SecondOK ==
  \A t \in Flexible, n \in 0 .. MaxCommands :
    google[V2(t, n)] # "absent" \/ Mentioned(t, V2(t, n)) => google[V1(t, n)] = "gone" \/ NeverFirst(t, n)
BorrowedOK ==
  \A t \in Flexible, n \in 0 .. MaxCommands, e \in Events :
    Holds(t, n, e) /\ e \notin {V1(t, n), V2(t, n)} => NeverFirst(t, n)

OneEventInv == FreshOK /\ SecondOK /\ BorrowedOK

-----------------------------------------------------------------------------
(* What is stale has work *)

OpenStatuses == {"queued", "retrying", "failed"}

\* An operation to come exports the task, or the present one still does.
Waiting(t) ==
  \E c \in 1 .. commands : t \in Exported(operation[c]) /\ operation[c].status \in OpenStatuses

Working(t) ==
  /\ worker.pc # "idle" /\ t \in Exported(operation[worker.op])
  /\ \/ worker.pc \in {"loading", "deleting"} \/ worker.failing
     \/ SpecOf(t) \in worker.specs
     \/ worker.pc = "exporting" /\ \E r \in worker.results : r.task = t /\ r.row = seg[t].row

Standing(t) == t \in alive /\ Placed(seg[t])

ProcessingOK == worker.pc # "idle" => operation[worker.op].status = "processing"

StaleOK == \A t \in Flexible : Standing(t) /\ ~Shown(seg[t]) => Waiting(t) \/ Working(t)

\* What the worker holds of a task that changed since is waited for.
SpecsOK ==
  \A spec \in worker.specs :
    /\ Standing(spec.task) => seg[spec.task] = spec.seg \/ Waiting(spec.task)
    /\ Placed(seg[spec.task]) => spec.seg.row <= seg[spec.task].row
    /\ Placed(seg[spec.task]) /\ spec.seg.row = seg[spec.task].row => seg[spec.task] = spec.seg
    /\ Placed(seg[spec.task]) /\ seg[spec.task].status = "create_error" /\ seg[spec.task].event # NoEvent =>
         /\ spec.seg.status = "create_error" /\ spec.seg.event = seg[spec.task].event
         /\ spec.seg.window = seg[spec.task].window

\* The events that a create may find or make show the window, or nothing.
FirstOf(t, s) == IF s.event = NoEvent THEN V1(t, s.row) ELSE s.event
CreateOK(t, s) ==
  Creates(s) => google[FirstOf(t, s)] \in {"absent", "gone", s.window}
                /\ google[V2(t, s.row)] \in {"absent", "gone", s.window}
CreatesOK ==
  /\ \A t \in Flexible : Placed(seg[t]) => CreateOK(t, seg[t])
  /\ \A spec \in worker.specs : CreateOK(spec.task, spec.seg)

ResultsOK ==
  worker.pc = "exporting" =>
    \A r \in worker.results :
      /\ r.status \in {"synced", "update_error", "create_error"}
      /\ r.status # "synced" => worker.failing
      /\ Standing(r.task) => seg[r.task].row = r.row \/ Waiting(r.task)
      /\ Placed(seg[r.task]) /\ seg[r.task].row = r.row =>
           /\ r.status = "synced" => google[r.event] \in {seg[r.task].window, "gone"}
           /\ r.status = "create_error" => seg[r.task].event = NoEvent
                                           /\ r.event \in {V1(r.task, r.row), V2(r.task, r.row)}

WorkInv == ProcessingOK /\ StaleOK /\ SpecsOK /\ CreatesOK /\ ResultsOK

-----------------------------------------------------------------------------
(* Nothing is left behind *)

\* Nothing the conjunct on strays excepts has happened.
Clean == ~overlapped /\ ~deferred /\ ~undone

\* What the worker holds is the schedule's own.
MatchOK ==
  Clean =>
    /\ \A spec \in worker.specs : spec.task \in alive /\ spec.seg = seg[spec.task]
    /\ worker.pc = "exporting" =>
         \A r \in worker.results :
           /\ r.task \in alive /\ seg[r.task].row = r.row /\ Placed(seg[r.task])
           /\ \/ seg[r.task].event = NoEvent \/ seg[r.task].event = r.event
              \/ google[seg[r.task].event] = "gone"

\* A segment knows of the event.
Held(e) == \E t \in Tasks : seg[t].event = e

\* An operation to come, or the present one, deletes it.
ToDelete(e) ==
  \E c \in 1 .. commands :
    /\ e \in Doomed(operation[c])
    /\ \/ operation[c].status \in OpenStatuses
       \/ worker.op = c /\ \/ worker.pc = "loading"
                           \/ worker.pc = "deleting" /\ e \in worker.orphans

\* The event of a segment that does not know of it yet, and its export is to be
\* done again or saved.
Owed(t, e) == Standing(t) /\ Creates(seg[t]) /\ IdFor(SpecOf(t)) = e

\* An operation to come exports the task again, or the present one is to save
\* what it did.
ToSave(t) ==
  \E c \in 1 .. commands :
    /\ t \in Exported(operation[c])
    /\ \/ operation[c].status \in {"retrying", "failed"}
       \/ worker.op = c /\ \/ worker.pc \in {"loading", "deleting"} \/ worker.failing
                           \/ SpecOf(t) \in worker.specs
                           \/ worker.pc = "exporting" /\ \E r \in worker.results : r.task = t

Unsaved(e) ==
  \E t \in Flexible : Owed(t, e) /\ ToSave(t) /\ \A r \in worker.results : r.task = t => r.event = e

AccountedOK ==
  Clean => \A e \in Events : google[e] \in Windows => Held(e) \/ ToDelete(e) \/ Unsaved(e)

StrayInv == MatchOK /\ AccountedOK

LEMMA IdsAre ==
  ASSUME NEW t \in Tasks, NEW n \in 0 .. MaxCommands
  PROVE  V1(t, n) \in Events /\ V2(t, n) \in Events /\ V1(t, n) # NoEvent /\ V2(t, n) # NoEvent
BY EarlyIs, ExportFacts DEF V1, V2

LEMMA IdsApart ==
  ASSUME NEW t, NEW n, NEW u, NEW m
  PROVE  /\ V1(t, n) # V2(u, m)
         /\ V1(t, n) = V1(u, m) => t = u /\ n = m
         /\ V2(t, n) = V2(u, m) => t = u /\ n = m
         /\ \A k : V1(t, n) \in EarlyEvents(u, k) => t = u /\ n \in 0 .. k
         /\ \A k : V2(t, n) \in EarlyEvents(u, k) => t = u /\ n \in 0 .. k
BY DEF V1, V2, EarlyEvents

\* Whoever is known to have an event has one of its own.
LEMMA MentionIs ==
  ASSUME ExportBase, NEW t \in Flexible, NEW e \in Events, Mentioned(t, e)
  PROVE  e \in EarlyEvents(t, commands)
<1>1. commands \in Nat /\ t \in Tasks
  BY ExportFacts DEF ExportBase, ExportTypeOK
<1>2. ASSUME NEW s \in Segs, SegOK(t, s), s.event = e, s.row <= commands PROVE e \in EarlyEvents(t, commands)
  <2>1. e \in EarlyEvents(t, s.row) /\ s.row \in Nat
    BY <1>2, ExportFacts DEF SegOK, Segs
  <2> QED BY <1>1, <1>2, <2>1, EarlierIs
<1>3. CASE \E n \in 0 .. MaxCommands : Holds(t, n, e)
  <2>1. PICK n \in 0 .. MaxCommands : Holds(t, n, e)
    BY <1>3
  <2>2. CASE seg[t].event = e
    <3>1. seg[t] \in Segs /\ SegOK(t, seg[t]) /\ seg[t].row <= commands
      BY <1>1 DEF ExportBase, ExportTypeOK, SegmentsOK
    <3> QED BY <1>2, <2>2, <3>1
  <2>3. ASSUME NEW spec \in worker.specs, spec.task = t, spec.seg.event = e
        PROVE  e \in EarlyEvents(t, commands)
    <3>1. spec.seg \in Segs /\ spec.seg.row <= commands /\ SegOK(t, spec.seg)
      BY <2>3, SpecIs DEF ExportBase, WorkerOK
    <3> QED BY <1>2, <2>3, <3>1
  <2>4. ASSUME NEW r \in worker.results, r.task = t, r.event = e PROVE e \in EarlyEvents(t, commands)
    <3>1. e \in EarlyEvents(t, r.row) /\ r.row <= commands /\ r.row \in Nat
      BY <2>4 DEF ExportBase, WorkerOK, ExportTypeOK, Workers, Results
    <3> QED BY <1>1, <3>1, EarlierIs
  <2> QED BY <2>1, <2>2, <2>3, <2>4 DEF Holds
<1>4. ASSUME NEW c \in 1 .. MaxCommands, schedule[c].status # "none", schedule[c].before[t].event = e
      PROVE  e \in EarlyEvents(t, commands)
  <2>1. schedule[c].before[t] \in Segs /\ SegOK(t, schedule[c].before[t]) /\ schedule[c].before[t].row <= commands
    BY <1>1, <1>4 DEF ExportBase, SegmentsOK
  <2> QED BY <1>2, <1>4, <2>1
<1> QED BY <1>3, <1>4 DEF Mentioned

\* What is held is held by a row there is.
LEMMA HoldIs ==
  ASSUME ExportBase, NEW t \in Flexible, NEW n \in 0 .. MaxCommands, NEW e, Holds(t, n, e) PROVE n <= commands
<1>1. seg[t].row <= commands
  BY ExportFacts DEF ExportBase, SegmentsOK
<1>2. \A spec \in worker.specs : spec.seg.row <= commands
  BY DEF ExportBase, WorkerOK
<1>3. \A r \in worker.results : r.row <= commands
  BY DEF ExportBase, WorkerOK
<1> QED BY <1>1, <1>2, <1>3 DEF Holds

\* Steps after which no more is known of events, and Google has only lost some.
LEMMA QuietOneEvent ==
  ASSUME ExportBase, OneEventInv, UNCHANGED <<commands, schedule>>,
         \A t \in Flexible, n \in 0 .. MaxCommands, e \in Events \cup {NoEvent} :
           Holds(t, n, e)' => Holds(t, n, e),
         \A e \in Events : google'[e] = google[e] \/ (google[e] # "absent" /\ google'[e] = "gone")
  PROVE  OneEventInv'
<1>1. ASSUME NEW t \in Flexible, NEW e \in Events, Mentioned(t, e)' PROVE Mentioned(t, e)
  BY <1>1 DEF Mentioned
<1>2. ASSUME NEW t \in Flexible, NEW n \in 0 .. MaxCommands, NeverFirst(t, n) PROVE NeverFirst(t, n)'
  <2>1. V1(t, n) \in Events
    BY ExportFacts, IdsAre
  <2> QED BY <1>1, <1>2, <2>1 DEF NeverFirst
<1>3. \A t \in Tasks, n \in 0 .. MaxCommands : V1(t, n) \in Events /\ V2(t, n) \in Events
  BY IdsAre
<1>4. FreshOK'
  BY <1>3 DEF OneEventInv, FreshOK
<1>5. SecondOK'
  <2>1. ASSUME NEW t \in Flexible, NEW n \in 0 .. MaxCommands,
               google'[V2(t, n)] # "absent" \/ Mentioned(t, V2(t, n))'
        PROVE  google'[V1(t, n)] = "gone" \/ NeverFirst(t, n)'
    <3>1. V1(t, n) \in Events /\ V2(t, n) \in Events
      BY ExportFacts, <1>3
    <3>2. google[V2(t, n)] # "absent" \/ Mentioned(t, V2(t, n))
      BY <1>1, <2>1, <3>1
    <3>3. google[V1(t, n)] = "gone" \/ NeverFirst(t, n)
      BY <3>2 DEF OneEventInv, SecondOK
    <3> QED BY <1>2, <3>1, <3>3
  <2> QED BY <2>1 DEF SecondOK
<1>6. BorrowedOK'
  BY <1>2 DEF OneEventInv, BorrowedOK
<1> QED BY <1>4, <1>5, <1>6 DEF OneEventInv

\* What an export adds: the row of the segment has the event it worked on.
LEMMA ExportsHolds ==
  ASSUME ExportBase, NEW spec \in worker.specs, Exports(spec),
         NEW t, NEW n, NEW e, Holds(t, n, e)'
  PROVE  Holds(t, n, e) \/ (t = spec.task /\ n = spec.seg.row /\ e = IdFor(spec))
<1>1. PICK r \in Results :
        /\ r.task = spec.task /\ r.row = spec.seg.row /\ r.event = IdFor(spec)
        /\ worker'.results = worker.results \cup {r}
        /\ worker'.specs \subseteq worker.specs
  BY ExportsIs
<1>2. seg' = seg
  BY ExportsIs DEF Rest
<1>3. CASE t \in Flexible /\ Placed(seg'[t]) /\ seg'[t].row = n /\ seg'[t].event = e
  BY <1>2, <1>3 DEF Holds
<1>4. CASE \E q \in worker'.specs : q.task = t /\ q.seg.row = n /\ q.seg.event = e
  BY <1>1, <1>4 DEF Holds
<1>5. ASSUME NEW q \in worker'.results, q.task = t, q.row = n, q.event = e
      PROVE  Holds(t, n, e) \/ (t = spec.task /\ n = spec.seg.row /\ e = IdFor(spec))
  BY <1>1, <1>5 DEF Holds
<1> QED BY <1>3, <1>4, <1>5 DEF Holds

\* The event of an export is the first of its row, of a segment that had none;
\* the second, because an earlier one is gone; or the event of the segment.
LEMMA IdCases ==
  ASSUME ExportBase, NEW spec \in worker.specs
  PROVE  LET t == spec.task n == spec.seg.row IN
         \/ spec.seg.event = NoEvent /\ IdFor(spec) = V1(t, n) /\ google[V1(t, n)] # "gone"
         \/ spec.seg.event = NoEvent /\ IdFor(spec) = V2(t, n) /\ google[V1(t, n)] = "gone"
         \/ spec.seg.event # NoEvent /\ IdFor(spec) = V2(t, n) /\ google[spec.seg.event] = "gone"
         \/ spec.seg.event # NoEvent /\ IdFor(spec) = spec.seg.event
BY DEF IdFor, Creates, FirstId, NextId, V1, V2

LEMMA ExportsGoogle ==
  ASSUME ExportBase, NEW spec \in worker.specs, Exports(spec), NEW e \in Events
  PROVE  /\ e # IdFor(spec) => google'[e] = google[e]
         /\ google[e] = "gone" => google'[e] = "gone"
<1>1. CASE google' = google
  BY <1>1
<1>2. CASE google' # google
  <2>1. Accepted(spec) /\ google'[e] = IF e = IdFor(spec) THEN Shows(spec) ELSE google[e]
    BY <1>2, ExportsIs
  <2>2. google[IdFor(spec)] = "gone" => Shows(spec) = "gone"
    BY <2>1 DEF Accepted, Shows
  <2> QED BY <2>1, <2>2
<1> QED BY <1>1, <1>2

LEMMA ExportsOneEvent ==
  ASSUME ExportBase, OneEventInv, NEW spec \in worker.specs, Exports(spec) PROVE OneEventInv'
<1>1. PICK T \in Flexible, N \in 0 .. MaxCommands, i \in Events : T = spec.task /\ N = spec.seg.row /\ i = IdFor(spec)
  BY SpecIs, IdIs
<1>2. /\ T \in Tasks /\ N <= commands /\ N \in Nat /\ commands \in Nat /\ i \in EarlyEvents(T, N) /\ i # NoEvent
      /\ T \notin Imported
  BY <1>1, SpecIs, IdIs, ExportFacts DEF ExportBase, ExportTypeOK
<1>3. UNCHANGED <<commands, schedule>>
  BY ExportsIs DEF Rest
<1>4. Holds(T, N, spec.seg.event)
  BY <1>1 DEF Holds
<1>5. \A t, n, e : Holds(t, n, e)' => Holds(t, n, e) \/ (t = T /\ n = N /\ e = i)
  BY <1>1, ExportsHolds
<1>6. ASSUME NEW t \in Flexible, NEW e \in Events, Mentioned(t, e)' PROVE Mentioned(t, e) \/ (t = T /\ e = i)
  BY <1>3, <1>5, <1>6 DEF Mentioned
<1>7. \A e \in Events : (e # i => google'[e] = google[e]) /\ (google[e] = "gone" => google'[e] = "gone")
  BY <1>1, ExportsGoogle
<1>8. \/ spec.seg.event = NoEvent /\ i = V1(T, N)
      \/ spec.seg.event = NoEvent /\ i = V2(T, N) /\ google[V1(T, N)] = "gone"
      \/ spec.seg.event # NoEvent /\ i = V2(T, N) /\ google[spec.seg.event] = "gone"
      \/ spec.seg.event = i /\ Mentioned(T, i)
  BY <1>1, <1>4, IdCases DEF Mentioned
<1>9. ASSUME NEW t \in Flexible, NEW n \in 0 .. MaxCommands, NeverFirst(t, n) PROVE NeverFirst(t, n)'
  <2>1. V1(t, n) \in Events /\ t \in Tasks
    BY ExportFacts, IdsAre
  <2>2. i # V1(t, n)
    <3>1. SUFFICES ASSUME i = V1(t, n) PROVE FALSE
      OBVIOUS
    <3>2. t = T
      BY <1>2, <3>1, IdsApart
    <3>3. n = N \/ Mentioned(T, i)
      BY <1>8, <3>1, IdsApart
    <3> QED BY <1>4, <1>8, <1>9, <3>1, <3>2, <3>3, IdsApart DEF NeverFirst
  <2>3. ~Mentioned(t, V1(t, n))'
    BY <1>6, <1>9, <2>1, <2>2 DEF NeverFirst
  <2>4. ~Holds(t, n, NoEvent)'
    BY <1>2, <1>5, <1>9 DEF NeverFirst
  <2> QED BY <1>3, <1>7, <1>9, <2>1, <2>2, <2>3, <2>4 DEF NeverFirst
<1>10. FreshOK'
  <2>1. ASSUME NEW t \in Tasks, NEW n \in 0 .. MaxCommands, t \in Imported \/ n > commands
        PROVE  google'[V1(t, n)] = "absent" /\ google'[V2(t, n)] = "absent"
    <3>1. V1(t, n) \in Events /\ V2(t, n) \in Events
      BY IdsAre
    <3>2. google[V1(t, n)] = "absent" /\ google[V2(t, n)] = "absent"
      BY <2>1 DEF OneEventInv, FreshOK
    <3>3. V1(t, n) # i /\ V2(t, n) # i
      <4>1. SUFFICES ASSUME V1(t, n) = i \/ V2(t, n) = i PROVE FALSE
        OBVIOUS
      <4>2. t = T /\ n \in 0 .. N
        BY <1>2, <4>1, IdsApart
      <4> QED BY <1>2, <2>1, <4>2
    <3> QED BY <1>7, <3>1, <3>2, <3>3
  <2> QED BY <1>3, <2>1 DEF FreshOK
<1>11. SecondOK'
  <2>1. ASSUME NEW t \in Flexible, NEW n \in 0 .. MaxCommands,
               google'[V2(t, n)] # "absent" \/ Mentioned(t, V2(t, n))'
        PROVE  google'[V1(t, n)] = "gone" \/ NeverFirst(t, n)'
    <3>1. V1(t, n) \in Events /\ V2(t, n) \in Events /\ t \in Tasks
      BY ExportFacts, IdsAre
    <3>2. SUFFICES google[V1(t, n)] = "gone" \/ NeverFirst(t, n)
      BY <1>7, <1>9, <3>1
    <3>3. CASE google[V2(t, n)] # "absent" \/ Mentioned(t, V2(t, n))
      BY <3>3 DEF OneEventInv, SecondOK
    <3>4. CASE ~(google[V2(t, n)] # "absent" \/ Mentioned(t, V2(t, n)))
      <4>1. i = V2(t, n) /\ t = T
        <5>1. i = V2(t, n)
          BY <1>6, <1>7, <2>1, <3>1, <3>4
        <5> QED BY <1>2, <5>1, IdsApart
      <4>2. CASE i = V2(T, N) /\ google[V1(T, N)] = "gone"
        <5>1. V2(t, n) = V2(T, N)
          BY <4>1, <4>2
        <5>2. n = N
          BY <5>1, IdsApart
        <5> QED BY <4>1, <4>2, <5>2
      <4>3. CASE spec.seg.event # NoEvent /\ i = V2(T, N) /\ google[spec.seg.event] = "gone"
        <5>1. n = N /\ spec.seg.event \in Events
          <6>1. spec.seg.event \in EarlyEvents(T, N)
            BY <1>1, <4>3, SpecIs
          <6>2. V2(t, n) = V2(T, N)
            BY <4>1, <4>3
          <6>3. n = N
            BY <6>2, IdsApart
          <6> QED BY <1>2, <6>1, <6>3, EarlyIs
        <5>2. CASE spec.seg.event \in {V1(T, N), V2(T, N)}
          <6>1. spec.seg.event # V2(T, N)
            BY <1>4, <3>4, <4>1, <4>3, <5>1 DEF Mentioned
          <6> QED BY <4>1, <4>3, <5>1, <5>2, <6>1
        <5>3. CASE spec.seg.event \notin {V1(T, N), V2(T, N)}
          BY <1>4, <4>1, <5>1, <5>3 DEF OneEventInv, BorrowedOK
        <5> QED BY <5>2, <5>3
      <4> QED BY <1>8, <3>4, <4>1, <4>2, <4>3, IdsApart
    <3> QED BY <3>3, <3>4
  <2> QED BY <2>1 DEF SecondOK
<1>12. BorrowedOK'
  <2>1. ASSUME NEW t \in Flexible, NEW n \in 0 .. MaxCommands, NEW e \in Events,
               Holds(t, n, e)', e \notin {V1(t, n), V2(t, n)}
        PROVE  NeverFirst(t, n)
    <3>1. CASE Holds(t, n, e)
      BY <2>1, <3>1 DEF OneEventInv, BorrowedOK
    <3>2. CASE ~Holds(t, n, e)
      <4>1. t = T /\ n = N /\ e = i
        BY <1>5, <2>1, <3>2
      <4> QED BY <1>4, <1>8, <2>1, <3>2, <4>1
    <3> QED BY <3>1, <3>2
  <2> QED BY <1>9, <2>1 DEF BorrowedOK
<1> QED BY <1>10, <1>11, <1>12 DEF OneEventInv

\* What a command adds: the new row of a task may have none or a known event.
LEMMA TakenHolds ==
  ASSUME ExportBase, Taken, NEW t \in Flexible, NEW n \in 0 .. MaxCommands, NEW e \in Events \cup {NoEvent},
         Holds(t, n, e)'
  PROVE  Holds(t, n, e) \/ (n = commands + 1 /\ (e = NoEvent \/ Mentioned(t, e))
                            /\ seg'[t].row = n /\ seg'[t].event = e)
<1>1. worker' = worker /\ t \in Tasks /\ SegmentTaken(t) /\ t \notin Imported
  BY ExportFacts DEF Taken
<1>2. CASE (\E q \in worker'.specs : q.task = t /\ q.seg.row = n /\ q.seg.event = e)
           \/ (\E r \in worker'.results : r.task = t /\ r.row = n /\ r.event = e)
  BY <1>1, <1>2 DEF Holds
<1>3. CASE Placed(seg'[t]) /\ seg'[t].row = n /\ seg'[t].event = e
  <2>1. CASE seg'[t] = seg[t]
    BY <1>3, <2>1 DEF Holds
  <2>2. CASE seg'[t] = NoRow
    BY <1>3, <2>2, NoRowIs DEF Placed
  <2>3. CASE /\ seg'[t].row = commands + 1
             /\ \/ seg'[t].event = seg[t].event
                \/ \E s : InSnapshot(t, s) /\ seg'[t].event = s.event
    <3>1. CASE \E s : InSnapshot(t, s) /\ seg'[t].event = s.event
      BY <1>3, <2>3, <3>1 DEF InSnapshot, Mentioned
    <3>2. CASE seg'[t].event = seg[t].event
      <4>1. SegOK(t, seg[t]) /\ seg[t].row \in 0 .. MaxCommands
        BY <1>1 DEF ExportBase, ExportTypeOK, SegmentsOK, Segs
      <4>2. CASE Placed(seg[t])
        <5>1. Holds(t, seg[t].row, e)
          BY <1>3, <3>2, <4>2 DEF Holds
        <5> QED BY <1>3, <2>3, <4>1, <5>1 DEF Mentioned
      <4>3. CASE ~Placed(seg[t])
        BY <1>3, <2>3, <3>2, <4>1, <4>3, NoRowIs DEF SegOK
      <4> QED BY <4>2, <4>3
    <3> QED BY <2>3, <3>1, <3>2
  <2> QED BY <1>1, <2>1, <2>2, <2>3 DEF SegmentTaken
<1> QED BY <1>2, <1>3 DEF Holds

LEMMA TakenMentions ==
  ASSUME ExportBase, Taken, NEW t \in Flexible, NEW e \in Events, Mentioned(t, e)' PROVE Mentioned(t, e)
<1>1. CASE \E n \in 0 .. MaxCommands : Holds(t, n, e)'
  BY <1>1, TakenHolds, ExportFacts DEF Mentioned
<1>2. ASSUME NEW c \in 1 .. MaxCommands, schedule'[c].status # "none", schedule'[c].before[t].event = e
      PROVE  Mentioned(t, e)
  <2>1. ScheduleTaken(c)
    BY DEF Taken
  <2>2. CASE c # commands + 1
    BY <1>2, <2>1, <2>2 DEF ScheduleTaken, Mentioned
  <2>3. CASE c = commands + 1
    <3>1. seg[t].event = e
      BY <1>2, <2>1, <2>3 DEF ScheduleTaken
    <3>2. SegOK(t, seg[t]) /\ seg[t].row \in 0 .. MaxCommands
      BY ExportFacts DEF ExportBase, ExportTypeOK, SegmentsOK, Segs
    <3>3. Placed(seg[t])
      BY <3>1, <3>2, NoRowIs, ExportFacts DEF SegOK
    <3>4. Holds(t, seg[t].row, e)
      BY <3>1, <3>3 DEF Holds
    <3> QED BY <3>2, <3>4 DEF Mentioned
  <2> QED BY <2>2, <2>3
<1> QED BY <1>1, <1>2 DEF Mentioned

LEMMA TakenOneEvent == ASSUME ExportBase, OneEventInv, Taken PROVE OneEventInv'
<1>1. /\ commands \in Nat /\ commands + 1 \in 0 .. MaxCommands /\ commands' = commands + 1
      /\ google' = google /\ worker' = worker
  BY ExportFacts DEF ExportBase, ExportTypeOK, Taken
<1>2. ASSUME NEW t \in Flexible, NEW n \in 0 .. MaxCommands, NeverFirst(t, n) PROVE NeverFirst(t, n)'
  <2>1. V1(t, n) \in Events /\ n <= commands
    BY <1>2, ExportFacts, IdsAre DEF NeverFirst
  <2>2. ~Mentioned(t, V1(t, n))'
    BY <1>2, <2>1, TakenMentions DEF NeverFirst
  <2>3. ~Holds(t, n, NoEvent)'
    <3>1. n # commands + 1
      BY <1>1, <2>1
    <3> QED BY <1>2, <3>1, TakenHolds DEF NeverFirst
  <2> QED BY <1>1, <1>2, <2>1, <2>2, <2>3 DEF NeverFirst
<1>3. FreshOK'
  <2>1. \A n \in 0 .. MaxCommands : n > commands + 1 => n > commands
    BY <1>1
  <2> QED BY <1>1, <2>1 DEF OneEventInv, FreshOK
<1>4. SecondOK'
  <2>1. ASSUME NEW t \in Flexible, NEW n \in 0 .. MaxCommands,
               google[V2(t, n)] # "absent" \/ Mentioned(t, V2(t, n))'
        PROVE  google[V1(t, n)] = "gone" \/ NeverFirst(t, n)'
    <3>1. V2(t, n) \in Events
      BY ExportFacts, IdsAre
    <3> QED BY <1>2, <2>1, <3>1, TakenMentions DEF OneEventInv, SecondOK
  <2> QED BY <1>1, <2>1 DEF SecondOK
<1>5. BorrowedOK'
  <2>1. ASSUME NEW t \in Flexible, NEW n \in 0 .. MaxCommands, NEW e \in Events,
               Holds(t, n, e)', e \notin {V1(t, n), V2(t, n)}
        PROVE  NeverFirst(t, n)'
    <3>1. CASE Holds(t, n, e)
      BY <1>2, <2>1, <3>1 DEF OneEventInv, BorrowedOK
    <3>2. CASE ~Holds(t, n, e)
      <4>1. n = commands + 1 /\ seg'[t].row = n /\ seg'[t].event = e
        BY <2>1, <3>2, TakenHolds
      <4>2. V1(t, n) \in Events /\ t \in Tasks /\ e # NoEvent
        BY ExportFacts, IdsAre
      <4>3. ~Mentioned(t, V1(t, n))'
        <5>1. SUFFICES ASSUME Mentioned(t, V1(t, n))' PROVE FALSE
          OBVIOUS
        <5>2. V1(t, n) \in EarlyEvents(t, commands)
          BY <4>2, <5>1, TakenMentions, MentionIs
        <5>3. n \in 0 .. commands
          BY <5>2, IdsApart
        <5> QED BY <1>1, <4>1, <5>3
      <4>4. ~Holds(t, n, NoEvent)'
        <5>1. SUFFICES ASSUME Holds(t, n, NoEvent)' PROVE FALSE
          OBVIOUS
        <5>2. ~Holds(t, n, NoEvent)
          BY <1>1, <4>1, HoldIs
        <5> QED BY <4>1, <4>2, <5>1, <5>2, TakenHolds
      <4>5. google[V1(t, n)] = "absent" /\ n <= commands'
        <5>1. n > commands /\ n <= commands'
          BY <1>1, <4>1
        <5> QED BY <4>2, <5>1 DEF OneEventInv, FreshOK
      <4> QED BY <1>1, <4>3, <4>4, <4>5 DEF NeverFirst
    <3> QED BY <3>1, <3>2
  <2> QED BY <2>1 DEF BorrowedOK
<1> QED BY <1>3, <1>4, <1>5 DEF OneEventInv

\* The worker's other steps are quiet.
LEMMA PersistHolds ==
  ASSUME ExportBase, Persist, NEW t, NEW n, NEW e, Holds(t, n, e)' PROVE Holds(t, n, e)
<1>1. worker'.specs = {} /\ worker'.results = worker.results
  BY PersistIs
<1>2. CASE \E r \in worker.results : r.task = t /\ r.row = n /\ r.event = e
  BY <1>2 DEF Holds
<1>3. CASE t \in Flexible /\ Placed(seg'[t]) /\ seg'[t].row = n /\ seg'[t].event = e
  <2>1. t \in Tasks
    BY <1>3, ExportFacts
  <2>2. CASE seg'[t] = seg[t]
    BY <1>3, <2>2 DEF Holds
  <2>3. CASE \E r \in worker.results : r.task = t /\ seg[t].row = r.row /\ seg'[t].row = seg[t].row
                                       /\ seg'[t].event = r.event
    BY <1>3, <2>3 DEF Holds
  <2> QED BY <2>1, <2>2, <2>3, PersistIs
<1> QED BY <1>1, <1>2, <1>3 DEF Holds

LEMMA NarrowHolds ==
  ASSUME seg' = seg, NEW t, NEW n, NEW e, Holds(t, n, e)',
         \A q \in worker'.specs : q \in worker.specs \/ (q.task \in Flexible /\ Placed(q.seg) /\ q.seg = seg[q.task]),
         worker'.results \subseteq worker.results
  PROVE  Holds(t, n, e)
<1>1. CASE t \in Flexible /\ Placed(seg'[t]) /\ seg'[t].row = n /\ seg'[t].event = e
  BY <1>1 DEF Holds
<1>2. CASE \E r \in worker'.results : r.task = t /\ r.row = n /\ r.event = e
  BY <1>2 DEF Holds
<1>3. ASSUME NEW q \in worker'.specs, q.task = t, q.seg.row = n, q.seg.event = e PROVE Holds(t, n, e)
  BY <1>3 DEF Holds
<1> QED BY <1>1, <1>2, <1>3 DEF Holds

LEMMA OneEventStep == ASSUME ExportBase, OneEventInv, ExportNext PROVE OneEventInv'
<1>1. ASSUME seg' = seg, UNCHANGED <<commands, schedule>>, worker'.specs = {}, worker'.results = {},
             \A e \in Events : google'[e] = google[e] \/ (google[e] # "absent" /\ google'[e] = "gone")
      PROVE  OneEventInv'
  <2>1. \A t \in Flexible, n \in 0 .. MaxCommands, e \in Events \cup {NoEvent} : Holds(t, n, e)' => Holds(t, n, e)
    BY <1>1, NarrowHolds
  <2> QED BY <1>1, <2>1, QuietOneEvent
<1>2. ASSUME NEW c \in 1 .. commands, Claim(c) PROVE OneEventInv'
  BY <1>1, <1>2, ClaimIs DEF Rest
<1>3. Load => OneEventInv'
  BY <1>1, LoadIs DEF Rest
<1>4. Abort \/ End => OneEventInv'
  BY <1>1, AbortIs, IdleIs DEF Rest
<1>5. ASSUME NEW e \in Events \cup Foreign, DeleteEvent(e) PROVE OneEventInv'
  <2>1. \A x \in Events : google'[x] = google[x] \/ (google[x] # "absent" /\ google'[x] = "gone")
    BY <1>5, DeleteEventIs
  <2>2. seg' = seg /\ UNCHANGED <<commands, schedule>> /\ worker'.specs = {} /\ worker'.results = {}
    BY <1>5, DeleteEventIs DEF Rest
  <2> QED BY <1>1, <2>1, <2>2
<1>6. ASSUME NEW e \in Events, UserDeletes(e) PROVE OneEventInv'
  <2>1. \A x \in Events : google'[x] = google[x] \/ (google[x] # "absent" /\ google'[x] = "gone")
    BY <1>6, UserDeletesIs, ExportFacts
  <2>2. seg' = seg /\ UNCHANGED <<commands, schedule>> /\ worker' = worker
    BY <1>6, UserDeletesIs DEF Rest
  <2>3. \A t \in Flexible, n \in 0 .. MaxCommands, x \in Events \cup {NoEvent} : Holds(t, n, x)' => Holds(t, n, x)
    BY <2>2, NarrowHolds
  <2> QED BY <2>1, <2>2, <2>3, QuietOneEvent
<1>7. ASSUME LoadSpecs PROVE OneEventInv'
  <2>1. /\ seg' = seg /\ UNCHANGED <<commands, schedule>> /\ google' = google /\ worker'.results = {}
        /\ \A q \in worker'.specs : q.task \in Flexible /\ Placed(q.seg) /\ q.seg = seg[q.task]
    BY <1>7, LoadSpecsIs DEF Rest, Specs
  <2>2. \A t \in Flexible, n \in 0 .. MaxCommands, x \in Events \cup {NoEvent} : Holds(t, n, x)' => Holds(t, n, x)
    BY <2>1, NarrowHolds
  <2> QED BY <2>1, <2>2, QuietOneEvent
<1>8. ASSUME Persist PROVE OneEventInv'
  <2>1. UNCHANGED <<commands, schedule, google>>
    BY <1>8, PersistIs
  <2> QED BY <1>8, <2>1, PersistHolds, QuietOneEvent
<1> QED BY <1>2, <1>3, <1>4, <1>5, <1>6, <1>7, <1>8, ExportCases, TakenOneEvent, ExportsOneEvent

LEMMA OneEventIs == ASSUME ExportBase, OneEventInv PROVE OneEventPerSegment
<1>1. ASSUME NEW t \in Tasks, NEW n \in 0 .. MaxCommands
      PROVE  ~(google[V1(t, n)] \in Windows /\ google[V2(t, n)] \in Windows)
  <2>1. CASE t \in Imported
    BY <2>1, ExportFacts DEF OneEventInv, FreshOK
  <2>2. CASE t \in Flexible
    <3>1. google[V2(t, n)] # "absent" => google[V1(t, n)] \in {"gone", "absent"}
      BY <2>2 DEF OneEventInv, SecondOK, NeverFirst
    <3> QED BY <3>1, ExportFacts
  <2> QED BY <2>1, <2>2, ExportFacts
<1>2. \A r \in Rows : \E t \in Tasks, n \in 0 .. MaxCommands : r = <<t, n>>
  BY DEF Rows
<1> QED BY <1>1, <1>2 DEF OneEventPerSegment, V1, V2

LEMMA OneEventInit == ASSUME ExportInit PROVE OneEventInv
<1>1. /\ worker.specs = {} /\ worker.results = {}
      /\ \A t \in Flexible : ~Placed(seg[t])
      /\ \A c \in 1 .. MaxCommands : schedule[c].status = "none"
  BY IdleIs, NoRowIs, ExportFacts DEF ExportInit, Placed, NoSchedule
<1>2. \A e \in Events : google[e] = "absent"
  BY EventsApart DEF ExportInit
<1>3. \A t \in Flexible, n \in 0 .. MaxCommands : \A e : ~Holds(t, n, e) /\ ~Mentioned(t, e)
  BY <1>1 DEF Holds, Mentioned
<1>4. \A t \in Tasks, n \in 0 .. MaxCommands : google[V1(t, n)] = "absent" /\ google[V2(t, n)] = "absent"
  BY <1>2, IdsAre
<1> QED BY <1>3, <1>4, ExportFacts DEF OneEventInv, FreshOK, SecondOK, BorrowedOK

LEMMA WaitingTaken ==
  ASSUME ExportBase, Taken, NEW t
  PROVE  /\ Waiting(t) => Waiting(t)'
         /\ t \in Flexible \cap alive' /\ seg'[t] # seg[t] => Waiting(t)'
<1>1. commands \in Nat /\ commands + 1 \in 1 .. MaxCommands /\ commands' = commands + 1 /\ commands <= MaxCommands
      /\ MaxCommands \in Nat
  BY ExportFacts DEF ExportBase, ExportTypeOK, Taken
<1>2. ASSUME NEW c \in 1 .. commands PROVE operation'[c] = operation[c] /\ c \in 1 .. commands'
  <2>1. c \in 1 .. MaxCommands /\ c # commands + 1 /\ c \in 1 .. commands'
    BY <1>1
  <2> QED BY <2>1 DEF Taken, OperationTaken
<1>3. Waiting(t) => Waiting(t)'
  BY <1>2 DEF Waiting, Exported
<1>4. ASSUME t \in Flexible \cap alive', seg'[t] # seg[t] PROVE Waiting(t)'
  <2>1. operation'[commands + 1].kind = "reconcile"
    BY <1>4 DEF Taken, OperationTaken
  <2>2. operation'[commands + 1].status = "queued"
    BY <2>1 DEF Taken, OperationTaken, NoOperation
  <2>3. t \in Exported(operation'[commands + 1])
    BY <1>4, <2>1, ExportFacts DEF Exported
  <2>4. commands + 1 \in 1 .. commands'
    BY <1>1
  <2> QED BY <2>2, <2>3, <2>4 DEF Waiting, OpenStatuses, Exported
<1> QED BY <1>3, <1>4

LEMMA WaitingSet ==
  ASSUME ExportBase, NEW t, NEW c \in 1 .. commands, commands' = commands,
         NEW st \in {"processing", "retrying", "failed", "completed"}, operation' = Set(c, st)
  PROVE  /\ Waiting(t) /\ (operation[c].status \notin OpenStatuses \/ st \in OpenStatuses) => Waiting(t)'
         /\ t \in Exported(operation[c]) /\ st \in OpenStatuses => Waiting(t)'
         /\ Waiting(t) /\ ~Waiting(t)' => t \in Exported(operation[c])
         /\ operation'[c].status = st /\ Exported(operation'[c]) = Exported(operation[c])
<1>1. c \in 1 .. MaxCommands /\ 1 .. commands \subseteq 1 .. MaxCommands
  BY ExportFacts DEF ExportBase, ExportTypeOK
<1>2. \A d \in 1 .. MaxCommands : /\ operation'[d].status = IF d = c THEN st ELSE operation[d].status
                                  /\ Exported(operation'[d]) = Exported(operation[d])
  BY <1>1, SetIs
<1>3. \A d \in 1 .. commands : /\ operation'[d].status = IF d = c THEN st ELSE operation[d].status
                               /\ (t \in Exported(operation[d]))' <=> t \in Exported(operation[d])
  BY <1>1, <1>2 DEF Exported
<1> QED BY <1>1, <1>2, <1>3 DEF Waiting

\* The ids of a segment's row and the event it has.
LEMMA FirstIs ==
  ASSUME ExportBase, NEW t \in Flexible, Placed(seg[t])
  PROVE  /\ seg[t].row \in 0 .. MaxCommands /\ seg[t].window \in Windows
         /\ FirstOf(t, seg[t]) \in Events /\ V2(t, seg[t].row) \in Events
         /\ FirstOf(t, seg[t]) \in EarlyEvents(t, seg[t].row)
         /\ V2(t, seg[t].row) \in EarlyEvents(t, seg[t].row)
         /\ seg[t].event # NoEvent => seg[t].event \in EarlyEvents(t, seg[t].row) /\ seg[t].event \in Events
<1>1. t \in Tasks /\ seg[t] \in Segs /\ SegOK(t, seg[t])
  BY ExportFacts DEF ExportBase, ExportTypeOK, SegmentsOK
<1>2. seg[t].row \in 0 .. MaxCommands /\ seg[t].window \in Windows
  BY <1>1 DEF Segs, Placed
<1>3. /\ EarlyEvents(t, seg[t].row) \subseteq Events
      /\ V1(t, seg[t].row) \in EarlyEvents(t, seg[t].row) /\ V2(t, seg[t].row) \in EarlyEvents(t, seg[t].row)
  BY <1>1, <1>2, EarlyIs DEF V1, V2
<1>4. seg[t].event # NoEvent => seg[t].event \in EarlyEvents(t, seg[t].row)
  BY <1>1 DEF SegOK
<1> QED BY <1>2, <1>3, <1>4 DEF FirstOf

LEMMA FirstOfSpecIs ==
  ASSUME ExportBase, NEW spec \in worker.specs
  PROVE  /\ FirstOf(spec.task, spec.seg) \in Events /\ V2(spec.task, spec.seg.row) \in Events
         /\ FirstOf(spec.task, spec.seg) \in EarlyEvents(spec.task, spec.seg.row)
         /\ V2(spec.task, spec.seg.row) \in EarlyEvents(spec.task, spec.seg.row)
<1>1. /\ spec.task \in Tasks /\ spec.seg.row \in 0 .. MaxCommands
      /\ spec.seg.event = NoEvent \/ spec.seg.event \in EarlyEvents(spec.task, spec.seg.row)
  BY SpecIs
<1>2. /\ EarlyEvents(spec.task, spec.seg.row) \subseteq Events
      /\ V1(spec.task, spec.seg.row) \in EarlyEvents(spec.task, spec.seg.row)
      /\ V2(spec.task, spec.seg.row) \in EarlyEvents(spec.task, spec.seg.row)
  BY <1>1, EarlyIs DEF V1, V2
<1> QED BY <1>1, <1>2 DEF FirstOf

\* Events are only deleted: by the worker, or by the user in Google.
Fading == \A e \in Events : google'[e] = google[e] \/ (google[e] # "absent" /\ google'[e] = "gone")

LEMMA FadeCreates ==
  ASSUME ExportBase, CreatesOK, seg' = seg, Fading,
         \A q \in worker'.specs : q \in worker.specs \/ (q.task \in Flexible /\ Placed(q.seg) /\ q.seg = seg[q.task])
  PROVE  CreatesOK'
<1>1. ASSUME NEW t \in Flexible, Placed(seg[t]) PROVE CreateOK(t, seg[t])'
  <2>1. CreateOK(t, seg[t]) /\ FirstOf(t, seg[t]) \in Events /\ V2(t, seg[t].row) \in Events
    BY <1>1, FirstIs DEF CreatesOK
  <2> QED BY <2>1 DEF CreateOK, Fading, Creates, FirstOf, V1, V2
<1>2. ASSUME NEW q \in worker.specs PROVE CreateOK(q.task, q.seg)'
  <2>1. CreateOK(q.task, q.seg) /\ FirstOf(q.task, q.seg) \in Events /\ V2(q.task, q.seg.row) \in Events
    BY <1>2, FirstOfSpecIs DEF CreatesOK
  <2> QED BY <2>1 DEF CreateOK, Fading
<1>3. ASSUME NEW q \in worker'.specs PROVE CreateOK(q.task, q.seg)'
  <2>1. CASE q \in worker.specs
    BY <1>2, <2>1
  <2>2. CASE q.task \in Flexible /\ Placed(q.seg) /\ q.seg = seg[q.task]
    <3>1. CreateOK(q.task, q.seg) /\ FirstOf(q.task, q.seg) \in Events /\ V2(q.task, q.seg.row) \in Events
      BY <2>2, FirstIs DEF CreatesOK
    <3> QED BY <3>1 DEF CreateOK, Fading
  <2> QED BY <2>1, <2>2
<1> QED BY <1>1, <1>3 DEF CreatesOK

LEMMA FadeShown ==
  ASSUME ExportBase, NEW t \in Flexible, Placed(seg[t]), Shown(seg[t]), seg' = seg, Fading
  PROVE  Shown(seg[t])'
BY FirstIs DEF Shown, Fading

\* Steps that leave the rows alone and neither load, export nor save.
LEMMA QuietWork ==
  ASSUME ExportBase, WorkInv, UNCHANGED <<seg, alive, commands>>, Fading, ProcessingOK',
         \A t \in Flexible : Waiting(t) \/ Working(t) => (Waiting(t) \/ Working(t))',
         \/ worker'.pc # "exporting" /\ worker'.specs = {}
         \/ worker' = worker /\ operation' = operation
  PROVE  WorkInv'
<1>1. StaleOK'
  <2>1. ASSUME NEW t \in Flexible, Standing(t)', ~Shown(seg[t])' PROVE (Waiting(t) \/ Working(t))'
    <3>1. Standing(t) /\ Placed(seg[t])
      BY <2>1 DEF Standing
    <3>2. ~Shown(seg[t])
      BY <2>1, <3>1, FadeShown
    <3> QED BY <3>1, <3>2 DEF WorkInv, StaleOK
  <2> QED BY <2>1 DEF StaleOK
<1>2. CreatesOK'
  <2>1. \A q \in worker'.specs : q \in worker.specs
    OBVIOUS
  <2> QED BY <2>1, FadeCreates DEF WorkInv
<1>3. CASE worker'.pc # "exporting" /\ worker'.specs = {}
  <2>1. SpecsOK'
    BY <1>3 DEF SpecsOK
  <2>2. ResultsOK'
    BY <1>3 DEF ResultsOK
  <2> QED BY <1>1, <1>2, <2>1, <2>2 DEF WorkInv
<1>4. CASE worker' = worker /\ operation' = operation
  <2>0. \A t : Waiting(t)' <=> Waiting(t)
    BY <1>4 DEF Waiting, Exported
  <2>1. SpecsOK'
    BY <1>4, <2>0 DEF WorkInv, SpecsOK, Standing
  <2>2. ResultsOK'
    <3>1. ASSUME worker.pc = "exporting", NEW r \in worker.results
          PROVE  /\ r.status \in {"synced", "update_error", "create_error"}
                 /\ r.status # "synced" => worker'.failing
                 /\ Standing(r.task)' => seg[r.task].row = r.row \/ Waiting(r.task)'
                 /\ Placed(seg[r.task]) /\ seg[r.task].row = r.row =>
                      /\ r.status = "synced" => google'[r.event] \in {seg[r.task].window, "gone"}
                      /\ r.status = "create_error" => seg[r.task].event = NoEvent
                                                      /\ r.event \in {V1(r.task, r.row), V2(r.task, r.row)}
      <4>1. r.event \in Events
        BY DEF ExportBase, ExportTypeOK, Workers, Results
      <4>2. /\ r.status \in {"synced", "update_error", "create_error"}
            /\ r.status # "synced" => worker.failing
            /\ Standing(r.task) => seg[r.task].row = r.row \/ Waiting(r.task)
            /\ Placed(seg[r.task]) /\ seg[r.task].row = r.row =>
                 /\ r.status = "synced" => google[r.event] \in {seg[r.task].window, "gone"}
                 /\ r.status = "create_error" => seg[r.task].event = NoEvent
                                                 /\ r.event \in {V1(r.task, r.row), V2(r.task, r.row)}
        BY <3>1 DEF WorkInv, ResultsOK
      <4>3. google'[r.event] = google[r.event] \/ google'[r.event] = "gone"
        BY <4>1 DEF Fading
      <4>4. Standing(r.task)' <=> Standing(r.task)
        BY DEF Standing
      <4> QED BY <1>4, <2>0, <4>2, <4>3, <4>4
    <3> QED BY <1>4, <3>1 DEF ResultsOK
  <2> QED BY <1>1, <1>2, <2>1, <2>2 DEF WorkInv
<1> QED BY <1>3, <1>4

LEMMA ClaimWork == ASSUME ExportBase, WorkInv, NEW c \in 1 .. commands, Claim(c) PROVE WorkInv'
<1>1. /\ worker.pc = "idle" /\ operation' = Set(c, "processing") /\ UNCHANGED <<seg, alive, commands>>
      /\ google' = google /\ worker'.pc = "loading" /\ worker'.op = c /\ worker'.specs = {}
  BY ClaimIs DEF Rest
<1>2. operation'[c].status = "processing" /\ Exported(operation'[c]) = Exported(operation[c])
  BY <1>1, WaitingSet
<1>3. ProcessingOK'
  BY <1>1, <1>2 DEF ProcessingOK
<1>4. ASSUME NEW t \in Flexible, Waiting(t) \/ Working(t) PROVE (Waiting(t) \/ Working(t))'
  <2>1. Waiting(t)
    BY <1>1, <1>4 DEF Working
  <2>2. Waiting(t)' \/ t \in Exported(operation[c])
    BY <1>1, <2>1, WaitingSet
  <2>3. t \in Exported(operation[c]) => Working(t)'
    BY <1>1, <1>2 DEF Working, Exported
  <2> QED BY <2>2, <2>3
<1> QED BY <1>1, <1>3, <1>4, QuietWork DEF Fading

LEMMA DeletingWork ==
  ASSUME ExportBase, WorkInv, Load \/ \E e \in Events \cup Foreign : DeleteEvent(e) PROVE WorkInv'
<1>1. /\ UNCHANGED <<seg, alive, commands, operation>> /\ worker.pc \in {"loading", "deleting"}
      /\ worker'.pc = "deleting" /\ worker'.op = worker.op /\ worker'.specs = {} /\ Fading
  BY LoadIs, DeleteEventIs DEF Rest, Fading
<1>2. ProcessingOK'
  BY <1>1 DEF WorkInv, ProcessingOK
<1>3. \A t : Waiting(t)' <=> Waiting(t)
  BY <1>1 DEF Waiting, Exported
<1>4. ASSUME NEW t \in Flexible, Working(t) PROVE Working(t)'
  BY <1>1, <1>4 DEF Working, Exported
<1> QED BY <1>1, <1>2, <1>3, <1>4, QuietWork

LEMMA UserDeletesWork == ASSUME ExportBase, WorkInv, NEW e \in Events, UserDeletes(e) PROVE WorkInv'
<1>1. UNCHANGED <<seg, alive, commands, operation, worker>> /\ Fading
  <2>1. Fading
    BY UserDeletesIs, ExportFacts DEF Fading
  <2> QED BY <2>1, UserDeletesIs DEF Rest
<1>2. ProcessingOK'
  BY <1>1 DEF WorkInv, ProcessingOK
<1>3. \A t : Waiting(t)' <=> Waiting(t)
  BY <1>1 DEF Waiting, Exported
<1>4. ASSUME NEW t \in Flexible, Working(t) PROVE Working(t)'
  BY <1>1, <1>4 DEF Working, Exported, SpecOf
<1> QED BY <1>1, <1>2, <1>3, <1>4, QuietWork

LEMMA EndWork == ASSUME ExportBase, WorkInv, Abort \/ End PROVE WorkInv'
<1>1. PICK st \in {"retrying", "failed", "completed"} :
        operation' = Set(worker.op, st) /\ (st = "completed" => worker.pc = "ending" /\ ~worker.failing)
  BY AbortIs
<1>2. /\ worker.op \in 1 .. commands /\ UNCHANGED <<seg, alive, commands, google>>
      /\ worker'.pc = "idle" /\ worker'.specs = {} /\ worker.pc # "idle"
  BY AbortIs, IdleIs DEF Rest, Abort, End
<1>3. ProcessingOK'
  BY <1>2 DEF ProcessingOK
<1>4. operation[worker.op].status = "processing"
  BY <1>2 DEF WorkInv, ProcessingOK
<1>5. ASSUME NEW t \in Flexible, Waiting(t) \/ Working(t) PROVE Waiting(t)'
  <2>1. CASE Waiting(t)
    BY <1>1, <1>2, <1>4, <2>1, WaitingSet DEF OpenStatuses
  <2>2. CASE Working(t)
    <3>1. t \in Exported(operation[worker.op])
      BY <2>2 DEF Working
    <3>2. st # "completed"
      <4>1. worker.pc = "ending" => worker.specs = {}
        BY DEF ExportBase, WorkerOK
      <4> QED BY <1>1, <2>2, <4>1 DEF Working
    <3> QED BY <1>1, <1>2, <3>1, <3>2, WaitingSet DEF OpenStatuses
  <2> QED BY <1>5, <2>1, <2>2
<1> QED BY <1>2, <1>3, <1>5, QuietWork DEF Fading

LEMMA TakenRow ==
  ASSUME ExportBase, Taken, NEW t \in Flexible
  PROVE  \/ seg'[t] = seg[t]
         \/ ~Placed(seg'[t])
         \/ /\ Placed(seg'[t]) /\ seg'[t].row = commands + 1
            /\ seg'[t].event # NoEvent /\ seg'[t].status = "create_error" =>
                 Placed(seg[t]) /\ seg[t].event = seg'[t].event /\ seg[t].status = "create_error"
                 /\ seg[t].window = seg'[t].window
<1>1. SegmentTaken(t) /\ t \notin Imported
  BY ExportFacts DEF Taken
<1> QED BY <1>1, NoRowIs DEF SegmentTaken, Placed

LEMMA TakenWork == ASSUME ExportBase, OneEventInv, WorkInv, Taken PROVE WorkInv'
<1>1. /\ commands \in Nat /\ commands + 1 \in 0 .. MaxCommands /\ commands' = commands + 1
      /\ google' = google /\ worker' = worker /\ alive' \subseteq alive
  BY ExportFacts DEF ExportBase, ExportTypeOK, Taken
<1>2. worker.pc # "idle" => operation'[worker.op] = operation[worker.op]
  <2>1. worker.pc # "idle" => worker.op \in 1 .. MaxCommands /\ worker.op # commands + 1
    <3>1. worker.pc # "idle" => worker.op \in 1 .. commands
      BY DEF ExportBase, WorkerOK
    <3> QED BY <1>1, <3>1, ExportFacts
  <2> QED BY <2>1 DEF Taken, OperationTaken
<1>3. ProcessingOK'
  BY <1>1, <1>2 DEF WorkInv, ProcessingOK
<1>4. ASSUME NEW t \in Flexible, t \in alive' PROVE seg'[t] = seg[t] \/ Waiting(t)'
  BY <1>4, WaitingTaken
<1>5. StaleOK'
  <2>1. ASSUME NEW t \in Flexible, Standing(t)', ~Shown(seg[t])' PROVE (Waiting(t) \/ Working(t))'
    <3>1. CASE seg'[t] # seg[t]
      BY <1>4, <2>1, <3>1 DEF Standing
    <3>2. CASE seg'[t] = seg[t]
      <4>1. Standing(t) /\ ~Shown(seg[t])
        BY <1>1, <2>1, <3>2 DEF Standing, Shown
      <4>2. Waiting(t) \/ Working(t)
        BY <4>1 DEF WorkInv, StaleOK
      <4>3. Working(t) => Working(t)'
        BY <1>1, <1>2, <3>2 DEF Working, Exported, SpecOf
      <4> QED BY <4>2, <4>3, WaitingTaken
    <3> QED BY <3>1, <3>2
  <2> QED BY <2>1 DEF StaleOK
<1>6. SpecsOK'
  <2>1. ASSUME NEW spec \in worker.specs
        PROVE  /\ Standing(spec.task)' => seg'[spec.task] = spec.seg \/ Waiting(spec.task)'
               /\ Placed(seg'[spec.task]) => spec.seg.row <= seg'[spec.task].row
               /\ Placed(seg'[spec.task]) /\ spec.seg.row = seg'[spec.task].row => seg'[spec.task] = spec.seg
               /\ Placed(seg'[spec.task]) /\ seg'[spec.task].status = "create_error"
                  /\ seg'[spec.task].event # NoEvent =>
                    /\ spec.seg.status = "create_error" /\ spec.seg.event = seg'[spec.task].event
                    /\ spec.seg.window = seg'[spec.task].window
    <3>1. PICK t \in Flexible : t = spec.task
      BY SpecIs
    <3>2. spec.seg.row \in Nat /\ spec.seg.row <= commands
      BY SpecIs
    <3>3. /\ Standing(t) => seg[t] = spec.seg \/ Waiting(t)
          /\ Placed(seg[t]) => spec.seg.row <= seg[t].row
          /\ Placed(seg[t]) /\ spec.seg.row = seg[t].row => seg[t] = spec.seg
          /\ Placed(seg[t]) /\ seg[t].status = "create_error" /\ seg[t].event # NoEvent =>
               /\ spec.seg.status = "create_error" /\ spec.seg.event = seg[t].event
               /\ spec.seg.window = seg[t].window
      BY <3>1 DEF WorkInv, SpecsOK
    <3>4. CASE seg'[t] = seg[t]
      <4>1. Standing(t)' => Standing(t)
        BY <1>1, <3>4 DEF Standing
      <4> QED BY <3>1, <3>3, <3>4, <4>1, WaitingTaken
    <3>5. CASE ~Placed(seg'[t])
      BY <3>1, <3>5 DEF Standing
    <3>6. CASE /\ seg'[t] # seg[t] /\ seg'[t].row = commands + 1
               /\ seg'[t].event # NoEvent /\ seg'[t].status = "create_error" =>
                    Placed(seg[t]) /\ seg[t].event = seg'[t].event /\ seg[t].status = "create_error"
                    /\ seg[t].window = seg'[t].window
      <4>1. Standing(t)' => Waiting(t)'
        BY <1>4, <3>6 DEF Standing
      <4>2. spec.seg.row <= seg'[t].row /\ spec.seg.row # seg'[t].row
        BY <1>1, <3>2, <3>6
      <4> QED BY <3>1, <3>3, <3>6, <4>1, <4>2
    <3> QED BY <3>4, <3>5, <3>6, TakenRow
  <2> QED BY <1>1, <2>1 DEF SpecsOK
<1>7. CreatesOK'
  <2>1. ASSUME NEW t \in Flexible, Placed(seg'[t]) PROVE CreateOK(t, seg'[t])
    <3>1. CASE seg'[t] = seg[t]
      BY <2>1, <3>1 DEF WorkInv, CreatesOK
    <3>2. CASE /\ seg'[t].row = commands + 1
               /\ seg'[t].event # NoEvent /\ seg'[t].status = "create_error" =>
                    Placed(seg[t]) /\ seg[t].event = seg'[t].event /\ seg[t].status = "create_error"
                    /\ seg[t].window = seg'[t].window
      <4>1. google[V1(t, commands + 1)] = "absent" /\ google[V2(t, commands + 1)] = "absent"
        BY <1>1, ExportFacts DEF OneEventInv, FreshOK
      <4>2. CASE seg'[t].event = NoEvent
        BY <3>2, <4>1, <4>2 DEF CreateOK, FirstOf
      <4>3. CASE seg'[t].event # NoEvent /\ seg'[t].status = "create_error"
        <5>1. CreateOK(t, seg[t]) /\ Creates(seg[t])
          BY <3>2, <4>3 DEF WorkInv, CreatesOK, Creates
        <5> QED BY <3>2, <4>1, <4>3, <5>1 DEF CreateOK, FirstOf
      <4> QED BY <4>2, <4>3 DEF CreateOK, Creates
    <3> QED BY <2>1, <3>1, <3>2, TakenRow
  <2>3. ASSUME NEW t \in Flexible, Placed(seg[t])' PROVE CreateOK(t, seg[t])'
    <3>1. CreateOK(t, seg'[t])
      BY <2>1, <2>3 DEF Placed
    <3> QED BY <1>1, <3>1 DEF CreateOK, FirstOf, Creates, V1, V2
  <2>4. ASSUME NEW q \in worker.specs PROVE CreateOK(q.task, q.seg)'
    BY <1>1, <2>4 DEF CreateOK, WorkInv, CreatesOK
  <2> QED BY <1>1, <2>3, <2>4 DEF CreatesOK
<1>8. ResultsOK'
  <2>1. ASSUME worker.pc = "exporting", NEW r \in worker.results
        PROVE  /\ r.status \in {"synced", "update_error", "create_error"}
               /\ r.status # "synced" => worker.failing
               /\ Standing(r.task)' => seg'[r.task].row = r.row \/ Waiting(r.task)'
               /\ Placed(seg'[r.task]) /\ seg'[r.task].row = r.row =>
                    /\ r.status = "synced" => google[r.event] \in {seg'[r.task].window, "gone"}
                    /\ r.status = "create_error" => seg'[r.task].event = NoEvent
                                                    /\ r.event \in {V1(r.task, r.row), V2(r.task, r.row)}
    <3>1. PICK t \in Flexible : t = r.task
      BY DEF ExportBase, ExportTypeOK, Workers, Results
    <3>2. r.row \in Nat /\ r.row <= commands
      BY DEF ExportBase, ExportTypeOK, WorkerOK, Workers, Results
    <3>3. /\ r.status \in {"synced", "update_error", "create_error"}
          /\ r.status # "synced" => worker.failing
          /\ Standing(t) => seg[t].row = r.row \/ Waiting(t)
          /\ Placed(seg[t]) /\ seg[t].row = r.row =>
               /\ r.status = "synced" => google[r.event] \in {seg[t].window, "gone"}
               /\ r.status = "create_error" => seg[t].event = NoEvent
                                               /\ r.event \in {V1(t, r.row), V2(t, r.row)}
      BY <2>1, <3>1 DEF WorkInv, ResultsOK
    <3>4. CASE seg'[t] = seg[t]
      <4>1. Standing(t)' => Standing(t)
        BY <1>1, <3>4 DEF Standing
      <4> QED BY <3>1, <3>3, <3>4, <4>1, WaitingTaken
    <3>5. CASE ~Placed(seg'[t])
      BY <3>1, <3>3, <3>5 DEF Standing
    <3>6. CASE seg'[t] # seg[t] /\ seg'[t].row = commands + 1
      <4>1. Standing(t)' => Waiting(t)'
        BY <1>4, <3>6 DEF Standing
      <4>2. r.row # seg'[t].row
        BY <1>1, <3>2, <3>6
      <4> QED BY <3>1, <3>3, <4>1, <4>2
    <3> QED BY <3>4, <3>5, <3>6, TakenRow
  <2> QED BY <1>1, <2>1 DEF ResultsOK
<1> QED BY <1>3, <1>5, <1>6, <1>7, <1>8 DEF WorkInv

LEMMA LoadSpecsWork == ASSUME ExportBase, WorkInv, LoadSpecs PROVE WorkInv'
<1>1. /\ worker.pc = "deleting" /\ worker.op \in 1 .. commands
      /\ worker'.pc = "exporting" /\ worker'.op = worker.op
      /\ worker'.results = {} /\ UNCHANGED <<seg, alive, commands, operation, google>>
  BY LoadSpecsIs DEF Rest
<1>2. ASSUME NEW q \in worker'.specs
      PROVE  /\ q.task \in Flexible /\ Placed(q.seg) /\ q.seg = seg[q.task] /\ q.seg.row \in Nat
  <2>1. q \in Specs /\ Placed(q.seg) /\ q.seg = seg[q.task]
    BY LoadSpecsIs
  <2> QED BY <2>1 DEF Specs, Segs
<1>3. ProcessingOK'
  BY <1>1 DEF WorkInv, ProcessingOK
<1>4. StaleOK'
  <2>1. ASSUME NEW t \in Flexible, Standing(t)', ~Shown(seg[t])' PROVE (Waiting(t) \/ Working(t))'
    <3>1. Standing(t) /\ ~Shown(seg[t])
      BY <1>1, <2>1 DEF Standing, Shown
    <3>2. Waiting(t) \/ Working(t)
      BY <3>1 DEF WorkInv, StaleOK
    <3>3. Waiting(t) => Waiting(t)'
      BY <1>1 DEF Waiting, Exported
    <3>4. ASSUME Working(t) PROVE Working(t)'
      <4>1. t \in Exported(operation[worker.op])
        BY <3>4 DEF Working
      <4>2. SpecOf(t) \in worker'.specs
        BY <3>1, <4>1, LoadSpecsIs DEF Standing
      <4> QED BY <1>1, <4>1, <4>2 DEF Working, Exported, SpecOf
    <3> QED BY <3>2, <3>3, <3>4
  <2> QED BY <2>1 DEF StaleOK
<1>5. SpecsOK'
  BY <1>1, <1>2 DEF SpecsOK
<1>6. CreatesOK'
  BY <1>1, <1>2, FadeCreates DEF WorkInv, Fading
<1>7. ResultsOK'
  BY <1>1 DEF ResultsOK
<1> QED BY <1>3, <1>4, <1>5, <1>6, <1>7 DEF WorkInv

LEMMA PersistWork == ASSUME ExportBase, WorkInv, Persist PROVE WorkInv'
<1>1. /\ worker.pc = "exporting" /\ worker.specs = {} /\ worker.op \in 1 .. commands
      /\ worker'.pc = "ending" /\ worker'.op = worker.op /\ worker'.specs = {}
      /\ worker'.results = worker.results /\ worker'.failing = (worker.failing \/ ~Current)
      /\ UNCHANGED <<alive, commands, operation, google>> /\ (~Current => seg' = seg)
  BY PersistIs
<1>2. ProcessingOK'
  BY <1>1 DEF WorkInv, ProcessingOK
<1>3. SpecsOK'
  BY <1>1 DEF SpecsOK
<1>4. ResultsOK'
  BY <1>1 DEF ResultsOK
<1>5. ASSUME NEW t \in Flexible, seg'[t] # seg[t]
      PROVE  \E r \in worker.results :
               /\ r.task = t /\ Current /\ Placed(seg[t])
               /\ seg'[t].row = seg[t].row /\ seg'[t].window = seg[t].window
               /\ seg'[t].event = r.event /\ seg'[t].status = r.status /\ r.event \in Events
               /\ r.status \in {"synced", "update_error", "create_error"}
               /\ r.status # "synced" => worker.failing
               /\ r.status = "synced" => google[r.event] \in {seg[t].window, "gone"}
               /\ r.status = "create_error" => seg[t].event = NoEvent
                                               /\ r.event \in {V1(t, seg[t].row), V2(t, seg[t].row)}
  <2>1. PICK r \in worker.results :
          /\ Current /\ r.task = t /\ seg[t].row = r.row /\ Placed(seg[t])
          /\ seg'[t].row = seg[t].row /\ seg'[t].window = seg[t].window
          /\ seg'[t].event = r.event /\ seg'[t].status = r.status
    BY <1>5, PersistIs, ExportFacts
  <2>2. /\ r.status \in {"synced", "update_error", "create_error"}
        /\ r.status # "synced" => worker.failing
        /\ Placed(seg[t]) /\ seg[t].row = r.row =>
             /\ r.status = "synced" => google[r.event] \in {seg[t].window, "gone"}
             /\ r.status = "create_error" => seg[t].event = NoEvent
                                             /\ r.event \in {V1(t, r.row), V2(t, r.row)}
    BY <1>1, <2>1 DEF WorkInv, ResultsOK
  <2>3. r.event \in Events
    BY DEF ExportBase, ExportTypeOK, Workers, Results
  <2> QED BY <2>1, <2>2, <2>3
<1>6. CreatesOK'
  <2>1. ASSUME NEW t \in Flexible, Placed(seg[t])' PROVE CreateOK(t, seg[t])'
    <3>1. CASE seg'[t] = seg[t]
      <4>1. CreateOK(t, seg[t])
        BY <2>1, <3>1 DEF WorkInv, CreatesOK, Placed
      <4> QED BY <1>1, <3>1, <4>1 DEF CreateOK, FirstOf, Creates, V1, V2
    <3>2. CASE seg'[t] # seg[t]
      <4>1. PICK r \in worker.results :
               /\ r.task = t /\ Placed(seg[t])
               /\ seg'[t].row = seg[t].row /\ seg'[t].window = seg[t].window
               /\ seg'[t].event = r.event /\ seg'[t].status = r.status /\ r.event \in Events
               /\ r.status = "create_error" => seg[t].event = NoEvent
                                               /\ r.event \in {V1(t, seg[t].row), V2(t, seg[t].row)}
        BY <1>5, <3>2
      <4>2. r.event # NoEvent
        BY <4>1, ExportFacts
      <4>3. CASE seg'[t].status # "create_error"
        BY <4>1, <4>2, <4>3 DEF CreateOK, Creates
      <4>4. CASE seg'[t].status = "create_error"
        <5>1. /\ google[V1(t, seg[t].row)] \in {"absent", "gone", seg[t].window}
              /\ google[V2(t, seg[t].row)] \in {"absent", "gone", seg[t].window}
          BY <4>1, <4>4 DEF WorkInv, CreatesOK, CreateOK, Creates, FirstOf
        <5>2. google[r.event] \in {"absent", "gone", seg[t].window}
          BY <4>1, <4>4, <5>1
        <5> QED BY <1>1, <4>1, <4>2, <5>1, <5>2 DEF CreateOK, FirstOf, V2
      <4> QED BY <4>3, <4>4
    <3> QED BY <3>1, <3>2
  <2> QED BY <1>1, <2>1 DEF CreatesOK
<1>7. StaleOK'
  <2>1. ASSUME NEW t \in Flexible, Standing(t)', ~Shown(seg[t])' PROVE (Waiting(t) \/ Working(t))'
    <3>1. Waiting(t) => Waiting(t)'
      BY <1>1 DEF Waiting, Exported
    <3>2. t \in Exported(operation[worker.op]) /\ worker'.failing => Working(t)'
      BY <1>1 DEF Working, Exported
    <3>3. CASE seg'[t] = seg[t]
      <4>1. Standing(t) /\ ~Shown(seg[t])
        BY <1>1, <2>1, <3>3 DEF Standing, Shown
      <4>2. Waiting(t) \/ Working(t)
        BY <4>1 DEF WorkInv, StaleOK
      <4>3. ASSUME Working(t) PROVE Working(t)'
        <5>1. t \in Exported(operation[worker.op])
          BY <4>3 DEF Working
        <5>2. worker'.failing \/ \E r \in worker.results : r.task = t /\ r.row = seg[t].row
          BY <1>1, <4>3 DEF Working
        <5>3. ASSUME NEW r \in worker.results, r.task = t, r.row = seg[t].row PROVE worker'.failing
          <6>1. CASE ~Current
            BY <1>1, <6>1
          <6>2. CASE Current
            <7>1. PICK q \in worker.results :
                    /\ q.task = t /\ seg'[t].event = q.event /\ seg'[t].status = q.status
              BY <5>3, <6>2, PersistIs, ExportFacts
            <7>2. q = r
              BY <5>3, <7>1 DEF ExportBase, WorkerOK
            <7>3. /\ r.status # "synced" => worker.failing
                  /\ r.status = "synced" => google[r.event] \in {seg[t].window, "gone"}
              BY <1>1, <4>1, <5>3 DEF WorkInv, ResultsOK, Standing
            <7>4. seg[t].event = r.event /\ r.event # NoEvent
              BY <3>3, <7>1, <7>2, ExportFacts DEF ExportBase, ExportTypeOK, Workers, Results
            <7>5. r.status # "synced"
              BY <4>1, <7>3, <7>4 DEF Shown
            <7> QED BY <1>1, <7>3, <7>5
          <6> QED BY <6>1, <6>2
        <5> QED BY <3>2, <5>1, <5>2, <5>3
      <4> QED BY <3>1, <4>2, <4>3
    <3>4. CASE seg'[t] # seg[t]
      <4>1. PICK r \in worker.results :
               /\ r.task = t /\ seg'[t].window = seg[t].window
               /\ seg'[t].event = r.event /\ r.event \in Events
               /\ r.status # "synced" => worker.failing
               /\ r.status = "synced" => google[r.event] \in {seg[t].window, "gone"}
        BY <1>5, <3>4
      <4>2. r.status # "synced"
        <5>1. r.event # NoEvent
          BY <4>1, ExportFacts
        <5> QED BY <1>1, <2>1, <4>1, <5>1 DEF Shown
      <4>3. t \in Exported(operation[worker.op])
        BY <4>1 DEF ExportBase, WorkerOK
      <4> QED BY <1>1, <3>2, <4>1, <4>2, <4>3
    <3> QED BY <3>3, <3>4
  <2> QED BY <2>1 DEF StaleOK
<1> QED BY <1>2, <1>3, <1>4, <1>6, <1>7 DEF WorkInv

\* What an export shows is the window of its segment, if not a tombstone.
LEMMA ShowsGood ==
  ASSUME ExportBase, WorkInv, NEW spec \in worker.specs, Accepted(spec)
  PROVE  Shows(spec) \in {"gone", spec.seg.window}
<1>1. CASE Creates(spec.seg)
  <2>1. IdFor(spec) \in {FirstOf(spec.task, spec.seg), V2(spec.task, spec.seg.row)}
    BY DEF IdFor, FirstOf, FirstId, NextId, V1, V2
  <2>2. google[IdFor(spec)] \in {"absent", "gone", spec.seg.window}
    BY <1>1, <2>1 DEF WorkInv, CreatesOK, CreateOK
  <2> QED BY <1>1, <2>2 DEF Shows, Accepted
<1>2. CASE ~Creates(spec.seg)
  BY <1>2 DEF Shows
<1> QED BY <1>1, <1>2

LEMMA ExportsWork == ASSUME ExportBase, WorkInv, NEW spec \in worker.specs, Exports(spec) PROVE WorkInv'
<1>1. PICK T \in Flexible, N \in 0 .. MaxCommands, i \in Events :
        T = spec.task /\ N = spec.seg.row /\ i = IdFor(spec) /\ i \in EarlyEvents(T, N)
        /\ T \in Exported(operation[worker.op])
  BY SpecIs, IdIs
<1>2. PICK r \in Results :
        /\ r.task = T /\ r.row = N /\ r.event = i
        /\ worker'.results = worker.results \cup {r}
        /\ \/ /\ r.status = "synced" /\ worker'.specs = worker.specs \ {spec}
              /\ worker'.failing = worker.failing /\ Accepted(spec) /\ google'[i] = Shows(spec)
           \/ /\ r.status = IF spec.seg.event # NoEvent THEN "update_error" ELSE "create_error"
              /\ worker'.specs = {} /\ worker'.failing = TRUE
  BY <1>1, ExportsIs
<1>3. /\ UNCHANGED <<seg, alive, commands, operation>> /\ worker.pc = "exporting"
      /\ worker'.pc = "exporting" /\ worker'.op = worker.op /\ worker'.specs \subseteq worker.specs
      /\ worker.failing => worker'.failing
  BY <1>2, ExportsIs DEF Rest
<1>4. \A e \in Events : e # i => google'[e] = google[e]
  BY <1>1, ExportsGoogle
<1>5. google'[i] = google[i] \/ google'[i] \in {"gone", spec.seg.window}
  <2>1. google' = google \/ (Accepted(spec) /\ google'[i] = Shows(spec))
    BY <1>1, ExportsIs
  <2> QED BY <2>1, ShowsGood
<1>6. \A t : Waiting(t)' <=> Waiting(t)
  BY <1>3 DEF Waiting, Exported
<1>7. \A t : Standing(t)' <=> Standing(t)
  BY <1>3 DEF Standing
<1>8. /\ Standing(T) => seg[T] = spec.seg \/ Waiting(T)
      /\ Placed(seg[T]) => N <= seg[T].row
      /\ Placed(seg[T]) /\ N = seg[T].row => seg[T] = spec.seg
      /\ Placed(seg[T]) /\ seg[T].status = "create_error" /\ seg[T].event # NoEvent =>
           spec.seg.window = seg[T].window
  BY <1>1 DEF WorkInv, SpecsOK
<1>9. ProcessingOK'
  BY <1>3 DEF WorkInv, ProcessingOK
<1>10. StaleOK'
  <2>1. ASSUME NEW t \in Flexible, Standing(t)', ~Shown(seg[t])' PROVE (Waiting(t) \/ Working(t))'
    <3>1. Standing(t) /\ Placed(seg[t])
      BY <1>7, <2>1 DEF Standing
    <3>2. CASE t = T
      <4>1. seg[T] = spec.seg => Working(t)'
        BY <1>1, <1>2, <1>3, <3>2 DEF Working, Exported
      <4> QED BY <1>6, <1>8, <3>1, <3>2, <4>1
    <3>3. CASE t # T
      <4>1. seg[t].event # NoEvent => google'[seg[t].event] = google[seg[t].event]
        <5>1. seg[t].event # NoEvent => seg[t].event \in Events /\ seg[t].event \in EarlyEvents(t, seg[t].row)
          BY <3>1, FirstIs
        <5>2. seg[t].event # NoEvent => seg[t].event # i
          BY <1>1, <3>3, <5>1, EarlyApart
        <5> QED BY <1>4, <5>1, <5>2
      <4>2. ~Shown(seg[t])
        BY <1>3, <2>1, <4>1 DEF Shown
      <4>3. Waiting(t) \/ Working(t)
        BY <3>1, <4>2 DEF WorkInv, StaleOK
      <4>4. ASSUME Working(t) PROVE Working(t)'
        <5>1. SpecOf(t) \in worker.specs => SpecOf(t) \in worker'.specs \/ worker'.failing
          <6>1. SpecOf(t) # spec
            BY <1>1, <3>3 DEF SpecOf
          <6> QED BY <1>2, <6>1
        <5> QED BY <1>2, <1>3, <4>4, <5>1 DEF Working, Exported, SpecOf
      <4> QED BY <1>6, <4>3, <4>4
    <3> QED BY <3>2, <3>3
  <2> QED BY <2>1 DEF StaleOK
<1>11. SpecsOK'
  BY <1>3, <1>6, <1>7 DEF WorkInv, SpecsOK
<1>12. CreatesOK'
  <2>1. ASSUME NEW t \in Flexible, Placed(seg[t]) PROVE CreateOK(t, seg[t])'
    <3>1. /\ CreateOK(t, seg[t]) /\ FirstOf(t, seg[t]) \in Events /\ V2(t, seg[t].row) \in Events
          /\ FirstOf(t, seg[t]) \in EarlyEvents(t, seg[t].row)
          /\ V2(t, seg[t].row) \in EarlyEvents(t, seg[t].row) /\ seg[t].row \in 0 .. MaxCommands
      BY <2>1, FirstIs DEF WorkInv, CreatesOK
    <3>2. CASE t # T
      <4>1. FirstOf(t, seg[t]) # i /\ V2(t, seg[t].row) # i
        BY <1>1, <3>1, <3>2, EarlyApart
      <4> QED BY <1>3, <1>4, <3>1, <4>1 DEF CreateOK
    <3>3. CASE t = T /\ i \in {FirstOf(T, seg[T]), V2(T, seg[T].row)} /\ Creates(seg[T])
      <4>1. spec.seg.window = seg[T].window
        <5>1. CASE N = seg[T].row
          BY <1>8, <2>1, <3>3, <5>1
        <5>2. CASE N # seg[T].row
          <6>1. N < seg[T].row
            BY <1>8, <2>1, <3>1, <3>3, <5>2
          <6>2. V2(T, seg[T].row) # i /\ V1(T, seg[T].row) # i
            <7>1. seg[T].row \notin 0 .. N
              BY <3>1, <3>3, <6>1
            <7> QED BY <1>1, <7>1, IdsApart
          <6>3. seg[T].event # NoEvent
            BY <3>3, <6>2 DEF FirstOf
          <6> QED BY <1>8, <2>1, <3>3, <6>3 DEF Creates
        <5> QED BY <5>1, <5>2
      <4>2. google'[i] \in {google[i], "gone", seg[t].window}
        BY <1>5, <3>3, <4>1
      <4>3. google[i] \in {"absent", "gone", seg[t].window}
        BY <3>1, <3>3 DEF CreateOK
      <4>4. google'[FirstOf(t, seg[t])] \in {"absent", "gone", seg[t].window}
        BY <1>4, <3>1, <3>3, <4>2, <4>3 DEF CreateOK
      <4>5. google'[V2(t, seg[t].row)] \in {"absent", "gone", seg[t].window}
        BY <1>4, <3>1, <3>3, <4>2, <4>3 DEF CreateOK
      <4> QED BY <1>3, <4>4, <4>5 DEF CreateOK, FirstOf, V1, V2
    <3>4. CASE ~Creates(seg[t])
      BY <1>3, <3>4 DEF CreateOK, Creates
    <3>5. CASE t = T /\ i \notin {FirstOf(T, seg[T]), V2(T, seg[T].row)}
      BY <1>3, <1>4, <3>1, <3>5 DEF CreateOK, FirstOf, V1, V2, Creates
    <3> QED BY <3>2, <3>3, <3>4, <3>5
  <2>2. ASSUME NEW q \in worker'.specs PROVE CreateOK(q.task, q.seg)'
    <3>1. q \in worker.specs /\ q # spec
      BY <1>2, <2>2
    <3>2. /\ CreateOK(q.task, q.seg) /\ FirstOf(q.task, q.seg) \in Events /\ V2(q.task, q.seg.row) \in Events
          /\ FirstOf(q.task, q.seg) \in EarlyEvents(q.task, q.seg.row)
          /\ V2(q.task, q.seg.row) \in EarlyEvents(q.task, q.seg.row)
      BY <3>1, FirstOfSpecIs DEF WorkInv, CreatesOK
    <3>3. q.task # T
      BY <1>1, <3>1, SpecIs
    <3>4. FirstOf(q.task, q.seg) # i /\ V2(q.task, q.seg.row) # i
      BY <1>1, <3>2, <3>3, EarlyApart
    <3> QED BY <1>4, <3>2, <3>4 DEF CreateOK
  <2> QED BY <1>3, <2>1, <2>2 DEF CreatesOK
<1>13. ResultsOK'
  <2>1. ASSUME NEW q \in worker'.results
        PROVE  /\ q.status \in {"synced", "update_error", "create_error"}
               /\ q.status # "synced" => worker'.failing
               /\ Standing(q.task) => seg[q.task].row = q.row \/ Waiting(q.task)
               /\ Placed(seg[q.task]) /\ seg[q.task].row = q.row =>
                    /\ q.status = "synced" => google'[q.event] \in {seg[q.task].window, "gone"}
                    /\ q.status = "create_error" => seg[q.task].event = NoEvent
                                                    /\ q.event \in {V1(q.task, q.row), V2(q.task, q.row)}
    <3>1. CASE q = r
      <4>1. r.status = "synced" => google'[i] \in {"gone", spec.seg.window}
        BY <1>2, ShowsGood
      <4>2. r.status \in {"synced", "update_error", "create_error"} /\ (r.status # "synced" => worker'.failing)
        BY <1>2
      <4>3. r.status = "create_error" => spec.seg.event = NoEvent
        BY <1>2
      <4>4. spec.seg.event = NoEvent => i \in {V1(T, N), V2(T, N)}
        BY <1>1, IdCases
      <4>5. Standing(T) => seg[T].row = N \/ Waiting(T)
        BY <1>1, <1>8
      <4> QED BY <1>2, <1>8, <3>1, <4>1, <4>2, <4>3, <4>4, <4>5
    <3>2. CASE q # r
      <4>1. q \in worker.results /\ q.task # T
        BY <1>1, <1>2, <2>1, <3>2, SpecIs
      <4>2. q.event \in EarlyEvents(q.task, q.row) /\ q.event \in Events
        BY <4>1 DEF ExportBase, WorkerOK, ExportTypeOK, Workers, Results
      <4>3. google'[q.event] = google[q.event]
        BY <1>1, <1>4, <4>1, <4>2, EarlyApart
      <4>4. /\ q.status \in {"synced", "update_error", "create_error"}
            /\ q.status # "synced" => worker.failing
            /\ Standing(q.task) => seg[q.task].row = q.row \/ Waiting(q.task)
            /\ Placed(seg[q.task]) /\ seg[q.task].row = q.row =>
                 /\ q.status = "synced" => google[q.event] \in {seg[q.task].window, "gone"}
                 /\ q.status = "create_error" => seg[q.task].event = NoEvent
                                                 /\ q.event \in {V1(q.task, q.row), V2(q.task, q.row)}
        BY <1>3, <4>1 DEF WorkInv, ResultsOK
      <4> QED BY <1>3, <4>3, <4>4
    <3> QED BY <3>1, <3>2
  <2> QED BY <1>3, <1>6, <1>7, <2>1 DEF ResultsOK
<1> QED BY <1>9, <1>10, <1>11, <1>12, <1>13 DEF WorkInv

LEMMA WorkStep == ASSUME ExportBase, OneEventInv, WorkInv, ExportNext PROVE WorkInv'
BY ExportCases, TakenWork, ClaimWork, DeletingWork, LoadSpecsWork, PersistWork, EndWork,
   UserDeletesWork, ExportsWork

LEMMA WorkInit == ASSUME ExportInit PROVE WorkInv
<1>1. worker = Idle /\ \A t \in Flexible : ~Placed(seg[t])
  BY NoRowIs, ExportFacts DEF ExportInit, Placed
<1> QED BY <1>1, IdleIs DEF WorkInv, ProcessingOK, StaleOK, SpecsOK, CreatesOK, ResultsOK, Standing

LEMMA StaleIs == ASSUME ExportBase, WorkInv PROVE StaleHasWork
<1>1. ASSUME NEW t \in Flexible \cap alive, Placed(seg[t]), ~Shown(seg[t]) PROVE WillExport(t)
  <2>1. Waiting(t) \/ Working(t)
    BY <1>1 DEF WorkInv, StaleOK, Standing
  <2> QED BY <2>1 DEF Waiting, Working, WillExport, OpenStatuses, SpecOf
<1> QED BY <1>1 DEF StaleHasWork

\* A command that is not an undo or a deferral has the events deleted that
\* belong to no segment any more.
Losses ==
  \A t \in Flexible, e \in Events :
    seg[t].event = e =>
      \/ \E u \in Tasks : seg'[u].event = e
      \/ \E c \in 1 .. MaxCommands :
           c = commands + 1 /\ operation'[c].status = "queued" /\ (e \in Doomed(operation[c]))'

LEMMA PlaceLosses ==
  ASSUME ExportBase, NEW windows \in [Flexible -> Windows \cup {Unplaced}], Place(windows)
  PROVE  Losses
<1>1. PICK n \in 1 .. MaxCommands : n = commands + 1 /\ n \in 0 .. MaxCommands
  BY CommandedIs DEF Place
<1>2. /\ operation'[n].status = "queued" /\ operation'[n].kind = "reconcile" /\ operation'[n].of = n
  <2>1. operation' = Queued("reconcile", n, {}) /\ {} \in SUBSET (Tasks \cup Events)
    BY <1>1 DEF Place
  <2> QED BY <1>1, <2>1, QueuedIs
<1>3. schedule'[n].status = "applied" /\ schedule'[n].before = seg /\ schedule'[n].after = seg'
  BY <1>1 DEF Place
<1>4. ASSUME NEW t \in Flexible, NEW e \in Events, seg[t].event = e, \A u \in Tasks : seg'[u].event # e
      PROVE  e \in Orphans(schedule'[n])
  <2>1. t \in Tasks /\ SegOK(t, seg[t])
    BY ExportFacts DEF ExportBase, SegmentsOK
  <2>2. Ours(seg[t])
    BY <1>4, <2>1, ExportFacts DEF SegOK, Ours
  <2>3. e \notin EventsOf(schedule'[n].after)
    BY <1>3, <1>4 DEF EventsOf
  <2>4. e \in {seg[v].event : v \in {u \in Tasks : Ours(seg[u])}}
    BY <1>4, <2>1, <2>2
  <2> QED BY <1>3, <2>3, <2>4 DEF Orphans
<1>5. (Doomed(operation[n]))' = Orphans(schedule'[n])
  BY <1>2 DEF Doomed, Orphans, EventsOf
<1>6. ASSUME NEW t \in Flexible, NEW e \in Events, seg[t].event = e, \A u \in Tasks : seg'[u].event # e
      PROVE  (e \in Doomed(operation[n]))'
  BY <1>4, <1>5, <1>6
<1> QED BY <1>1, <1>2, <1>6 DEF Losses

LEMMA DeleteLosses == ASSUME ExportBase, NEW u \in Tasks, DeleteTask(u) PROVE Losses
<1>1. PICK n \in 1 .. MaxCommands : n = commands + 1
  BY CommandedIs DEF DeleteTask
<1>2. \A t \in Tasks \ {u} : seg'[t] = seg[t]
  BY SegmentGone DEF DeleteTask
<1>3. ASSUME u \in Flexible, NEW e \in Events, seg[u].event = e
      PROVE  operation'[n].status = "queued" /\ (e \in Doomed(operation[n]))'
  <2>1. SegOK(u, seg[u])
    BY DEF ExportBase, SegmentsOK
  <2>2. OwnedEvents(u) = {e}
    BY <1>3, <2>1, ExportFacts DEF SegOK, Ours, OwnedEvents
  <2>3. operation' = Queued("delete", 0, {e})
    BY <2>2 DEF DeleteTask
  <2>4. operation'[n].status = "queued" /\ operation'[n].kind = "delete" /\ operation'[n].about = {e}
    BY <1>1, <2>3, QueuedIs, ExportFacts
  <2>5. (Doomed(operation[n]))' = {e}
    BY <2>4 DEF Doomed
  <2> QED BY <2>4, <2>5
<1> QED BY <1>1, <1>2, <1>3, ExportFacts DEF Losses

LEMMA RequestLosses ==
  ASSUME ExportBase, NEW t \in Tasks, RequestExport(t) \/ RequestDelete(t) \/ \E w \in Windows : MoveFixed(t, w)
  PROVE  Losses
<1>1. CASE RequestExport(t) \/ RequestDelete(t)
  BY <1>1, ExportFacts DEF RequestExport, RequestDelete, Losses
<1>2. CASE \E w \in Windows : MoveFixed(t, w)
  <2>1. PICK w \in Windows : MoveFixed(t, w)
    BY <1>2
  <2>2. t \notin Flexible /\ \A u \in Tasks : u # t => seg'[u] = seg[u]
    BY <2>1, ExportFacts DEF MoveFixed, ExportBase, ExportTypeOK
  <2> QED BY <2>2, ExportFacts DEF Losses
<1> QED BY <1>1, <1>2

LEMMA LossesAre == ASSUME ExportBase, ExportNext, commands' # commands, Clean' PROVE Losses
<1>1. ~Process /\ ~Abort
  BY ExportsIs, PersistIs, LoadIs, LoadSpecsIs, DeleteEventIs, AbortIs DEF Process, Rest, Exports
<1>2. \A c \in 1 .. commands : ~Claim(c) /\ ~Undo(c)
  BY ClaimIs DEF Rest, Undo, Clean
<1>3. \A e \in Events : ~UserDeletes(e)
  BY UserDeletesIs DEF Rest
<1>4. \A t \in Tasks : ~Defer(t)
  BY DEF Defer, Clean
<1> QED BY <1>1, <1>2, <1>3, <1>4, PlaceLosses, DeleteLosses, RequestLosses DEF ExportNext

\* The events an operation deletes stay the same.
LEMMA DoomedTaken ==
  ASSUME ExportBase, Taken, ~undone', NEW c \in 1 .. commands
  PROVE  operation'[c] = operation[c] /\ c \in 1 .. commands' /\ (Doomed(operation[c]))' = Doomed(operation[c])
<1>1. commands \in Nat /\ commands' = commands + 1 /\ commands + 1 \in 1 .. MaxCommands /\ MaxCommands \in Nat
  BY ExportFacts DEF ExportBase, ExportTypeOK, Taken
<1>2. \A d \in 1 .. commands : d \in 1 .. MaxCommands /\ d # commands + 1 /\ d \in 1 .. commands'
  BY <1>1
<1>3. operation'[c] = operation[c]
  BY <1>2 DEF Taken, OperationTaken
<1>4. CASE operation[c].kind = "reconcile"
  <2>1. PICK d \in 1 .. commands : d = operation[c].of
    BY <1>2, <1>4 DEF ExportBase, OperationsOK
  <2>2. /\ schedule'[d].before = schedule[d].before /\ schedule'[d].after = schedule[d].after
        /\ schedule'[d].status = schedule[d].status
    BY <1>2 DEF Taken, ScheduleTaken
  <2>3. (Doomed(operation[c]))' = Orphans(schedule'[d])
    BY <1>3, <1>4, <2>1 DEF Doomed, Orphans, EventsOf
  <2>4. Doomed(operation[c]) = Orphans(schedule[d])
    BY <1>4, <2>1 DEF Doomed
  <2>5. Orphans(schedule'[d]) = Orphans(schedule[d])
    BY <2>2 DEF Orphans
  <2> QED BY <1>2, <1>3, <2>3, <2>4, <2>5
<1>5. CASE operation[c].kind # "reconcile"
  BY <1>2, <1>3, <1>5 DEF Doomed
<1> QED BY <1>4, <1>5

LEMMA DoomedSame ==
  ASSUME schedule' = schedule, NEW c, operation'[c].kind = operation[c].kind,
         operation'[c].of = operation[c].of, operation'[c].about = operation[c].about
  PROVE  (Doomed(operation[c]))' = Doomed(operation[c])
BY DEF Doomed, Orphans, EventsOf

LEMMA TakenStray ==
  ASSUME ExportBase, StrayInv, ExportNext, Taken PROVE StrayInv'
<1> SUFFICES ASSUME Clean' PROVE StrayInv'
  BY DEF StrayInv, MatchOK, AccountedOK
<1>1. /\ commands \in Nat /\ commands + 1 \in 1 .. MaxCommands /\ commands' = commands + 1
      /\ google' = google /\ worker' = worker
  BY ExportFacts DEF ExportBase, ExportTypeOK, Taken
<1>2. Clean /\ ~Begun /\ ~undone'
  BY DEF Clean, Taken
<1>3. worker.pc = "idle" /\ \A c \in 1 .. commands : operation[c].status \notin {"retrying", "failed"}
  BY <1>2 DEF Begun
<1>4. worker.specs = {} /\ worker.results = {} /\ ~worker.failing
  BY <1>3 DEF ExportBase, WorkerOK
<1>5. MatchOK'
  BY <1>1, <1>3, <1>4 DEF MatchOK
<1>6. ASSUME NEW e \in Events, google'[e] \in Windows PROVE (Held(e) \/ ToDelete(e) \/ Unsaved(e))'
  <2>1. Held(e) \/ ToDelete(e) \/ Unsaved(e)
    BY <1>1, <1>2, <1>6 DEF StrayInv, AccountedOK
  <2>2. ~Unsaved(e)
    BY <1>3, <1>4 DEF Unsaved, ToSave
  <2>3. CASE ToDelete(e)
    <3>1. PICK c \in 1 .. commands : e \in Doomed(operation[c]) /\ operation[c].status \in OpenStatuses
      BY <1>3, <2>3 DEF ToDelete
    <3>2. operation'[c] = operation[c] /\ c \in 1 .. commands' /\ (Doomed(operation[c]))' = Doomed(operation[c])
      BY <1>2, DoomedTaken
    <3>3. (e \in Doomed(operation[c]))'
      BY <3>1, <3>2
    <3> QED BY <3>1, <3>2, <3>3 DEF ToDelete
  <2>4. CASE Held(e)
    <3>1. PICK t \in Tasks : seg[t].event = e
      BY <2>4 DEF Held
    <3>2. t \in Flexible
      <4>1. SegOK(t, seg[t])
        BY DEF ExportBase, SegmentsOK
      <4> QED BY <3>1, <4>1, ExportFacts, EventsApart DEF SegOK
    <3>3. Losses
      BY <1>1, LossesAre
    <3>4. CASE \E u \in Tasks : seg'[u].event = e
      BY <3>4 DEF Held
    <3>5. ASSUME NEW c \in 1 .. MaxCommands, c = commands + 1, operation'[c].status = "queued",
                 (e \in Doomed(operation[c]))'
          PROVE  ToDelete(e)'
      <4>1. c \in 1 .. commands'
        BY <1>1, <3>5
      <4> QED BY <3>5, <4>1 DEF ToDelete, OpenStatuses
    <3> QED BY <3>1, <3>2, <3>3, <3>4, <3>5 DEF Losses
  <2> QED BY <2>1, <2>2, <2>3, <2>4
<1> QED BY <1>5, <1>6 DEF StrayInv, AccountedOK

LEMMA OwedFade ==
  ASSUME ExportBase, NEW t \in Flexible, NEW e \in Events, Owed(t, e), UNCHANGED <<seg, alive>>,
         \A x \in Events : google[x] = "gone" => google'[x] = "gone", google'[e] # "gone"
  PROVE  Owed(t, e)'
<1>1. Standing(t) /\ Creates(seg[t]) /\ IdFor(SpecOf(t)) = e
  BY DEF Owed
<1>2. FirstOf(t, seg[t]) \in Events
  BY <1>1, FirstIs DEF Standing
<1>3. IdFor(SpecOf(t)) = IF google[FirstOf(t, seg[t])] = "gone" THEN V2(t, seg[t].row) ELSE FirstOf(t, seg[t])
  BY <1>1 DEF IdFor, SpecOf, FirstOf, FirstId, NextId, V1, V2
<1>4. IdFor(SpecOf(t))' = IF google'[FirstOf(t, seg[t])] = "gone" THEN V2(t, seg[t].row) ELSE FirstOf(t, seg[t])
  BY <1>1 DEF IdFor, SpecOf, FirstOf, FirstId, NextId, V1, V2, Creates
<1>5. IdFor(SpecOf(t))' = e
  BY <1>1, <1>2, <1>3, <1>4
<1>6. Standing(t)' /\ Creates(seg[t])'
  BY <1>1 DEF Standing, Creates
<1> QED BY <1>5, <1>6 DEF Owed

\* Steps that leave the rows alone and make no event.
LEMMA QuietStray ==
  ASSUME ExportBase, StrayInv, UNCHANGED <<seg, alive, overlapped, undone, deferred>>, MatchOK',
         Fading, worker'.results \subseteq worker.results,
         Clean => \A e \in Events : google'[e] \in Windows /\ ToDelete(e) => ToDelete(e)',
         \A t \in Flexible : Standing(t) /\ ToSave(t) => ToSave(t)'
  PROVE  StrayInv'
<1> SUFFICES ASSUME Clean, NEW e \in Events, google'[e] \in Windows
             PROVE  (Held(e) \/ ToDelete(e) \/ Unsaved(e))'
  BY DEF StrayInv, AccountedOK, Clean
<1>1. google[e] \in Windows /\ google'[e] # "gone"
  BY ExportFacts DEF Fading
<1>2. Held(e) \/ ToDelete(e) \/ Unsaved(e)
  BY <1>1 DEF StrayInv, AccountedOK
<1>3. Held(e) => Held(e)'
  BY DEF Held
<1>4. ToDelete(e) => ToDelete(e)'
  OBVIOUS
<1>5. ASSUME Unsaved(e) PROVE Unsaved(e)'
  <2>1. PICK t \in Flexible :
          Owed(t, e) /\ ToSave(t) /\ \A r \in worker.results : r.task = t => r.event = e
    BY <1>5 DEF Unsaved
  <2>2. Owed(t, e)'
    BY <1>1, <2>1, OwedFade DEF Fading
  <2>3. ToSave(t)'
    BY <2>1 DEF Owed
  <2>4. \A r \in worker'.results : r.task = t => r.event = e
    BY <2>1
  <2> QED BY <2>2, <2>3, <2>4 DEF Unsaved
<1> QED BY <1>2, <1>3, <1>4, <1>5

\* The same, when the operations stay as they are and the worker is loading,
\* deleting or about to export.
LEMMA QuietOps ==
  ASSUME UNCHANGED <<operation, schedule, commands>>, NEW e
  PROVE  \A c \in 1 .. commands : /\ c \in 1 .. commands' /\ (Doomed(operation[c]))' = Doomed(operation[c])
                                  /\ operation'[c] = operation[c]
BY DoomedSame

LEMMA ClaimStray == ASSUME ExportBase, StrayInv, NEW c \in 1 .. commands, Claim(c) PROVE StrayInv'
<1>1. /\ worker.pc = "idle" /\ operation' = Set(c, "processing")
      /\ UNCHANGED <<seg, alive, overlapped, undone, deferred, schedule, commands>> /\ Fading
      /\ worker'.pc = "loading" /\ worker'.op = c /\ worker'.specs = {} /\ worker'.results = {}
  BY ClaimIs DEF Rest, Fading
<1>2. MatchOK'
  BY <1>1 DEF MatchOK
<1>3. 1 .. commands \subseteq 1 .. MaxCommands
  BY ExportFacts DEF ExportBase, ExportTypeOK
<1>4. \A d \in 1 .. commands : /\ d # c => operation'[d].status = operation[d].status
                               /\ Exported(operation'[d]) = Exported(operation[d])
                               /\ (Doomed(operation[d]))' = Doomed(operation[d])
  BY <1>1, <1>3, SetIs, DoomedSame
<1>5. ASSUME NEW e \in Events, ToDelete(e) PROVE ToDelete(e)'
  <2>1. PICK d \in 1 .. commands : e \in Doomed(operation[d]) /\ operation[d].status \in OpenStatuses
    BY <1>1, <1>5 DEF ToDelete
  <2>2. (e \in Doomed(operation[d]))'
    BY <1>4, <2>1
  <2>3. d = c \/ operation'[d].status \in OpenStatuses
    BY <1>4, <2>1
  <2> QED BY <1>1, <2>2, <2>3 DEF ToDelete
<1>6. ASSUME NEW t \in Flexible, ToSave(t) PROVE ToSave(t)'
  <2>0. worker.specs = {} /\ ~worker.failing
    BY <1>1 DEF ExportBase, WorkerOK
  <2>1. PICK d \in 1 .. commands : t \in Exported(operation[d]) /\ operation[d].status \in {"retrying", "failed"}
    BY <1>1, <1>6, <2>0 DEF ToSave
  <2>2. (t \in Exported(operation[d]))'
    <3>1. t \in Exported(operation'[d])
      BY <1>4, <2>1
    <3> QED BY <3>1 DEF Exported
  <2>3. d = c \/ operation'[d].status \in {"retrying", "failed"}
    BY <1>4, <2>1
  <2> QED BY <1>1, <2>2, <2>3 DEF ToSave
<1> QED BY <1>1, <1>2, <1>5, <1>6, QuietStray

LEMMA LoadStray == ASSUME ExportBase, StrayInv, Load PROVE StrayInv'
<1>1. /\ UNCHANGED <<seg, alive, overlapped, undone, deferred, schedule, commands, operation>> /\ Fading
      /\ worker.pc = "loading" /\ worker'.pc = "deleting" /\ worker'.op = worker.op
      /\ worker'.orphans = Doomed(operation[worker.op]) /\ worker'.specs = {} /\ worker'.results = {}
      /\ ~worker'.failing
  BY LoadIs DEF Rest, Fading
<1>2. MatchOK'
  BY <1>1 DEF MatchOK
<1>3. ASSUME NEW e \in Events, ToDelete(e) PROVE ToDelete(e)'
  <2>1. PICK d \in 1 .. commands :
          e \in Doomed(operation[d]) /\ (operation[d].status \in OpenStatuses \/ worker.op = d)
    BY <1>3 DEF ToDelete
  <2>2. (e \in Doomed(operation[d]))' /\ operation'[d] = operation[d] /\ d \in 1 .. commands'
    BY <1>1, <2>1, QuietOps
  <2> QED BY <1>1, <2>1, <2>2 DEF ToDelete
<1>4. ASSUME NEW t \in Flexible, ToSave(t) PROVE ToSave(t)'
  BY <1>1, <1>4 DEF ToSave, Exported
<1> QED BY <1>1, <1>2, <1>3, <1>4, QuietStray

LEMMA DeleteEventStray ==
  ASSUME ExportBase, StrayInv, NEW x \in Events \cup Foreign, DeleteEvent(x) PROVE StrayInv'
<1>1. /\ UNCHANGED <<seg, alive, overlapped, undone, deferred, schedule, commands, operation>>
      /\ worker.pc = "deleting" /\ worker'.pc = "deleting" /\ worker'.op = worker.op
      /\ worker'.orphans = worker.orphans \ {x} /\ worker'.specs = {} /\ worker'.results = {}
  BY DeleteEventIs DEF Rest
<1>2. MatchOK'
  BY <1>1 DEF MatchOK
<1>3. Fading /\ (x \in Events => google'[x] \in {"absent", "gone"})
  BY DeleteEventIs DEF Fading
<1>4. ASSUME NEW e \in Events, google'[e] \in Windows, ToDelete(e) PROVE ToDelete(e)'
  <2>1. PICK d \in 1 .. commands :
          e \in Doomed(operation[d])
          /\ (operation[d].status \in OpenStatuses \/ (worker.op = d /\ e \in worker.orphans))
    BY <1>1, <1>4 DEF ToDelete
  <2>2. (e \in Doomed(operation[d]))' /\ operation'[d] = operation[d] /\ d \in 1 .. commands'
    BY <1>1, <2>1, QuietOps
  <2>3. e # x
    BY <1>3, <1>4, ExportFacts
  <2> QED BY <1>1, <2>1, <2>2, <2>3 DEF ToDelete
<1>5. ASSUME NEW t \in Flexible, ToSave(t) PROVE ToSave(t)'
  <2>1. worker.specs = {} /\ ~worker.failing
    BY <1>1 DEF ExportBase, WorkerOK
  <2> QED BY <1>1, <1>5, <2>1 DEF ToSave, Exported
<1> QED BY <1>1, <1>2, <1>3, <1>4, <1>5, QuietStray

LEMMA UserDeletesStray == ASSUME ExportBase, StrayInv, NEW x \in Events, UserDeletes(x) PROVE StrayInv'
<1>1. UNCHANGED <<seg, alive, overlapped, undone, deferred, schedule, commands, operation, worker>>
  BY UserDeletesIs DEF Rest
<1>2. Fading
  BY UserDeletesIs, ExportFacts DEF Fading
<1>3. MatchOK'
  <2> SUFFICES ASSUME Clean PROVE MatchOK'
    BY <1>1 DEF MatchOK, Clean
  <2>1. /\ \A spec \in worker.specs : spec.task \in alive /\ spec.seg = seg[spec.task]
        /\ worker.pc = "exporting" =>
             \A r \in worker.results :
               /\ r.task \in alive /\ seg[r.task].row = r.row /\ Placed(seg[r.task])
               /\ \/ seg[r.task].event = NoEvent \/ seg[r.task].event = r.event
                  \/ google[seg[r.task].event] = "gone"
    BY DEF StrayInv, MatchOK
  <2>2. ASSUME worker.pc = "exporting", NEW r \in worker.results, seg[r.task].event # NoEvent
        PROVE  google[seg[r.task].event] = "gone" => google'[seg[r.task].event] = "gone"
    <3>1. r.task \in Flexible /\ Placed(seg[r.task])
      BY <2>1, <2>2 DEF ExportBase, ExportTypeOK, Workers, Results
    <3>2. seg[r.task].event \in Events
      BY <2>2, <3>1, FirstIs
    <3> QED BY <1>2, <3>2 DEF Fading
  <2>3. \A r \in worker.results : worker.pc = "exporting" =>
             /\ r.task \in alive /\ seg[r.task].row = r.row /\ Placed(seg[r.task])
             /\ \/ seg[r.task].event = NoEvent \/ seg[r.task].event = r.event
                \/ google'[seg[r.task].event] = "gone"
    BY <2>1, <2>2
  <2> QED BY <1>1, <2>1, <2>3 DEF MatchOK
<1>4. ASSUME NEW e \in Events, ToDelete(e) PROVE ToDelete(e)'
  <2>1. PICK d \in 1 .. commands :
          e \in Doomed(operation[d])
          /\ (operation[d].status \in OpenStatuses
              \/ (worker.op = d /\ (worker.pc = "loading" \/ (worker.pc = "deleting" /\ e \in worker.orphans))))
    BY <1>4 DEF ToDelete
  <2>2. (e \in Doomed(operation[d]))' /\ operation'[d] = operation[d] /\ d \in 1 .. commands'
    BY <1>1, <2>1, QuietOps
  <2> QED BY <1>1, <2>1, <2>2 DEF ToDelete
<1>5. ASSUME NEW t \in Flexible, ToSave(t) PROVE ToSave(t)'
  BY <1>1, <1>5 DEF ToSave, Exported, SpecOf
<1> QED BY <1>1, <1>2, <1>3, <1>4, <1>5, QuietStray

LEMMA LoadSpecsStray == ASSUME ExportBase, StrayInv, LoadSpecs PROVE StrayInv'
<1>1. /\ UNCHANGED <<seg, alive, overlapped, undone, deferred, schedule, commands, operation>> /\ Fading
      /\ worker.pc = "deleting" /\ worker.orphans = {} /\ worker'.pc = "exporting"
      /\ worker'.op = worker.op /\ worker'.results = {}
  BY LoadSpecsIs DEF Rest, Fading
<1>2. MatchOK'
  <2>1. \A spec \in worker'.specs : spec.task \in alive /\ spec.seg = seg[spec.task]
    BY LoadSpecsIs
  <2> QED BY <1>1, <2>1 DEF MatchOK
<1>3. ASSUME NEW e \in Events, ToDelete(e) PROVE ToDelete(e)'
  <2>1. PICK d \in 1 .. commands : e \in Doomed(operation[d]) /\ operation[d].status \in OpenStatuses
    BY <1>1, <1>3 DEF ToDelete
  <2>2. (e \in Doomed(operation[d]))' /\ operation'[d] = operation[d] /\ d \in 1 .. commands'
    BY <1>1, <2>1, QuietOps
  <2> QED BY <2>1, <2>2 DEF ToDelete
<1>4. ASSUME NEW t \in Flexible, Standing(t), ToSave(t) PROVE ToSave(t)'
  <2>0. worker.specs = {} /\ ~worker.failing
    BY <1>1 DEF ExportBase, WorkerOK
  <2>1. PICK d \in 1 .. commands :
          t \in Exported(operation[d]) /\ (operation[d].status \in {"retrying", "failed"} \/ worker.op = d)
    BY <1>4 DEF ToSave
  <2>2. worker.op = d => SpecOf(t) \in worker'.specs
    BY <1>4, <2>1, LoadSpecsIs DEF Standing
  <2> QED BY <1>1, <2>1, <2>2 DEF ToSave, Exported, SpecOf
<1> QED BY <1>1, <1>2, <1>3, <1>4, QuietStray

LEMMA EndStray == ASSUME ExportBase, WorkInv, StrayInv, Abort \/ End PROVE StrayInv'
<1>1. PICK st \in {"retrying", "failed", "completed"} :
        operation' = Set(worker.op, st) /\ (st = "completed" => worker.pc = "ending" /\ ~worker.failing)
  BY AbortIs
<1>2. /\ worker.op \in 1 .. commands /\ Fading /\ worker.pc # "idle"
      /\ UNCHANGED <<seg, alive, overlapped, undone, deferred, schedule, commands>>
      /\ worker'.pc = "idle" /\ worker'.specs = {} /\ worker'.results = {}
  BY AbortIs, IdleIs DEF Rest, Abort, End, Fading
<1>3. MatchOK'
  BY <1>2 DEF MatchOK
<1>4. operation[worker.op].status = "processing" /\ (worker.pc = "ending" => worker.specs = {})
  BY <1>2 DEF WorkInv, ProcessingOK, ExportBase, WorkerOK
<1>5. 1 .. commands \subseteq 1 .. MaxCommands
  BY ExportFacts DEF ExportBase, ExportTypeOK
<1>6. \A d \in 1 .. commands : /\ operation'[d].status = IF d = worker.op THEN st ELSE operation[d].status
                               /\ Exported(operation'[d]) = Exported(operation[d])
                               /\ (Doomed(operation[d]))' = Doomed(operation[d])
  BY <1>1, <1>2, <1>5, SetIs, DoomedSame
<1>7. ASSUME NEW e \in Events, ToDelete(e) PROVE ToDelete(e)'
  <2>1. PICK d \in 1 .. commands :
          e \in Doomed(operation[d])
          /\ (operation[d].status \in OpenStatuses \/ (worker.op = d /\ worker.pc \in {"loading", "deleting"}))
    BY <1>7 DEF ToDelete
  <2>2. (e \in Doomed(operation[d]))'
    BY <1>6, <2>1
  <2>3. operation'[d].status \in OpenStatuses
    BY <1>1, <1>4, <1>6, <2>1 DEF OpenStatuses
  <2> QED BY <1>2, <2>2, <2>3 DEF ToDelete
<1>8. ASSUME NEW t \in Flexible, ToSave(t) PROVE ToSave(t)'
  <2>1. PICK d \in 1 .. commands :
          t \in Exported(operation[d])
          /\ (operation[d].status \in {"retrying", "failed"}
              \/ (worker.op = d /\ (worker.pc # "ending" \/ worker.failing)))
    BY <1>4, <1>8 DEF ToSave
  <2>2. (t \in Exported(operation[d]))'
    <3>1. t \in Exported(operation'[d])
      BY <1>6, <2>1
    <3> QED BY <3>1 DEF Exported
  <2>3. operation'[d].status \in {"retrying", "failed"}
    BY <1>1, <1>4, <1>6, <2>1
  <2> QED BY <1>2, <2>2, <2>3 DEF ToSave
<1> QED BY <1>2, <1>3, <1>7, <1>8, QuietStray

LEMMA ExportsStray ==
  ASSUME ExportBase, StrayInv, NEW spec \in worker.specs, Exports(spec) PROVE StrayInv'
<1>1. PICK T \in Flexible, N \in 0 .. MaxCommands, i \in Events :
        T = spec.task /\ N = spec.seg.row /\ i = IdFor(spec) /\ i # NoEvent
        /\ T \in Exported(operation[worker.op]) /\ Placed(spec.seg)
  BY SpecIs, IdIs DEF ExportBase, WorkerOK
<1>2. PICK r \in Results :
        /\ r.task = T /\ r.row = N /\ r.event = i
        /\ worker'.results = worker.results \cup {r}
        /\ \/ worker'.specs = worker.specs \ {spec} /\ worker'.failing = worker.failing
           \/ worker'.specs = {} /\ worker'.failing = TRUE
  BY <1>1, ExportsIs
<1>3. /\ UNCHANGED <<seg, alive, commands, operation, schedule, overlapped, undone, deferred>>
      /\ worker.pc = "exporting" /\ worker'.pc = "exporting" /\ worker'.op = worker.op
      /\ worker.op \in 1 .. commands /\ worker'.specs \subseteq worker.specs
  BY <1>2, ExportsIs DEF Rest
<1>4. \A e \in Events : /\ e # i => google'[e] = google[e]
                        /\ google[e] = "gone" => google'[e] = "gone"
  BY <1>1, ExportsGoogle
<1>5. \A q \in worker.results : q.task # T
  BY <1>1, SpecIs
<1> SUFFICES ASSUME Clean PROVE StrayInv'
  BY <1>3 DEF StrayInv, MatchOK, AccountedOK, Clean
<1>6. /\ \A q \in worker.specs : q.task \in alive /\ q.seg = seg[q.task]
      /\ \A q \in worker.results :
           /\ q.task \in alive /\ seg[q.task].row = q.row /\ Placed(seg[q.task])
           /\ \/ seg[q.task].event = NoEvent \/ seg[q.task].event = q.event
              \/ google[seg[q.task].event] = "gone"
  BY <1>3 DEF StrayInv, MatchOK
<1>7. T \in alive /\ spec.seg = seg[T] /\ Standing(T) /\ spec = SpecOf(T)
  <2>1. spec \in Specs
    BY SpecIs
  <2> QED BY <1>1, <1>6, <2>1 DEF Specs, SpecOf, Standing
<1>8. ASSUME NEW u \in Flexible, Placed(seg[u]), seg[u].event # NoEvent
      PROVE  google[seg[u].event] = "gone" => google'[seg[u].event] = "gone"
  BY <1>4, <1>8, FirstIs
<1>9. MatchOK'
  <2>1. ASSUME NEW q \in worker'.results
        PROVE  /\ q.task \in alive /\ seg[q.task].row = q.row /\ Placed(seg[q.task])
               /\ \/ seg[q.task].event = NoEvent \/ seg[q.task].event = q.event
                  \/ google'[seg[q.task].event] = "gone"
    <3>1. CASE q = r
      <4>1. seg[T].event = NoEvent \/ seg[T].event = i \/ google[seg[T].event] = "gone"
        BY <1>1, <1>7, IdCases
      <4>2. seg[T].row = N /\ Placed(seg[T])
        BY <1>1, <1>7
      <4> QED BY <1>2, <1>7, <1>8, <3>1, <4>1, <4>2
    <3>2. CASE q # r
      <4>1. q \in worker.results /\ q.task \in Flexible
        BY <1>2, <2>1, <3>2 DEF ExportBase, ExportTypeOK, Workers, Results
      <4> QED BY <1>6, <1>8, <4>1
    <3> QED BY <3>1, <3>2
  <2> QED BY <1>3, <1>6, <2>1 DEF MatchOK
<1>10. ASSUME NEW e \in Events, google'[e] \in Windows PROVE (Held(e) \/ ToDelete(e) \/ Unsaved(e))'
  <2>0. google'[e] # "gone"
    BY <1>10, ExportFacts
  <2>1. CASE e = i
    <3>1. CASE Creates(seg[T])
      <4>1. IdFor(SpecOf(T)) = i
        BY <1>1, <1>7
      <4>2. Owed(T, i)
        BY <1>7, <3>1, <4>1 DEF Owed
      <4>3. Owed(T, i)'
        BY <1>3, <1>4, <2>0, <2>1, <4>2, OwedFade
      <4>4. \A q \in worker'.results : q.task = T => q.event = i
        BY <1>2, <1>5
      <4>5. ToSave(T)'
        BY <1>1, <1>2, <1>3 DEF ToSave, Exported
      <4> QED BY <2>1, <4>3, <4>4, <4>5 DEF Unsaved
    <3>2. CASE ~Creates(seg[T])
      <4>1. i = seg[T].event
        BY <1>1, <1>7, <3>2 DEF IdFor, Creates
      <4>2. T \in Tasks
        BY ExportFacts
      <4> QED BY <1>3, <2>1, <4>1, <4>2 DEF Held
    <3> QED BY <3>1, <3>2
  <2>2. CASE e # i
    <3>1. Held(e) \/ ToDelete(e) \/ Unsaved(e)
      BY <1>4, <1>10, <2>2 DEF StrayInv, AccountedOK
    <3>2. Held(e) => Held(e)'
      BY <1>3 DEF Held
    <3>3. ASSUME ToDelete(e) PROVE ToDelete(e)'
      <4>1. PICK d \in 1 .. commands : e \in Doomed(operation[d]) /\ operation[d].status \in OpenStatuses
        BY <1>3, <3>3 DEF ToDelete
      <4>2. (e \in Doomed(operation[d]))' /\ operation'[d] = operation[d] /\ d \in 1 .. commands'
        BY <1>3, <4>1, QuietOps
      <4> QED BY <4>1, <4>2 DEF ToDelete
    <3>4. ASSUME Unsaved(e) PROVE Unsaved(e)'
      <4>1. PICK t \in Flexible :
              Owed(t, e) /\ ToSave(t) /\ \A q \in worker.results : q.task = t => q.event = e
        BY <3>4 DEF Unsaved
      <4>2. t # T
        <5>1. t = T => IdFor(SpecOf(T)) = e
          BY <4>1 DEF Owed
        <5> QED BY <1>1, <1>7, <2>2, <5>1
      <4>3. Owed(t, e)'
        BY <1>3, <1>4, <2>0, <4>1, OwedFade
      <4>4. \A q \in worker'.results : q.task = t => q.event = e
        BY <1>2, <4>1, <4>2
      <4>5. ToSave(t)'
        <5>1. SpecOf(t) # spec
          BY <1>1, <4>2 DEF SpecOf
        <5>2. SpecOf(t)' = SpecOf(t)
          BY <1>3 DEF SpecOf
        <5>3. SpecOf(t) \in worker.specs => SpecOf(t) \in worker'.specs \/ worker'.failing
          BY <1>2, <5>1
        <5>4. worker.failing => worker'.failing
          BY <1>2
        <5> QED BY <1>2, <1>3, <4>1, <5>2, <5>3, <5>4 DEF ToSave, Exported
      <4> QED BY <4>3, <4>4, <4>5 DEF Unsaved
    <3> QED BY <3>1, <3>2, <3>3, <3>4
  <2> QED BY <2>1, <2>2
<1> QED BY <1>9, <1>10 DEF StrayInv, AccountedOK

LEMMA PersistStray == ASSUME ExportBase, StrayInv, Persist PROVE StrayInv'
<1>1. /\ worker.pc = "exporting" /\ worker.specs = {} /\ worker'.pc = "ending" /\ worker'.op = worker.op
      /\ worker'.specs = {} /\ worker'.results = worker.results
      /\ worker'.failing = (worker.failing \/ ~Current)
      /\ UNCHANGED <<alive, commands, schedule, overlapped, undone, deferred, operation, google>>
  BY PersistIs
<1>2. MatchOK'
  BY <1>1 DEF MatchOK
<1> SUFFICES ASSUME Clean, NEW e \in Events, google[e] \in Windows
             PROVE  (Held(e) \/ ToDelete(e) \/ Unsaved(e))'
  BY <1>1, <1>2 DEF StrayInv, AccountedOK, Clean
<1>3. \A r \in worker.results :
        /\ r.task \in alive /\ seg[r.task].row = r.row /\ Placed(seg[r.task])
        /\ \/ seg[r.task].event = NoEvent \/ seg[r.task].event = r.event
           \/ google[seg[r.task].event] = "gone"
  BY <1>1 DEF StrayInv, MatchOK
<1>4. Current
  BY <1>3 DEF Current
<1>5. Held(e) \/ ToDelete(e) \/ Unsaved(e)
  BY DEF StrayInv, AccountedOK
<1>6. ASSUME Held(e) PROVE Held(e)'
  <2>1. PICK t \in Tasks : seg[t].event = e
    BY <1>6 DEF Held
  <2>2. CASE seg'[t] = seg[t]
    BY <2>1, <2>2 DEF Held
  <2>3. ASSUME NEW r \in worker.results, r.task = t, seg'[t].event = r.event PROVE Held(e)'
    <3>1. e = r.event
      BY <1>3, <2>1, <2>3, ExportFacts
    <3> QED BY <2>3, <3>1 DEF Held
  <2> QED BY <2>2, <2>3, PersistIs
<1>7. ASSUME ToDelete(e) PROVE ToDelete(e)'
  <2>1. PICK d \in 1 .. commands : e \in Doomed(operation[d]) /\ operation[d].status \in OpenStatuses
    BY <1>1, <1>7 DEF ToDelete
  <2>2. (e \in Doomed(operation[d]))' /\ operation'[d] = operation[d] /\ d \in 1 .. commands'
    BY <1>1, <2>1, QuietOps
  <2> QED BY <2>1, <2>2 DEF ToDelete
<1>8. ASSUME Unsaved(e) PROVE (Held(e) \/ Unsaved(e))'
  <2>1. PICK t \in Flexible :
          Owed(t, e) /\ ToSave(t) /\ \A q \in worker.results : q.task = t => q.event = e
    BY <1>8 DEF Unsaved
  <2>2. t \in Tasks
    BY ExportFacts
  <2>3. CASE \E r \in worker.results : r.task = t
    <3>1. PICK r \in worker.results : seg'[t].event = r.event /\ r.task = t
      BY <1>4, <2>2, <2>3, PersistIs
    <3> QED BY <2>1, <2>2, <3>1 DEF Held
  <2>4. CASE \A r \in worker.results : r.task # t
    <3>1. seg'[t] = seg[t]
      BY <2>2, <2>4, PersistIs
    <3>2. SpecOf(t)' = SpecOf(t)
      BY <3>1 DEF SpecOf
    <3>3. IdFor(SpecOf(t))' = IdFor(SpecOf(t))
      BY <1>1, <3>2 DEF IdFor, Creates, FirstId, NextId
    <3>4. Owed(t, e)'
      BY <1>1, <2>1, <3>1, <3>3 DEF Owed, Standing, Creates
    <3>5. ToSave(t)'
      BY <1>1, <2>1, <2>4 DEF ToSave, Exported
    <3> QED BY <1>1, <2>1, <3>4, <3>5 DEF Unsaved
  <2> QED BY <2>3, <2>4
<1> QED BY <1>5, <1>6, <1>7, <1>8

LEMMA StrayStep == ASSUME ExportBase, WorkInv, StrayInv, ExportNext PROVE StrayInv'
BY ExportCases, TakenStray, ClaimStray, LoadStray, LoadSpecsStray, PersistStray, EndStray,
   DeleteEventStray, UserDeletesStray, ExportsStray

LEMMA StrayInit == ASSUME ExportInit PROVE StrayInv
<1>1. worker = Idle /\ \A e \in Events : google[e] = "absent"
  BY EventsApart DEF ExportInit
<1> QED BY <1>1, IdleIs, ExportFacts DEF StrayInv, MatchOK, AccountedOK

LEMMA NoStrayIs == ASSUME ExportBase, StrayInv PROVE NoStrayEvents
<1> SUFFICES ASSUME AtRest, Clean, NEW e \in Events, google[e] \in Windows, \A t \in Tasks : seg[t].event # e
             PROVE  FALSE
  BY DEF NoStrayEvents, Stray, Clean
<1>1. /\ worker.pc = "idle" /\ \A c \in 1 .. commands : operation[c].status \in {"none", "completed"}
  BY DEF AtRest
<1>2. worker.specs = {} /\ ~worker.failing
  BY <1>1 DEF ExportBase, WorkerOK
<1>3. ~Held(e) /\ ~ToDelete(e) /\ ~Unsaved(e)
  BY <1>1, <1>2 DEF Held, ToDelete, Unsaved, ToSave, OpenStatuses
<1> QED BY <1>3 DEF StrayInv, AccountedOK

CalendarInv == ExportBase /\ OneEventInv /\ WorkInv /\ StrayInv

\* The invariant depends on the export's variables alone.
LEMMA CalendarStutter == ASSUME CalendarInv, UNCHANGED exportVars PROVE CalendarInv'
<1>1. UNCHANGED <<seg, alive, commands, schedule, operation, google, worker, overlapped, undone, deferred>>
  BY DEF exportVars
<1>2. ExportBase'
  BY ExportStutterBase DEF CalendarInv
<1>3. \A t, n, e : Holds(t, n, e)' <=> Holds(t, n, e)
  BY <1>1 DEF Holds
<1>4. \A e \in Events : google'[e] = google[e] \/ (google[e] # "absent" /\ google'[e] = "gone")
  BY <1>1
<1>5. OneEventInv'
  BY <1>1, <1>3, <1>4, QuietOneEvent DEF CalendarInv
<1>6. WorkInv'
  <2>1. ProcessingOK'
    BY <1>1 DEF CalendarInv, WorkInv, ProcessingOK
  <2>2. \A t \in Flexible : Waiting(t) \/ Working(t) => (Waiting(t) \/ Working(t))'
    BY <1>1 DEF Waiting, Working, Exported, SpecOf
  <2> QED BY <1>1, <1>4, <2>1, <2>2, QuietWork DEF CalendarInv, Fading
<1>7. StrayInv'
  <2>1. MatchOK'
    BY <1>1 DEF CalendarInv, StrayInv, MatchOK, Clean
  <2>2. \A e \in Events : ToDelete(e) => ToDelete(e)'
    <3>1. ASSUME NEW e \in Events, ToDelete(e) PROVE ToDelete(e)'
      <4>1. PICK d \in 1 .. commands :
              e \in Doomed(operation[d])
              /\ (operation[d].status \in OpenStatuses
                  \/ (worker.op = d
                      /\ (worker.pc = "loading" \/ (worker.pc = "deleting" /\ e \in worker.orphans))))
        BY <3>1 DEF ToDelete
      <4>2. (e \in Doomed(operation[d]))' /\ operation'[d] = operation[d] /\ d \in 1 .. commands'
        BY <1>1, <4>1, QuietOps
      <4> QED BY <1>1, <4>1, <4>2 DEF ToDelete
    <3> QED BY <3>1
  <2>3. \A t \in Flexible : ToSave(t) => ToSave(t)'
    BY <1>1 DEF ToSave, Exported, SpecOf
  <2> QED BY <1>1, <1>4, <2>1, <2>2, <2>3, QuietStray DEF CalendarInv, Fading
<1> QED BY <1>2, <1>5, <1>6, <1>7 DEF CalendarInv

LEMMA CalendarStep == ASSUME CalendarInv, ExportNext PROVE CalendarInv'
BY ExportStepBase, OneEventStep, WorkStep, StrayStep DEF CalendarInv

LEMMA CalendarInit == ASSUME ExportInit PROVE CalendarInv
BY ExportInitBase, OneEventInit, WorkInit, StrayInit DEF CalendarInv

-----------------------------------------------------------------------------
(* The two parts together *)

ProjectionsInv == CalendarInv /\ ReminderInv

LEMMA ProjectionsInduction == Spec => []ProjectionsInv
<1>1. Init => ProjectionsInv
  BY CalendarInit, ReminderInitInv DEF Init, ProjectionsInv
<1>2. ProjectionsInv /\ [Next]_projections => ProjectionsInv'
  <2> SUFFICES ASSUME ProjectionsInv, [Next]_projections PROVE ProjectionsInv'
    OBVIOUS
  <2>1. ExportNext \/ UNCHANGED exportVars
    BY DEF Next, projections
  <2>2. ReminderNext \/ UNCHANGED reminderVars
    BY DEF Next, projections
  <2>3. CalendarInv'
    BY <2>1, CalendarStep, CalendarStutter DEF ProjectionsInv
  <2>4. ReminderInv'
    BY <2>2, ReminderStep, ReminderStutter DEF ProjectionsInv
  <2> QED BY <2>3, <2>4 DEF ProjectionsInv
<1> QED BY <1>1, <1>2, PTL DEF Spec

\* Once the reconciliation has caught up, an alarm is for a task that is due at
\* that time, and every task that is due has its reminder, whatever the order of
\* reschedules, ended tasks, preference changes, workers and devices; with the
\* exceptions the two parts name (notifications/reconciliation.py:127-198).
THEOREM RemindersFollowPlan == Spec => []RemindersFollow
<1>1. ProjectionsInv => RemindersFollow
  BY RemindersAreRight DEF ProjectionsInv
<1> QED BY <1>1, ProjectionsInduction, PTL

\* The export never creates, changes or deletes an event that CoachAI did not
\* make, though segments imported from Google hold the ids of such events
\* (calendar_worker.py:267-418).
THEOREM ForeignStays == Spec => ForeignIsUntouched
<1>1. ProjectionsInv /\ [Next]_projections => [\A e \in Foreign : google'[e] = google[e]]_exportVars
  <2> SUFFICES ASSUME ProjectionsInv, [Next]_projections
               PROVE  [\A e \in Foreign : google'[e] = google[e]]_exportVars
    OBVIOUS
  <2>1. ExportNext \/ UNCHANGED exportVars
    BY DEF Next, projections
  <2> QED BY <2>1, ForeignStep DEF ProjectionsInv, CalendarInv
<1> QED BY <1>1, ProjectionsInduction, PTL DEF Spec, ForeignIsUntouched

\* A segment has one live event in Google at most, one whose event is missing or
\* out of date has work waiting, and when all work is done no event is left
\* without its segment, however commands, the worker's steps and failures and
\* the user's own deletions in Google interleave; with the exceptions the three
\* parts name (calendar_worker.py:267-418).
THEOREM CalendarFollowsPlan == Spec => []CalendarFollows
<1>1. ProjectionsInv => CalendarFollows
  BY OneEventIs, StaleIs, NoStrayIs DEF ProjectionsInv, CalendarInv, CalendarFollows
<1> QED BY <1>1, ProjectionsInduction, PTL
=============================================================================
