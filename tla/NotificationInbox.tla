--------------------------- MODULE NotificationInbox ---------------------------
(***************************************************************************)
(* The notifications of a user (notifications/repository.py, service.py,   *)
(* application_services.py): workers make them of events by the policy,    *)
(* the clock and changes of preferences and tasks end them, the user reads *)
(* them and acts on them, and a device pages through them by               *)
(* sync_revision.                                                          *)
(*                                                                         *)
(* Under READ COMMITTED an event is decided on what its transaction reads, *)
(* and its notification is written later.  A revision is taken under the   *)
(* lock of the user's row of notification_sync_state, held until COMMIT,   *)
(* so a transaction's writes are one step.  Leases and retries are the     *)
(* subject of NotificationOutbox, the keys of reminders that of Reminders, *)
(* pushes that of PushDelivery.                                            *)
(***************************************************************************)
EXTENDS NotificationPolicy, FiniteSets, Sequences

CONSTANTS
  EventOf,          \* the events: a sequence of [kind, task, fire]
  Settings,         \* the preferences a user may save
  InboxWorkers,
  InboxPage,        \* rows of a page of sync_since
  InboxHorizon,     \* bound: the last slot
  MaxEvents,        \* bound: events that arrive
  MaxSaves,         \* bound: changes of preferences
  MaxTouches        \* bound: notifications read or acted on

ASSUME InboxAssumption ==
  /\ InboxPage \in Nat \ {0} /\ InboxHorizon \in Nat
  /\ MaxEvents \in Nat /\ MaxSaves \in Nat /\ MaxTouches \in Nat
  /\ EventOf \in Seq([kind : DOMAIN Policy, task : Nat, fire : {<<>>} \cup (Nat \X Nat)])
  /\ Settings \subseteq UserSettings

VARIABLES
  now,
  settings,    \* the settings, and how often they have been saved
  queue,       \* notification_outbox: "none", "queued", "taken" or "over"
  notice,      \* notifications, by event
  syncRevision,   \* notification_sync_state.sync_revision
  deciding,    \* what each worker's transaction has decided
  acting,      \* notifications an action has been accepted for, not written yet
  touches,
  mobile       \* the device: its cursor, the revision its request has read, its rows

inboxVars == <<now, settings, queue, notice, syncRevision, deciding, acting, touches, mobile>>

NoticeIds == DOMAIN EventOf

NoDecision == [at |-> {}, decided |-> 0, decision |-> {}, under |-> {}, after |-> {}]

\* History: when it was decided, under which settings and after which
\* notifications had been delivered, and the worker that made it.
Absent == [status |-> "none", due |-> 0, expires |-> 0, local |-> FALSE, read |-> FALSE,
           acted |-> FALSE, revision |-> 0, made |-> 0, decided |-> 0, under |-> {},
           after |-> {}, by |-> {}]

\* What a device shows of a row.
Seen(row) == [status |-> row.status, read |-> row.read, acted |-> row.acted]

InboxInit ==
  /\ now = 0
  /\ settings \in [value : Settings, saves : {0}]
  /\ queue = [e \in NoticeIds |-> "none"]
  /\ notice = [e \in NoticeIds |-> Absent]
  /\ syncRevision = 0
  /\ deciding = [w \in InboxWorkers |-> NoDecision]
  /\ acting = {} /\ touches = 0
  /\ mobile = [asked |-> {}, cursor |-> 0, shows |-> [e \in NoticeIds |-> Seen(Absent)]]

-----------------------------------------------------------------------------
(* Rows and their revisions *)

Before(which, e) == Cardinality({f \in which : f <= e})

\* Mutant of Ended: the rows keep their revision.
EndedQuietly(rows, which, status, revision) ==
  [e \in NoticeIds |-> IF e \in which THEN [rows[e] EXCEPT !.status = status] ELSE rows[e]]

\* Rows that end, one after the other, each with the next revision.
Ended(rows, which, status, revision) ==
  [e \in NoticeIds |->
     IF e \in which
     THEN [rows[e] EXCEPT !.status = status, !.revision = revision + Before(which, e)]
     ELSE rows[e]]

\* cancel_local_schedules, of a task or of a type.
Local(e) == notice[e].status = "active" /\ notice[e].local
OfTask(task) == {e \in NoticeIds : Local(e) /\ EventOf[e].task = task}
OfTypes(types) == {e \in NoticeIds : Local(e) /\ Policy[EventOf[e].kind].under \in types}

-----------------------------------------------------------------------------
(* Events, the clock, preferences *)

Tick ==
  /\ now < InboxHorizon
  /\ now' = now + 1
  /\ UNCHANGED <<settings, queue, notice, syncRevision, deciding, acting, touches, mobile>>

\* enqueue_event.  A reminder is enqueued before its task has ended.
Arrive(e) ==
  /\ queue[e] = "none" /\ Cardinality({f \in NoticeIds : queue[f] # "none"}) < MaxEvents
  /\ EventOf[e].fire # <<>> => now <= EventOf[e].fire[1]
  /\ queue' = [queue EXCEPT ![e] = "queued"]
  /\ UNCHANGED <<now, settings, notice, syncRevision, deciding, acting, touches, mobile>>

\* What update_preferences stores, and set_type_preference for the types.
Stored(s) == [value |-> s, saves |-> settings.saves + 1]

RowsChanged(s) == {t \in Types : s.types[t] # settings.value.types[t]}

\* Every preference but the opt-ins affects reminders.
TypesAffected(s) ==
  RowsChanged(s) \cup (IF s.quiet # settings.value.quiet THEN {"reminder"} ELSE {})

\* The local schedules of these types are cancelled, and the reminders that
\* wait.  (The reminders that replace them are events.)
SavePreferences(s) ==
  LET which == OfTypes(TypesAffected(s)) IN
  /\ settings.saves < MaxSaves /\ s # settings.value
  /\ settings' = Stored(s)
  /\ queue' = [e \in NoticeIds |->
       IF EventOf[e].kind = "reminder" /\ "reminder" \in TypesAffected(s) /\ queue[e] = "queued"
       THEN "over" ELSE queue[e]]
  /\ notice' = Ended(notice, which, "cancelled", syncRevision)
  /\ syncRevision' = syncRevision + Cardinality(which)
  /\ UNCHANGED <<now, deciding, acting, touches, mobile>>

-----------------------------------------------------------------------------
(* The worker: process_event and expire_due *)

\* Mutant of Cooling: notifications that have ended no longer count.
CoolingWhileActive(e) ==
  LET seconds == settings.value.types[Policy[EventOf[e].kind].under].cooldown IN
  /\ seconds > 0
  /\ \E f \in NoticeIds :
       /\ notice[f].status = "active"
       /\ Policy[EventOf[f].kind].under = Policy[EventOf[e].kind].under
       /\ EventOf[f].task = EventOf[e].task
       /\ notice[f].made + seconds >= now

\* cooldown_active: another notification of this type and task has been made in
\* the last seconds, and was not suppressed; expired and cancelled ones count.
Cooling(e) ==
  LET seconds == settings.value.types[Policy[EventOf[e].kind].under].cooldown IN
  /\ seconds > 0
  /\ \E f \in NoticeIds :
       /\ notice[f].status \notin {"none", "suppressed"}
       /\ Policy[EventOf[f].kind].under = Policy[EventOf[e].kind].under
       /\ EventOf[f].task = EventOf[e].task
       /\ notice[f].made + seconds >= now

Delivered(e) == notice[e].status \notin {"none", "suppressed"}

\* claim_outbox and the reads of a processing transaction.
Decide(w, e) ==
  /\ deciding[w] = NoDecision /\ queue[e] = "queued"
  /\ IF EventOf[e].fire # <<>> /\ EventOf[e].fire[2] <= now
     THEN /\ queue' = [queue EXCEPT ![e] = "over"]
          /\ UNCHANGED deciding
     ELSE /\ queue' = [queue EXCEPT ![e] = "taken"]
          /\ deciding' = [deciding EXCEPT ![w] =
               [at |-> {e}, decided |-> now, under |-> settings.value,
                decision |-> Decision(EventOf[e], now, settings.value, Cooling(e)),
                after |-> {f \in NoticeIds : Delivered(f)}]]
  /\ UNCHANGED <<now, settings, notice, syncRevision, acting, touches, mobile>>

\* The row that create_notification inserts.
Created(w, d, revision) ==
  [status |-> IF d.decision.suppressed THEN "suppressed"
              ELSE IF d.decision.expires <= d.decided THEN "expired" ELSE "active",
   due |-> d.decision.due, expires |-> d.decision.expires, local |-> d.decision.local,
   read |-> FALSE, acted |-> FALSE, revision |-> revision, made |-> now,
   decided |-> d.decided, under |-> d.under, after |-> d.after, by |-> {w}]

\* Its writes and COMMIT.  An event that ends a task first cancels the task's
\* local schedules.
Create(w, e) ==
  LET which == IF EventOf[e].kind = "ended" THEN OfTask(EventOf[e].task) ELSE {}
      rows == Ended(notice, which, "cancelled", syncRevision)
      revision == syncRevision + Cardinality(which) + 1
  IN
  /\ e \in deciding[w].at
  /\ notice' = [rows EXCEPT ![e] = Created(w, deciding[w], revision)]
  /\ syncRevision' = revision
  /\ queue' = [queue EXCEPT ![e] = "over"]
  /\ deciding' = [deciding EXCEPT ![w] = NoDecision]
  /\ UNCHANGED <<now, settings, acting, touches, mobile>>

\* The transaction fails or its worker dies; the event is taken again later.
Abandon(w, e) ==
  /\ e \in deciding[w].at
  /\ queue' = [queue EXCEPT ![e] = "queued"]
  /\ deciding' = [deciding EXCEPT ![w] = NoDecision]
  /\ UNCHANGED <<now, settings, notice, syncRevision, acting, touches, mobile>>

\* expire_due, after every batch.
ExpireDue ==
  LET which == {e \in NoticeIds : notice[e].status = "active" /\ notice[e].expires <= now} IN
  /\ which # {}
  /\ notice' = Ended(notice, which, "expired", syncRevision)
  /\ syncRevision' = syncRevision + Cardinality(which)
  /\ UNCHANGED <<now, settings, queue, deciding, acting, touches, mobile>>

-----------------------------------------------------------------------------
(* The user *)

\* mark_read; a notification that is read already is left alone.
MarkRead(e) ==
  /\ notice[e].status # "none" /\ ~notice[e].read /\ touches < MaxTouches
  /\ notice' = [notice EXCEPT ![e].read = TRUE, ![e].revision = syncRevision + 1]
  /\ syncRevision' = syncRevision + 1
  /\ touches' = touches + 1
  /\ UNCHANGED <<now, settings, queue, deciding, acting, mobile>>

\* mark_acted checks that the notification is active ...
AcceptAction(e) ==
  /\ notice[e].status = "active" /\ ~notice[e].acted /\ touches < MaxTouches
  /\ acting' = acting \cup {e}
  /\ touches' = touches + 1
  /\ UNCHANGED <<now, settings, queue, notice, syncRevision, deciding, mobile>>

\* ... and writes it whatever it has become.
MarkActed(e) ==
  /\ e \in acting
  /\ acting' = acting \ {e}
  /\ notice' = [notice EXCEPT ![e].acted = TRUE, ![e].read = TRUE,
                              ![e].revision = syncRevision + 1]
  /\ syncRevision' = syncRevision + 1
  /\ UNCHANGED <<now, settings, queue, deciding, touches, mobile>>

\* Another event of the user takes a revision (enqueue_event with
\* bump_sync_revision), once here: no row has it.
TakeRevision ==
  /\ touches = 0 /\ touches' = 1
  /\ syncRevision' = syncRevision + 1
  /\ UNCHANGED <<now, settings, queue, notice, deciding, acting, mobile>>

-----------------------------------------------------------------------------
(* The device *)

\* sync_since reads the current revision ...
AskForPage ==
  /\ mobile.asked = {} /\ mobile.cursor < syncRevision
  /\ mobile' = [mobile EXCEPT !.asked = {syncRevision}]
  /\ UNCHANGED <<now, settings, queue, notice, syncRevision, deciding, acting, touches>>

PageRows(current) ==
  LET inRange == {e \in NoticeIds : /\ mobile.cursor < notice[e].revision
                                    /\ notice[e].revision <= current}
  IN {e \in inRange :
        Cardinality({f \in inRange : notice[f].revision < notice[e].revision}) < InboxPage}

\* The revision of the last row, or the current one when there is none.
PageEnd(rows, current) ==
  IF rows = {} THEN current
  ELSE CHOOSE r \in {notice[e].revision : e \in rows} :
         \A e \in rows : notice[e].revision <= r

\* ... and the rows after the cursor, which the device applies.
ReceivePage(current) ==
  LET rows == PageRows(current) IN
  /\ current \in mobile.asked
  /\ mobile' = [asked |-> {}, cursor |-> PageEnd(rows, current),
                shows |-> [e \in NoticeIds |->
                             IF e \in rows THEN Seen(notice[e]) ELSE mobile.shows[e]]]
  /\ UNCHANGED <<now, settings, queue, notice, syncRevision, deciding, acting, touches>>

\* The answer is lost.
LosePage ==
  /\ mobile.asked # {}
  /\ mobile' = [mobile EXCEPT !.asked = {}]
  /\ UNCHANGED <<now, settings, queue, notice, syncRevision, deciding, acting, touches>>

InboxNext ==
  \/ Tick
  \/ \E s \in Settings : SavePreferences(s)
  \/ \E e \in NoticeIds :
       \/ Arrive(e) \/ MarkRead(e) \/ AcceptAction(e) \/ MarkActed(e)
       \/ \E w \in InboxWorkers : Decide(w, e) \/ Create(w, e) \/ Abandon(w, e)
  \/ ExpireDue
  \/ TakeRevision
  \/ AskForPage \/ LosePage
  \/ \E current \in mobile.asked : ReceivePage(current)

InboxSpec == InboxInit /\ [][InboxNext]_inboxVars

-----------------------------------------------------------------------------
(* Properties *)

\* A device whose cursor has reached the user's revision shows every
\* notification as it is: whatever ends, reads or acts on one takes a revision
\* that a page still to come will carry (sync_since,
\* notifications/repository.py:917).
InboxIsCurrent ==
  mobile.asked = {} /\ mobile.cursor = syncRevision =>
    \A e \in NoticeIds : mobile.shows[e] = Seen(notice[e])

\* It is due before it expires, and its quiet hours, as they were when it was
\* decided, are over by then; an urgent one, or one with a time of its own in
\* them, is let through (quiet_hours_end_utc, policy.py:37).
DueInTime(e) ==
  /\ notice[e].due < notice[e].expires /\ notice[e].decided < notice[e].expires
  /\ \/ Policy[EventOf[e].kind].urgent
     \/ EventOf[e].fire # <<>> /\ notice[e].due = EventOf[e].fire[1]
     \/ ~AreQuiet(notice[e].under.quiet, notice[e].due)

\* Whatever the user does, a notification that was delivered is in time.
NoticesAreTimely == \A e \in NoticeIds : Delivered(e) => DueInTime(e)

\* The cooldown under which e was decided.
CooldownOf(e) == notice[e].under.types[Policy[EventOf[e].kind].under].cooldown

\* Of one type about one task: f was made after e, in the cooldown under which
\* it was decided.
InCooldownOf(e, f) ==
  /\ e # f /\ Delivered(e) /\ Delivered(f) /\ EventOf[e].task = EventOf[f].task
  /\ Policy[EventOf[e].kind].under = Policy[EventOf[f].kind].under
  /\ CooldownOf(e) > 0 /\ CooldownOf(f) > 0
  /\ notice[e].made <= notice[f].made /\ notice[f].made <= notice[e].made + CooldownOf(f)

\* e was made while another worker was deciding f.
MadeBeside(e, f) == e \notin notice[f].after /\ notice[e].by # notice[f].by

\* With several workers too, a notification is made in the cooldown of another
\* (cooldown_active, notifications/repository.py:554) only when two workers
\* decide at the same time: no worker makes two within a cooldown, and none
\* makes one that it decides after the other has been written.
NoticesAreSpaced ==
  \A e, f \in NoticeIds : InCooldownOf(e, f) => MadeBeside(e, f)

\* The user gets no second one within a cooldown, however many workers there
\* are.  Two that decide at the same time break it.
CooldownIsKept == \A e, f \in NoticeIds : ~InCooldownOf(e, f)

\* MOBILE_BACKEND_CONTRACTS.md:461-463: "The backend accepts an action only
\* while the notification is active".
ActionsAreOnActive ==
  [][\A e \in NoticeIds : ~notice[e].acted /\ notice[e].acted' => notice[e].status = "active"]_inboxVars
=============================================================================
