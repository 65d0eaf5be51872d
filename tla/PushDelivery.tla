---------------------------- MODULE PushDelivery ----------------------------
(***************************************************************************)
(* Push deliveries (notifications/repository.py, notifications/service.py):*)
(* a notification has one delivery row per target device; workers claim    *)
(* batches of rows under leases, call the push provider outside every      *)
(* transaction and report what it answered; devices refresh their tokens   *)
(* and lose them.                                                          *)
(*                                                                         *)
(* A claim is one transaction under READ COMMITTED: its SELECT is a step   *)
(* and its UPDATEs are another.  Leases lapse and backoffs elapse in steps *)
(* of the environment.  NotificationWorkerConfig makes a lease outlast the *)
(* calls of a whole batch, so that only an abandoned lease lapses.         *)
(***************************************************************************)
EXTENDS Naturals, FiniteSets

CONSTANTS
  Notices,       \* notifications
  Devices,       \* devices of their user
  PushWorkers,
  NoPusher,      \* locked_by IS NULL
  PushAttempts,  \* max_attempts
  Reinstalled,   \* devices whose application is installed anew, once at most
  PushFaults     \* bound: crashes, and answers of a provider that are lost

ASSUME PushAssumption ==
  /\ NoPusher \notin PushWorkers
  /\ PushAttempts \in Nat \ {0} /\ PushFaults \in Nat /\ Reinstalled \subseteq Devices

VARIABLES
  notice,      \* notifications: "none", "active", "obsolete" (active, while its
               \* task or revision has moved on) or "ended" (expired, cancelled)
  delivery,    \* notification_deliveries, by notification and device
  device,      \* notification_devices: the token, 1 or 2, 0 once it has been cleared
  dead,        \* devices whose token 1 the provider no longer knows
  pusher,      \* what each worker has in memory
  accepted,    \* history: how often the provider has taken each delivery
  pushFaults

pushVars == <<notice, delivery, device, dead, pusher, accepted, pushFaults>>

Targets == Notices \X Devices

NoDelivery == [status |-> "none", retries |-> 0, owner |-> NoPusher, due |-> FALSE,
               lapsed |-> FALSE]

\* rows: the token of each row selected, then claimed and not done with; at:
\* the row being sent; answer: what the provider said of it.
FreePusher == [pc |-> "idle", rows |-> <<>>, at |-> {}, answer |-> "none"]

PushInit ==
  /\ notice = [n \in Notices |-> "none"]
  /\ delivery = [t \in Targets |-> NoDelivery]
  /\ device = [d \in Devices |-> 1]
  /\ dead = {}
  /\ pusher = [w \in PushWorkers |-> FreePusher]
  /\ accepted = [t \in Targets |-> 0]
  /\ pushFaults = 0

-----------------------------------------------------------------------------
(* Notifications, devices and time *)

\* delivery_targets: enabled devices with a valid token; all of them, or the
\* primary one (here: any).
Eligible == {d \in Devices : device[d] # 0}
PushTargets == {Eligible} \cup {{d} : d \in Eligible}

\* process_event creates the notification and its deliveries in one
\* transaction.
Notify(n, targets) ==
  /\ notice[n] = "none" /\ targets \in PushTargets
  /\ notice' = [notice EXCEPT ![n] = "active"]
  /\ delivery' = [t \in Targets |->
       IF t[1] = n /\ t[2] \in targets
       THEN [NoDelivery EXCEPT !.status = "queued", !.due = TRUE] ELSE delivery[t]]
  /\ UNCHANGED <<device, dead, pusher, accepted, pushFaults>>

\* The task is finished, started or scheduled again.
BecomesObsolete(n) ==
  /\ notice[n] = "active"
  /\ notice' = [notice EXCEPT ![n] = "obsolete"]
  /\ UNCHANGED <<delivery, device, dead, pusher, accepted, pushFaults>>

\* expires_at passes, or the status becomes expired or cancelled.
NoticeEnds(n) ==
  /\ notice[n] \in {"active", "obsolete"}
  /\ notice' = [notice EXCEPT ![n] = "ended"]
  /\ UNCHANGED <<delivery, device, dead, pusher, accepted, pushFaults>>

\* The application is installed anew: the provider forgets its first token,
\* and the device registers the second when it comes up.
TokenDies(d) ==
  /\ d \in Reinstalled \ dead
  /\ dead' = dead \cup {d}
  /\ UNCHANGED <<notice, delivery, device, pusher, accepted, pushFaults>>

Token(d) == IF d \in dead THEN 2 ELSE 1

\* register_device
Register(d) ==
  /\ device[d] # Token(d)
  /\ device' = [device EXCEPT ![d] = Token(d)]
  /\ UNCHANGED <<notice, delivery, dead, pusher, accepted, pushFaults>>

PushBackoffEnds(t) ==
  /\ delivery[t].status = "queued" /\ ~delivery[t].due
  /\ delivery' = [delivery EXCEPT ![t].due = TRUE]
  /\ UNCHANGED <<notice, device, dead, pusher, accepted, pushFaults>>

AbandonedRow(t) == \A w \in PushWorkers : delivery[t].owner = w => t \notin DOMAIN pusher[w].rows

PushLapses(t) ==
  /\ delivery[t].owner # NoPusher /\ ~delivery[t].lapsed /\ AbandonedRow(t)
  /\ delivery' = [delivery EXCEPT ![t].lapsed = TRUE]
  /\ UNCHANGED <<notice, device, dead, pusher, accepted, pushFaults>>

-----------------------------------------------------------------------------
(* claim_push_deliveries *)

Unlocked(row, status) == [row EXCEPT !.status = status, !.owner = NoPusher, !.lapsed = FALSE]

\* Mutant of Swept: a delivery whose notification has ended stays queued.
SweptRecoverOnly(t) ==
  LET row == delivery[t] IN IF row.lapsed THEN Unlocked(row, row.status) ELSE row

\* The first two UPDATEs: stale leases are given up, and deliveries of
\* notifications that have ended are cancelled, leased ones too.
Swept(t) ==
  LET row == delivery[t] IN
  CASE row.status = "queued" /\ notice[t[1]] = "ended" -> Unlocked(row, "cancelled")
    [] row.status = "queued" /\ row.lapsed             -> Unlocked(row, "queued")
    [] OTHER                                           -> row

\* The SELECT's conditions, of a row as the UPDATEs have left it.
Candidate(t, row) ==
  /\ row.status = "queued" /\ row.retries < PushAttempts /\ row.due /\ row.owner = NoPusher
  /\ notice[t[1]] \in {"active", "obsolete"}
  /\ device[t[2]] # 0

PushRead(w) ==
  LET rows == [t \in Targets |-> Swept(t)]
      candidates == {t \in Targets : Candidate(t, rows[t])}
  IN
  /\ pusher[w].pc = "idle"
  /\ rows # delivery \/ candidates # {}
  /\ delivery' = rows
  /\ pusher' = [pusher EXCEPT ![w] =
       IF candidates = {} THEN FreePusher
       ELSE [FreePusher EXCEPT !.pc = "claim", !.rows = [t \in candidates |-> device[t[2]]]]]
  /\ UNCHANGED <<notice, device, dead, accepted, pushFaults>>

\* Mutant of Takeable: the UPDATE that claims a row asks for the lock alone.
TakeableUnlocked(row) == row.owner = NoPusher

\* The condition of the UPDATE that claims a row: neither attempts nor backoff.
Takeable(row) == row.status = "queued" /\ row.owner = NoPusher

Remaining(h, t) ==
  IF DOMAIN h.rows = {t} THEN FreePusher
  ELSE [FreePusher EXCEPT !.pc = "next", !.rows = [u \in DOMAIN h.rows \ {t} |-> h.rows[u]]]

PushTake(w) ==
  LET taken == {t \in DOMAIN pusher[w].rows : Takeable(delivery[t])} IN
  /\ pusher[w].pc = "claim"
  /\ delivery' = [t \in Targets |->
       IF t \in taken
       THEN [delivery[t] EXCEPT !.owner = w, !.retries = @ + 1] ELSE delivery[t]]
  /\ pusher' = [pusher EXCEPT ![w] =
       IF taken = {} THEN FreePusher
       ELSE [FreePusher EXCEPT !.pc = "next", !.rows = [t \in taken |-> pusher[w].rows[t]]]]
  /\ UNCHANGED <<notice, device, dead, accepted, pushFaults>>

-----------------------------------------------------------------------------
(* process_push_deliveries *)

Held(row, w) == row.owner = w /\ row.status = "queued"

\* A lease that is lost raises out of the loop; the rest of the batch is left
\* to its leases.
Interrupted(w) == pusher' = [pusher EXCEPT ![w] = FreePusher]

\* _push_is_actionable reads the task and its revision; the notification's own
\* status is the one the claim has read.
CancelPush(w, t) ==
  /\ pusher[w].pc = "next" /\ t \in DOMAIN pusher[w].rows
  /\ notice[t[1]] # "active"
  /\ IF Held(delivery[t], w)
     THEN /\ delivery' = [delivery EXCEPT ![t] = Unlocked(@, "cancelled")]
          /\ pusher' = [pusher EXCEPT ![w] = Remaining(@, t)]
     ELSE Interrupted(w) /\ UNCHANGED delivery
  /\ UNCHANGED <<notice, device, dead, accepted, pushFaults>>

\* What the provider answers, by whether it knows the token, and whether it
\* has taken the message.  "unknown" after taking it is an answer that was lost.
Answers(known) ==
  {[says |-> "transient", took |-> FALSE], [says |-> "permanent", took |-> FALSE]} \cup
  IF known
  THEN {[says |-> "accepted", took |-> TRUE], [says |-> "unknown", took |-> TRUE]}
  ELSE {[says |-> "permanent_token", took |-> FALSE]}

SendPush(w, t) ==
  /\ pusher[w].pc = "next" /\ t \in DOMAIN pusher[w].rows
  /\ notice[t[1]] # "obsolete"
  /\ \E a \in Answers(pusher[w].rows[t] = Token(t[2])) :
       /\ a.says = "unknown" => pushFaults < PushFaults
       /\ pushFaults' = IF a.says = "unknown" THEN pushFaults + 1 ELSE pushFaults
       /\ accepted' = IF a.took THEN [accepted EXCEPT ![t] = @ + 1] ELSE accepted
       /\ pusher' = [pusher EXCEPT ![w].pc = "report", ![w].at = {t}, ![w].answer = a.says]
  /\ UNCHANGED <<notice, delivery, device, dead>>

\* mark_push_accepted
ReportAccepted(w, t) ==
  /\ pusher[w].pc = "report" /\ t \in pusher[w].at /\ pusher[w].answer = "accepted"
  /\ IF Held(delivery[t], w)
     THEN /\ delivery' = [delivery EXCEPT ![t] = Unlocked(@, "sent")]
          /\ pusher' = [pusher EXCEPT ![w] = Remaining(@, t)]
     ELSE Interrupted(w) /\ UNCHANGED delivery
  /\ UNCHANGED <<notice, device, dead, accepted, pushFaults>>

AfterFailure(row, says) ==
  IF says \in {"transient", "unknown"} /\ row.retries < PushAttempts
  THEN [Unlocked(row, "queued") EXCEPT !.due = FALSE]
  ELSE Unlocked(row, "failed")

\* mark_push_failed, and invalidate_device_token, which clears whatever token
\* the device has by then.  A lease that goes between its SELECT and its UPDATE
\* fails nothing and raises nothing.
ReportFailed(w, t) ==
  LET says == pusher[w].answer
      cleared == IF says = "permanent_token" THEN [device EXCEPT ![t[2]] = 0] ELSE device
  IN
  /\ pusher[w].pc = "report" /\ t \in pusher[w].at /\ says # "accepted"
  /\ \/ /\ delivery[t].owner = w
        /\ delivery' = [delivery EXCEPT ![t] = AfterFailure(@, says)]
        /\ pusher' = [pusher EXCEPT ![w] = Remaining(@, t)]
        /\ device' = cleared
     \/ /\ delivery[t].owner # w
        /\ UNCHANGED delivery
        /\ \/ Interrupted(w) /\ UNCHANGED device
           \/ pusher' = [pusher EXCEPT ![w] = Remaining(@, t)] /\ device' = cleared
  /\ UNCHANGED <<notice, dead, accepted, pushFaults>>

PusherDies(w) ==
  /\ pusher[w].pc # "idle" /\ pushFaults < PushFaults
  /\ pushFaults' = pushFaults + 1
  /\ Interrupted(w)
  /\ UNCHANGED <<notice, delivery, device, dead, accepted>>

Pushes(w) ==
  \/ PushRead(w) \/ PushTake(w)
  \/ \E t \in Targets : \/ CancelPush(w, t) \/ SendPush(w, t)
                        \/ ReportAccepted(w, t) \/ ReportFailed(w, t)

PushNext ==
  \/ \E n \in Notices : \/ \E targets \in SUBSET Devices : Notify(n, targets)
                        \/ BecomesObsolete(n) \/ NoticeEnds(n)
  \/ \E d \in Devices : TokenDies(d) \/ Register(d)
  \/ \E t \in Targets : PushBackoffEnds(t) \/ PushLapses(t)
  \/ \E w \in PushWorkers : Pushes(w) \/ PusherDies(w)

\* Workers poll and time passes: leases lapse, notifications expire.
PushFairness ==
  /\ \A w \in PushWorkers : WF_pushVars(Pushes(w))
  /\ \A n \in Notices : WF_pushVars(NoticeEnds(n))
  /\ \A t \in Targets : WF_pushVars(PushLapses(t)) /\ WF_pushVars(PushBackoffEnds(t))

PushSpec == PushInit /\ [][PushNext]_pushVars
PushFairSpec == PushSpec /\ PushFairness

-----------------------------------------------------------------------------
(* Properties *)

\* At-least-once, and no worse: the provider takes a message again only after a
\* worker died or an answer was lost, however two workers' claims interleave.
RepeatsNeedFaults == \A t \in Targets : accepted[t] <= 1 + pushFaults

\* Every delivery is sent, fails or is cancelled in the end: a disabled device,
\* a lost lease and a crash in the last attempt leave a row queued that only
\* the expiry of its notification ends.
EveryDeliverySettles ==
  <>[](\A t \in Targets : delivery[t].status \in {"none", "sent", "failed", "cancelled"})
=============================================================================
