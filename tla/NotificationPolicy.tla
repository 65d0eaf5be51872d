-------------------------- MODULE NotificationPolicy --------------------------
(***************************************************************************)
(* What NotificationPolicy.decide makes of an event (notifications/        *)
(* policy.py): its channel, when it is due, when it expires, and whether   *)
(* it is suppressed.                                                       *)
(*                                                                         *)
(* Time is counted in slots, DaySlots of them to a day, so that a slot is  *)
(* 24 \div DaySlots hours; DaySlots is a multiple of 6.  The user's        *)
(* timezone is left out: no slot is skipped or repeated.                   *)
(***************************************************************************)
EXTENDS Naturals

CONSTANT DaySlots

ASSUME DayAssumption == DaySlots \in Nat \ {0} /\ DaySlots % 6 = 0

Hours(h) == (h * DaySlots) \div 24

\* The urgency, the channel and the lifetime in hours of an event's type
\* (_DEFAULTS); the type of preferences it falls under; whether its policy
\* suppresses it (lifecycle events), or does unless the user has opted in.
Policy ==
  [reminder |-> [under |-> "reminder", urgent |-> FALSE, local |-> TRUE, hours |-> 2,
                 silent |-> FALSE, optional |-> FALSE],
   applied  |-> [under |-> "schedule", urgent |-> FALSE, local |-> FALSE, hours |-> 24,
                 silent |-> FALSE, optional |-> FALSE],
   unplaced |-> [under |-> "unplaced", urgent |-> TRUE, local |-> FALSE, hours |-> 48,
                 silent |-> FALSE, optional |-> FALSE],
   at_risk  |-> [under |-> "deadline", urgent |-> TRUE, local |-> FALSE, hours |-> 12,
                 silent |-> FALSE, optional |-> FALSE],
   passed   |-> [under |-> "deadline", urgent |-> TRUE, local |-> FALSE, hours |-> 24,
                 silent |-> FALSE, optional |-> FALSE],
   calendar |-> [under |-> "calendar", urgent |-> TRUE, local |-> FALSE, hours |-> 24,
                 silent |-> FALSE, optional |-> FALSE],
   summary  |-> [under |-> "summary", urgent |-> FALSE, local |-> FALSE, hours |-> 12,
                 silent |-> FALSE, optional |-> TRUE],
   focus    |-> [under |-> "coach", urgent |-> FALSE, local |-> FALSE, hours |-> 4,
                 silent |-> FALSE, optional |-> TRUE],
   ended    |-> [under |-> "lifecycle", urgent |-> FALSE, local |-> FALSE, hours |-> 6,
                 silent |-> TRUE, optional |-> FALSE]]

Types == {Policy[k].under : k \in DOMAIN Policy}

\* The preferences of a user: quiet hours, opt-ins, and a row for each type.
UserSettings ==
  [quiet : {<<>>} \cup ((0 .. DaySlots - 1) \X (0 .. DaySlots - 1)), optedIn : BOOLEAN,
   types : [Types -> [enabled : BOOLEAN, local : BOOLEAN, cooldown : Nat]]]

\* quiet is <<>> or the slots of a day at which quiet hours begin and end.
Inside(quiet, slot) ==
  IF quiet[1] > quiet[2] THEN slot >= quiet[1] \/ slot < quiet[2]
                         ELSE quiet[1] <= slot /\ slot < quiet[2]

AreQuiet(quiet, now) ==
  /\ quiet # <<>> /\ quiet[1] # quiet[2]
  /\ Inside(quiet, now % DaySlots)

\* Mutant of QuietEnd: quiet hours end on the day on which they began.
QuietEndSameDay(quiet, now) == (now - (now % DaySlots)) + quiet[2]

\* quiet_hours_end_utc, of a moment in quiet hours: those that began before
\* midnight end on the next day.
QuietEnd(quiet, now) ==
  LET slot == now % DaySlots
      midnight == now - slot
  IN IF quiet[1] > quiet[2] /\ slot >= quiet[1]
     THEN midnight + DaySlots + quiet[2] ELSE midnight + quiet[2]

Later(a, b) == IF a > b THEN a ELSE b

\* An event has a kind and, reminders only, its own time and expiry.  settings
\* has the quiet hours, what the user has opted in to, and for every type the
\* row of notification_type_preferences.
Due(event, now, settings) ==
  LET own == IF event.fire = <<>> THEN now ELSE event.fire[1]
  IN IF AreQuiet(settings.quiet, now) /\ ~Policy[event.kind].urgent
     THEN Later(own, QuietEnd(settings.quiet, now)) ELSE own

Decision(event, now, settings, cooling) ==
  LET policy == Policy[event.kind]
      preference == settings.types[policy.under]
      due == Due(event, now, settings)
      expires == IF event.fire = <<>> THEN Later(now, due) + Hours(policy.hours)
                                      ELSE event.fire[2]
  IN [due |-> due, expires |-> expires,
      local |-> preference.local,
      suppressed |-> \/ policy.silent
                     \/ ~preference.enabled
                     \/ policy.optional /\ ~settings.optedIn
                     \/ cooling
                     \/ due >= expires]
=============================================================================
