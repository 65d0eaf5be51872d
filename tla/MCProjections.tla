---------------------------- MODULE MCProjections ----------------------------
(***************************************************************************)
(* What is derived from the schedule and has to follow it, checked in one  *)
(* run: the events in Google Calendar, and the reminders.  A behaviour is  *)
(* one of the machine that "part" names.                                   *)
(***************************************************************************)
EXTENDS CalendarExport, Reminders

VARIABLE part

projections == <<exportVars, reminderVars, part>>

Init ==
  /\ part \in {"export", "reminders"}
  /\ ExportInit /\ ReminderInit

Next ==
  /\ UNCHANGED part
  /\ \/ part = "export" /\ ExportNext /\ UNCHANGED reminderVars
     \/ part = "reminders" /\ ReminderNext /\ UNCHANGED exportVars

\* A segment has one live event in Google Calendar at most, one whose event is
\* missing or out of date has work waiting, and when all work is done no event
\* is left without its segment (calendar_worker.py:267-418); with the exceptions
\* the three parts name.
CalendarFollows == OneEventPerSegment /\ StaleHasWork /\ NoStrayEvents

\* Once the worker has caught up, alarms are for tasks that are due at that time,
\* and tasks that are due have their reminder (notifications/reconciliation.py:
\* 127-198); with the exceptions the two parts name.
RemindersFollow == AlarmsAreCurrent /\ NoReminderIsLost

Spec == Init /\ [][Next]_projections
=============================================================================
