--------------------------- MODULE MCNotifications ---------------------------
(***************************************************************************)
(* Events and the notifications made of them, checked in one run: a        *)
(* behaviour is one of the outbox and its workers ("outbox"), of the       *)
(* notifications that the policy makes of events as time passes            *)
(* ("policy"), or of a device that follows them ("inbox").  In "policy"    *)
(* one event arrives, or two of the same type, and two workers decide;     *)
(* in "inbox" the day is short, the events are of three types, and one     *)
(* worker decides.                                                         *)
(*                                                                         *)
(* A slot is four hours.  The events: a reminder from 04:00 to 08:00, a    *)
(* schedule operation, and a task whose deadline is at risk and passes,    *)
(* and which ends.  Quiet hours last from 20:00 to 04:00, or from 04:00    *)
(* to 12:00.                                                               *)
(***************************************************************************)
EXTENDS NotificationOutbox, NotificationInbox, Sequences

VARIABLE part

MCEventOf == <<[kind |-> "reminder", task |-> 1, fire |-> <<1, 2>>],
               [kind |-> "applied", task |-> 0, fire |-> <<>>],
               [kind |-> "ended", task |-> 1, fire |-> <<>>],
               [kind |-> "at_risk", task |-> 1, fire |-> <<>>],
               [kind |-> "passed", task |-> 1, fire |-> <<>>]>>

Saved(quiet, cooldown) ==
  [quiet |-> quiet, optedIn |-> FALSE,
   types |-> [t \in Types |-> [enabled |-> TRUE, local |-> t = "reminder",
                               cooldown |-> IF t = "deadline" THEN cooldown ELSE 0]]]

MCSettings == {Saved(<<5, 1>>, 1), Saved(<<1, 3>>, 0)}

MCInit ==
  /\ part \in {"outbox", "policy", "inbox"}
  /\ Init /\ InboxInit
  /\ part # "policy" => settings.value = Saved(<<5, 1>>, 1)

Arrived == {e \in NoticeIds : queue[e] # "none"}

PolicyStep ==
  /\ InboxNext
  /\ Arrived' \subseteq {4, 5} \/ Cardinality(Arrived') <= 1

OneWorker == CHOOSE w \in InboxWorkers : TRUE

InboxStep ==
  /\ InboxNext
  /\ \A w \in InboxWorkers \ {OneWorker} : UNCHANGED deciding[w]
  /\ now' <= 2 /\ queue'[4] = "none" /\ queue'[5] = "none"
  /\ \A w \in InboxWorkers, e \in NoticeIds : ~Abandon(w, e)

MCNext ==
  /\ UNCHANGED part
  /\ \/ part = "outbox" /\ Next /\ UNCHANGED inboxVars
     \/ part = "policy" /\ PolicyStep /\ UNCHANGED <<touches, mobile, vars>>
     \/ part = "inbox" /\ InboxStep /\ UNCHANGED vars

\* Fairness, for its part.
MCFairness ==
  /\ \A w \in Workers : WF_vars(part = "outbox" /\ Poll(w))
  /\ \A e \in Events : WF_vars(part = "outbox" /\ Elapse(e)) /\ WF_vars(part = "outbox" /\ Lapse(e))

MCSpec == MCInit /\ [][MCNext]_<<vars, inboxVars, part>> /\ MCFairness
=============================================================================
