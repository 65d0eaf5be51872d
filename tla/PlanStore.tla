------------------------------ MODULE PlanStore -----------------------------
(***************************************************************************)
(* What the schedule of a user promises to its clients, with no sessions   *)
(* and no transactions: every change is one atomic step that increases the *)
(* revision of exactly the plans whose contents it may change, and an Undo *)
(* restores what its operation replaced while nothing newer exists.        *)
(*                                                                         *)
(* SMART_SCHEDULING.md states it in words: every plan has a monotonic      *)
(* schedule_revision, stale writes fail without changing anything, Undo is *)
(* operation-level and subject to the same revision protection.            *)
(***************************************************************************)
EXTENDS Naturals

CONSTANTS Plans, Tasks, Unplaced, Unborn, Gone, Ops

VARIABLES revision, planOf, slot, op

storeVars == <<revision, planOf, slot, op>>

Init ==
  /\ planOf \in [Tasks -> Plans \cup {Unborn}]
  /\ revision \in [Plans -> Nat]
  /\ slot = [t \in Tasks |-> Unplaced]
  /\ \A o \in Ops : op[o].status = "none"

Same(t) == planOf'[t] = planOf[t] /\ slot'[t] = slot[t]

\* A step is versioned by the plans S: theirs are the only revisions that
\* change, they increase, and no task of another plan is touched.
VersionedBy(S) ==
  /\ \A p \in S : revision'[p] > revision[p]
  /\ \A p \in Plans \ S : revision'[p] = revision[p]
  /\ \A t \in Tasks : Same(t) \/ (planOf[t] \in S \cup {Unborn} /\ planOf'[t] \in S \cup {Gone})

\* One scheduling operation: it records what it replaced and created, and the
\* revision of each of its plans before and after.
Apply(o) ==
  /\ op[o].status = "none"
  /\ \A q \in Ops \ {o} : op'[q] = op[q]
  /\ op'[o].status = "applied"
  /\ VersionedBy(op'[o].plans)
  /\ \A p \in op'[o].plans : revision[p] <= op'[o].base[p] /\ op'[o].result[p] = revision'[p]
  /\ op'[o].created = {t \in Tasks : planOf[t] = Unborn /\ planOf'[t] # Unborn}
  /\ \A t \in Tasks \ op'[o].created :
       /\ planOf'[t] = planOf[t]
       /\ t \in op'[o].scope => op'[o].before[t] = slot[t]
       /\ t \notin op'[o].scope => Same(t)

\* Undo of one operation, while its plans are at the revisions it produced.
Undo(o) ==
  /\ op[o].status = "applied"
  /\ \A p \in op[o].plans : revision[p] = op[o].result[p]
  /\ VersionedBy(op[o].plans)
  /\ op' = [op EXCEPT ![o].status = "undone"]
  /\ \A t \in Tasks :
       CASE t \in op[o].created -> planOf'[t] = Gone
         [] t \in op[o].scope   -> planOf'[t] = planOf[t] /\ slot'[t] = op[o].before[t]
         [] OTHER               -> Same(t)

\* A change by hand of the tasks of the plans S: of one plan, or of the two
\* between which a task is moved.
Edit(S) ==
  /\ VersionedBy(S)
  /\ UNCHANGED op

Next ==
  \/ \E o \in Ops : Apply(o) \/ Undo(o)
  \/ \E S \in SUBSET Plans : Edit(S)

Spec == Init /\ [][Next]_storeVars
=============================================================================
