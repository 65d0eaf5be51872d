---------------------- MODULE ScheduleOperationsProofs ----------------------
(***************************************************************************)
(* Proofs about ScheduleOperations for every number of plans, tasks,       *)
(* windows, sessions and operations, and every mix of commands.            *)
(*                                                                         *)
(* ScheduleOperations implements PlanStore as long as no client undoes a   *)
(* single-plan operation, nor both places tasks by hand and defers them:   *)
(* these write without comparing what they read, and the runs              *)
(* ScheduleUndoRace and ScheduleWindowRace show what they break.           *)
(*                                                                         *)
(* The argument: a revision never goes back and a plan whose contents      *)
(* change gets a larger one, so what a transaction read still holds when   *)
(* its write phase finds the revisions it read.                            *)
(* Where no other session is beside the Undo of one plan, every Undo finds *)
(* the revisions its operation produced, and events report true ones.      *)
(***************************************************************************)
EXTENDS ScheduleOperations, FiniteSetTheorems, TLAPS

\* The revisions of the plans are natural numbers when the program starts.
LEMMA MembersCounted ==
  ASSUME NEW p, IsFiniteSet(Tasks)
  PROVE  Cardinality(Members(p)) \in Nat
  BY FS_Subset, FS_CardinalityType DEF Members

\* A write phase leaves every plan with a revision, and never a smaller one.
LEMMA BumpedRevisions ==
  ASSUME revision \in [Plans -> Nat], NEW S, NEW n \in Nat
  PROVE  /\ Bumped(S, n) \in [Plans -> Nat]
         /\ \A p \in Plans : Bumped(S, n)[p] >= revision[p]
         /\ \A p \in Plans : p \in S => Bumped(S, n)[p] = revision[p] + n
  BY DEF Bumped

\* Replacing segments gives every task a window or none.
LEMMA RewrittenWindows ==
  ASSUME slot \in [Tasks -> Windows], NEW cover, NEW T, NEW f \in [Tasks -> Windows]
  PROVE  Rewritten(cover, T, f) \in [Tasks -> Windows]
  BY DEF Rewritten, Windows

\* An event reports a revision of one of the plans of its operation.
LEMMA Announced ==
  ASSUME NEW type, NEW o \in Ops, NEW S \in SUBSET Plans, NEW rev \in [Plans -> Nat],
         type \in {"applied", "undone"}
  PROVE  Announce(type, o, rev, S) \subseteq
           [type: {"applied", "undone"}, op: Ops, revision: Nat]
  BY DEF Announce

\* A session that has nothing open is a session.
LEMMA IdleIsSession == Idle \in Session
  BY DEF Idle, Session, Windows, AllKinds

LEMMA NoOperationIsOperation == NoOperation \in Operation
  BY DEF NoOperation, Operation, Windows

-----------------------------------------------------------------------------
(* Type correctness *)

LEMMA TypeInit == Init => TypeOK
  <1> SUFFICES ASSUME Init PROVE TypeOK
    OBVIOUS
  <1>1. revision \in [Plans -> Nat]
    BY MembersCounted, TasksAssumption DEF Init
  <1>2. op \in [Ops -> Operation] /\ sess \in [Sessions -> Session]
    BY IdleIsSession, NoOperationIsOperation DEF Init
  <1> QED
    BY <1>1, <1>2 DEF Init, TypeOK, Windows

\* Opening a transaction gives its session something to work from.
LEMMA BeginApplyType ==
  ASSUME TypeOK, NEW s \in Sessions, NEW kind \in AllKinds, NEW S \in SUBSET Plans,
         NEW T \in SUBSET Tasks, NEW free \in SUBSET Tasks, NEW to \in Plans,
         BeginApply(s, kind, S, T, free, to)
  PROVE  TypeOK'
  <1> DEFINE c == [Idle EXCEPT !.pc = "applying", !.kind = kind, !.plans = S, !.scope = T,
                    !.free = free, !.to = to, !.before = slot,
                    !.seen = [p \in Plans |-> IF p \in S THEN revision[p] ELSE 0]]
  <1>1. c \in Session
    BY DEF Idle, Session, TypeOK
  <1>2. sess' = [sess EXCEPT ![s] = c]
    BY DEF BeginApply
  <1>3. sess' \in [Sessions -> Session]
    BY <1>1, <1>2 DEF TypeOK
  <1> QED
    BY <1>3 DEF TypeOK, BeginApply

LEMMA BeginWindowType ==
  ASSUME TypeOK, NEW s \in Sessions, NEW t \in Tasks, BeginWindow(s, t)
  PROVE  TypeOK'
  <1> DEFINE c == [Idle EXCEPT !.pc = "editing", !.kind = "window", !.scope = {t},
                    !.plans = {planOf[t]}]
  <1>1. c \in Session
    BY DEF Idle, Session, TypeOK, Windows, BeginWindow, Exists, AllKinds
  <1>2. sess' = [sess EXCEPT ![s] = c]
    BY DEF BeginWindow
  <1>3. sess' \in [Sessions -> Session]
    BY <1>1, <1>2 DEF TypeOK
  <1> QED
    BY <1>3 DEF TypeOK, BeginWindow

LEMMA ReleaseType ==
  ASSUME TypeOK, NEW s \in Sessions, Release(s)
  PROVE  sess' \in [Sessions -> Session]
  BY IdleIsSession DEF TypeOK, Release

\* The operation a write phase records is an operation, and so is its event.
LEMMA CommitApplyType ==
  ASSUME TypeOK, NEW s \in Sessions, NEW o \in Ops, NEW f \in [Tasks -> Windows],
         CommitApply(s, o, f)
  PROVE  TypeOK'
  <1> DEFINE c   == sess[s]
             n   == IF c.kind = "add" THEN 2 ELSE 1
             new == c.free \ c.scope
             r   == [status |-> "applied", future |-> c.kind = "future", plans |-> c.plans,
                     scope |-> c.scope, created |-> new,
                     base |-> [p \in Plans |-> IF p \in c.plans THEN c.seen[p] + (n - 1) ELSE 0],
                     result |-> [p \in Plans |-> IF p \in c.plans THEN c.seen[p] + n ELSE 0],
                     before |-> [t \in Tasks |-> IF t \in c.scope THEN c.before[t] ELSE Unplaced]]
  <1>1. c \in Session
    BY DEF TypeOK
  <1>2. n \in Nat /\ n - 1 \in Nat
    OBVIOUS
  <1>3. r \in Operation
    <2>1. c.plans \in SUBSET Plans /\ c.scope \in SUBSET Tasks /\ new \in SUBSET Tasks
      BY <1>1 DEF Session
    <2>2. r.base \in [Plans -> Nat] /\ r.result \in [Plans -> Nat]
      BY <1>1, <1>2 DEF Session
    <2>3. r.before \in [Tasks -> Windows]
      BY <1>1 DEF Session, Windows
    <2> QED
      BY <2>1, <2>2, <2>3 DEF Operation
  <1>4. op' = [op EXCEPT ![o] = r]
    BY DEF CommitApply
  <1>5. op' \in [Ops -> Operation] /\ op'[o] = r
    BY <1>3, <1>4 DEF TypeOK
  <1>6. events' = events \cup Announce("applied", o, r.result, c.plans)
    BY <1>5 DEF CommitApply
  <1>7. events' \subseteq [type: {"applied", "undone"}, op: Ops, revision: Nat]
    <2>1. r.result \in [Plans -> Nat] /\ c.plans \in SUBSET Plans
      BY <1>1, <1>3 DEF Session, Operation
    <2>2. Announce("applied", o, r.result, c.plans) \subseteq
            [type: {"applied", "undone"}, op: Ops, revision: Nat]
      BY <2>1, Announced
    <2> QED
      BY <1>6, <2>2 DEF TypeOK
  <1>8. revision' \in [Plans -> Nat]
    BY <1>2, BumpedRevisions DEF CommitApply, TypeOK
  <1>9. planOf' \in [Tasks -> Plans \cup {Unborn, Gone}]
    BY <1>1 DEF CommitApply, TypeOK, Session
  <1>10. slot' \in [Tasks -> Windows]
    BY RewrittenWindows DEF CommitApply, TypeOK
  <1>11. sess' \in [Sessions -> Session]
    BY ReleaseType DEF CommitApply
  <1> QED
    BY <1>5, <1>7, <1>8, <1>9, <1>10, <1>11 DEF TypeOK, CommitApply

\* What both kinds of Undo write.
LEMMA UndoType ==
  ASSUME TypeOK, NEW s \in Sessions, NEW o \in Ops, Release(s),
         revision' = Bumped(op[o].plans, 1),
         op' = [op EXCEPT ![o].status = "undone"],
         events' = events \cup Announce("undone", o, Restored(op[o]), op[o].plans),
         NEW cover, slot' = Rewritten(cover, op[o].scope, op[o].before),
         NEW fate, planOf' = [t \in Tasks |-> IF t \in fate THEN Gone ELSE planOf[t]],
         started' = started
  PROVE  TypeOK'
  <1>1. op[o] \in Operation
    BY DEF TypeOK
  <1>2. op' \in [Ops -> Operation]
    <2>1. [op[o] EXCEPT !.status = "undone"] \in Operation
      BY <1>1 DEF Operation
    <2> QED
      BY <2>1 DEF TypeOK
  <1>3. events' \subseteq [type: {"applied", "undone"}, op: Ops, revision: Nat]
    <2>1. Restored(op[o]) \in [Plans -> Nat] /\ op[o].plans \in SUBSET Plans
      BY <1>1 DEF Operation, Restored
    <2>2. Announce("undone", o, Restored(op[o]), op[o].plans) \subseteq
            [type: {"applied", "undone"}, op: Ops, revision: Nat]
      BY <2>1, Announced
    <2> QED
      BY <2>2 DEF TypeOK
  <1>4. revision' \in [Plans -> Nat]
    BY BumpedRevisions DEF TypeOK
  <1>5. slot' \in [Tasks -> Windows]
    BY <1>1, RewrittenWindows DEF TypeOK, Operation
  <1>6. planOf' \in [Tasks -> Plans \cup {Unborn, Gone}]
    BY DEF TypeOK
  <1>7. sess' \in [Sessions -> Session]
    BY ReleaseType
  <1> QED
    BY <1>2, <1>3, <1>4, <1>5, <1>6, <1>7 DEF TypeOK

LEMMA CommitWindowType ==
  ASSUME TypeOK, NEW s \in Sessions, NEW t \in Tasks, NEW w \in Slots, CommitWindow(s, t, w)
  PROVE  TypeOK'
  <1>1. revision' \in [Plans -> Nat]
    BY BumpedRevisions DEF CommitWindow, TypeOK
  <1>2. slot' \in [Tasks -> Windows]
    BY DEF CommitWindow, TypeOK, Windows
  <1>3. sess' \in [Sessions -> Session]
    BY ReleaseType DEF CommitWindow
  <1> QED
    BY <1>1, <1>2, <1>3 DEF TypeOK, CommitWindow

\* An edit in one step writes one task and the revisions of its plans.
LEMMA ChangeType ==
  ASSUME TypeOK, NEW t \in Tasks, Change(t)
  PROVE  TypeOK'
  <1>1. Unplaced \in Windows
    BY DEF Windows
  <1>2. ASSUME NEW kind, NEW S, EditTask(kind, t, S),
               slot' \in [Tasks -> Windows], planOf' \in [Tasks -> Plans \cup {Unborn, Gone}]
        PROVE  TypeOK'
    <2>1. revision' \in [Plans -> Nat]
      BY <1>2, BumpedRevisions DEF EditTask, TypeOK
    <2> QED
      BY <1>2, <2>1 DEF EditTask, TypeOK
  <1>3. ASSUME NEW w \in Windows, UpdateTask(t, w) PROVE TypeOK'
    BY <1>2, <1>3 DEF UpdateTask, TypeOK
  <1>4. ASSUME NEW q \in Plans, DeferTask(t, q) PROVE TypeOK'
    BY <1>1, <1>2, <1>4 DEF DeferTask, TypeOK
  <1>5. ASSUME DeleteTask(t) PROVE TypeOK'
    BY <1>1, <1>2, <1>5 DEF DeleteTask, TypeOK
  <1>6. ASSUME StartTask(t) PROVE TypeOK'
    BY <1>6 DEF StartTask, TypeOK
  <1>7. ASSUME NEW p \in Plans, NEW w \in Windows, CreateTask(t, p, w) PROVE TypeOK'
    <2>1. revision' \in [Plans -> Nat]
      BY <1>7, BumpedRevisions DEF CreateTask, TypeOK
    <2> QED
      BY <1>7, <2>1 DEF CreateTask, TypeOK
  <1> QED
    BY <1>3, <1>4, <1>5, <1>6, <1>7 DEF Change

LEMMA TypeStep == TypeOK /\ [Next]_vars => TypeOK'
  <1> SUFFICES ASSUME TypeOK, [Next]_vars PROVE TypeOK'
    OBVIOUS
  <1>1. ASSUME NEW s \in Sessions, Apply(s) PROVE TypeOK'
    <2>1. ASSUME NEW p \in Plans, BeginSchedule(s, p) PROVE TypeOK'
      BY <2>1, BeginApplyType DEF BeginSchedule, Members, AllKinds
    <2>2. ASSUME NEW p \in Plans, BeginMove(s, p) PROVE TypeOK'
      BY <2>2, BeginApplyType DEF BeginMove, Members, AllKinds
    <2>3. ASSUME NEW p \in Plans, NEW t \in Tasks, BeginAdd(s, p, t) PROVE TypeOK'
      BY <2>3, BeginApplyType DEF BeginAdd, Members, AllKinds
    <2>4. ASSUME NEW S \in SUBSET Plans, NEW T \in SUBSET Tasks, NEW new \in SUBSET Tasks,
                 NEW a \in Plans, BeginFuture(s, S, T, new, a)
          PROVE  TypeOK'
      <3>1. T \cup new \in SUBSET Tasks
        OBVIOUS
      <3> QED
        BY <2>4, <3>1, BeginApplyType DEF BeginFuture, AllKinds
    <2> QED
      BY <1>1, <2>1, <2>2, <2>3, <2>4, CommitApplyType DEF Apply
  <1>2. ASSUME NEW s \in Sessions, Undo(s) PROVE TypeOK'
    <2>1. ASSUME NEW o \in Ops, CheckUndo(s, o) PROVE TypeOK'
      <3> DEFINE c == [Idle EXCEPT !.pc = "undoing",
                         !.kind = IF op[o].future THEN "undo_future" ELSE "undo",
                         !.plans = op[o].plans, !.ops = {o}, !.seen = op[o].result]
      <3>1. c \in Session
        BY DEF Idle, Session, TypeOK, Operation, Windows, AllKinds
      <3>2. sess' = [sess EXCEPT ![s] = c]
        BY <2>1 DEF CheckUndo
      <3>3. sess' \in [Sessions -> Session]
        BY <3>1, <3>2 DEF TypeOK
      <3> QED
        BY <2>1, <3>3 DEF TypeOK, CheckUndo
    <2>2. ASSUME NEW o \in Ops, CommitUndo(s, o) PROVE TypeOK'
      BY <2>2, UndoType DEF CommitUndo
    <2>3. ASSUME NEW o \in Ops, CommitUndoFuture(s, o) PROVE TypeOK'
      BY <2>3, UndoType DEF CommitUndoFuture
    <2> QED
      BY <1>2, <2>1, <2>2, <2>3 DEF Undo
  <1>3. ASSUME NEW s \in Sessions, Place(s) PROVE TypeOK'
    BY <1>3, BeginWindowType, CommitWindowType DEF Place
  <1>4. ASSUME NEW s \in Sessions, Rollback(s) PROVE TypeOK'
    BY <1>4, ReleaseType DEF Rollback, TypeOK
  <1>5. ASSUME NEW s \in Sessions, Edit(s) PROVE TypeOK'
    BY <1>5, ChangeType DEF Edit
  <1>6. CASE UNCHANGED vars
    BY <1>6 DEF vars, TypeOK
  <1> QED
    BY <1>1, <1>2, <1>3, <1>4, <1>5, <1>6 DEF Next

\* Every reachable state is one the tables can hold: revisions are natural
\* numbers, a task is in a plan, unborn or gone, and every operation, event
\* and session refers to plans, tasks and operations that exist.
THEOREM TypeCorrect == Spec => []TypeOK
  <1> QED
    BY TypeInit, TypeStep, PTL DEF Spec

-----------------------------------------------------------------------------
(* The history of every plan is linear *)

\* A step that records no new operation and takes back no revision.
LEMMA HistoryKept ==
  ASSUME TypeOK, LinearHistory, TypeOK',
         \A o \in Ops : /\ op'[o].plans = op[o].plans
                        /\ op'[o].base = op[o].base
                        /\ op'[o].result = op[o].result,
         \A p \in Plans : revision'[p] >= revision[p]
  PROVE  LinearHistory'
  <1> SUFFICES ASSUME NEW o1 \in Ops, NEW o2 \in Ops, NEW p \in op'[o1].plans
               PROVE  /\ op'[o1].result[p] <= revision'[p]
                      /\ o1 # o2 /\ p \in op'[o2].plans =>
                           \/ op'[o1].result[p] <= op'[o2].base[p]
                           \/ op'[o2].result[p] <= op'[o1].base[p]
    BY DEF LinearHistory
  <1>1. op[o1] \in Operation /\ op[o2] \in Operation
    BY DEF TypeOK
  <1>2. p \in Plans /\ p \in op[o1].plans
    BY <1>1 DEF Operation
  <1>3. op[o1].result[p] \in Nat /\ revision[p] \in Nat /\ revision'[p] \in Nat
    BY <1>1, <1>2 DEF TypeOK, Operation
  <1>4. op[o1].result[p] <= revision[p]
    BY <1>2 DEF LinearHistory
  <1>5. op'[o1].result[p] <= revision'[p]
    <2>1. revision'[p] >= revision[p] /\ op'[o1].result[p] = op[o1].result[p]
      BY <1>2
    <2> QED
      BY <2>1, <1>3, <1>4
  <1> QED
    BY <1>2, <1>5 DEF LinearHistory

\* A write phase compares the revisions it read with the ones it replaces, so
\* the operation it records starts where the history of each plan ends.
LEMMA CommitApplyHistory ==
  ASSUME TypeOK, LinearHistory, TypeOK',
         NEW s \in Sessions, NEW o \in Ops, NEW f \in [Tasks -> Windows], CommitApply(s, o, f)
  PROVE  LinearHistory'
  <1> DEFINE c == sess[s]
             n == IF c.kind = "add" THEN 2 ELSE 1
  <1>1. c \in Session /\ n \in {1, 2}
    BY DEF TypeOK
  <1>2. \A q \in Ops : q # o => op'[q] = op[q]
    BY DEF CommitApply, TypeOK
  <1>3. /\ op'[o].plans = c.plans
        /\ op'[o].base = [p \in Plans |-> IF p \in c.plans THEN c.seen[p] + (n - 1) ELSE 0]
        /\ op'[o].result = [p \in Plans |-> IF p \in c.plans THEN c.seen[p] + n ELSE 0]
    BY DEF CommitApply, TypeOK
  <1>4. \A p \in c.plans : p \in Plans /\ revision[p] \in Nat /\ revision[p] = c.seen[p]
    BY <1>1 DEF CommitApply, CompareAndSet, Session, TypeOK
  <1>5. \A p \in c.plans : /\ op'[o].base[p] = revision[p] + (n - 1)
                           /\ op'[o].result[p] = revision[p] + n
    BY <1>3, <1>4
  <1>6. revision' = Bumped(c.plans, n)
    BY DEF CommitApply
  <1>7. \A p \in Plans : revision'[p] >= revision[p]
    BY <1>1, <1>6, BumpedRevisions DEF TypeOK
  <1>8. \A p \in c.plans : op'[o].result[p] <= revision'[p]
    <2>1. \A p \in c.plans : revision'[p] = revision[p] + n
      BY <1>1, <1>4, <1>6, BumpedRevisions DEF TypeOK
    <2> QED
      BY <1>1, <1>4, <1>5, <2>1
  <1>9. \A q \in Ops : \A p \in op[q].plans : p \in Plans /\ op[q].result[p] \in Nat
    <2>1. \A q \in Ops : op[q] \in Operation
      BY DEF TypeOK
    <2> QED
      BY <2>1 DEF Operation
  <1>10. \A q \in Ops : \A p \in op[q].plans : op[q].result[p] <= revision[p]
    BY DEF LinearHistory
  <1>11. \A q \in Ops : \A p \in op[q].plans : q # o => op'[q].result[p] <= revision'[p]
    <2>1. \A p \in Plans : revision[p] \in Nat /\ revision'[p] \in Nat
      BY DEF TypeOK
    <2> QED
      BY <1>2, <1>7, <1>9, <1>10, <2>1
  <1>12. \A q \in Ops : \A p \in op[q].plans : q # o /\ p \in c.plans =>
           op'[q].result[p] <= op'[o].base[p]
    BY <1>1, <1>2, <1>4, <1>5, <1>9, <1>10
  <1> SUFFICES ASSUME NEW o1 \in Ops, NEW o2 \in Ops, NEW p \in op'[o1].plans
               PROVE  /\ op'[o1].result[p] <= revision'[p]
                      /\ o1 # o2 /\ p \in op'[o2].plans =>
                           \/ op'[o1].result[p] <= op'[o2].base[p]
                           \/ op'[o2].result[p] <= op'[o1].base[p]
    BY DEF LinearHistory
  <1>13. op'[o1].result[p] <= revision'[p]
    BY <1>2, <1>3, <1>8, <1>11
  <1>14. CASE o1 = o \/ o2 = o
    BY <1>2, <1>3, <1>12, <1>13, <1>14
  <1>15. CASE o1 # o /\ o2 # o
    BY <1>2, <1>13, <1>15 DEF LinearHistory
  <1> QED
    BY <1>14, <1>15

LEMMA HistoryInit == Init => LinearHistory
  BY DEF Init, LinearHistory, NoOperation

LEMMA HistoryStep == TypeOK /\ LinearHistory /\ [Next]_vars => LinearHistory'
  <1> SUFFICES ASSUME TypeOK, LinearHistory, [Next]_vars PROVE LinearHistory'
    OBVIOUS
  <1>1. TypeOK'
    BY TypeStep
  <1>2. \A o \in Ops : op[o] \in Operation
    BY DEF TypeOK
  <1>3. \A p \in Plans : revision[p] \in Nat
    BY DEF TypeOK
  <1>4. ASSUME UNCHANGED <<revision, op>> PROVE LinearHistory'
    BY <1>4 DEF LinearHistory
  <1>5. ASSUME NEW s \in Sessions, NEW o \in Ops, NEW f \in [Tasks -> Windows],
               CommitApply(s, o, f)
        PROVE  LinearHistory'
    BY <1>1, <1>5, CommitApplyHistory
  <1>6. ASSUME NEW s \in Sessions, NEW o \in Ops,
               CommitUndo(s, o) \/ CommitUndoFuture(s, o)
        PROVE  LinearHistory'
    <2>1. revision' = Bumped(op[o].plans, 1) /\ op' = [op EXCEPT ![o].status = "undone"]
      BY <1>6 DEF CommitUndo, CommitUndoFuture
    <2>2. \A p \in Plans : revision'[p] >= revision[p]
      BY <2>1, BumpedRevisions DEF TypeOK
    <2>3. \A q \in Ops : /\ op'[q].plans = op[q].plans
                         /\ op'[q].base = op[q].base
                         /\ op'[q].result = op[q].result
      BY <1>2, <2>1 DEF TypeOK, Operation
    <2> QED
      BY <1>1, <2>2, <2>3, HistoryKept
  <1>7. ASSUME NEW S, revision' = Bumped(S, 1), op' = op PROVE LinearHistory'
    <2>1. \A p \in Plans : revision'[p] >= revision[p]
      BY <1>7, BumpedRevisions DEF TypeOK
    <2> QED
      BY <1>1, <1>7, <2>1, HistoryKept
  <1>8. ASSUME NEW s \in Sessions, Apply(s) PROVE LinearHistory'
    BY <1>4, <1>5, <1>8 DEF Apply, BeginSchedule, BeginMove, BeginAdd, BeginFuture, BeginApply
  <1>9. ASSUME NEW s \in Sessions, Undo(s) PROVE LinearHistory'
    BY <1>4, <1>6, <1>9 DEF Undo, CheckUndo
  <1>10. ASSUME NEW s \in Sessions, Place(s) PROVE LinearHistory'
    BY <1>4, <1>7, <1>10 DEF Place, BeginWindow, CommitWindow
  <1>11. ASSUME NEW s \in Sessions, Edit(s) PROVE LinearHistory'
    BY <1>4, <1>7, <1>11
       DEF Edit, Change, UpdateTask, DeleteTask, DeferTask, EditTask, StartTask, CreateTask
  <1>12. ASSUME NEW s \in Sessions, Rollback(s) PROVE LinearHistory'
    BY <1>4, <1>12 DEF Rollback
  <1>13. CASE UNCHANGED vars
    BY <1>4, <1>13 DEF vars
  <1> QED
    BY <1>8, <1>9, <1>10, <1>11, <1>12, <1>13 DEF Next

\* No two recorded operations of a plan ever start from one revision, in any
\* interleaving of any number of sessions: the comparison in the UPDATE that
\* takes the revision is enough, without locks on what was read.
THEOREM HistoryIsLinear == Spec => []LinearHistory
  <1>1. Init => TypeOK /\ LinearHistory
    BY TypeInit, HistoryInit
  <1>2. TypeOK /\ LinearHistory /\ [Next]_vars => (TypeOK /\ LinearHistory)'
    BY TypeStep, HistoryStep
  <1> QED
    BY <1>1, <1>2, PTL DEF Spec

-----------------------------------------------------------------------------
(* The refinement of PlanStore *)

\* What an open scheduling transaction read, while its revisions are current.
Applying(s) ==
  LET c == sess[s] IN
  /\ c.to \in c.plans
  /\ \A p \in c.plans : c.seen[p] <= revision[p]
  /\ CompareAndSet(s) =>
       /\ c.scope \subseteq TasksIn(c.plans)
       /\ c.kind # "future" => c.scope = TasksIn(c.plans)
       /\ \A t \in c.scope : slot[t] = c.before[t]

\* An Undo of several plans works on one recorded operation.
Undoing(s) ==
  LET c == sess[s] IN
  /\ c.kind = "undo_future"
  /\ \A o \in c.ops :
       /\ op[o].status # "none"
       /\ op[o].plans = c.plans
       /\ op[o].result = c.seen
       /\ CompareAndSet(s) => op[o].status = "applied"

\* A window set by hand will give a new revision to the plan its task is in.
Placing(s) ==
  LET c == sess[s] IN
  /\ "window" \in Kinds
  /\ \A t \in c.scope : planOf[t] \in c.plans \cup {Gone}

\* The tasks of a recorded operation stay in its plans until something newer.
Recorded(o) ==
  LET r == op[o] IN
  r.status # "none" =>
    /\ r.plans # {}
    /\ r.scope \cap r.created = {}
    /\ AtResult(r) => r.scope \cup r.created \subseteq TasksIn(r.plans)

Snapshots ==
  /\ \A s \in Sessions :
       /\ sess[s].pc = "applying" => Applying(s)
       /\ sess[s].pc = "undoing" => Undoing(s)
       /\ sess[s].pc = "editing" => Placing(s)
  /\ \A o \in Ops : Recorded(o)

Inv == TypeOK /\ LinearHistory /\ Snapshots

\* Every command of this instance compares the revision it read, or works on
\* one task that no other command moves to another plan.
CompareOnly == "undo" \notin Kinds /\ ~({"window", "defer"} \subseteq Kinds)

-----------------------------------------------------------------------------
(* Each step is a step of PlanStore *)

LEMMA CommitApplyStep ==
  ASSUME Inv, NEW s \in Sessions, NEW o \in Ops, NEW f \in [Tasks -> Windows],
         CommitApply(s, o, f)
  PROVE  Store!Apply(o)
  <1> DEFINE c   == sess[s]
             n   == IF c.kind = "add" THEN 2 ELSE 1
             new == c.free \ c.scope
             all == c.free \cup c.scope
             cover == IF c.kind = "future" THEN all ELSE TasksIn(c.plans)
  <1>1. c \in Session /\ Applying(s) /\ CompareAndSet(s)
    BY DEF Inv, TypeOK, Snapshots, CommitApply
  <1>2. /\ op'[o].status = "applied"
        /\ op'[o].plans = c.plans
        /\ op'[o].scope = c.scope
        /\ op'[o].created = new
        /\ op'[o].base = [p \in Plans |-> IF p \in c.plans THEN c.seen[p] + (n - 1) ELSE 0]
        /\ op'[o].result = [p \in Plans |-> IF p \in c.plans THEN c.seen[p] + n ELSE 0]
        /\ op'[o].before = [t \in Tasks |-> IF t \in c.scope THEN c.before[t] ELSE Unplaced]
        /\ \A q \in Ops \ {o} : op'[q] = op[q]
    BY DEF CommitApply, Inv, TypeOK
  <1>3. \A p \in c.plans : p \in Plans /\ revision[p] \in Nat /\ revision[p] = c.seen[p]
    BY <1>1 DEF CompareAndSet, Session, Inv, TypeOK
  <1>4. /\ \A p \in c.plans : revision'[p] = revision[p] + n
        /\ \A p \in Plans \ c.plans : revision'[p] = revision[p]
    BY <1>3 DEF CommitApply, Bumped
  <1>5. /\ c.scope \subseteq TasksIn(c.plans)
        /\ c.kind # "future" => c.scope = TasksIn(c.plans)
        /\ \A t \in c.scope : slot[t] = c.before[t]
        /\ c.to \in c.plans
    BY <1>1 DEF Applying
  <1>6. planOf' = [t \in Tasks |-> IF t \in new THEN c.to ELSE planOf[t]]
    BY DEF CommitApply
  <1>7. \A t \in new : t \in Tasks /\ planOf[t] = Unborn
    BY <1>1 DEF CommitApply, Session
  <1>8. slot' = Rewritten(cover, all, f)
    BY DEF CommitApply
  <1>9. \A t \in Tasks \ all : slot'[t] = slot[t]
    BY <1>5, <1>8 DEF Rewritten
  <1>10. Store!VersionedBy(c.plans)
    <2>1. \A p \in c.plans : revision'[p] > revision[p]
      BY <1>3, <1>4
    <2>2. ASSUME NEW t \in Tasks
          PROVE  \/ Store!Same(t)
                 \/ planOf[t] \in c.plans \cup {Unborn} /\ planOf'[t] \in c.plans \cup {Gone}
      <3>1. CASE t \in new
        BY <3>1, <1>5, <1>6, <1>7
      <3>2. CASE t \in c.scope
        BY <3>2, <1>5, <1>6 DEF TasksIn
      <3>3. CASE t \notin all
        BY <3>3, <1>6, <1>9 DEF Store!Same
      <3> QED
        BY <3>1, <3>2, <3>3
    <2> QED
      BY <1>4, <2>1, <2>2 DEF Store!VersionedBy
  <1>11. \A p \in c.plans : revision[p] <= op'[o].base[p] /\ op'[o].result[p] = revision'[p]
    <2>1. n \in {1, 2}
      OBVIOUS
    <2> QED
      BY <1>2, <1>3, <1>4, <2>1
  <1>12. new = {t \in Tasks : planOf[t] = Unborn /\ planOf'[t] # Unborn}
    <2>1. c.to # Unborn
      BY <1>3, <1>5, PlanAssumption
    <2> QED
      BY <2>1, <1>6, <1>7
  <1>13. ASSUME NEW t \in Tasks \ new
         PROVE  /\ planOf'[t] = planOf[t]
                /\ t \in c.scope => op'[o].before[t] = slot[t]
                /\ t \notin c.scope => Store!Same(t)
    <2>1. planOf'[t] = planOf[t]
      BY <1>6
    <2>2. t \in c.scope => op'[o].before[t] = slot[t]
      BY <1>2, <1>5
    <2>3. t \notin c.scope => Store!Same(t)
      BY <2>1, <1>9 DEF Store!Same
    <2> QED
      BY <2>1, <2>2, <2>3
  <1>14. op[o].status = "none"
    BY DEF CommitApply
  <1> QED
    BY <1>2, <1>10, <1>11, <1>12, <1>13, <1>14 DEF Store!Apply

LEMMA CommitUndoFutureStep ==
  ASSUME Inv, NEW s \in Sessions, NEW o \in Ops, CommitUndoFuture(s, o)
  PROVE  Store!Undo(o)
  <1> DEFINE r   == op[o]
             all == r.scope \cup r.created
  <1>1. sess[s] \in Session /\ Undoing(s) /\ CompareAndSet(s) /\ o \in sess[s].ops
    BY DEF Inv, TypeOK, Snapshots, CommitUndoFuture
  <1>2. r \in Operation
    BY DEF Inv, TypeOK
  <1>3. /\ r.status = "applied"
        /\ \A p \in r.plans : p \in Plans /\ revision[p] \in Nat /\ revision[p] = r.result[p]
    BY <1>1, <1>2 DEF Undoing, CompareAndSet, Operation, Inv, TypeOK
  <1>4. r.scope \cap r.created = {} /\ all \subseteq TasksIn(r.plans)
    BY <1>3 DEF Inv, Snapshots, Recorded, AtResult
  <1>5. /\ \A p \in r.plans : revision'[p] > revision[p]
        /\ \A p \in Plans \ r.plans : revision'[p] = revision[p]
    BY <1>3 DEF CommitUndoFuture, Bumped
  <1>6. planOf' = [t \in Tasks |-> IF t \in r.created THEN Gone ELSE planOf[t]]
    BY DEF CommitUndoFuture
  <1>7. slot' = Rewritten(all, r.scope, r.before)
    BY DEF CommitUndoFuture
  <1>8. \A t \in Tasks : t \in r.scope => slot'[t] = r.before[t]
    BY <1>7 DEF Rewritten
  <1>9. \A t \in Tasks : t \notin all => Store!Same(t)
    BY <1>6, <1>7 DEF Rewritten, Store!Same
  <1>10. Store!VersionedBy(r.plans)
    BY <1>4, <1>5, <1>6, <1>9 DEF Store!VersionedBy, TasksIn
  <1>11. \A t \in Tasks :
           CASE t \in r.created -> planOf'[t] = Gone
             [] t \in r.scope   -> planOf'[t] = planOf[t] /\ slot'[t] = r.before[t]
             [] OTHER           -> Store!Same(t)
    <2> SUFFICES ASSUME NEW t \in Tasks
                 PROVE  CASE t \in r.created -> planOf'[t] = Gone
                          [] t \in r.scope   -> planOf'[t] = planOf[t] /\ slot'[t] = r.before[t]
                          [] OTHER           -> Store!Same(t)
      OBVIOUS
    <2>1. CASE t \in r.created
      BY <2>1, <1>4, <1>6
    <2>2. CASE t \in r.scope
      BY <2>2, <1>4, <1>6, <1>8
    <2>3. CASE t \notin all
      BY <2>3, <1>9
    <2> QED
      BY <2>1, <2>2, <2>3
  <1>12. op' = [op EXCEPT ![o].status = "undone"]
    BY DEF CommitUndoFuture
  <1> QED
    BY <1>3, <1>10, <1>11, <1>12 DEF Store!Undo

LEMMA CommitWindowStep ==
  ASSUME Inv, NEW s \in Sessions, NEW t \in Tasks, NEW w \in Slots, CommitWindow(s, t, w)
  PROVE  Store!Edit(sess[s].plans)
  <1> DEFINE c == sess[s]
  <1>1. c \in Session /\ Placing(s) /\ t \in c.scope /\ planOf[t] \in Plans
    BY DEF Inv, TypeOK, Snapshots, CommitWindow, Exists
  <1>2. planOf[t] \in c.plans
    BY <1>1, PlanAssumption DEF Placing
  <1>3. /\ \A p \in c.plans : revision'[p] > revision[p]
        /\ \A p \in Plans \ c.plans : revision'[p] = revision[p]
    <2>1. \A p \in c.plans : p \in Plans /\ revision[p] \in Nat
      BY <1>1 DEF Session, Inv, TypeOK
    <2> QED
      BY <2>1 DEF CommitWindow, Bumped
  <1>4. \A u \in Tasks : u # t => Store!Same(u)
    BY DEF CommitWindow, Store!Same, Inv, TypeOK
  <1>5. planOf'[t] = planOf[t]
    BY DEF CommitWindow
  <1>6. Store!VersionedBy(c.plans)
    BY <1>2, <1>3, <1>4, <1>5 DEF Store!VersionedBy
  <1> QED
    BY <1>6 DEF Store!Edit, CommitWindow

LEMMA CreateTaskStep ==
  ASSUME Inv, NEW t \in Tasks, NEW p \in Plans, NEW w \in Windows, CreateTask(t, p, w)
  PROVE  Store!Edit({p})
  <1>1. /\ revision'[p] > revision[p]
        /\ \A q \in Plans \ {p} : revision'[q] = revision[q]
    BY DEF CreateTask, Bumped, Inv, TypeOK
  <1>2. \A u \in Tasks : u # t => Store!Same(u)
    BY DEF CreateTask, Store!Same, Inv, TypeOK
  <1>3. planOf[t] = Unborn /\ planOf'[t] = p
    BY DEF CreateTask, Inv, TypeOK
  <1> QED
    BY <1>1, <1>2, <1>3 DEF Store!VersionedBy, Store!Edit, CreateTask

LEMMA ChangeStep ==
  ASSUME Inv, NEW t \in Tasks, Change(t)
  PROVE  Store!Next \/ UNCHANGED Store!storeVars
  <1>1. ASSUME NEW kind, NEW S \in SUBSET Plans, EditTask(kind, t, S), planOf[t] \in S,
               planOf'[t] \in S \cup {Gone}, \A u \in Tasks : u # t => Store!Same(u)
        PROVE  Store!Next
    <2>1. /\ \A p \in S : revision'[p] > revision[p]
          /\ \A p \in Plans \ S : revision'[p] = revision[p]
      BY <1>1 DEF EditTask, Bumped, Inv, TypeOK
    <2>2. Store!VersionedBy(S)
      BY <1>1, <2>1 DEF Store!VersionedBy
    <2> QED
      BY <1>1, <2>2 DEF EditTask, Store!Edit, Store!Next
  <1>2. ASSUME NEW w \in Windows, UpdateTask(t, w) PROVE Store!Next
    <2>1. planOf[t] \in Plans /\ planOf'[t] = planOf[t]
      BY <1>2 DEF UpdateTask, EditTask, Exists
    <2>2. \A u \in Tasks : u # t => Store!Same(u)
      BY <1>2 DEF UpdateTask, Store!Same, Inv, TypeOK
    <2> QED
      BY <1>1, <1>2, <2>1, <2>2 DEF UpdateTask
  <1>3. ASSUME NEW q \in Plans, DeferTask(t, q) PROVE Store!Next
    <2>1. planOf[t] \in Plans /\ planOf'[t] = q
      BY <1>3 DEF DeferTask, EditTask, Exists, Inv, TypeOK
    <2>2. \A u \in Tasks : u # t => Store!Same(u)
      BY <1>3 DEF DeferTask, Store!Same, Inv, TypeOK
    <2> QED
      BY <1>1, <1>3, <2>1, <2>2 DEF DeferTask
  <1>4. ASSUME DeleteTask(t) PROVE Store!Next
    <2>1. planOf[t] \in Plans /\ planOf'[t] = Gone
      BY <1>4 DEF DeleteTask, EditTask, Exists, Inv, TypeOK
    <2>2. \A u \in Tasks : u # t => Store!Same(u)
      BY <1>4 DEF DeleteTask, Store!Same, Inv, TypeOK
    <2> QED
      BY <1>1, <1>4, <2>1, <2>2 DEF DeleteTask
  <1>5. ASSUME StartTask(t) PROVE UNCHANGED Store!storeVars
    BY <1>5 DEF StartTask, Store!storeVars
  <1>6. ASSUME NEW p \in Plans, NEW w \in Windows, CreateTask(t, p, w) PROVE Store!Next
    BY <1>6, CreateTaskStep DEF Store!Next
  <1> QED
    BY <1>2, <1>3, <1>4, <1>5, <1>6 DEF Change

LEMMA StoreStep ==
  ASSUME CompareOnly, Inv, [Next]_vars
  PROVE  [Store!Next]_(Store!storeVars)
  <1>1. ASSUME UNCHANGED <<revision, planOf, slot, op>> PROVE UNCHANGED Store!storeVars
    BY <1>1 DEF Store!storeVars
  <1>2. ASSUME NEW s \in Sessions, Apply(s) PROVE [Store!Next]_(Store!storeVars)
    BY <1>1, <1>2, CommitApplyStep
       DEF Apply, BeginSchedule, BeginMove, BeginAdd, BeginFuture, BeginApply, Store!Next
  <1>3. ASSUME NEW s \in Sessions, Undo(s) PROVE [Store!Next]_(Store!storeVars)
    <2>1. ASSUME NEW o \in Ops, CommitUndo(s, o) PROVE FALSE
      BY <2>1 DEF CommitUndo, Inv, Snapshots, Undoing
    <2> QED
      BY <1>1, <1>3, <2>1, CommitUndoFutureStep DEF Undo, CheckUndo, Store!Next
  <1>4. ASSUME NEW s \in Sessions, Place(s) PROVE [Store!Next]_(Store!storeVars)
    <2>1. sess[s].plans \in SUBSET Plans
      BY DEF Inv, TypeOK, Session
    <2> QED
      BY <1>1, <1>4, <2>1, CommitWindowStep DEF Place, BeginWindow, Store!Next
  <1>5. ASSUME NEW s \in Sessions, Edit(s) PROVE [Store!Next]_(Store!storeVars)
    BY <1>5, ChangeStep DEF Edit
  <1>6. ASSUME NEW s \in Sessions, Rollback(s) PROVE UNCHANGED Store!storeVars
    BY <1>1, <1>6 DEF Rollback
  <1>7. CASE UNCHANGED vars
    BY <1>1, <1>7 DEF vars
  <1> QED
    BY <1>2, <1>3, <1>4, <1>5, <1>6, <1>7 DEF Next

-----------------------------------------------------------------------------
(* What a step of PlanStore leaves of a plan whose revision it keeps *)

\* A step keeps plan p as it is, or gives it a larger revision.
Versioned(p) ==
  \/ revision'[p] > revision[p]
  \/ /\ revision'[p] = revision[p]
     /\ \A t \in Tasks : /\ planOf[t] = p <=> planOf'[t] = p
                         /\ planOf[t] = p => slot'[t] = slot[t]

\* Recorded operations stay; one that is undone moves its plans on.
OperationKept(o) ==
  op[o].status # "none" =>
    /\ op'[o].status # "none"
    /\ op'[o].plans = op[o].plans
    /\ op'[o].result = op[o].result
    /\ op'[o].scope = op[o].scope
    /\ op'[o].created = op[o].created
    /\ op'[o].status = op[o].status \/ \A p \in op[o].plans : revision'[p] > revision[p]

\* A task stays in its plan or is deleted.
TaskKept(t) == planOf'[t] \in {planOf[t], Gone} \/ planOf[t] = Unborn

LEMMA VersionedByKeeps ==
  ASSUME TypeOK, TypeOK', NEW S \in SUBSET Plans, Store!VersionedBy(S)
  PROVE  \A p \in Plans : Versioned(p)
  <1> SUFFICES ASSUME NEW p \in Plans PROVE Versioned(p)
    OBVIOUS
  <1>1. CASE p \in S
    BY <1>1 DEF Store!VersionedBy, Versioned
  <1>2. CASE p \notin S
    <2>1. revision'[p] = revision[p]
      BY <1>2 DEF Store!VersionedBy
    <2>2. ASSUME NEW t \in Tasks
          PROVE  /\ planOf[t] = p <=> planOf'[t] = p
                 /\ planOf[t] = p => slot'[t] = slot[t]
      BY <1>2, PlanAssumption DEF Store!VersionedBy, Store!Same
    <2> QED
      BY <2>1, <2>2 DEF Versioned
  <1> QED
    BY <1>1, <1>2

LEMMA StepVersions ==
  ASSUME TypeOK, TypeOK', [Store!Next]_(Store!storeVars)
  PROVE  \A p \in Plans : Versioned(p)
  <1>1. ASSUME NEW o \in Ops, Store!Apply(o) PROVE \A p \in Plans : Versioned(p)
    <2>1. op'[o].plans \in SUBSET Plans
      BY DEF TypeOK, Operation
    <2> QED
      BY <1>1, <2>1, VersionedByKeeps DEF Store!Apply
  <1>2. ASSUME NEW o \in Ops, Store!Undo(o) PROVE \A p \in Plans : Versioned(p)
    <2>1. op[o].plans \in SUBSET Plans
      BY DEF TypeOK, Operation
    <2> QED
      BY <1>2, <2>1, VersionedByKeeps DEF Store!Undo
  <1>3. ASSUME NEW S \in SUBSET Plans, Store!Edit(S) PROVE \A p \in Plans : Versioned(p)
    BY <1>3, VersionedByKeeps DEF Store!Edit
  <1>4. CASE UNCHANGED Store!storeVars
    BY <1>4 DEF Store!storeVars, Versioned
  <1> QED
    BY <1>1, <1>2, <1>3, <1>4 DEF Store!Next

LEMMA StepKeepsOperations ==
  ASSUME TypeOK, TypeOK', [Store!Next]_(Store!storeVars)
  PROVE  \A o \in Ops : OperationKept(o)
  <1>1. ASSUME NEW q \in Ops, Store!Apply(q) PROVE \A o \in Ops : OperationKept(o)
    BY <1>1 DEF Store!Apply, OperationKept
  <1>2. ASSUME NEW q \in Ops, Store!Undo(q) PROVE \A o \in Ops : OperationKept(o)
    <2>1. \A o \in Ops : op[o] \in Operation
      BY DEF TypeOK
    <2>2. op' = [op EXCEPT ![q].status = "undone"]
          /\ \A p \in op[q].plans : revision'[p] > revision[p]
      BY <1>2 DEF Store!Undo, Store!VersionedBy
    <2> QED
      BY <2>1, <2>2 DEF OperationKept, TypeOK, Operation
  <1>3. ASSUME NEW S \in SUBSET Plans, Store!Edit(S) PROVE \A o \in Ops : OperationKept(o)
    BY <1>3 DEF Store!Edit, OperationKept
  <1>4. CASE UNCHANGED Store!storeVars
    BY <1>4 DEF Store!storeVars, OperationKept
  <1> QED
    BY <1>1, <1>2, <1>3, <1>4 DEF Store!Next

\* Where tasks are placed by hand, no command moves one to another plan.
LEMMA StepKeepsTasks ==
  ASSUME CompareOnly, "window" \in Kinds, Inv, [Next]_vars
  PROVE  \A t \in Tasks : TaskKept(t)
  <1>1. ASSUME planOf' = planOf PROVE \A t \in Tasks : TaskKept(t)
    BY <1>1 DEF TaskKept
  <1>2. ASSUME NEW s \in Sessions, Apply(s) PROVE \A t \in Tasks : TaskKept(t)
    <2>1. ASSUME NEW o \in Ops, NEW f \in [Tasks -> Windows], CommitApply(s, o, f)
          PROVE  \A t \in Tasks : TaskKept(t)
      BY <2>1 DEF CommitApply, TaskKept
    <2> QED
      BY <1>1, <1>2, <2>1 DEF Apply, BeginSchedule, BeginMove, BeginAdd, BeginFuture, BeginApply
  <1>3. ASSUME NEW s \in Sessions, Undo(s) PROVE \A t \in Tasks : TaskKept(t)
    BY <1>1, <1>3 DEF Undo, CheckUndo, CommitUndo, CommitUndoFuture, TaskKept
  <1>4. ASSUME NEW s \in Sessions, Place(s) PROVE \A t \in Tasks : TaskKept(t)
    BY <1>1, <1>4 DEF Place, BeginWindow, CommitWindow
  <1>5. ASSUME NEW s \in Sessions, Edit(s) PROVE \A t \in Tasks : TaskKept(t)
    <2> SUFFICES ASSUME NEW t \in Tasks, Change(t) PROVE \A u \in Tasks : TaskKept(u)
      BY <1>5 DEF Edit
    <2>1. ASSUME NEW q \in Plans, DeferTask(t, q) PROVE FALSE
      BY <2>1 DEF DeferTask, EditTask, CompareOnly
    <2>2. ASSUME NEW w \in Windows, UpdateTask(t, w) PROVE planOf' = planOf
      BY <2>2 DEF UpdateTask
    <2>3. ASSUME DeleteTask(t) PROVE \A u \in Tasks : TaskKept(u)
      BY <2>3 DEF DeleteTask, TaskKept, Inv, TypeOK
    <2>4. ASSUME StartTask(t) PROVE planOf' = planOf
      BY <2>4 DEF StartTask
    <2>5. ASSUME NEW p \in Plans, NEW w \in Windows, CreateTask(t, p, w)
          PROVE  \A u \in Tasks : TaskKept(u)
      BY <2>5 DEF CreateTask, TaskKept, Inv, TypeOK
    <2> QED
      BY <1>1, <2>1, <2>2, <2>3, <2>4, <2>5 DEF Change
  <1>6. ASSUME NEW s \in Sessions, Rollback(s) PROVE \A t \in Tasks : TaskKept(t)
    BY <1>1, <1>6 DEF Rollback
  <1>7. CASE UNCHANGED vars
    BY <1>1, <1>7 DEF vars
  <1> QED
    BY <1>2, <1>3, <1>4, <1>5, <1>6, <1>7 DEF Next

-----------------------------------------------------------------------------
(* What a session read stays true while the revisions it read are current *)

LEMMA ApplyingKept ==
  ASSUME TypeOK, TypeOK', NEW s \in Sessions, sess'[s] = sess[s], Applying(s),
         \A p \in Plans : Versioned(p)
  PROVE  Applying(s)'
  <1> DEFINE c == sess[s]
  <1>1. c \in Session
    BY DEF TypeOK
  <1>2. \A p \in c.plans : p \in Plans /\ c.seen[p] \in Nat /\ revision[p] \in Nat
                         /\ revision'[p] \in Nat
    BY <1>1 DEF Session, TypeOK
  <1>3. \A p \in c.plans : c.seen[p] <= revision[p] /\ revision[p] <= revision'[p]
    BY <1>2 DEF Applying, Versioned
  <1>4. \A p \in c.plans : c.seen[p] <= revision'[p]
    BY <1>2, <1>3
  <1>5. ASSUME CompareAndSet(s)'
        PROVE  /\ c.scope \subseteq TasksIn(c.plans)'
               /\ c.kind # "future" => c.scope = TasksIn(c.plans)'
               /\ \A t \in c.scope : slot'[t] = c.before[t]
    <2>1. \A p \in c.plans : revision'[p] = c.seen[p] /\ revision[p] = revision'[p]
      BY <1>2, <1>3, <1>5 DEF CompareAndSet
    <2>2. CompareAndSet(s)
      BY <2>1 DEF CompareAndSet
    <2>3. \A p \in c.plans, t \in Tasks : /\ planOf[t] = p <=> planOf'[t] = p
                                          /\ planOf[t] = p => slot'[t] = slot[t]
      BY <1>2, <2>1 DEF Versioned
    <2>4. \A t \in Tasks : planOf'[t] \in c.plans <=> planOf[t] \in c.plans
      BY <2>3
    <2>5. TasksIn(c.plans)' = TasksIn(c.plans)
      BY <2>4 DEF TasksIn
    <2>6. \A t \in c.scope : t \in Tasks /\ planOf[t] \in c.plans
      BY <2>2 DEF Applying, TasksIn
    <2>7. \A t \in c.scope : slot'[t] = slot[t]
      BY <2>3, <2>6
    <2> QED
      BY <2>2, <2>5, <2>7 DEF Applying
  <1> QED
    BY <1>4, <1>5 DEF Applying

LEMMA UndoingKept ==
  ASSUME TypeOK, TypeOK', NEW s \in Sessions, sess'[s] = sess[s], Undoing(s),
         LinearHistory, Snapshots,
         \A p \in Plans : Versioned(p), \A o \in Ops : OperationKept(o)
  PROVE  Undoing(s)'
  <1> DEFINE c == sess[s]
  <1>1. c \in Session
    BY DEF TypeOK
  <1> SUFFICES ASSUME NEW o \in c.ops
               PROVE  /\ op'[o].status # "none"
                      /\ op'[o].plans = c.plans
                      /\ op'[o].result = c.seen
                      /\ CompareAndSet(s)' => op'[o].status = "applied"
    BY DEF Undoing
  <1>2. o \in Ops /\ op[o] \in Operation
    BY <1>1 DEF Session, TypeOK
  <1>3. op[o].status # "none" /\ op[o].plans = c.plans /\ op[o].result = c.seen
    BY DEF Undoing
  <1>4. op'[o].status # "none" /\ op'[o].plans = c.plans /\ op'[o].result = c.seen
    BY <1>2, <1>3 DEF OperationKept
  <1>5. ASSUME CompareAndSet(s)' PROVE op'[o].status = "applied"
    <2>1. \A p \in c.plans : /\ p \in Plans /\ c.seen[p] \in Nat
                            /\ revision[p] \in Nat /\ revision'[p] \in Nat
      BY <1>1 DEF Session, TypeOK
    <2>2. \A p \in c.plans : c.seen[p] <= revision[p] /\ revision[p] <= revision'[p]
      BY <1>2, <1>3, <2>1 DEF LinearHistory, Versioned
    <2>3. \A p \in c.plans : revision'[p] = c.seen[p]
      BY <1>5 DEF CompareAndSet
    <2>4. \A p \in c.plans : revision[p] = c.seen[p] /\ ~(revision'[p] > revision[p])
      BY <2>1, <2>2, <2>3
    <2>5. CompareAndSet(s)
      BY <2>4 DEF CompareAndSet
    <2>6. op[o].status = "applied"
      BY <2>5 DEF Undoing
    <2>7. c.plans # {}
      BY <1>2, <1>3 DEF Snapshots, Recorded
    <2> QED
      BY <1>2, <1>3, <2>4, <2>6, <2>7 DEF OperationKept
  <1> QED
    BY <1>4, <1>5

LEMMA PlacingKept ==
  ASSUME TypeOK, TypeOK', NEW s \in Sessions, sess'[s] = sess[s], Placing(s),
         "window" \in Kinds => \A t \in Tasks : TaskKept(t)
  PROVE  Placing(s)'
  <1>1. sess[s] \in Session
    BY DEF TypeOK
  <1>2. \A t \in sess[s].scope : planOf'[t] \in sess[s].plans \cup {Gone}
    BY <1>1, PlanAssumption DEF Placing, TaskKept, Session
  <1> QED
    BY <1>2 DEF Placing

LEMMA RecordedKept ==
  ASSUME TypeOK, TypeOK', LinearHistory, NEW o \in Ops, op[o].status # "none", Recorded(o),
         OperationKept(o), \A p \in Plans : Versioned(p)
  PROVE  Recorded(o)'
  <1> DEFINE r == op[o]
  <1>1. r \in Operation
    BY DEF TypeOK
  <1>2. /\ op'[o].plans = r.plans /\ op'[o].result = r.result
        /\ op'[o].scope = r.scope /\ op'[o].created = r.created
    BY DEF OperationKept
  <1>3. ASSUME AtResult(op[o])' PROVE r.scope \cup r.created \subseteq TasksIn(r.plans)'
    <2>1. \A p \in r.plans : /\ p \in Plans /\ r.result[p] \in Nat
                            /\ revision[p] \in Nat /\ revision'[p] \in Nat
      BY <1>1 DEF Operation, TypeOK
    <2>2. \A p \in r.plans : r.result[p] <= revision[p] /\ revision[p] <= revision'[p]
      BY <2>1 DEF LinearHistory, Versioned
    <2>3. \A p \in r.plans : revision'[p] = r.result[p]
      BY <1>2, <1>3 DEF AtResult
    <2>4. \A p \in r.plans : revision[p] = r.result[p] /\ revision'[p] = revision[p]
      BY <2>1, <2>2, <2>3
    <2>5. r.scope \cup r.created \subseteq TasksIn(r.plans)
      BY <2>4 DEF Recorded, AtResult
    <2>6. \A p \in r.plans : \A t \in Tasks : planOf[t] = p => planOf'[t] = p
      <3> SUFFICES ASSUME NEW p \in r.plans, NEW t \in Tasks, planOf[t] = p PROVE planOf'[t] = p
        OBVIOUS
      <3>1. Versioned(p) /\ ~(revision'[p] > revision[p])
        BY <2>1, <2>4
      <3> QED
        BY <3>1 DEF Versioned
    <2>7. \A t \in r.scope \cup r.created : t \in Tasks /\ planOf[t] \in r.plans
      BY <2>5 DEF TasksIn
    <2>8. \A t \in r.scope \cup r.created : planOf'[t] \in r.plans
      BY <2>6, <2>7
    <2> QED
      BY <1>2, <2>7, <2>8 DEF TasksIn
  <1> QED
    BY <1>2, <1>3 DEF Recorded

\* The sessions a step does not move keep their snapshots.
LEMMA SessionKept ==
  ASSUME Inv, TypeOK', NEW s \in Sessions, sess'[s] = sess[s],
         \A p \in Plans : Versioned(p), \A o \in Ops : OperationKept(o),
         "window" \in Kinds => \A t \in Tasks : TaskKept(t)
  PROVE  /\ sess'[s].pc = "applying" => Applying(s)'
         /\ sess'[s].pc = "undoing" => Undoing(s)'
         /\ sess'[s].pc = "editing" => Placing(s)'
  <1>1. /\ sess[s].pc = "applying" => Applying(s)
        /\ sess[s].pc = "undoing" => Undoing(s)
        /\ sess[s].pc = "editing" => Placing(s)
    BY DEF Inv, Snapshots
  <1>2. CASE sess[s].pc = "applying"
    BY <1>1, <1>2, ApplyingKept DEF Inv
  <1>3. CASE sess[s].pc = "undoing"
    BY <1>1, <1>3, UndoingKept DEF Inv
  <1>4. CASE sess[s].pc = "editing"
    BY <1>1, <1>4, PlacingKept DEF Inv
  <1> QED
    BY <1>2, <1>3, <1>4

\* A scheduling transaction starts from what the tables hold.
LEMMA BeginApplySnapshot ==
  ASSUME TypeOK, NEW s \in Sessions, NEW kind \in AllKinds, NEW S \in SUBSET Plans,
         NEW T \in SUBSET TasksIn(S), NEW free, NEW to \in S,
         kind # "future" => T = TasksIn(S),
         BeginApply(s, kind, S, T, free, to)
  PROVE  /\ sess'[s].pc = "applying"
         /\ Applying(s)'
         /\ UNCHANGED <<revision, planOf, slot, started, op, events>>
         /\ \A r \in Sessions : r # s => sess'[r] = sess[r]
  <1>1. sess'[s] = [Idle EXCEPT !.pc = "applying", !.kind = kind, !.plans = S, !.scope = T,
                    !.free = free, !.to = to, !.before = slot,
                    !.seen = [p \in Plans |-> IF p \in S THEN revision[p] ELSE 0]]
    BY DEF BeginApply, TypeOK
  <1>2. /\ sess'[s].pc = "applying" /\ sess'[s].kind = kind /\ sess'[s].plans = S
        /\ sess'[s].scope = T /\ sess'[s].to = to /\ sess'[s].before = slot
        /\ \A p \in S : sess'[s].seen[p] = revision[p]
    BY <1>1 DEF Idle
  <1>3. UNCHANGED <<revision, planOf, slot, started, op, events>>
    BY DEF BeginApply
  <1>4. TasksIn(S)' = TasksIn(S)
    BY <1>3 DEF TasksIn
  <1>5. \A p \in S : sess'[s].seen[p] <= revision'[p]
    BY <1>2, <1>3 DEF TypeOK
  <1>6. \A t \in T : slot'[t] = sess'[s].before[t]
    BY <1>2, <1>3
  <1>7. Applying(s)'
    BY <1>2, <1>4, <1>5, <1>6 DEF Applying, TasksIn
  <1>8. \A r \in Sessions : r # s => sess'[r] = sess[r]
    BY DEF BeginApply, TypeOK
  <1> QED
    BY <1>2, <1>3, <1>7, <1>8

\* The operation a write phase records covers tasks of its plans.
LEMMA CommitApplyRecorded ==
  ASSUME Inv, TypeOK', NEW s \in Sessions, NEW o \in Ops, NEW f \in [Tasks -> Windows],
         CommitApply(s, o, f)
  PROVE  Recorded(o)'
  <1> DEFINE c   == sess[s]
             new == c.free \ c.scope
  <1>1. c \in Session /\ Applying(s) /\ CompareAndSet(s)
    BY DEF Inv, TypeOK, Snapshots, CommitApply
  <1>2. op'[o].plans = c.plans /\ op'[o].scope = c.scope /\ op'[o].created = new
    BY DEF CommitApply, Inv, TypeOK
  <1>3. c.scope \subseteq TasksIn(c.plans) /\ c.to \in c.plans
    BY <1>1 DEF Applying
  <1>4. planOf' = [t \in Tasks |-> IF t \in new THEN c.to ELSE planOf[t]]
    BY DEF CommitApply
  <1>5. \A t \in c.scope \cup new : t \in Tasks /\ planOf'[t] \in c.plans
    BY <1>1, <1>3, <1>4 DEF TasksIn, Session
  <1>6. (op[o].scope \cup op[o].created \subseteq TasksIn(op[o].plans))'
    BY <1>2, <1>5 DEF TasksIn
  <1> QED
    BY <1>2, <1>3, <1>6 DEF Recorded

LEMMA SnapshotsStep ==
  ASSUME CompareOnly, Inv, [Next]_vars
  PROVE  Snapshots'
  <1>1. TypeOK'
    BY TypeStep DEF Inv
  <1>2. [Store!Next]_(Store!storeVars)
    BY StoreStep
  <1>3. /\ \A p \in Plans : Versioned(p)
        /\ \A o \in Ops : OperationKept(o)
        /\ "window" \in Kinds => \A t \in Tasks : TaskKept(t)
    BY <1>1, <1>2, StepVersions, StepKeepsOperations, StepKeepsTasks DEF Inv
  <1>4. \A o \in Ops : op[o].status # "none" => Recorded(o)'
    BY <1>1, <1>3, RecordedKept DEF Inv, Snapshots
  <1>5. ASSUME NEW q \in Ops, op'[q].status = "none" PROVE Recorded(q)'
    BY <1>5 DEF Recorded
  <1>6. ASSUME NEW s \in Sessions,
               \A r \in Sessions : r # s => sess'[r] = sess[r],
               sess'[s].pc = "applying" => Applying(s)',
               sess'[s].pc = "undoing" => Undoing(s)',
               sess'[s].pc = "editing" => Placing(s)',
               \A o \in Ops : Recorded(o)'
        PROVE  Snapshots'
    BY <1>1, <1>3, <1>6, SessionKept DEF Snapshots
  <1>7. ASSUME sess' = sess, op' = op PROVE Snapshots'
    BY <1>1, <1>3, <1>4, <1>5, <1>7, SessionKept DEF Snapshots
  <1>8. ASSUME NEW s \in Sessions, Release(s)
        PROVE  sess'[s].pc = "idle" /\ \A r \in Sessions : r # s => sess'[r] = sess[r]
    BY <1>8 DEF Release, Idle, Inv, TypeOK
  <1>9. ASSUME NEW s \in Sessions, Apply(s) PROVE Snapshots'
    <2>1. ASSUME sess'[s].pc = "applying", Applying(s)',
                 UNCHANGED <<revision, planOf, slot, started, op, events>>,
                 \A r \in Sessions : r # s => sess'[r] = sess[r]
          PROVE  Snapshots'
      BY <1>4, <1>5, <1>6, <2>1
    <2>2. ASSUME NEW p \in Plans, BeginSchedule(s, p) PROVE Snapshots'
      <3>1. BeginApply(s, "replace", {p}, TasksIn({p}), Members(p), p)
        BY <2>2 DEF BeginSchedule, Members, TasksIn
      <3> QED
        BY <2>1, <3>1, BeginApplySnapshot DEF AllKinds, Inv
    <2>3. ASSUME NEW p \in Plans, BeginMove(s, p) PROVE Snapshots'
      <3>1. BeginApply(s, "move", {p}, TasksIn({p}), {t \in Members(p) : ~started[t]}, p)
        BY <2>3 DEF BeginMove, Members, TasksIn
      <3> QED
        BY <2>1, <3>1, BeginApplySnapshot DEF AllKinds, Inv
    <2>4. ASSUME NEW p \in Plans, NEW t \in Tasks, BeginAdd(s, p, t) PROVE Snapshots'
      <3>1. BeginApply(s, "add", {p}, TasksIn({p}), {u \in Members(p) : ~started[u]} \cup {t}, p)
        BY <2>4 DEF BeginAdd, Members, TasksIn
      <3> QED
        BY <2>1, <3>1, BeginApplySnapshot DEF AllKinds, Inv
    <2>5. ASSUME NEW S \in SUBSET Plans, NEW T \in SUBSET Tasks, NEW new \in SUBSET Tasks,
                 NEW a \in Plans, BeginFuture(s, S, T, new, a)
          PROVE  Snapshots'
      <3>1. BeginApply(s, "future", S, T, T \cup new, a) /\ T \in SUBSET TasksIn(S) /\ a \in S
        BY <2>5 DEF BeginFuture
      <3> QED
        BY <2>1, <3>1, BeginApplySnapshot DEF AllKinds, Inv
    <2>6. ASSUME NEW o \in Ops, NEW f \in [Tasks -> Windows], CommitApply(s, o, f)
          PROVE  Snapshots'
      <3>1. Recorded(o)'
        BY <1>1, <2>6, CommitApplyRecorded
      <3>2. \A q \in Ops : q # o => op'[q] = op[q]
        BY <2>6 DEF CommitApply, Inv, TypeOK
      <3>3. \A q \in Ops : Recorded(q)'
        BY <1>4, <1>5, <3>1, <3>2
      <3>4. Release(s)
        BY <2>6 DEF CommitApply
      <3> QED
        BY <1>6, <1>8, <3>3, <3>4
    <2> QED
      BY <1>9, <2>2, <2>3, <2>4, <2>5, <2>6 DEF Apply
  <1>10. ASSUME NEW s \in Sessions, Undo(s) PROVE Snapshots'
    <2>1. ASSUME NEW o \in Ops, CheckUndo(s, o) PROVE Snapshots'
      <3>1. /\ sess'[s].pc = "undoing"
            /\ sess'[s].kind = (IF op[o].future THEN "undo_future" ELSE "undo")
            /\ sess'[s].plans = op[o].plans
            /\ sess'[s].ops = {o}
            /\ sess'[s].seen = op[o].result
        BY <2>1 DEF CheckUndo, Idle, Inv, TypeOK
      <3>2. op' = op /\ revision' = revision /\ op[o].status = "applied"
        BY <2>1 DEF CheckUndo
      <3>3. sess'[s].kind = "undo_future"
        BY <2>1, <3>1 DEF CheckUndo, CompareOnly
      <3>4. Undoing(s)'
        BY <3>1, <3>2, <3>3 DEF Undoing
      <3>5. \A r \in Sessions : r # s => sess'[r] = sess[r]
        BY <2>1 DEF CheckUndo, Inv, TypeOK
      <3> QED
        BY <1>4, <1>5, <1>6, <3>1, <3>2, <3>4, <3>5
    <2>2. ASSUME NEW o \in Ops, CommitUndo(s, o) PROVE FALSE
      BY <2>2 DEF CommitUndo, Inv, Snapshots, Undoing
    <2>3. ASSUME NEW o \in Ops, CommitUndoFuture(s, o) PROVE Snapshots'
      <3>1. op' = [op EXCEPT ![o].status = "undone"] /\ Release(s)
        BY <2>3 DEF CommitUndoFuture
      <3>2. op[o].status # "none"
        BY <2>3 DEF CommitUndoFuture, Inv, Snapshots, Undoing
      <3>3. \A q \in Ops : Recorded(q)'
        BY <1>4, <1>5, <3>1, <3>2 DEF Inv, TypeOK
      <3> QED
        BY <1>6, <1>8, <3>1, <3>3
    <2> QED
      BY <1>10, <2>1, <2>2, <2>3 DEF Undo
  <1>11. ASSUME NEW s \in Sessions, Place(s) PROVE Snapshots'
    <2>1. ASSUME NEW t \in Tasks, BeginWindow(s, t) PROVE Snapshots'
      <3>1. sess'[s] = [Idle EXCEPT !.pc = "editing", !.kind = "window", !.scope = {t},
                          !.plans = {planOf[t]}]
        BY <2>1 DEF BeginWindow, Inv, TypeOK
      <3>2. /\ sess'[s].pc = "editing" /\ sess'[s].scope = {t}
            /\ planOf[t] \in sess'[s].plans
        BY <3>1 DEF Idle
      <3>3. planOf' = planOf /\ op' = op /\ "window" \in Kinds
        BY <2>1 DEF BeginWindow
      <3>4. Placing(s)'
        BY <3>2, <3>3 DEF Placing
      <3>5. \A r \in Sessions : r # s => sess'[r] = sess[r]
        BY <2>1 DEF BeginWindow, Inv, TypeOK
      <3> QED
        BY <1>4, <1>5, <1>6, <3>2, <3>3, <3>4, <3>5
    <2>2. ASSUME NEW t \in Tasks, NEW w \in Slots, CommitWindow(s, t, w) PROVE Snapshots'
      <3>1. Release(s) /\ op' = op
        BY <2>2 DEF CommitWindow
      <3> QED
        BY <1>4, <1>5, <1>6, <1>8, <3>1
    <2> QED
      BY <1>11, <2>1, <2>2 DEF Place
  <1>12. ASSUME NEW s \in Sessions, Edit(s) PROVE Snapshots'
    BY <1>7, <1>12
       DEF Edit, Change, UpdateTask, DeleteTask, DeferTask, EditTask, StartTask, CreateTask
  <1>13. ASSUME NEW s \in Sessions, Rollback(s) PROVE Snapshots'
    <2>1. Release(s) /\ op' = op
      BY <1>13 DEF Rollback
    <2> QED
      BY <1>4, <1>5, <1>6, <1>8, <2>1
  <1>14. CASE UNCHANGED vars
    BY <1>7, <1>14 DEF vars
  <1> QED
    BY <1>9, <1>10, <1>11, <1>12, <1>13, <1>14 DEF Next

LEMMA SnapshotsInit == Init => Snapshots
  BY DEF Init, Snapshots, Idle, NoOperation, Recorded

LEMMA InvariantHolds ==
  ASSUME CompareOnly
  PROVE  Spec => []Inv
  <1>1. Init => Inv
    BY TypeInit, HistoryInit, SnapshotsInit DEF Inv
  <1>2. Inv /\ [Next]_vars => Inv'
    BY TypeStep, HistoryStep, SnapshotsStep DEF Inv
  <1> QED
    BY <1>1, <1>2, PTL DEF Spec

-----------------------------------------------------------------------------
(* The theorems *)

\* Sessions that interleave in READ COMMITTED transactions do what the atomic
\* store promises, for every number of plans, tasks, windows and sessions,
\* under CompareOnly.
THEOREM TransactionsImplementStore ==
  ASSUME CompareOnly
  PROVE  Spec => ImplementsPlanStore
  <1>1. Init => Store!Init
    <2> SUFFICES ASSUME Init PROVE Store!Init
      OBVIOUS
    <2>1. revision \in [Plans -> Nat]
      BY TypeInit DEF TypeOK
    <2>2. \A o \in Ops : op[o].status = "none"
      BY DEF Init, NoOperation
    <2> QED
      BY <2>1, <2>2 DEF Init, Store!Init
  <1>2. Inv /\ [Next]_vars => [Store!Next]_(Store!storeVars)
    BY StoreStep
  <1> QED
    BY <1>1, <1>2, InvariantHolds, PTL DEF Spec, ImplementsPlanStore, Store!Spec

\* schedule_revision resolves scheduling races under the same condition: no
\* commit changes a plan without increasing its revision.
THEOREM ContentsAreVersioned ==
  ASSUME CompareOnly
  PROVE  Spec => ContentIsVersioned
  <1>1. Inv /\ Inv' /\ [Next]_vars =>
          [\A p \in Plans : Contents(p)' # Contents(p) => revision'[p] > revision[p]]_vars
    <2> SUFFICES ASSUME Inv, Inv', [Next]_vars, NEW p \in Plans
                 PROVE  Contents(p)' # Contents(p) => revision'[p] > revision[p]
      OBVIOUS
    <2>1. Versioned(p)
      BY StoreStep, StepVersions DEF Inv
    <2>2. CASE revision'[p] > revision[p]
      BY <2>2
    <2>3. CASE \A t \in Tasks : /\ planOf[t] = p <=> planOf'[t] = p
                                /\ planOf[t] = p => slot'[t] = slot[t]
      <3>1. Members(p)' = Members(p)
        BY <2>3 DEF Members
      <3>2. \A t \in Members(p) : slot'[t] = slot[t]
        BY <2>3 DEF Members
      <3> QED
        BY <3>1, <3>2 DEF Contents
    <2> QED
      BY <2>1, <2>2, <2>3 DEF Versioned
  <1> QED
    BY <1>1, InvariantHolds, PTL DEF Spec, ContentIsVersioned

-----------------------------------------------------------------------------
(* Undo that keeps newer work *)

\* No client undoes a one-plan operation beside another session: that Undo alone
\* increments revisions without comparing them.
UndoUncontested == "undo" \notin Kinds \/ \A s1, s2 \in Sessions : s1 = s2

\* An open Undo is of one recorded operation, and knows its plans and result.  A
\* one-plan Undo still finds the revisions it has checked.
OpenUndo(s) ==
  LET c == sess[s] IN
  /\ c.kind = "undo" => "undo" \in Kinds
  /\ \A o \in c.ops :
       /\ c.ops = {o} /\ op[o].status # "none"
       /\ op[o].plans = c.plans /\ op[o].result = c.seen
       /\ c.kind = "undo" => AtResult(op[o])

UndoInv == TypeOK /\ \A s \in Sessions : sess[s].pc = "undoing" => OpenUndo(s)

\* An open transaction of one session stays as it is when nothing it depends on
\* changes.
LEMMA OpenUndoKept ==
  ASSUME UndoInv, NEW s \in Sessions, sess'[s] = sess[s], sess[s].pc = "undoing",
         \A o \in Ops : op[o].status # "none" =>
           op'[o].status # "none" /\ op'[o].plans = op[o].plans /\ op'[o].result = op[o].result,
         sess[s].kind = "undo" => revision' = revision
  PROVE  OpenUndo(s)'
  <1>1. OpenUndo(s) /\ sess[s].ops \subseteq Ops
    BY DEF UndoInv, TypeOK, Session
  <1>2. ASSUME NEW o \in sess[s].ops, sess[s].kind = "undo" PROVE AtResult(op[o])'
    <2>1. AtResult(op[o]) /\ op'[o].plans = op[o].plans /\ op'[o].result = op[o].result
      BY <1>1, <1>2 DEF OpenUndo
    <2> QED
      BY <1>2, <2>1 DEF AtResult
  <1> QED
    BY <1>1, <1>2 DEF OpenUndo

\* A commit of one session leaves the Undo of another one as it is, and where
\* one-plan Undo is offered there is no other session.
LEMMA OthersKept ==
  ASSUME UndoUncontested, UndoInv, TypeOK', NEW s \in Sessions,
         sess'[s].pc = "undoing" => OpenUndo(s)',
         \A r \in Sessions : r # s => sess'[r] = sess[r],
         \A o \in Ops : op[o].status # "none" =>
           op'[o].status # "none" /\ op'[o].plans = op[o].plans /\ op'[o].result = op[o].result
  PROVE  UndoInv'
  <1>1. ASSUME NEW r \in Sessions, r # s, sess'[r].pc = "undoing" PROVE OpenUndo(r)'
    <2>1. sess'[r] = sess[r] /\ sess[r].pc = "undoing" /\ OpenUndo(r)
      BY <1>1 DEF UndoInv
    <2>2. sess[r].kind # "undo"
      BY <1>1, <2>1 DEF OpenUndo, UndoUncontested
    <2> QED
      BY <2>1, <2>2, OpenUndoKept
  <1> QED
    BY <1>1 DEF UndoInv

LEMMA Released ==
  ASSUME TypeOK, NEW s \in Sessions, Release(s)
  PROVE  sess'[s].pc = "idle" /\ \A r \in Sessions : r # s => sess'[r] = sess[r]
  BY DEF Release, Idle, TypeOK

\* What each write phase does to the operations and the revisions.
LEMMA CommitApplyWrites ==
  ASSUME TypeOK, NEW s \in Sessions, NEW o \in Ops, NEW f \in [Tasks -> Windows],
         CommitApply(s, o, f)
  PROVE  /\ op[o].status = "none" /\ op'[o].status = "applied"
         /\ \A q \in Ops : q # o => op'[q] = op[q]
         /\ op'[o].plans = sess[s].plans /\ sess[s].plans \subseteq Plans
         /\ events' \subseteq events \cup Announce("applied", o, op'[o].result, op'[o].plans)
         /\ \A p \in op'[o].plans : op'[o].result[p] = revision'[p]
  <1> DEFINE c == sess[s]
             n == IF c.kind = "add" THEN 2 ELSE 1
  <1>1. c.plans \subseteq Plans
    BY DEF TypeOK, Session
  <1>2. /\ op[o].status = "none" /\ op'[o].status = "applied" /\ op'[o].plans = c.plans
        /\ op'[o].result = [p \in Plans |-> IF p \in c.plans THEN c.seen[p] + n ELSE 0]
        /\ \A q \in Ops : q # o => op'[q] = op[q]
    BY DEF CommitApply, TypeOK
  <1>3. /\ revision' = Bumped(c.plans, n) /\ CompareAndSet(s)
        /\ events' = events \cup Announce("applied", o, op'[o].result, c.plans)
    BY DEF CommitApply
  <1>4. \A p \in c.plans : revision'[p] = c.seen[p] + n
    BY <1>1, <1>3 DEF Bumped, CompareAndSet
  <1> QED
    BY <1>1, <1>2, <1>3, <1>4

LEMMA CommitUndoWrites ==
  ASSUME UndoInv, NEW s \in Sessions, NEW o \in Ops, CommitUndo(s, o) \/ CommitUndoFuture(s, o)
  PROVE  /\ op[o].status # "none" /\ op' = [op EXCEPT ![o].status = "undone"]
         /\ AtResult(op[o]) /\ op[o].plans \subseteq Plans
         /\ events' \subseteq events \cup Announce("undone", o, Restored(op[o]), op[o].plans)
         /\ \A p \in op[o].plans : Restored(op[o])[p] = revision'[p]
  <1>1. sess[s].pc = "undoing" /\ o \in sess[s].ops /\ OpenUndo(s)
    BY DEF CommitUndo, CommitUndoFuture, UndoInv
  <1>2. op[o].status # "none" /\ op[o].plans = sess[s].plans /\ op[o].result = sess[s].seen
    BY <1>1 DEF OpenUndo
  <1>3. AtResult(op[o])
    <2>1. CASE CommitUndo(s, o)
      BY <1>1, <2>1 DEF CommitUndo, OpenUndo
    <2>2. CASE CommitUndoFuture(s, o)
      BY <1>2, <2>2 DEF CommitUndoFuture, CompareAndSet, AtResult
    <2> QED
      BY <2>1, <2>2
  <1>4. /\ op' = [op EXCEPT ![o].status = "undone"] /\ revision' = Bumped(op[o].plans, 1)
        /\ events' = events \cup Announce("undone", o, Restored(op[o]), op[o].plans)
    BY DEF CommitUndo, CommitUndoFuture
  <1>5. op[o].plans \subseteq Plans
    BY DEF UndoInv, TypeOK, Operation
  <1>6. \A p \in op[o].plans : Restored(op[o])[p] = revision'[p]
    BY <1>3, <1>4, <1>5 DEF Restored, AtResult, Bumped
  <1> QED
    BY <1>2, <1>3, <1>4, <1>5, <1>6

\* Every step writes no operation, records one, or undoes one.
Quiet == op' = op /\ events' = events
Records(o) ==
  /\ op[o].status = "none" /\ op'[o].status = "applied" /\ \A q \in Ops : q # o => op'[q] = op[q]
  /\ events' \subseteq events \cup Announce("applied", o, op'[o].result, op'[o].plans)
  /\ \A p \in op'[o].plans : op'[o].result[p] = revision'[p]
Undoes(o) ==
  /\ op[o].status # "none" /\ op' = [op EXCEPT ![o].status = "undone"] /\ AtResult(op[o])
  /\ events' \subseteq events \cup Announce("undone", o, Restored(op[o]), op[o].plans)
  /\ \A p \in op[o].plans : Restored(op[o])[p] = revision'[p]

LEMMA WriteCases ==
  ASSUME UndoInv, [Next]_vars
  PROVE  Quiet \/ \E o \in Ops : Records(o) \/ Undoes(o)
  <1>1. ASSUME NEW s \in Sessions, Apply(s) PROVE Quiet \/ \E o \in Ops : Records(o)
    <2>1. ASSUME NEW o \in Ops, NEW f \in [Tasks -> Windows], CommitApply(s, o, f) PROVE Records(o)
      BY <2>1, CommitApplyWrites DEF UndoInv, Records
    <2> QED
      BY <1>1, <2>1 DEF Apply, BeginSchedule, BeginMove, BeginAdd, BeginFuture, BeginApply, Quiet
  <1>2. ASSUME NEW s \in Sessions, Undo(s) PROVE Quiet \/ \E o \in Ops : Undoes(o)
    <2>1. ASSUME NEW o \in Ops, CommitUndo(s, o) \/ CommitUndoFuture(s, o) PROVE Undoes(o)
      BY <2>1, CommitUndoWrites DEF Undoes
    <2>2. ASSUME NEW o \in Ops, CheckUndo(s, o) PROVE Quiet
      BY <2>2 DEF CheckUndo, Quiet
    <2> QED
      BY <1>2, <2>1, <2>2 DEF Undo
  <1>3. ASSUME NEW s \in Sessions, Place(s) \/ Rollback(s) PROVE Quiet
    BY <1>3 DEF Place, BeginWindow, CommitWindow, Rollback, Quiet
  <1>4. ASSUME NEW s \in Sessions, Edit(s) PROVE Quiet
    BY <1>4 DEF Edit, Change, UpdateTask, DeferTask, DeleteTask, StartTask, CreateTask, EditTask, Quiet
  <1>5. CASE UNCHANGED vars
    BY <1>5 DEF vars, Quiet
  <1> QED
    BY <1>1, <1>2, <1>3, <1>4, <1>5 DEF Next

LEMMA OperationsStay ==
  ASSUME UndoInv, [Next]_vars
  PROVE  \A o \in Ops : op[o].status # "none" =>
           op'[o].status # "none" /\ op'[o].plans = op[o].plans /\ op'[o].result = op[o].result
  <1>1. ASSUME NEW q \in Ops, Undoes(q), NEW o \in Ops, op[o].status # "none"
        PROVE  op'[o].status # "none" /\ op'[o].plans = op[o].plans /\ op'[o].result = op[o].result
    <2>1. op[q] \in Operation /\ op[o] \in Operation /\ op \in [Ops -> Operation]
      BY DEF UndoInv, TypeOK
    <2> QED
      BY <1>1, <2>1 DEF Undoes, Operation
  <1> QED
    BY <1>1, WriteCases DEF Quiet, Records

LEMMA UndoStep == UndoUncontested /\ UndoInv /\ [Next]_vars => UndoInv'
  <1> SUFFICES ASSUME UndoUncontested, UndoInv, [Next]_vars PROVE UndoInv'
    OBVIOUS
  <1>1. TypeOK /\ TypeOK'
    BY TypeStep DEF UndoInv
  <1>2. \A o \in Ops : op[o].status # "none" =>
           op'[o].status # "none" /\ op'[o].plans = op[o].plans /\ op'[o].result = op[o].result
    BY OperationsStay
  <1>3. ASSUME NEW s \in Sessions, sess'[s].pc # "undoing",
               \A r \in Sessions : r # s => sess'[r] = sess[r]
        PROVE  UndoInv'
    BY <1>1, <1>2, <1>3, OthersKept
  <1>4. ASSUME NEW s \in Sessions, Release(s) PROVE UndoInv'
    BY <1>1, <1>3, <1>4, Released
  <1>5. ASSUME NEW s \in Sessions, NEW c, c.pc # "undoing", sess' = [sess EXCEPT ![s] = c] PROVE UndoInv'
    BY <1>1, <1>3, <1>5 DEF TypeOK
  <1>6. ASSUME NEW s \in Sessions, Apply(s) PROVE UndoInv'
    <2>1. ASSUME NEW o \in Ops, NEW f \in [Tasks -> Windows], CommitApply(s, o, f) PROVE UndoInv'
      BY <1>4, <2>1 DEF CommitApply
    <2>2. ASSUME NEW kind, NEW S, NEW T, NEW free, NEW to, BeginApply(s, kind, S, T, free, to)
          PROVE  UndoInv'
      <3> DEFINE c == [Idle EXCEPT !.pc = "applying", !.kind = kind, !.plans = S, !.scope = T,
                    !.free = free, !.to = to, !.before = slot,
                    !.seen = [p \in Plans |-> IF p \in S THEN revision[p] ELSE 0]]
      <3>1. sess' = [sess EXCEPT ![s] = c] /\ c.pc = "applying"
        BY <2>2 DEF BeginApply, Idle
      <3> HIDE DEF c
      <3> QED
        BY <1>5, <3>1
    <2> QED
      BY <1>6, <2>1, <2>2 DEF Apply, BeginSchedule, BeginMove, BeginAdd, BeginFuture
  <1>7. ASSUME NEW s \in Sessions, Undo(s) PROVE UndoInv'
    <2>1. ASSUME NEW o \in Ops, CommitUndo(s, o) \/ CommitUndoFuture(s, o) PROVE UndoInv'
      BY <1>4, <2>1 DEF CommitUndo, CommitUndoFuture
    <2>2. ASSUME NEW o \in Ops, CheckUndo(s, o) PROVE UndoInv'
      <3> DEFINE kind == IF op[o].future THEN "undo_future" ELSE "undo"
                 c == [Idle EXCEPT !.pc = "undoing", !.kind = kind,
                                   !.plans = op[o].plans, !.ops = {o}, !.seen = op[o].result]
      <3>1. /\ kind \in Kinds /\ op[o].status = "applied" /\ AtResult(op[o])
            /\ sess' = [sess EXCEPT ![s] = c] /\ UNCHANGED <<revision, op>>
        BY <2>2 DEF CheckUndo
      <3>2. /\ c.pc = "undoing" /\ c.kind = kind /\ c.plans = op[o].plans /\ c.ops = {o}
            /\ c.seen = op[o].result
        BY DEF Idle
      <3> HIDE DEF c
      <3>3. sess'[s] = c /\ \A r \in Sessions : r # s => sess'[r] = sess[r]
        BY <1>1, <3>1 DEF TypeOK
      <3>4. AtResult(op[o])'
        BY <3>1 DEF AtResult
      <3>5. OpenUndo(s)'
        BY <3>1, <3>2, <3>3, <3>4 DEF OpenUndo
      <3> QED
        BY <1>1, <1>2, <3>3, <3>5, OthersKept
    <2> QED
      BY <1>7, <2>1, <2>2 DEF Undo
  <1>8. ASSUME NEW s \in Sessions, Place(s) PROVE UndoInv'
    <2>1. ASSUME NEW t \in Tasks, NEW w \in Slots, CommitWindow(s, t, w) PROVE UndoInv'
      BY <1>4, <2>1 DEF CommitWindow
    <2>2. ASSUME NEW t \in Tasks, BeginWindow(s, t) PROVE UndoInv'
      <3> DEFINE c == [Idle EXCEPT !.pc = "editing", !.kind = "window", !.scope = {t},
                                   !.plans = {planOf[t]}]
      <3>1. sess' = [sess EXCEPT ![s] = c] /\ c.pc = "editing"
        BY <2>2 DEF BeginWindow, Idle
      <3> HIDE DEF c
      <3> QED
        BY <1>5, <3>1
    <2> QED
      BY <1>8, <2>1, <2>2 DEF Place
  <1>9. ASSUME NEW s \in Sessions, Rollback(s) PROVE UndoInv'
    BY <1>4, <1>9 DEF Rollback
  <1>10. ASSUME NEW s \in Sessions, Edit(s) PROVE UndoInv'
    <2>1. sess' = sess /\ sess[s].pc = "idle"
      BY <1>10 DEF Edit, Change, UpdateTask, DeferTask, DeleteTask, StartTask, CreateTask, EditTask
    <2> QED
      BY <1>3, <2>1
  <1>11. CASE UNCHANGED vars
    <2>1. ASSUME NEW s \in Sessions, sess'[s].pc = "undoing" PROVE OpenUndo(s)'
      BY <1>2, <1>11, <2>1, OpenUndoKept DEF vars
    <2> QED
      BY <1>1, <2>1 DEF UndoInv
  <1> QED
    BY <1>6, <1>7, <1>8, <1>9, <1>10, <1>11 DEF Next

LEMMA UndoInvHolds == ASSUME UndoUncontested PROVE Spec => []UndoInv
  <1>1. Init => UndoInv
    BY TypeInit DEF Init, UndoInv, Idle
  <1>2. UndoInv /\ [Next]_vars => UndoInv'
    BY UndoStep
  <1> QED
    BY <1>1, <1>2, PTL DEF Spec

\* An Undo commits only while its plans are at the revisions the operation
\* produced, whatever edits, moves and other Undos commit between its check and
\* its write (undo_schedule_operation, database.py:4655), for any number of sessions if one-plan
\* Undo is not among the commands, and with it if there is one session.
THEOREM UndosKeepNewerWork ==
  ASSUME UndoUncontested
  PROVE  Spec => UndoKeepsNewerWork
  <1>1. UndoInv /\ [Next]_vars =>
          [\A o \in Ops : op[o].status = "applied" /\ op'[o].status = "undone" =>
             \A p \in op[o].plans : revision[p] = op[o].result[p]]_vars
    <2> SUFFICES ASSUME UndoInv, [Next]_vars, NEW o \in Ops, op[o].status = "applied",
                        op'[o].status = "undone"
                 PROVE  \A p \in op[o].plans : revision[p] = op[o].result[p]
      OBVIOUS
    <2>1. Undoes(o)
      BY WriteCases DEF Quiet, Records, Undoes, UndoInv, TypeOK
    <2> QED
      BY <2>1 DEF Undoes, AtResult
  <1> QED
    BY <1>1, UndoInvHolds, PTL DEF Spec, UndoKeepsNewerWork

\* The revision that the event of an operation or of its Undo reports to the
\* outbox is the one its plan has when it commits (replace_plan_segments,
\* apply_future_plan, undo_schedule_operation), under the same condition.
THEOREM EventsNameRevisions ==
  ASSUME UndoUncontested
  PROVE  Spec => EventNamesItsRevision
  <1>1. UndoInv /\ [Next]_vars =>
          [\A e \in events' \ events : \E p \in op[e.op].plans \cup op'[e.op].plans :
             e.revision = revision'[p]]_vars
    <2> SUFFICES ASSUME UndoInv, [Next]_vars, NEW e \in events' \ events
                 PROVE  \E p \in op[e.op].plans \cup op'[e.op].plans : e.revision = revision'[p]
      OBVIOUS
    <2>1. CASE Quiet
      BY <2>1 DEF Quiet
    <2>2. ASSUME NEW o \in Ops, Records(o)
          PROVE  \E p \in op[e.op].plans \cup op'[e.op].plans : e.revision = revision'[p]
      BY <2>2 DEF Records, Announce
    <2>3. ASSUME NEW o \in Ops, Undoes(o)
          PROVE  \E p \in op[e.op].plans \cup op'[e.op].plans : e.revision = revision'[p]
      BY <2>3 DEF Undoes, Announce
    <2> QED
      BY <2>1, <2>2, <2>3, WriteCases
  <1> QED
    BY <1>1, UndoInvHolds, PTL DEF Spec, EventNamesItsRevision
=============================================================================
