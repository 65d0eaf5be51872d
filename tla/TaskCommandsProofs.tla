------------------------- MODULE TaskCommandsProofs -------------------------
(***************************************************************************)
(* Proofs about the task commands, for any tasks, keys, sessions and days: *)
(* types, the state machine under concurrent commands and clean-ups, one   *)
(* winner per version, one answer per key; and, without clean-ups, that    *)
(* the feed ends with every task as it is.  A device that follows the feed, *)
(* for any page size, shows every task as it is once it has applied every  *)
(* change, and never goes back.                                            *)
(***************************************************************************)
EXTENDS DeviceSync, FiniteSetTheorems, TLAPS

\* A session holds a key of its own, with no answer yet.
KeysHeld ==
  \A s \in Sessions : sess[s] # NoSession =>
    /\ sess[s].cmd \in Commands
    /\ sess[s].key \in Keys
    /\ record[sess[s].key] = NoResponse
    /\ \A u \in Sessions : u # s => sess[u].key # sess[s].key

\* A task whose version is still the one a session has read is in a state the
\* session has checked.
ReadsHold ==
  \A s \in Sessions : sess[s] # NoSession /\ sess[s].cmd # "create" =>
    /\ sess[s].task \in Tasks
    /\ row[sess[s].task].status # "unborn"
    /\ sess[s].expected <= row[sess[s].task].version
    /\ sess[s].expected = row[sess[s].task].version => Legal(sess[s].cmd, row[sess[s].task])

\* A version that a command has changed is past.
Spent ==
  \A k \in Keys : Answered(k) /\ record[k].cmd # "create" =>
    record[k].task \in Tasks /\ record[k].expected < row[record[k].task].version

\* What a clean-up is about to close, or holds closed, is open.
CleanUpsHold ==
  /\ \A t \in Tasks : page[t] # Unborn => Open(page[t])
  /\ worker.pc = "scanned" => \A t \in Tasks : worker.seen[t] # Unborn => Open(worker.seen[t])
  /\ \A t \in worker.closed : Open(row[t])
  /\ worker.pc \in {"idle", "listed", "scanned"} => worker.closed = {}

IInv ==
  /\ TypeOK /\ TimerFollowsStatus /\ OneWinnerPerVersion
  /\ KeysHeld /\ ReadsHold /\ Spent /\ CleanUpsHold

-----------------------------------------------------------------------------
(* Rows *)

Timed(r) == r.status = "in_progress" <=> r.timer # "stopped"

\* A step of one row: of the contract's state machine, to a new version.
Step(r, n) ==
  /\ n \in Row
  /\ Timed(n)
  /\ n.status # "unborn"
  /\ <<Phase(r), Phase(n)>> \in Moves
  /\ n.version = r.version + (IF r = Unborn THEN 0 ELSE 1)
  /\ n.day # r.day => n.status = "pending"

LEMMA FinishedFields ==
  ASSUME NEW r \in Row, NEW status \in {"completed", "failed", "gone"}
  PROVE  /\ Finished(r, status) \in Row
         /\ Finished(r, status).status = status
         /\ Finished(r, status).timer = "stopped"
         /\ Finished(r, status).version = r.version + 1
         /\ Finished(r, status).day = r.day
<1> DEFINE a == [r EXCEPT !.status = status]
           b == [a EXCEPT !.timer = "stopped"]
           v == r.version + 1
           n == [b EXCEPT !.version = v]
<1>1. /\ a \in Row /\ a.status = status /\ a.version = r.version /\ a.day = r.day
  BY DEF Row
<1>2. /\ b \in Row /\ b.status = status /\ b.timer = "stopped"
      /\ b.version = r.version /\ b.day = r.day
  <2> HIDE DEF a
  <2> QED BY <1>1 DEF Row
<1>3. v \in Nat
  BY DEF Row
<1>4. /\ n \in Row /\ n.status = status /\ n.timer = "stopped"
      /\ n.version = v /\ n.day = r.day
  <2> HIDE DEF b, v
  <2> QED BY <1>2, <1>3 DEF Row
<1>5. Finished(r, status) = n
  <2>1. b.version = r.version
    BY <1>2
  <2> QED BY <2>1 DEF Finished
<1> QED BY <1>4, <1>5

\* Closing an open task is a legal step, whether a user or a clean-up does it.
LEMMA FailedStep ==
  ASSUME NEW r \in Row, Timed(r), Open(r)
  PROVE  Step(r, Finished(r, "failed"))
<1>1. r # Unborn
  BY DEF Open, Unborn
<1> DEFINE n == Finished(r, "failed")
<1>2. /\ n \in Row /\ n.status = "failed" /\ n.timer = "stopped"
      /\ n.version = r.version + 1 /\ n.day = r.day
  BY FinishedFields
<1>3. Step(r, n)
  <2> HIDE DEF n
  <2> QED BY <1>1, <1>2 DEF Step, Timed, Open, Phase, Moves, Row
<1> QED BY <1>3

\* The timer of a task in progress is set, and a new version made.
LEMMA TimedFields ==
  ASSUME NEW r \in Row, NEW status \in {"pending", "in_progress"},
         NEW timer \in {"stopped", "running", "paused"}
  PROVE  LET n == [r EXCEPT !.status = status, !.timer = timer, !.version = @ + 1]
         IN /\ n \in Row /\ n.status = status /\ n.timer = timer
            /\ n.version = r.version + 1 /\ n.day = r.day
<1> DEFINE a == [r EXCEPT !.status = status]
           b == [a EXCEPT !.timer = timer]
           v == r.version + 1
           n == [b EXCEPT !.version = v]
<1>1. /\ a \in Row /\ a.status = status /\ a.version = r.version /\ a.day = r.day
  BY DEF Row
<1>2. /\ b \in Row /\ b.status = status /\ b.timer = timer
      /\ b.version = r.version /\ b.day = r.day
  <2> HIDE DEF a
  <2> QED BY <1>1 DEF Row
<1>3. v \in Nat
  BY DEF Row
<1>4. /\ n \in Row /\ n.status = status /\ n.timer = timer
      /\ n.version = v /\ n.day = r.day
  <2> HIDE DEF b, v
  <2> QED BY <1>2, <1>3 DEF Row
<1>5. [r EXCEPT !.status = status, !.timer = timer, !.version = @ + 1] = n
  <2>1. b.version = r.version
    BY <1>2
  <2> QED BY <2>1
<1> QED BY <1>4, <1>5

LEMMA StartFields ==
  ASSUME NEW r \in Row
  PROVE  LET n == After("start", r)
         IN /\ n \in Row /\ n.status = "in_progress" /\ n.timer = "running"
            /\ n.version = r.version + 1 /\ n.day = r.day
BY TimedFields DEF After

LEMMA UpdateFields ==
  ASSUME NEW r \in Row
  PROVE  LET n == After("update", r)
         IN /\ n \in Row /\ n.status = r.status /\ n.timer = r.timer
            /\ n.version = r.version + 1 /\ n.day = r.day
<1> DEFINE v == r.version + 1
           n == [r EXCEPT !.version = v]
<1>1. v \in Nat
  BY DEF Row
<1>2. /\ n \in Row /\ n.status = r.status /\ n.timer = r.timer
      /\ n.version = v /\ n.day = r.day
  <2> HIDE DEF v
  <2> QED BY <1>1 DEF Row
<1>3. After("update", r) = n
  BY DEF After
<1> QED BY <1>2, <1>3

LEMMA DeferFields ==
  ASSUME NEW r \in Row, today + 1 \in Days
  PROVE  LET n == After("defer", r)
         IN /\ n \in Row /\ n.status = r.status /\ n.timer = r.timer
            /\ n.version = r.version + 1 /\ n.day = today + 1
<1> DEFINE a == After("update", r)
           d == today + 1
           n == [a EXCEPT !.day = d]
<1>1. /\ a \in Row /\ a.status = r.status /\ a.timer = r.timer
      /\ a.version = r.version + 1
  BY UpdateFields
<1>2. /\ n \in Row /\ n.status = r.status /\ n.timer = r.timer
      /\ n.version = r.version + 1 /\ n.day = d
  <2>1. d \in Days
    OBVIOUS
  <2> HIDE DEF a, d
  <2> QED BY <1>1, <2>1 DEF Row
<1>3. After("defer", r) = n
  BY DEF After
<1> QED BY <1>2, <1>3

LEMMA TimerFields ==
  ASSUME NEW r \in Row
  PROVE  /\ LET n == After("pause", r)
            IN /\ n \in Row /\ n.status = r.status /\ n.timer = "paused"
               /\ n.version = r.version + 1 /\ n.day = r.day
         /\ LET n == After("resume", r)
            IN /\ n \in Row /\ n.status = r.status /\ n.timer = "running"
               /\ n.version = r.version + 1 /\ n.day = r.day
<1>1. ASSUME NEW timer \in {"paused", "running"}
      PROVE  LET n == [r EXCEPT !.timer = timer, !.version = @ + 1]
             IN /\ n \in Row /\ n.status = r.status /\ n.timer = timer
                /\ n.version = r.version + 1 /\ n.day = r.day
  <2> DEFINE a == [r EXCEPT !.timer = timer]
             v == r.version + 1
             n == [a EXCEPT !.version = v]
  <2>1. /\ a \in Row /\ a.status = r.status /\ a.timer = timer
        /\ a.version = r.version /\ a.day = r.day
    BY DEF Row
  <2>2. v \in Nat
    BY DEF Row
  <2>3. /\ n \in Row /\ n.status = r.status /\ n.timer = timer
        /\ n.version = v /\ n.day = r.day
    <3> HIDE DEF a, v
    <3> QED BY <2>1, <2>2 DEF Row
  <2>4. [r EXCEPT !.timer = timer, !.version = @ + 1] = n
    <3>1. a.version = r.version
      BY <2>1
    <3> QED BY <3>1
  <2> QED BY <2>3, <2>4
<1> QED BY <1>1 DEF After

\* What a legal command makes of a task is a legal step.
LEMMA AfterStep ==
  ASSUME NEW r \in Row, NEW c \in Commands, Timed(r), Legal(c, r),
         c = "defer" => today + 1 \in Days
  PROVE  Step(r, After(c, r))
<1>1. r # Unborn /\ c # "create"
  BY DEF Legal, Open, Exists, Unborn
<1> DEFINE n == After(c, r)
<1> SUFFICES Step(r, n)
  OBVIOUS
<1>2. CASE c \in {"delete", "complete", "fail"}
  <2>1. n = Finished(r, IF c = "delete" THEN "gone" ELSE IF c = "complete" THEN "completed" ELSE "failed")
    BY <1>2 DEF After
  <2>2. /\ n \in Row /\ n.timer = "stopped" /\ n.version = r.version + 1 /\ n.day = r.day
        /\ n.status = IF c = "delete" THEN "gone" ELSE IF c = "complete" THEN "completed" ELSE "failed"
    BY <2>1, FinishedFields
  <2> HIDE DEF n
  <2> QED BY <1>1, <1>2, <2>2 DEF Legal, Step, Timed, Open, Exists, Phase, Moves, Row
<1>3. CASE c = "update"
  <2>1. /\ n \in Row /\ n.status = r.status /\ n.timer = r.timer
        /\ n.version = r.version + 1 /\ n.day = r.day
    BY <1>3, UpdateFields
  <2> HIDE DEF n
  <2> QED BY <1>1, <1>3, <2>1 DEF Legal, Step, Timed, Open, Phase, Moves, Row
<1>4. CASE c = "start"
  <2>1. /\ n \in Row /\ n.status = "in_progress" /\ n.timer = "running"
        /\ n.version = r.version + 1 /\ n.day = r.day
    BY <1>4, StartFields
  <2> HIDE DEF n
  <2> QED BY <1>1, <1>4, <2>1 DEF Legal, Step, Timed, Phase, Moves, Row
<1>5. CASE c \in {"pause", "resume"}
  <2>1. /\ n \in Row /\ n.status = r.status
        /\ n.timer = IF c = "pause" THEN "paused" ELSE "running"
        /\ n.version = r.version + 1 /\ n.day = r.day
    BY <1>5, TimerFields
  <2> HIDE DEF n
  <2> QED BY <1>1, <1>5, <2>1 DEF Legal, Step, Timed, Phase, Moves, Row
<1>6. CASE c = "defer"
  <2>1. /\ n \in Row /\ n.status = r.status /\ n.timer = r.timer
        /\ n.version = r.version + 1
    BY <1>6, DeferFields
  <2> HIDE DEF n
  <2> QED BY <1>1, <1>6, <2>1 DEF Legal, Step, Timed, Phase, Moves, Row
<1> HIDE DEF n
<1> QED BY <1>1, <1>2, <1>3, <1>4, <1>5, <1>6 DEF Commands

\* So is its creation, in a plan of any day.
LEMMA CreatedStep ==
  ASSUME NEW d \in Days
  PROVE  /\ [After("create", Unborn) EXCEPT !.day = d].version = 0
         /\ Step(Unborn, [After("create", Unborn) EXCEPT !.day = d])
<1> DEFINE a == After("create", Unborn)
           n == [a EXCEPT !.day = d]
<1>1. a = [status |-> "pending", timer |-> "stopped", version |-> 0, day |-> 0]
  BY DEF After, Unborn
<1>2. n = [status |-> "pending", timer |-> "stopped", version |-> 0, day |-> d]
  <2> HIDE DEF a
  <2> QED BY <1>1
<1>3. n \in Row
  BY <1>2 DEF Row
<1>4. n.status = "pending" /\ n.timer = "stopped" /\ n.version = 0
  BY <1>2
<1> HIDE DEF n
<1>5. Step(Unborn, n)
  BY <1>3, <1>4 DEF Step, Timed, Phase, Moves, Unborn
<1> QED BY <1>4, <1>5 DEF n

-----------------------------------------------------------------------------
(* Every row takes legal steps *)

\* Every step leaves a row alone or takes it one legal step further.
RowsStep ==
  /\ row' \in [Tasks -> Row]
  /\ \A t \in Tasks : row'[t] = row[t] \/ Step(row[t], row'[t])

LEMMA DayAfter == today \in Days /\ today < MaxDay => today + 1 \in Days
BY MaxDayAssumption DEF Days

\* What Commit does to the row it has found.
LEMMA CommitRow ==
  ASSUME IInv, NEW s \in Sessions, Commit(s)
  PROVE  \E t \in Tasks, d \in Days :
           /\ Target(sess[s], t)
           /\ Free(sess[s], t)
           /\ row' = [row EXCEPT ![t] = row'[t]]
           /\ Step(row[t], row'[t])
           /\ feed' = Append(feed, [task |-> t, row |-> row'[t]])
           /\ record' = [record EXCEPT ![sess[s].key] = Answer(sess[s], t)]
<1>1. PICK t \in Tasks, d \in Days :
        /\ Target(sess[s], t)
        /\ Free(sess[s], t)
        /\ sess[s].cmd = "defer" => today < MaxDay
        /\ row' = [row EXCEPT ![t] = IF sess[s].cmd = "create"
                                     THEN [After("create", @) EXCEPT !.day = d]
                                     ELSE After(sess[s].cmd, @)]
        /\ feed' = Published(sess[s], t)
        /\ record' = [record EXCEPT ![sess[s].key] = Answer(sess[s], t)]
  BY Zenon DEF Commit
<1>2. sess[s] # NoSession /\ sess[s].cmd \in Commands
  BY DEF IInv, KeysHeld, Commit
<1>3. row \in [Tasks -> Row] /\ row[t] \in Row /\ Timed(row[t])
  BY DEF IInv, TypeOK, TimerFollowsStatus, Timed
<1>4. CASE sess[s].cmd = "create"
  <2> DEFINE n == [After("create", Unborn) EXCEPT !.day = d]
  <2>1. row[t] = Unborn
    BY <1>1, <1>4 DEF Target
  <2>2. row' = [row EXCEPT ![t] = n]
    BY <1>1, <1>4, <2>1
  <2>3. Step(Unborn, n)
    BY CreatedStep
  <2> HIDE DEF n
  <2>4. row'[t] = n
    BY <1>3, <2>2
  <2> QED BY <1>1, <2>1, <2>2, <2>3, <2>4 DEF Published
<1>5. CASE sess[s].cmd # "create"
  <2> DEFINE n == After(sess[s].cmd, row[t])
  <2>1. t = sess[s].task /\ Matches(sess[s], row[t])
    BY <1>1, <1>5 DEF Target
  <2>2. Legal(sess[s].cmd, row[t])
    BY <1>2, <1>5, <2>1 DEF IInv, ReadsHold, Matches
  <2>3. row' = [row EXCEPT ![t] = n]
    BY <1>1, <1>5
  <2>4. sess[s].cmd = "defer" => today + 1 \in Days
    BY <1>1, DayAfter DEF IInv, TypeOK
  <2>5. Step(row[t], n)
    BY <1>2, <1>3, <2>2, <2>4, AfterStep
  <2> HIDE DEF n
  <2>6. row'[t] = n
    BY <1>3, <2>3
  <2> QED BY <1>1, <2>3, <2>5, <2>6 DEF Published
<1> QED BY <1>4, <1>5

LEMMA CommitRows ==
  ASSUME IInv, NEW s \in Sessions, Commit(s)
  PROVE  RowsStep
<1>1. PICK t \in Tasks : row' = [row EXCEPT ![t] = row'[t]] /\ Step(row[t], row'[t])
  BY CommitRow
<1>2. row \in [Tasks -> Row] /\ row'[t] \in Row
  BY <1>1 DEF IInv, TypeOK, Step
<1> DEFINE n == row'[t]
<1> HIDE DEF n
<1>3. row' = [row EXCEPT ![t] = n] /\ n \in Row /\ Step(row[t], n)
  BY <1>1, <1>2 DEF n
<1> QED BY <1>2, <1>3 DEF RowsStep

LEMMA PageCloseRows ==
  ASSUME IInv, PageClose
  PROVE  RowsStep
<1> SUFFICES ASSUME NEW t \in Tasks
             PROVE  row'[t] \in Row /\ (row'[t] = row[t] \/ Step(row[t], row'[t]))
  BY DEF PageClose, RowsStep
<1>1. row[t] \in Row /\ Timed(row[t])
  BY DEF IInv, TypeOK, TimerFollowsStatus, Timed
<1>2. CASE Closable(page, t)
  <2>1. Open(row[t])
    BY <1>2 DEF IInv, CleanUpsHold, Closable, Open
  <2>2. row'[t] = Finished(row[t], "failed")
    BY <1>2 DEF PageClose
  <2> QED BY <1>1, <2>1, <2>2, FailedStep DEF Step
<1>3. CASE ~Closable(page, t)
  BY <1>1, <1>3 DEF PageClose
<1> QED BY <1>2, <1>3

\* The worker's transaction sees a row as it will leave it.
LEMMA OwnStep ==
  ASSUME IInv, NEW t \in Tasks
  PROVE  Own(t) \in Row /\ (Own(t) = row[t] \/ Step(row[t], Own(t)))
<1>1. row[t] \in Row /\ Timed(row[t])
  BY DEF IInv, TypeOK, TimerFollowsStatus, Timed
<1>2. t \in worker.closed => Open(row[t])
  BY DEF IInv, CleanUpsHold
<1> QED BY <1>1, <1>2, FailedStep DEF Own, Step

LEMMA WorkerCommitRows ==
  ASSUME IInv, WorkerCommit
  PROVE  RowsStep
<1>1. row' = [t \in Tasks |-> Own(t)]
  BY DEF WorkerCommit
<1> QED BY <1>1, OwnStep DEF RowsStep

LEMMA SameRows == ASSUME IInv, row' = row PROVE RowsStep
BY DEF IInv, TypeOK, RowsStep

LEMMA NextRows == ASSUME IInv, [Next]_vars PROVE RowsStep
<1>1. CASE \E s \in Sessions : Commit(s)
  BY <1>1, CommitRows
<1>2. CASE PageClose
  BY <1>2, PageCloseRows
<1>3. CASE WorkerCommit
  BY <1>3, WorkerCommitRows
<1>4. CASE row' = row
  BY <1>4, SameRows
<1> QED BY <1>1, <1>2, <1>3, <1>4
  DEF Next, vars, Begin, Rollback, PageScan, WorkerList, WorkerScan, WorkerClose, WorkerRead,
      WorkerRollback, Midnight

\* Versions grow, and an unchanged version is an unchanged row.
LEMMA Versions ==
  ASSUME IInv, RowsStep, NEW t \in Tasks
  PROVE  /\ row[t].version \in Nat /\ row'[t].version \in Nat
         /\ row'[t].version >= row[t].version
         /\ row[t].status # "unborn" /\ row'[t].version = row[t].version => row'[t] = row[t]
         /\ row[t].status # "unborn" => row'[t].status # "unborn"
         /\ (row'[t].status = "in_progress" <=> row'[t].timer # "stopped")
<1>1. row[t] \in Row /\ row'[t] \in Row
  BY DEF IInv, TypeOK, RowsStep
<1>2. row[t].version \in Nat /\ row'[t].version \in Nat
  BY <1>1 DEF Row
<1>3. CASE row'[t] = row[t]
  BY <1>2, <1>3 DEF IInv, TimerFollowsStatus
<1>4. CASE Step(row[t], row'[t])
  BY <1>2, <1>4 DEF Step, Timed, Unborn
<1> QED BY <1>3, <1>4 DEF RowsStep

-----------------------------------------------------------------------------
(* Types *)

LEMMA UnbornRow == Unborn \in Row
BY MaxDayAssumption DEF Unborn, Row, Days

LEMMA Nobody ==
  /\ NoSession \in Session /\ NoResponse \in Response /\ NoWorker \in Worker
  /\ \A t \in Tasks : NoWorker.seen[t] = Unborn
  /\ NoWorker.pc = "idle" /\ NoWorker.closed = {} /\ NoWorker.items = {}
  /\ NoSession.key = None /\ NoSession.cmd = "none" /\ NoResponse.cmd = "none"
BY UnbornRow, MaxDayAssumption
DEF NoSession, Session, NoResponse, Response, NoWorker, Worker, Days

LEMMA ScanTyped == ASSUME TypeOK PROVE Scan \in [Tasks -> Row]
BY UnbornRow DEF TypeOK, Scan

LEMMA TypeInit == Init => TypeOK
BY Nobody, UnbornRow, MaxDayAssumption DEF Init, TypeOK, Days

LEMMA TypeBegin ==
  ASSUME IInv, NEW s \in Sessions, Begin(s)
  PROVE  TypeOK'
<1>1. PICK k \in Keys, c \in Offered :
        IF c = "create"
        THEN sess' = [sess EXCEPT ![s] = [cmd |-> c, key |-> k, task |-> None, expected |-> 0]]
        ELSE \E t \in Tasks :
               sess' = [sess EXCEPT ![s] = [cmd |-> c, key |-> k, task |-> t,
                                            expected |-> row[t].version]]
  BY DEF Begin
<1>2. c \in Commands
  BY OfferedAssumption
<1>3. \A t \in Tasks : row[t].version \in Nat
  BY DEF IInv, TypeOK, Row
<1>4. PICK q \in Session : sess' = [sess EXCEPT ![s] = q]
  BY <1>1, <1>2, <1>3 DEF Session
<1>5. sess' \in [Sessions -> Session]
  BY <1>4 DEF IInv, TypeOK
<1> QED BY <1>5 DEF IInv, TypeOK, Begin

LEMMA TypeCommit ==
  ASSUME IInv, NEW s \in Sessions, Commit(s), RowsStep
  PROVE  TypeOK'
<1>1. PICK t \in Tasks :
        /\ feed' = Append(feed, [task |-> t, row |-> row'[t]])
        /\ record' = [record EXCEPT ![sess[s].key] = Answer(sess[s], t)]
  BY CommitRow
<1>2. row' \in [Tasks -> Row] /\ row'[t] \in Row
  BY DEF RowsStep
<1>3. [task |-> t, row |-> row'[t]] \in Change
  BY <1>2 DEF Change
<1>4. feed' \in Seq(Change)
  BY <1>1, <1>3 DEF IInv, TypeOK
<1>5. Answer(sess[s], t) \in Response
  <2>1. sess[s] \in Session
    BY DEF IInv, TypeOK
  <2> QED BY <2>1, <1>2 DEF Answer, Response, Session, Row
<1>6. record' \in [Keys -> Response]
  BY <1>1, <1>5 DEF IInv, TypeOK
<1>7. sess' \in [Sessions -> Session]
  BY Nobody DEF IInv, TypeOK, Commit
<1> QED BY <1>2, <1>4, <1>6, <1>7 DEF IInv, TypeOK, Commit

\* The maintenance worker before its COMMIT.
LEMMA TypeWorker ==
  ASSUME IInv, WorkerList \/ WorkerScan \/ WorkerClose \/ WorkerRead \/ WorkerRollback
  PROVE  TypeOK'
<1>0. worker \in Worker /\ today \in Days
  BY DEF IInv, TypeOK
<1>1. CASE WorkerList
  <2>1. worker' \in Worker
    BY <1>0, <1>1 DEF WorkerList, Worker
  <2> QED BY <1>1, <2>1 DEF IInv, TypeOK, WorkerList
<1>2. CASE WorkerScan
  <2>1. worker' \in Worker
    BY <1>0, <1>2, ScanTyped DEF IInv, WorkerScan, Worker
  <2> QED BY <1>2, <2>1 DEF IInv, TypeOK, WorkerScan
<1>3. CASE WorkerClose
  <2>1. NoWorker.seen \in [Tasks -> Row]
    BY Nobody DEF Worker
  <2>2. worker' \in Worker
    BY <1>0, <1>3, <2>1 DEF WorkerClose, Worker
  <2> QED BY <1>3, <2>2 DEF IInv, TypeOK, WorkerClose
<1>4. CASE WorkerRead
  <2>1. PICK t \in worker.items :
          worker' = IF Exists(Own(t))
                    THEN [worker EXCEPT !.pc = "publishing", !.seen[t] = Own(t)]
                    ELSE [worker EXCEPT !.items = @ \ {t}]
    BY <1>4 DEF WorkerRead
  <2>2. t \in Tasks
    BY <1>0 DEF Worker
  <2>3. Own(t) \in Row
    BY <2>2, OwnStep
  <2>4. worker' \in Worker
    BY <1>0, <2>1, <2>2, <2>3 DEF Worker
  <2> QED BY <1>4, <2>4 DEF IInv, TypeOK, WorkerRead
<1>5. CASE WorkerRollback
  BY <1>5, Nobody DEF IInv, TypeOK, WorkerRollback
<1> QED BY <1>1, <1>2, <1>3, <1>4, <1>5

\* Rows published in some order are changes.
LEMMA OrderedChanges ==
  ASSUME NEW S \in SUBSET Tasks, NEW p \in Orders(S), NEW f \in [Tasks -> Row]
  PROVE  [i \in DOMAIN p |-> [task |-> p[i], row |-> f[p[i]]]] \in Seq(Change)
<1>1. IsFiniteSet(S)
  BY TasksAssumption, FS_Subset
<1>2. Cardinality(S) \in Nat
  BY <1>1, FS_CardinalityType
<1> DEFINE n == Cardinality(S)
<1>3. p \in [1..n -> S]
  BY DEF Orders
<1> HIDE DEF n
<1>4. n \in Nat /\ DOMAIN p = 1..n
  BY <1>2, <1>3 DEF n
<1>5. \A i \in 1..n : [task |-> p[i], row |-> f[p[i]]] \in Change
  BY <1>3 DEF Change
<1> QED BY <1>4, <1>5

LEMMA TypeWorkerCommit ==
  ASSUME IInv, WorkerCommit, RowsStep
  PROVE  TypeOK'
<1>0. worker \in Worker /\ feed \in Seq(Change)
  BY DEF IInv, TypeOK
<1>1. PICK p \in Orders(First), q \in Orders(Rest) :
        feed' = feed \o [i \in DOMAIN p |-> [task |-> p[i], row |-> worker.seen[p[i]]]]
                     \o [i \in DOMAIN q |-> [task |-> q[i], row |-> Own(q[i])]]
  BY DEF WorkerCommit
<1>2. First \in SUBSET Tasks /\ Rest \in SUBSET Tasks
  BY <1>0 DEF First, Rest, Worker
<1>3. \A t \in Tasks : worker.seen[t] \in Row /\ Own(t) \in Row
  BY <1>0, OwnStep DEF Worker
<1> DEFINE x == [i \in DOMAIN p |-> [task |-> p[i], row |-> worker.seen[p[i]]]]
           y == [i \in DOMAIN q |-> [task |-> q[i], row |-> Own(q[i])]]
<1>4. x \in Seq(Change)
  <2>1. worker.seen \in [Tasks -> Row]
    BY <1>0 DEF Worker
  <2> QED BY <1>2, <2>1, OrderedChanges
<1>5. y \in Seq(Change)
  <2> DEFINE f == [t \in Tasks |-> Own(t)]
             z == [i \in DOMAIN q |-> [task |-> q[i], row |-> f[q[i]]]]
  <2>1. f \in [Tasks -> Row]
    BY <1>3
  <2>2. z \in Seq(Change)
    <3> HIDE DEF f
    <3> QED BY <1>2, <2>1, OrderedChanges
  <2>3. \A i \in DOMAIN q : f[q[i]] = Own(q[i])
    BY <1>2 DEF Orders
  <2> QED BY <2>2, <2>3
<1>6. feed' \in Seq(Change)
  <2> HIDE DEF x, y
  <2>1. feed \o x \o y \in Seq(Change)
    BY <1>0, <1>4, <1>5
  <2> QED BY <1>1, <2>1 DEF x, y
<1>7. worker' \in Worker /\ cleaned' \subseteq Days
  BY <1>0, Nobody DEF IInv, TypeOK, WorkerCommit, Worker
<1> QED BY <1>6, <1>7 DEF IInv, TypeOK, WorkerCommit, RowsStep

LEMMA TypeStep == ASSUME IInv, [Next]_vars PROVE TypeOK'
<1>1. RowsStep
  BY NextRows
<1>2. ASSUME NEW s \in Sessions, Rollback(s) PROVE TypeOK'
  BY <1>2, Nobody DEF IInv, TypeOK, Rollback
<1>3. CASE PageScan
  BY <1>3, ScanTyped DEF IInv, TypeOK, PageScan
<1>4. CASE PageClose
  BY <1>1, <1>4, UnbornRow DEF IInv, TypeOK, PageClose, RowsStep
<1>5. CASE Midnight
  BY <1>5, DayAfter DEF IInv, TypeOK, Midnight
<1>6. CASE UNCHANGED vars
  BY <1>6 DEF IInv, TypeOK, vars
<1> QED BY <1>1, <1>2, <1>3, <1>4, <1>5, <1>6, TypeBegin, TypeCommit, TypeWorker, TypeWorkerCommit
        DEF Next

-----------------------------------------------------------------------------
(* Keys, reads and versions *)

\* A session that ends holds no key; the records of the others are theirs.
LEMMA KeysStep == ASSUME IInv, [Next]_vars PROVE KeysHeld'
<1>0. /\ sess \in [Sessions -> Session]
      /\ record \in [Keys -> Response]
  BY DEF IInv, TypeOK
<1>1. CASE sess' = sess /\ record' = record
  BY <1>1 DEF IInv, KeysHeld
<1>2. ASSUME NEW s \in Sessions, Begin(s) PROVE KeysHeld'
  <2>1. PICK k, c, q :
          /\ k \in Keys /\ c \in Offered
          /\ Unclaimed(k)
          /\ q.cmd = c /\ q.key = k
          /\ sess' = [sess EXCEPT ![s] = q]
    <3>1. PICK k \in Keys, c \in Offered :
            /\ Unclaimed(k)
            /\ IF c = "create"
               THEN sess' = [sess EXCEPT ![s] = [cmd |-> c, key |-> k, task |-> None, expected |-> 0]]
               ELSE \E t \in Tasks :
                      sess' = [sess EXCEPT ![s] = [cmd |-> c, key |-> k, task |-> t,
                                                   expected |-> row[t].version]]
      BY <1>2 DEF Begin
    <3>2. PICK t, v : sess' = [sess EXCEPT ![s] = [cmd |-> c, key |-> k, task |-> t, expected |-> v]]
      BY <3>1
    <3> DEFINE q == [cmd |-> c, key |-> k, task |-> t, expected |-> v]
    <3>3. q.cmd = c /\ q.key = k
      OBVIOUS
    <3> HIDE DEF q
    <3>4. sess' = [sess EXCEPT ![s] = q]
      BY <3>2 DEF q
    <3> QED BY <3>1, <3>3, <3>4
  <2>2. record' = record /\ c \in Commands
    BY <1>2, <2>1, OfferedAssumption DEF Begin
  <2>3. /\ sess'[s].key = k /\ sess'[s].cmd = c
        /\ \A u \in Sessions : u # s => sess'[u] = sess[u] /\ sess[u].key # k
    BY <1>0, <2>1 DEF Unclaimed
  <2> QED BY <2>1, <2>2, <2>3 DEF IInv, KeysHeld, Unclaimed
<1>3. ASSUME NEW s \in Sessions, Commit(s) PROVE KeysHeld'
  <2>1. PICK t \in Tasks : record' = [record EXCEPT ![sess[s].key] = Answer(sess[s], t)]
    BY <1>3, CommitRow
  <2>2. sess[s] # NoSession /\ sess' = [sess EXCEPT ![s] = NoSession]
    BY <1>3 DEF Commit
  <2>3. /\ sess'[s] = NoSession
        /\ \A u \in Sessions : u # s => sess'[u] = sess[u] /\ (sess[u] # NoSession =>
             record'[sess[u].key] = record[sess[u].key])
    BY <1>0, <2>1, <2>2 DEF IInv, KeysHeld
  <2> QED BY <2>3, Nobody, NoneAssumption DEF IInv, KeysHeld
<1>4. ASSUME NEW s \in Sessions, Rollback(s) PROVE KeysHeld'
  <2>1. /\ sess'[s] = NoSession
        /\ \A u \in Sessions : u # s => sess'[u] = sess[u]
        /\ record' = record
    BY <1>0, <1>4 DEF Rollback
  <2> QED BY <2>1, Nobody, NoneAssumption DEF IInv, KeysHeld
<1> QED BY <1>1, <1>2, <1>3, <1>4
  DEF Next, vars, PageScan, PageClose, WorkerList, WorkerScan, WorkerClose, WorkerRead,
      WorkerCommit, WorkerRollback, Midnight

LEMMA ReadsStep == ASSUME IInv, [Next]_vars PROVE ReadsHold'
<1>0. RowsStep /\ sess \in [Sessions -> Session]
  BY NextRows DEF IInv, TypeOK
\* What a session has read stays true of the task, or its version is past.
<1>1. ASSUME NEW u \in Sessions, sess[u] # NoSession, sess[u].cmd # "create", sess'[u] = sess[u]
      PROVE  /\ sess'[u].task \in Tasks
             /\ row'[sess'[u].task].status # "unborn"
             /\ sess'[u].expected <= row'[sess'[u].task].version
             /\ sess'[u].expected = row'[sess'[u].task].version
                  => Legal(sess'[u].cmd, row'[sess'[u].task])
  <2> DEFINE t == sess[u].task
  <2>1. /\ t \in Tasks
        /\ row[t].status # "unborn"
        /\ sess[u].expected <= row[t].version
        /\ sess[u].expected = row[t].version => Legal(sess[u].cmd, row[t])
    BY <1>1 DEF IInv, ReadsHold
  <2>2. sess[u].expected \in Nat
    BY <1>0 DEF Session
  <2>3. /\ row[t].version \in Nat /\ row'[t].version \in Nat
        /\ row'[t].version >= row[t].version
        /\ row'[t].version = row[t].version => row'[t] = row[t]
        /\ row'[t].status # "unborn"
    BY <1>0, <2>1, Versions
  <2> QED BY <1>1, <2>1, <2>2, <2>3
<1>2. CASE \A u \in Sessions : sess'[u] = sess[u] \/ sess'[u] = NoSession
  BY <1>1, <1>2 DEF ReadsHold
<1>3. ASSUME NEW s \in Sessions, Begin(s) PROVE ReadsHold'
  <2>1. PICK k \in Keys, c \in Offered :
          IF c = "create"
          THEN sess' = [sess EXCEPT ![s] = [cmd |-> c, key |-> k, task |-> None, expected |-> 0]]
          ELSE \E t \in Tasks :
                 /\ Legal(c, row[t])
                 /\ sess' = [sess EXCEPT ![s] = [cmd |-> c, key |-> k, task |-> t,
                                                 expected |-> row[t].version]]
    BY <1>3 DEF Begin
  <2>2. row' = row /\ \A u \in Sessions : u # s => sess'[u] = sess[u]
    BY <1>0, <1>3 DEF Begin
  <2>3. CASE c = "create"
    <3>1. sess'[s].cmd = "create"
      BY <1>0, <2>1, <2>3
    <3> QED BY <1>1, <2>2, <3>1 DEF ReadsHold
  <2>4. CASE c # "create"
    <3>1. PICK t \in Tasks :
            /\ Legal(c, row[t])
            /\ sess' = [sess EXCEPT ![s] = [cmd |-> c, key |-> k, task |-> t,
                                            expected |-> row[t].version]]
      BY <2>1, <2>4
    <3>2. sess'[s].cmd = c /\ sess'[s].task = t /\ sess'[s].expected = row[t].version
      BY <1>0, <3>1
    <3>3. row[t].status # "unborn" /\ row[t].version \in Nat
      BY <3>1 DEF Legal, Open, Exists, IInv, TypeOK, Row
    <3> QED BY <1>1, <2>2, <3>1, <3>2, <3>3 DEF ReadsHold
  <2> QED BY <2>3, <2>4
<1>4. ASSUME NEW s \in Sessions, sess' = [sess EXCEPT ![s] = NoSession] PROVE ReadsHold'
  BY <1>0, <1>2, <1>4
<1> QED BY <1>2, <1>3, <1>4
  DEF Next, vars, Commit, Rollback, PageScan, PageClose, WorkerList, WorkerScan, WorkerClose,
      WorkerRead, WorkerCommit, WorkerRollback, Midnight

\* A version that a command changes is past from then on, and was not before.
LEMMA SpentStep == ASSUME IInv, [Next]_vars PROVE Spent' /\ OneWinnerPerVersion'
<1>0. RowsStep /\ record \in [Keys -> Response]
  BY NextRows DEF IInv, TypeOK
\* An old answer.
<1>1. ASSUME NEW k \in Keys, Answered(k), record[k].cmd # "create"
      PROVE  /\ record[k].task \in Tasks
             /\ record[k].expected \in Nat
             /\ record[k].expected < row[record[k].task].version
             /\ record[k].expected < row'[record[k].task].version
  <2>1. record[k].task \in Tasks /\ record[k].expected < row[record[k].task].version
    BY <1>1 DEF IInv, Spent
  <2>2. record[k].expected \in Nat
    BY <1>0 DEF Response
  <2> QED BY <1>0, <2>1, <2>2, Versions
<1>2. CASE record' = record
  BY <1>1, <1>2 DEF Spent, OneWinnerPerVersion, Answered, IInv
<1>3. ASSUME NEW s \in Sessions, Commit(s) PROVE Spent' /\ OneWinnerPerVersion'
  <2>1. PICK t \in Tasks :
          /\ Target(sess[s], t)
          /\ Step(row[t], row'[t])
          /\ record' = [record EXCEPT ![sess[s].key] = Answer(sess[s], t)]
    BY <1>3, CommitRow
  <2> DEFINE k == sess[s].key
  <2>2. k \in Keys
    BY <1>3 DEF Commit, IInv, KeysHeld
  <2>3. /\ record'[k] = Answer(sess[s], t)
        /\ \A j \in Keys : j # k => record'[j] = record[j]
    BY <1>0, <2>1, <2>2
  <2>4. /\ record'[k].cmd = sess[s].cmd /\ record'[k].task = t
        /\ record'[k].expected = sess[s].expected
    BY <2>3 DEF Answer
  <2>5. ASSUME sess[s].cmd # "create"
        PROVE  /\ record'[k].expected = row[t].version
               /\ record'[k].expected < row'[t].version
    <3>1. Matches(sess[s], row[t])
      BY <2>1, <2>5 DEF Target
    <3>2. row[t] # Unborn /\ row[t].version \in Nat
      BY <3>1 DEF Matches, Exists, Unborn, IInv, TypeOK, Row
    <3> QED BY <2>1, <2>4, <3>1, <3>2 DEF Matches, Step
  <2>6. Spent'
    BY <1>1, <2>2, <2>3, <2>4, <2>5 DEF Spent, Answered
  <2>7. OneWinnerPerVersion'
    <3> SUFFICES ASSUME NEW i \in Keys, NEW j \in Keys, i # j,
                        Answered(i)', Answered(j)',
                        record'[i].cmd # "create", record'[j].cmd # "create",
                        record'[i].task = record'[j].task
                 PROVE  record'[i].expected # record'[j].expected
      BY DEF OneWinnerPerVersion
    <3>1. CASE i # k /\ j # k
      BY <2>3, <3>1 DEF IInv, OneWinnerPerVersion, Answered
    <3>2. CASE i = k
      <4>1. Answered(j) /\ record'[j] = record[j]
        BY <2>3, <3>2 DEF Answered
      <4>2. record[j].expected \in Nat /\ record[j].expected < row[record[j].task].version
        BY <1>1, <4>1
      <4>3. row[t].version \in Nat
        BY DEF IInv, TypeOK, Row
      <4> QED BY <2>4, <2>5, <3>2, <4>1, <4>2, <4>3
    <3>3. CASE j = k
      <4>1. Answered(i) /\ record'[i] = record[i]
        BY <2>3, <3>3 DEF Answered
      <4>2. record[i].expected \in Nat /\ record[i].expected < row[record[i].task].version
        BY <1>1, <4>1
      <4>3. row[t].version \in Nat
        BY DEF IInv, TypeOK, Row
      <4> QED BY <2>4, <2>5, <3>3, <4>1, <4>2, <4>3
    <3> QED BY <3>1, <3>2, <3>3
  <2> QED BY <2>6, <2>7
<1> QED BY <1>2, <1>3
  DEF Next, vars, Begin, Rollback, PageScan, PageClose, WorkerList, WorkerScan, WorkerClose,
      WorkerRead, WorkerCommit, WorkerRollback, Midnight

-----------------------------------------------------------------------------
(* Clean-ups *)

\* What is listed to be closed was open when read; what is held stays open,
\* for nobody else can write it.
LEMMA CleanUpsStep == ASSUME IInv, [Next]_vars PROVE CleanUpsHold'
<1>0. /\ worker \in Worker
      /\ row \in [Tasks -> Row]
      /\ \A t \in Tasks : Scan[t] # Unborn => Open(Scan[t])
  BY DEF IInv, TypeOK, Scan, Stale
<1>1. CASE row' = row /\ page' = page /\ worker' = worker
  BY <1>1 DEF IInv, CleanUpsHold
<1>2. ASSUME NEW s \in Sessions, Commit(s) PROVE CleanUpsHold'
  <2>1. PICK t \in Tasks : Free(sess[s], t) /\ row' = [row EXCEPT ![t] = row'[t]]
    BY <1>2, CommitRow
  <2>2. \A u \in worker.closed : row'[u] = row[u]
    BY <1>0, <2>1 DEF Free, Worker
  <2> QED BY <1>2, <2>2 DEF Commit, IInv, CleanUpsHold
<1>3. CASE PageScan
  BY <1>0, <1>3 DEF PageScan, IInv, CleanUpsHold
<1>4. CASE PageClose
  <2>1. \A t \in worker.closed : row'[t] = row[t]
    BY <1>0, <1>4 DEF PageClose, Worker
  <2> QED BY <1>4, <2>1 DEF PageClose, IInv, CleanUpsHold
<1>5. CASE WorkerList \/ WorkerScan
  <2>1. worker'.closed = {} /\ worker.closed = {}
    BY <1>0, <1>5 DEF WorkerList, WorkerScan, Worker, IInv, CleanUpsHold
  <2>2. worker'.pc = "scanned" => worker'.seen = Scan
    BY <1>0, <1>5 DEF WorkerList, WorkerScan, Worker
  <2> QED BY <1>0, <1>5, <2>1, <2>2 DEF WorkerList, WorkerScan, IInv, CleanUpsHold
<1>6. CASE WorkerClose
  <2>1. worker'.pc = "closed" /\ worker'.closed = {t \in Tasks : Closable(worker.seen, t)}
    BY <1>0, <1>6 DEF WorkerClose, Worker
  <2>2. \A t \in worker'.closed : Open(row[t])
    BY <1>6, <2>1 DEF WorkerClose, Closable, Open, IInv, CleanUpsHold
  <2> QED BY <1>6, <2>1, <2>2 DEF WorkerClose, IInv, CleanUpsHold
<1>7. CASE WorkerRead
  <2>1. PICK t \in worker.items :
          worker' = IF Exists(Own(t))
                    THEN [worker EXCEPT !.pc = "publishing", !.seen[t] = Own(t)]
                    ELSE [worker EXCEPT !.items = @ \ {t}]
    BY <1>7 DEF WorkerRead
  <2>2. worker'.pc \in {"closed", "publishing"} /\ worker'.closed = worker.closed
    BY <1>0, <1>7, <2>1 DEF WorkerRead, Worker
  <2> QED BY <1>7, <2>2 DEF WorkerRead, IInv, CleanUpsHold
<1>8. CASE WorkerCommit \/ WorkerRollback
  <2>1. worker' = NoWorker /\ page' = page
    BY <1>8 DEF WorkerCommit, WorkerRollback
  <2> QED BY <2>1, Nobody DEF IInv, CleanUpsHold
<1> QED BY <1>1, <1>2, <1>3, <1>4, <1>5, <1>6, <1>7, <1>8
  DEF Next, vars, Begin, Rollback, Midnight

-----------------------------------------------------------------------------
(* Theorems *)

LEMMA InvInit == Init => IInv
<1> SUFFICES ASSUME Init PROVE IInv
  OBVIOUS
<1>1. TypeOK
  BY TypeInit
<1>2. TimerFollowsStatus
  BY DEF Init, TimerFollowsStatus, Unborn
<1>3. OneWinnerPerVersion /\ Spent
  BY Nobody DEF Init, OneWinnerPerVersion, Spent, Answered
<1>4. KeysHeld /\ ReadsHold
  BY DEF Init, KeysHeld, ReadsHold
<1>5. CleanUpsHold
  BY Nobody DEF Init, CleanUpsHold
<1> QED BY <1>1, <1>2, <1>3, <1>4, <1>5 DEF IInv

LEMMA InvStep == IInv /\ [Next]_vars => IInv'
<1> SUFFICES ASSUME IInv, [Next]_vars PROVE IInv'
  OBVIOUS
<1>1. TimerFollowsStatus'
  BY NextRows, Versions DEF TimerFollowsStatus
<1> QED BY <1>1, TypeStep, KeysStep, ReadsStep, SpentStep, CleanUpsStep DEF IInv

\* The inductive invariant holds in every reachable state.
THEOREM InvAlways == Spec => []IInv
BY InvInit, InvStep, PTL DEF Spec

\* Every variable keeps its type, the feed of published changes included.
THEOREM TypeCorrect == Spec => []TypeOK
<1>1. IInv => TypeOK
  BY DEF IInv
<1> QED BY <1>1, InvAlways, PTL

\* Whatever commands and clean-ups overlap, a task has a timer exactly while it
\* is in progress (start_task to close_out_stale_tasks).
THEOREM TimersFollow == Spec => []TimerFollowsStatus
<1>1. IInv => TimerFollowsStatus
  BY DEF IInv
<1> QED BY <1>1, InvAlways, PTL

\* Of the commands that read a version of a task, one at most is answered
\* (the version in every UPDATE).
THEOREM OneWinner == Spec => []OneWinnerPerVersion
<1>1. IInv => OneWinnerPerVersion
  BY DEF IInv
<1> QED BY <1>1, InvAlways, PTL

\* An answer is never replaced by another (execute_idempotent).
THEOREM Responses == Spec => ResponsesAreFinal
<1> DEFINE A == \A k \in Keys : Answered(k) => record'[k] = record[k]
<1>1. IInv /\ [Next]_vars => [A]_vars
  <2> SUFFICES ASSUME IInv, [Next]_vars, NEW k \in Keys, Answered(k)
               PROVE  record'[k] = record[k]
    OBVIOUS
  <2>1. CASE record' = record
    BY <2>1
  <2>2. ASSUME NEW s \in Sessions, Commit(s) PROVE record'[k] = record[k]
    <3>1. PICK t \in Tasks : record' = [record EXCEPT ![sess[s].key] = Answer(sess[s], t)]
      BY <2>2, CommitRow
    <3>2. record[sess[s].key] = NoResponse
      BY <2>2 DEF Commit, IInv, KeysHeld
    <3>3. k # sess[s].key
      BY <3>2, Nobody DEF Answered
    <3> QED BY <3>1, <3>3 DEF IInv, TypeOK
  <2> QED BY <2>1, <2>2
    DEF Next, vars, Begin, Rollback, PageScan, PageClose, WorkerList, WorkerScan, WorkerClose,
        WorkerRead, WorkerCommit, WorkerRollback, Midnight
<1> QED BY <1>1, InvAlways, PTL DEF Spec, ResponsesAreFinal

\* Every step of a task is one of the contract's state machine and one new
\* version, though it was checked on a row read earlier.
THEOREM Legality == Spec => LegalSteps
<1> DEFINE A == \A t \in Tasks : row'[t] # row[t] =>
                  /\ <<Phase(row[t]), Phase(row'[t])>> \in Moves
                  /\ row'[t].version = row[t].version + (IF row[t] = Unborn THEN 0 ELSE 1)
                  /\ row'[t].day # row[t].day => row'[t].status = "pending"
<1>1. IInv /\ [Next]_vars => [A]_vars
  <2> SUFFICES ASSUME IInv, [Next]_vars PROVE A
    OBVIOUS
  <2> QED BY NextRows DEF RowsStep, Step
<1> QED BY <1>1, InvAlways, PTL DEF Spec, LegalSteps

-----------------------------------------------------------------------------
(* The feed, when nothing is cleaned up *)

NothingCleaned ==
  /\ worker = NoWorker
  /\ page = [t \in Tasks |-> Unborn]

\* A commit publishes its row and no other.
LEMMA FeedStep ==
  ASSUME CleanUps = {}, IInv, NothingCleaned, FeedIsCurrent, [Next]_vars
  PROVE  NothingCleaned' /\ FeedIsCurrent'
<1>1. CASE UNCHANGED <<row, feed, worker, page>>
  BY <1>1 DEF NothingCleaned, FeedIsCurrent
<1>2. ASSUME NEW s \in Sessions, Commit(s) PROVE NothingCleaned' /\ FeedIsCurrent'
  <2>1. PICK t \in Tasks :
          /\ row' = [row EXCEPT ![t] = row'[t]]
          /\ feed' = Append(feed, [task |-> t, row |-> row'[t]])
    BY <1>2, CommitRow
  <2>2. feed \in Seq(Change) /\ row \in [Tasks -> Row]
    BY DEF IInv, TypeOK
  <2> DEFINE c == [task |-> t, row |-> row'[t]]
  <2>3. /\ Len(feed) \in Nat
        /\ Len(feed') = Len(feed) + 1
        /\ feed'[Len(feed) + 1] = c
        /\ \A i \in 1..Len(feed) : feed'[i] = feed[i]
    <3> HIDE DEF c
    <3>1. feed' = Append(feed, c)
      BY <2>1 DEF c
    <3> QED BY <2>2, <3>1
  <2>4. ASSUME NEW u \in Tasks, row'[u] # Unborn
        PROVE  \E i \in 1..Len(feed') :
                 /\ feed'[i] = [task |-> u, row |-> row'[u]]
                 /\ \A j \in i + 1..Len(feed') : feed'[j].task # u
    <3>1. CASE u = t
      BY <2>3, <3>1
    <3>2. CASE u # t
      <4>1. row'[u] = row[u]
        BY <2>1, <2>2, <3>2
      <4>2. PICK i \in 1..Len(feed) :
              /\ feed[i] = [task |-> u, row |-> row[u]]
              /\ \A j \in i + 1..Len(feed) : feed[j].task # u
        BY <2>4, <4>1 DEF FeedIsCurrent
      <4>3. \A j \in i + 1..Len(feed') : feed'[j].task # u
        BY <2>3, <3>2, <4>2
      <4> QED BY <2>3, <4>1, <4>2, <4>3
    <3> QED BY <3>1, <3>2
  <2> QED BY <1>2, <2>4 DEF FeedIsCurrent, NothingCleaned, Commit
<1>3. ~PageClose /\ ~WorkerClose /\ ~WorkerCommit /\ ~WorkerScan /\ ~WorkerRead /\ ~WorkerRollback
  BY Nobody DEF NothingCleaned, PageClose, WorkerClose, WorkerCommit, WorkerScan, WorkerRead,
                WorkerRollback
<1>4. ~PageScan /\ ~WorkerList
  BY DEF PageScan, WorkerList
<1> QED BY <1>1, <1>2, <1>3, <1>4 DEF Next, vars, Begin, Rollback, Midnight

\* Without clean-ups the feed ends, for every task, with the task as it is:
\* every command publishes what it commits, in the order of the commits
\* (_emit_task_change and record_change in the transaction of the command).
THEOREM FeedCurrent == ASSUME CleanUps = {} PROVE Spec => []FeedIsCurrent
<1> DEFINE J == IInv /\ NothingCleaned /\ FeedIsCurrent
<1>1. Init => J
  <2>1. Init => NothingCleaned /\ FeedIsCurrent
    BY DEF Init, NothingCleaned, FeedIsCurrent
  <2> QED BY <2>1, InvInit
<1>2. J /\ [Next]_vars => J'
  BY FeedStep, InvStep
<1>3. J => FeedIsCurrent
  OBVIOUS
<1> QED BY <1>1, <1>2, <1>3, PTL DEF Spec

-----------------------------------------------------------------------------
(* DeviceSync *)

\* The newest change of a task among the first n, or that there is none.
Newest(t, n, i) ==
  /\ i \in 1..n /\ feed[i].task = t
  /\ \A j \in i + 1..n : feed[j].task # t
Never(t, n) == \A i \in 1..n : feed[i].task # t

\* Every prefix of the feed has a newest change of each task in it.
FeedOrdered ==
  \A t \in Tasks : \A n \in 0..Len(feed) : Never(t, n) \/ \E i \in 1..n : Newest(t, n, i)

\* What is published was created; later changes of a task are later versions of
\* it, and a deletion is its last.
FeedGrows ==
  /\ \A i \in 1..Len(feed) : row[feed[i].task] # Unborn
  /\ \A i, j \in 1..Len(feed) : i < j /\ feed[i].task = feed[j].task =>
       feed[i].row.version <= feed[j].row.version /\ feed[i].row.status # "gone"

\* The cache is what the first n changes leave behind.
Reflects(cache, n) ==
  \A t \in Tasks :
    \/ Never(t, n) /\ cache[t] = Unborn
    \/ \E i \in 1..n : Newest(t, n, i) /\ cache[t] = feed[i].row

DeviceInv ==
  /\ device \in Device
  /\ device.cursor <= Len(feed) /\ device.revision <= Len(feed)
  /\ device.pc = "paging" => device.cursor <= device.revision
  /\ Reflects(device.cache, device.cursor)
  /\ device.pc = "built" /\ device.revision = Len(feed) => Reflects(device.snapshot, Len(feed))

\* What holds of the server.
ServerInv == IInv /\ NothingCleaned /\ FeedIsCurrent /\ FeedOrdered /\ FeedGrows

-----------------------------------------------------------------------------
(* The feed *)

\* A step of the server leaves the feed alone or appends one change.
LEMMA Appends ==
  ASSUME CleanUps = {}, IInv, NothingCleaned, [Next]_vars
  PROVE  \/ UNCHANGED <<row, feed>>
         \/ \E t \in Tasks :
              /\ row' = [row EXCEPT ![t] = row'[t]] /\ Step(row[t], row'[t])
              /\ Len(feed) \in Nat /\ Len(feed') = Len(feed) + 1
              /\ feed'[Len(feed) + 1] = [task |-> t, row |-> row'[t]]
              /\ \A i \in 1..Len(feed) : feed'[i] = feed[i]
<1>1. ASSUME NEW s \in Sessions, Commit(s)
      PROVE  \E t \in Tasks :
              /\ row' = [row EXCEPT ![t] = row'[t]] /\ Step(row[t], row'[t])
              /\ Len(feed) \in Nat /\ Len(feed') = Len(feed) + 1
              /\ feed'[Len(feed) + 1] = [task |-> t, row |-> row'[t]]
              /\ \A i \in 1..Len(feed) : feed'[i] = feed[i]
  <2>1. PICK t \in Tasks :
          /\ row' = [row EXCEPT ![t] = row'[t]] /\ Step(row[t], row'[t])
          /\ feed' = Append(feed, [task |-> t, row |-> row'[t]])
    BY <1>1, CommitRow
  <2>2. feed \in Seq(Change)
    BY DEF IInv, TypeOK
  <2> DEFINE c == [task |-> t, row |-> row'[t]]
  <2>3. feed' = Append(feed, c)
    BY <2>1
  <2> HIDE DEF c
  <2>4. /\ Len(feed) \in Nat /\ Len(feed') = Len(feed) + 1 /\ feed'[Len(feed) + 1] = c
        /\ \A i \in 1..Len(feed) : feed'[i] = feed[i]
    BY <2>2, <2>3
  <2> QED BY <2>1, <2>4 DEF c
<1>2. ~PageClose /\ ~WorkerClose /\ ~WorkerCommit /\ ~WorkerScan /\ ~WorkerRead /\ ~WorkerRollback
  BY Nobody DEF NothingCleaned, PageClose, WorkerClose, WorkerCommit, WorkerScan, WorkerRead,
                WorkerRollback
<1>3. ~PageScan /\ ~WorkerList
  BY DEF PageScan, WorkerList
<1> QED BY <1>1, <1>2, <1>3 DEF Next, vars, Begin, Rollback, Midnight

\* What the first changes say of a task does not change.
LEMMA PrefixStays ==
  ASSUME Len(feed) \in Nat, \A i \in 1..Len(feed) : feed'[i] = feed[i],
         NEW t, NEW n \in 0..Len(feed)
  PROVE  /\ Never(t, n)' <=> Never(t, n)
         /\ \A i \in 1..n : (Newest(t, n, i)' <=> Newest(t, n, i)) /\ feed'[i] = feed[i]
BY DEF Never, Newest

LEMMA ServerStep ==
  ASSUME CleanUps = {}, ServerInv, [Next]_vars PROVE ServerInv'
<1>1. IInv' /\ NothingCleaned' /\ FeedIsCurrent'
  BY FeedStep, InvStep DEF ServerInv
<1>2. CASE UNCHANGED <<row, feed>>
  BY <1>1, <1>2 DEF ServerInv, FeedOrdered, FeedGrows, Never, Newest
<1>3. ASSUME NEW t \in Tasks,
             row' = [row EXCEPT ![t] = row'[t]], Step(row[t], row'[t]),
             Len(feed) \in Nat, Len(feed') = Len(feed) + 1,
             feed'[Len(feed) + 1] = [task |-> t, row |-> row'[t]],
             \A i \in 1..Len(feed) : feed'[i] = feed[i]
      PROVE  FeedOrdered' /\ FeedGrows'
  <2> DEFINE last == Len(feed) + 1
  <2>1. FeedOrdered'
    <3> SUFFICES ASSUME NEW u \in Tasks, NEW n \in 0..last
                 PROVE  Never(u, n)' \/ \E i \in 1..n : Newest(u, n, i)'
      BY <1>3 DEF FeedOrdered
    <3>1. CASE n # last
      <4>1. n \in 0..Len(feed)
        BY <1>3, <3>1
      <4> QED BY <1>3, <4>1, PrefixStays DEF ServerInv, FeedOrdered
    <3>2. CASE n = last /\ u = t
      BY <1>3, <3>2 DEF Newest
    <3>3. CASE n = last /\ u # t
      <4>1. Never(u, Len(feed)) \/ \E i \in 1..Len(feed) : Newest(u, Len(feed), i)
        BY <1>3 DEF ServerInv, FeedOrdered
      <4>2. feed'[last].task # u
        BY <1>3, <3>3
      <4>3. ASSUME Never(u, Len(feed)) PROVE Never(u, n)'
        BY <1>3, <3>3, <4>2, <4>3 DEF Never
      <4>4. ASSUME NEW i \in 1..Len(feed), Newest(u, Len(feed), i) PROVE Newest(u, n, i)'
        BY <1>3, <3>3, <4>2, <4>4 DEF Newest
      <4> QED BY <1>3, <3>3, <4>1, <4>3, <4>4
    <3> QED BY <3>1, <3>2, <3>3
  <2>2. row \in [Tasks -> Row] /\ row'[t] # Unborn /\ row'[t].version \in Nat
    <3>1. row'[t] \in Row /\ row'[t].status # "unborn"
      BY <1>3 DEF Step
    <3>2. Unborn.status = "unborn"
      BY DEF Unborn
    <3>3. row'[t].version \in Nat
      BY <3>1 DEF Row
    <3>4. row \in [Tasks -> Row]
      BY DEF ServerInv, IInv, TypeOK
    <3> QED BY <3>1, <3>2, <3>3, <3>4
  <2>3. \A i \in 1..Len(feed) : feed[i].task \in Tasks /\ feed[i].row.version \in Nat
    <3>1. feed \in Seq(Change)
      BY DEF ServerInv, IInv, TypeOK
    <3>2. \A i \in 1..Len(feed) : feed[i] \in Change
      BY <3>1
    <3>3. \A r \in Change : r.task \in Tasks /\ r.row.version \in Nat
      BY DEF Change, Row
    <3> QED BY <3>2, <3>3
  <2>4. ASSUME NEW i \in 1..last PROVE row'[feed'[i].task] # Unborn
    <3>1. CASE i = last
      BY <1>3, <2>2, <3>1
    <3>2. CASE i # last
      <4>1. i \in 1..Len(feed)
        BY <1>3, <3>2
      <4>2. feed'[i] = feed[i] /\ row[feed[i].task] # Unborn
        BY <1>3, <4>1 DEF ServerInv, FeedGrows
      <4> QED BY <1>3, <2>2, <2>3, <4>1, <4>2
    <3> QED BY <3>1, <3>2
  <2>5. ASSUME NEW i \in 1..Len(feed), feed[i].task = t
        PROVE  feed[i].row.version <= row[t].version /\ (feed[i].row.status = "gone" => row[t].status = "gone")
    <3>1. row[t] # Unborn
      BY <2>5 DEF ServerInv, FeedGrows
    <3>2. PICK k \in 1..Len(feed) :
            /\ feed[k] = [task |-> t, row |-> row[t]]
            /\ \A j \in k + 1..Len(feed) : feed[j].task # t
      BY <3>1 DEF ServerInv, FeedIsCurrent
    <3>3. i <= k /\ feed[k].task = t /\ feed[k].row = row[t]
      BY <1>3, <2>5, <3>2
    <3>4. CASE i = k
      BY <2>3, <3>3, <3>4
    <3>5. CASE i < k
      BY <2>5, <3>3, <3>5 DEF ServerInv, FeedGrows
    <3> QED BY <3>3, <3>4, <3>5
  <2>6. row[t].status # "gone" /\ row[t].version \in Nat /\ row[t].version <= row'[t].version
    <3>1. <<Phase(row[t]), Phase(row'[t])>> \in Moves
      BY <1>3 DEF Step
    <3>2. row[t].status # "gone"
      BY <3>1 DEF Phase, Moves
    <3>3. row[t].version \in Nat
      BY <2>2 DEF Row
    <3> QED BY <1>3, <3>2, <3>3 DEF Step
  <2>7. ASSUME NEW i \in 1..last, NEW j \in 1..last, i < j, feed'[i].task = feed'[j].task
        PROVE  feed'[i].row.version <= feed'[j].row.version /\ feed'[i].row.status # "gone"
    <3>1. i \in 1..Len(feed) /\ feed'[i] = feed[i]
      BY <1>3, <2>7
    <3>2. CASE j = last
      BY <1>3, <2>2, <2>3, <2>5, <2>6, <2>7, <3>1, <3>2
    <3>3. CASE j # last
      <4>1. j \in 1..Len(feed) /\ feed'[j] = feed[j]
        BY <1>3, <3>3
      <4> QED BY <2>7, <3>1, <4>1 DEF ServerInv, FeedGrows
    <3> QED BY <3>2, <3>3
  <2> QED BY <1>3, <2>1, <2>4, <2>7 DEF FeedGrows
<1> QED BY <1>1, <1>2, <1>3, Appends DEF ServerInv

\* The tasks as they are, are what the whole feed leaves behind.
LEMMA RowReflected == ASSUME ServerInv PROVE Reflects(row, Len(feed))
<1> SUFFICES ASSUME NEW t \in Tasks
             PROVE \/ Never(t, Len(feed)) /\ row[t] = Unborn
                   \/ \E i \in 1..Len(feed) : Newest(t, Len(feed), i) /\ row[t] = feed[i].row
  BY DEF Reflects
<1>1. CASE row[t] = Unborn
  BY <1>1 DEF ServerInv, FeedGrows, Never
<1>2. CASE row[t] # Unborn
  <2>1. PICK i \in 1..Len(feed) :
          /\ feed[i] = [task |-> t, row |-> row[t]]
          /\ \A j \in i + 1..Len(feed) : feed[j].task # t
    BY <1>2 DEF ServerInv, FeedIsCurrent
  <2> QED BY <2>1 DEF Newest
<1> QED BY <1>1, <1>2

\* What a longer prefix leaves behind is no older.
LEMMA Ahead ==
  ASSUME ServerInv, NEW c, NEW d, NEW m \in Nat, NEW n \in Nat, m <= n, n <= Len(feed),
         Reflects(c, m), Reflects(d, n), NEW t \in Tasks
  PROVE  d[t].version >= c[t].version /\ (c[t].status = "gone" => d[t].status = "gone")
<1>1. /\ Len(feed) \in Nat
      /\ \A i \in 1..Len(feed) : feed[i].row.version \in Nat
  <2>1. feed \in Seq(Change)
    BY DEF ServerInv, IInv, TypeOK
  <2>2. \A i \in 1..Len(feed) : feed[i] \in Change
    BY <2>1
  <2>3. \A r \in Change : r.row.version \in Nat
    BY DEF Change, Row
  <2> QED BY <2>1, <2>2, <2>3
<1>2. CASE Never(t, m) /\ c[t] = Unborn
  <2>1. c[t].version = 0 /\ c[t].status = "unborn"
    BY <1>2 DEF Unborn
  <2>2. d[t].version \in Nat
    BY <1>1 DEF Reflects, Unborn
  <2> QED BY <2>1, <2>2
<1>3. ASSUME NEW i \in 1..m, Newest(t, m, i), c[t] = feed[i].row
      PROVE  d[t].version >= c[t].version /\ (c[t].status = "gone" => d[t].status = "gone")
  <2>1. i \in 1..n /\ i \in 1..Len(feed) /\ feed[i].task = t
    BY <1>1, <1>3 DEF Newest
  <2>2. ~Never(t, n)
    BY <2>1 DEF Never
  <2>3. PICK k \in 1..n : Newest(t, n, k) /\ d[t] = feed[k].row
    BY <2>2 DEF Reflects
  <2>4. i <= k /\ feed[k].task = t /\ k \in 1..Len(feed)
    BY <1>1, <2>1, <2>3 DEF Newest
  <2>5. CASE i = k
    BY <1>1, <1>3, <2>1, <2>3, <2>5
  <2>6. CASE i < k
    BY <1>1, <1>3, <2>1, <2>3, <2>4, <2>6 DEF ServerInv, FeedGrows
  <2> QED BY <2>4, <2>5, <2>6
<1> QED BY <1>2, <1>3 DEF Reflects

-----------------------------------------------------------------------------
(* The device *)

\* Its cache and cursor move together, to a prefix that is no shorter.
Follows ==
  /\ device.cursor <= device'.cursor /\ device'.cursor <= Len(feed)
  /\ Reflects(device.cache, device.cursor) /\ Reflects(device'.cache, device'.cursor)

LEMMA NothingTyped == Nothing \in [Tasks -> Row] /\ \A t \in Tasks : Nothing[t] = Unborn
BY UnbornRow DEF Nothing

\* A page takes the cache from one prefix to the next.
LEMMA PageReflects ==
  ASSUME ServerInv, DeviceInv, NEW n \in Nat, device.cursor <= n, n <= Len(feed)
  PROVE  /\ Reflects([t \in Tasks |-> Latest(t, device.cursor, n)], n)
         /\ [t \in Tasks |-> Latest(t, device.cursor, n)] \in [Tasks -> Row]
<1>1. feed \in Seq(Change) /\ device.cursor \in Nat /\ device.cache \in [Tasks -> Row]
  BY DEF ServerInv, IInv, TypeOK, DeviceInv, Device
<1>2. Len(feed) \in Nat /\ \A i \in 1..Len(feed) : feed[i] \in Change
  BY <1>1
<1>3. ASSUME NEW t \in Tasks
      PROVE  /\ \/ Never(t, n) /\ Latest(t, device.cursor, n) = Unborn
                \/ \E i \in 1..n : Newest(t, n, i) /\ Latest(t, device.cursor, n) = feed[i].row
             /\ Latest(t, device.cursor, n) \in Row
  <2> DEFINE mine == {i \in device.cursor + 1..n : feed[i].task = t}
  <2>1. \/ Never(t, device.cursor) /\ device.cache[t] = Unborn
        \/ \E i \in 1..device.cursor :
             Newest(t, device.cursor, i) /\ device.cache[t] = feed[i].row
    BY DEF DeviceInv, Reflects
  <2>2. CASE mine = {}
    <3>1. Latest(t, device.cursor, n) = device.cache[t]
      BY <2>2 DEF Latest
    <3>2. \A j \in device.cursor + 1..n : feed[j].task # t
      BY <2>2
    <3>3. ASSUME Never(t, device.cursor) PROVE Never(t, n)
      BY <1>1, <3>2, <3>3 DEF Never
    <3>4. ASSUME NEW i \in 1..device.cursor, Newest(t, device.cursor, i)
          PROVE  i \in 1..n /\ Newest(t, n, i)
      BY <1>1, <3>2, <3>4 DEF Newest
    <3>5. device.cache[t] \in Row
      BY <1>1
    <3> QED BY <2>1, <3>1, <3>3, <3>4, <3>5
  <2>3. CASE mine # {}
    <3>1. PICK k \in mine : TRUE
      BY <2>3
    <3>2. k \in device.cursor + 1..n /\ feed[k].task = t
      BY <3>1
    <3>3. k \in 1..n
      BY <1>1, <3>2
    <3>4. ~Never(t, n) /\ n \in 0..Len(feed)
      BY <1>2, <3>2, <3>3 DEF Never
    <3>5. PICK i \in 1..n : Newest(t, n, i)
      BY <3>4 DEF ServerInv, FeedOrdered
    <3>6. k <= i /\ feed[i].task = t
      BY <3>2, <3>3, <3>5 DEF Newest
    <3>7. i \in mine
      BY <1>1, <3>2, <3>6
    <3>8. \A j \in mine : i >= j
      <4> SUFFICES ASSUME NEW j \in mine PROVE i >= j
        OBVIOUS
      <4>1. j \in device.cursor + 1..n /\ feed[j].task = t
        OBVIOUS
      <4> QED BY <1>1, <3>5, <4>1 DEF Newest
    <3>9. \A x \in mine : (\A j \in mine : x >= j) => x = i
      <4>1. \A x \in mine : x \in Nat
        BY <1>1
      <4> QED BY <3>7, <3>8, <4>1
    <3>10. (CHOOSE x \in mine : \A j \in mine : x >= j) = i
      <4> HIDE DEF mine
      <4> QED BY <3>7, <3>8, <3>9
    <3>11. Latest(t, device.cursor, n) = feed[i].row
      BY <2>3, <3>10 DEF Latest
    <3>12. feed[i] \in Change
      BY <1>2, <3>4
    <3> QED BY <3>5, <3>11, <3>12 DEF Change
  <2> QED BY <2>2, <2>3
<1> QED BY <1>3 DEF Reflects

\* The steps of the server, seen from a device that does nothing.
LEMMA DeviceWaits ==
  ASSUME CleanUps = {}, ServerInv, DeviceInv, [Next]_vars, UNCHANGED device
  PROVE  DeviceInv'
<1>1. CASE UNCHANGED <<row, feed>>
  BY <1>1 DEF DeviceInv, Reflects, Never, Newest
<1>2. ASSUME Len(feed) \in Nat, Len(feed') = Len(feed) + 1,
             \A i \in 1..Len(feed) : feed'[i] = feed[i]
      PROVE  DeviceInv'
  <2>1. /\ device.cursor \in Nat /\ device.revision \in Nat
        /\ device.cursor <= Len(feed) /\ device.revision <= Len(feed)
    BY DEF DeviceInv, Device
  <2>2. Reflects(device.cache, device.cursor)'
    <3>1. device.cursor \in 0..Len(feed)
      BY <1>2, <2>1
    <3> QED BY <1>2, <3>1, PrefixStays DEF DeviceInv, Reflects
  <2>3. ~(device'.revision = Len(feed'))
    BY <1>2, <2>1
  <2>4. device'.cursor <= Len(feed') /\ device'.revision <= Len(feed')
    BY <1>2, <2>1
  <2>5. device' \in Device /\ (device'.pc = "paging" => device'.cursor <= device'.revision)
    BY DEF DeviceInv
  <2> QED BY <2>2, <2>3, <2>4, <2>5 DEF DeviceInv
<1> QED BY <1>1, <1>2, Appends DEF ServerInv

\* The steps of the device.
LEMMA DeviceSteps ==
  ASSUME ServerInv, DeviceInv, Sync PROVE DeviceInv' /\ Follows
<1>1. /\ device \in Device /\ device.cursor \in Nat /\ device.revision \in Nat
      /\ device.cursor <= Len(feed) /\ device.revision <= Len(feed)
      /\ feed \in Seq(Change) /\ row \in [Tasks -> Row]
  BY DEF DeviceInv, Device, ServerInv, IInv, TypeOK
<1>2. UNCHANGED <<row, feed>> /\ Len(feed) \in Nat
  BY <1>1 DEF Sync, SyncSince, ApplyPage, SnapshotBegin, SnapshotRead, SnapshotEnd, vars
<1>3. Reflects(device.cache, device.cursor)
  BY DEF DeviceInv
<1>5. CASE SyncSince \/ SnapshotBegin
  <2>1. /\ device'.pc \in {"paging", "snapshot"} /\ device'.revision = Len(feed) /\ device' \in Device
        /\ device'.cursor = device.cursor /\ device'.cache = device.cache
    BY <1>1, <1>2, <1>5 DEF SyncSince, SnapshotBegin, Device
  <2>2. Reflects(device.cache, device.cursor)'
    BY <1>2, <1>3, <2>1 DEF Reflects, Never, Newest
  <2> QED BY <1>1, <1>2, <1>3, <2>1, <2>2 DEF DeviceInv, Follows
<1>6. CASE SnapshotRead
  <2>1. /\ device'.pc = "built" /\ device'.snapshot = row /\ device' \in Device
        /\ device'.revision = device.revision
        /\ device'.cursor = device.cursor /\ device'.cache = device.cache
    BY <1>1, <1>6 DEF SnapshotRead, Device
  <2>2. Reflects(device.cache, device.cursor)'
    BY <1>2, <1>3, <2>1 DEF Reflects, Never, Newest
  <2>3. Reflects(device.snapshot, Len(feed))'
    BY <1>2, <2>1, RowReflected DEF Reflects, Never, Newest
  <2> QED BY <1>1, <1>2, <1>3, <2>1, <2>2, <2>3 DEF DeviceInv, Follows
<1>7. CASE SnapshotEnd /\ ~Unmoved
  <2>1. /\ device'.pc = "idle" /\ device' \in Device /\ device'.revision = 0
        /\ device'.cursor = device.cursor /\ device'.cache = device.cache
    BY <1>1, <1>7, NothingTyped DEF SnapshotEnd, Device
  <2>2. Reflects(device.cache, device.cursor)'
    BY <1>2, <1>3, <2>1 DEF Reflects, Never, Newest
  <2> QED BY <1>1, <1>2, <1>3, <2>1, <2>2 DEF DeviceInv, Follows
<1>8. CASE SnapshotEnd /\ Unmoved
  <2>1. /\ device'.pc = "idle" /\ device' \in Device /\ device'.revision = 0
        /\ device'.cursor = device.revision /\ device'.cache = device.snapshot
        /\ device.pc = "built" /\ device.revision = Len(feed)
    BY <1>1, <1>8, NothingTyped DEF SnapshotEnd, Unmoved, Device
  <2>2. Reflects(device.snapshot, Len(feed))
    BY <2>1 DEF DeviceInv
  <2>3. Reflects(device.cache, device.cursor)' /\ Reflects(device'.cache, device'.cursor)
    BY <1>2, <2>1, <2>2 DEF Reflects, Never, Newest
  <2> QED BY <1>1, <1>2, <1>3, <2>1, <2>3 DEF DeviceInv, Follows
<1>9. CASE ApplyPage
  <2> DEFINE n == Least(device.cursor + PageSize, device.revision)
             cache == [t \in Tasks |-> Latest(t, device.cursor, n)]
  <2>1. device.pc = "paging" /\ device.cursor <= device.revision
    BY <1>9 DEF ApplyPage, DeviceInv
  <2>2. n \in Nat /\ device.cursor <= n /\ n <= Len(feed)
    BY <1>1, <1>2, <2>1, PageSizeAssumption DEF Least
  <2> HIDE DEF n
  <2>3. Reflects(cache, n) /\ cache \in [Tasks -> Row]
    BY <2>2, PageReflects
  <2>4. device' = [device EXCEPT !.pc = "idle", !.revision = 0, !.cursor = n, !.cache = cache]
    BY <1>9 DEF ApplyPage, Checkpoint, n
  <2> HIDE DEF cache
  <2>5. /\ device'.pc = "idle" /\ device' \in Device /\ device'.revision = 0
        /\ device'.cursor = n /\ device'.cache = cache
    BY <1>1, <2>2, <2>3, <2>4 DEF Device
  <2>6. Reflects(device.cache, device.cursor)' /\ Reflects(device'.cache, device'.cursor)
    BY <1>2, <2>3, <2>5 DEF Reflects, Never, Newest
  <2> QED BY <1>1, <1>2, <1>3, <2>2, <2>5, <2>6 DEF DeviceInv, Follows
<1> QED BY <1>5, <1>6, <1>7, <1>8, <1>9 DEF Sync

LEMMA DeviceStart == DeviceInit => ServerInv /\ DeviceInv
<1> SUFFICES ASSUME DeviceInit PROVE ServerInv /\ DeviceInv
  OBVIOUS
<1>1. Init /\ IInv
  BY InvInit DEF DeviceInit
<1>2. feed = <<>> /\ Len(feed) = 0
  BY <1>1 DEF Init
<1>3. NothingCleaned /\ FeedIsCurrent
  BY <1>1 DEF Init, NothingCleaned, FeedIsCurrent
<1>4. FeedOrdered /\ FeedGrows
  BY <1>2 DEF FeedOrdered, FeedGrows, Never
<1>5. /\ device = [pc |-> "idle", cursor |-> 0, revision |-> 0, cache |-> Nothing,
                   snapshot |-> Nothing]
  BY DEF DeviceInit
<1>6. device \in Device
  BY <1>5, NothingTyped DEF Device
<1>7. Reflects(device.cache, device.cursor)
  BY <1>5, NothingTyped DEF Reflects, Never
<1> QED BY <1>1, <1>2, <1>3, <1>4, <1>5, <1>6, <1>7 DEF ServerInv, DeviceInv

LEMMA DeviceStep ==
  ASSUME CleanUps = {}, ServerInv, DeviceInv, [DeviceNext]_allvars
  PROVE  ServerInv' /\ DeviceInv'
<1>1. [Next]_vars
  BY DEF DeviceNext, allvars, Sync, SyncSince, ApplyPage, SnapshotBegin, SnapshotRead, SnapshotEnd
<1>2. ServerInv'
  BY <1>1, ServerStep
<1> QED BY <1>1, <1>2, DeviceWaits, DeviceSteps DEF DeviceNext, allvars

\* A device that has applied every change shows every task as it is, whichever
\* pages and snapshots the commands interrupt, for any page size.
THEOREM CaughtUp == ASSUME CleanUps = {} PROVE DeviceSpec => []CaughtUpIsCurrent
<1>1. ServerInv /\ DeviceInv => CaughtUpIsCurrent
  <2> SUFFICES ASSUME ServerInv, DeviceInv, device.cursor = Len(feed), NEW t \in Tasks
               PROVE  device.cache[t] = row[t]
    BY DEF CaughtUpIsCurrent
  <2>1. Reflects(row, Len(feed)) /\ Reflects(device.cache, Len(feed))
    BY RowReflected DEF DeviceInv
  <2>2. \A i, j \in 1..Len(feed) : Newest(t, Len(feed), i) /\ Newest(t, Len(feed), j) => i = j
    <3>1. Len(feed) \in Nat
      BY DEF ServerInv, IInv, TypeOK
    <3> QED BY <3>1 DEF Newest
  <2>3. \A i \in 1..Len(feed) : Newest(t, Len(feed), i) => ~Never(t, Len(feed))
    BY DEF Newest, Never
  <2> QED BY <2>1, <2>2, <2>3 DEF Reflects
<1>2. ServerInv /\ DeviceInv /\ [DeviceNext]_allvars => (ServerInv /\ DeviceInv)'
  BY DeviceStep
<1> QED BY <1>1, <1>2, DeviceStart, PTL DEF DeviceSpec

\* No page and no snapshot shows an older version of a task than the device has
\* shown, and a deleted task stays deleted.
THEOREM NoDeviceGoesBack == ASSUME CleanUps = {} PROVE DeviceSpec => NeverGoesBack
<1> DEFINE A == \A t \in Tasks :
                  /\ device'.cache[t].version >= device.cache[t].version
                  /\ device.cache[t].status = "gone" => device'.cache[t].status = "gone"
<1>1. ServerInv /\ DeviceInv /\ [DeviceNext]_allvars => [A]_allvars
  <2> SUFFICES ASSUME ServerInv, DeviceInv, DeviceNext, NEW t \in Tasks
               PROVE  /\ device'.cache[t].version >= device.cache[t].version
                      /\ device.cache[t].status = "gone" => device'.cache[t].status = "gone"
    OBVIOUS
  <2>1. CASE UNCHANGED device
    <3>1. device.cache[t].version \in Nat
      BY DEF DeviceInv, Device, Row
    <3> QED BY <2>1, <3>1
  <2>2. CASE Sync
    <3>1. Follows /\ device.cursor \in Nat /\ device'.cursor \in Nat
      BY <2>2, DeviceSteps DEF DeviceInv, Device
    <3> QED BY <3>1, Ahead DEF Follows
  <2> QED BY <2>1, <2>2 DEF DeviceNext
<1>2. ServerInv /\ DeviceInv /\ [DeviceNext]_allvars => (ServerInv /\ DeviceInv)'
  BY DeviceStep
<1> QED BY <1>1, <1>2, DeviceStart, PTL DEF DeviceSpec, NeverGoesBack
=============================================================================
