-------------------------- MODULE NotificationsProofs --------------------------
(***************************************************************************)
(* Proofs about notifications, for any events, workers, preferences, pages *)
(* and bounds.                                                             *)
(*                                                                         *)
(* The outbox: its types; and, when no worker outlives its lease, that     *)
(* leases exclude and that the outbox is a durable queue.                  *)
(*                                                                         *)
(* The notifications of a user: a device that has caught up shows them as  *)
(* they are, they are due in time and outside quiet hours, and one worker  *)
(* keeps them apart.  The invariant InboxInv says of every row what its    *)
(* decision promised, of every decision not written yet that the promise   *)
(* still holds, and of the device that every row whose revision it has     *)
(* passed is shown as it is.                                               *)
(***************************************************************************)
EXTENDS NotificationOutbox, NotificationInbox, FiniteSetTheorems, WellFoundedInduction, TLAPS

-----------------------------------------------------------------------------
(* NotificationOutbox *)

\* What a worker reports as failed belongs to its batch.
FailingHeld == \A w \in Workers : worker[w].failing \subseteq worker[w].batch

LeaseInv == TypeOK /\ WorkIsLeased /\ FailingHeld

-----------------------------------------------------------------------------
(* Rows and workers *)

\* A row keeps its type, and stays locked exactly while it is processing.
RowOK(r) ==
  /\ r \in Row
  /\ (r.owner # NoWorker) = (r.status = "processing")
  /\ r.lapsed => r.status = "processing"

LEMMA TypeOKRows ==
  TypeOK <=> /\ row \in [Events -> Row]
             /\ notified \subseteq Events
             /\ worker \in [Workers -> Worker]
             /\ faults \in Nat
             /\ \A e \in Events : RowOK(row[e])
BY DEF TypeOK, RowOK

LEMMA ClosedRow ==
  ASSUME NEW r \in Row,
         NEW s \in {"failed", "processed", "expired", "cancelled"}
  PROVE  /\ RowOK(Closed(r, s))
         /\ Closed(r, s).status = s
BY DEF Row, Statuses, Closed, RowOK

LEMMA RecoveredRow ==
  ASSUME NEW r \in Row
  PROVE  RowOK(Recovered(r)) /\ Recovered(r).status = "failed"
BY DEF Row, Statuses, Closed, Recovered, RowOK

LEMMA TakenRow ==
  ASSUME NEW r \in Row, NEW w \in Workers
  PROVE  /\ RowOK(Taken(r, w))
         /\ Owned(Taken(r, w), w)
         /\ ~Taken(r, w).lapsed
         /\ Taken(r, w).status = "processing"
<1> DEFINE t == Taken(r, w)
<1>1. t.status = "processing" /\ t.owner = w /\ ~t.lapsed
  BY DEF Row, Taken
<1>2. t \in Row
  <2> DEFINE t1 == [r EXCEPT !.status = "processing", !.owner = w, !.lapsed = FALSE]
             t2 == [t1 EXCEPT !.attempts = r.attempts + 1]
  <2>1. t1 \in Row
    BY DEF Row, Statuses
  <2>2. r.attempts + 1 \in Nat
    BY DEF Row
  <2>3. t2 \in Row
    <3> HIDE DEF t1
    <3> QED BY <2>1, <2>2 DEF Row
  <2>4. [t2 EXCEPT !.due = TRUE] \in Row
    <3> HIDE DEF t2
    <3> QED BY <2>3 DEF Row
  <2>5. t = [t2 EXCEPT !.due = TRUE]
    BY DEF Taken
  <2> QED BY <2>4, <2>5
<1>3. w # NoWorker
  BY WorkerAssumption
<1>4. (t.owner # NoWorker) = (t.status = "processing")
  <2>1. t.owner # NoWorker /\ t.status = "processing"
    BY <1>1, <1>3
  <2> QED BY <2>1, Zenon
<1> QED BY <1>1, <1>2, <1>4 DEF RowOK, Owned

LEMMA ReturnedRow ==
  ASSUME NEW r \in Row, NEW c \in Worker
  PROVE  RowOK(Returned(r, c)) /\ Returned(r, c).status = "failed"
BY AttemptsAssumption DEF Row, Statuses, Closed, Returned, RowOK, Worker

LEMMA IdleWorker == Idle \in Worker /\ Idle.batch = {} /\ Idle.failing = {}
BY DEF Idle, Worker

LEMMA RestWorker ==
  ASSUME NEW c \in Worker, NEW e \in Events
  PROVE  /\ Rest(c, e) \in Worker
         /\ Rest(c, e).batch \subseteq c.batch \ {e}
         /\ Rest(c, e).failing = {}
BY DEF Rest, Idle, Worker

LEMMA NewRow ==
  /\ RowOK([NoRow EXCEPT !.status = "queued", !.due = TRUE])
  /\ [NoRow EXCEPT !.status = "queued", !.due = TRUE].status = "queued"
BY DEF RowOK, NoRow, Row, Statuses

-----------------------------------------------------------------------------
(* Types *)

LEMMA TypeInit == Init => TypeOK
<1> SUFFICES ASSUME Init PROVE TypeOK
  OBVIOUS
<1>1. RowOK(NoRow) /\ NoRow \in Row
  BY DEF RowOK, NoRow, Row, Statuses
<1>2. row \in [Events -> Row] /\ \A e \in Events : RowOK(row[e])
  BY <1>1 DEF Init
<1>3. worker \in [Workers -> Worker] /\ notified \subseteq Events /\ faults \in Nat
  BY IdleWorker DEF Init
<1> QED BY <1>2, <1>3, TypeOKRows

\* A step that changes row e to a good row, and leaves the workers their type.
LEMMA OneRow ==
  ASSUME TypeOK, NEW e \in Events, NEW r, RowOK(r), row' = [row EXCEPT ![e] = r],
         worker' \in [Workers -> Worker], notified' \subseteq Events, faults' \in Nat
  PROVE  TypeOK'
<1>1. row' \in [Events -> Row] /\ \A f \in Events : RowOK(row'[f])
  BY TypeOKRows DEF RowOK
<1> QED BY <1>1 DEF TypeOK, RowOK

\* A step that changes no row, and leaves the workers their type.
LEMMA NoRowStep ==
  ASSUME TypeOK, row' = row,
         worker' \in [Workers -> Worker], notified' \subseteq Events, faults' \in Nat
  PROVE  TypeOK'
BY DEF TypeOK

LEMMA TypeEvent ==
  ASSUME TypeOK, NEW e \in Events, Enqueue(e) \/ Elapse(e) \/ Expire(e) \/ Lapse(e)
  PROVE  TypeOK'
<1> USE TypeOKRows
<1>0. row[e] \in Row /\ RowOK(row[e])
  OBVIOUS
<1>1. CASE Enqueue(e)
  BY <1>1, NewRow, OneRow DEF Enqueue
<1>2. CASE Elapse(e)
  <2>1. RowOK([row[e] EXCEPT !.due = TRUE])
    BY <1>0 DEF RowOK, Row
  <2> QED BY <1>2, <2>1, OneRow DEF Elapse
<1>3. CASE Expire(e)
  <2>1. RowOK([row[e] EXCEPT !.late = TRUE])
    BY <1>0 DEF RowOK, Row
  <2> QED BY <1>3, <2>1, OneRow DEF Expire
<1>4. CASE Lapse(e)
  <2>1. RowOK([row[e] EXCEPT !.lapsed = TRUE])
    BY <1>0, <1>4 DEF RowOK, Row, Lapse
  <2>2. faults' \in Nat
    BY <1>4 DEF Lapse
  <2> QED BY <1>4, <2>1, <2>2, OneRow DEF Lapse
<1> QED BY <1>1, <1>2, <1>3, <1>4

\* What a worker holds after each of its steps is well typed.
LEMMA TypeWorker ==
  ASSUME TypeOK, NEW w \in Workers, Poll(w) \/ Crash(w)
  PROVE  worker' \in [Workers -> Worker]
<1> USE TypeOKRows, IdleWorker
<1>0. worker[w] \in Worker
  OBVIOUS
<1>1. CASE ClaimRead(w)
  BY <1>1 DEF ClaimRead, Idle, Worker
<1>2. CASE ClaimWrite(w)
  <2> DEFINE c     == worker[w]
             taken == {e \in c.ready : Claimable(row[e])}
                        \cup {e \in {f \in c.stale : Stale(row[f])} : row[e].attempts < MaxAttempts}
             new   == IF taken = {} THEN Idle ELSE [Idle EXCEPT !.pc = "working", !.batch = taken]
  <2>1. taken \subseteq Events
    BY <1>0 DEF Worker
  <2>2. new \in Worker
    <3> HIDE DEF taken
    <3> QED BY <2>1 DEF Idle, Worker
  <2>3. worker' = [worker EXCEPT ![w] = new]
    BY <1>2 DEF ClaimWrite
  <2> QED BY <2>2, <2>3
<1>3. ASSUME NEW e \in Events, Process(w, e) \/ Discard(w, e) \/ FailWrite(w, e)
      PROVE  worker' \in [Workers -> Worker]
  <2>1. worker' = [worker EXCEPT ![w] = Rest(worker[w], e)]
    BY <1>3 DEF Process, Discard, FailWrite
  <2> QED BY <1>0, <2>1, RestWorker
<1>4. ASSUME NEW e \in Events, Fail(w, e)
      PROVE  worker' \in [Workers -> Worker]
  <2>1. PICK permanent \in BOOLEAN : worker' =
          [worker EXCEPT ![w].pc = "failing", ![w].failing = {e}, ![w].permanent = permanent]
    BY <1>4 DEF Fail
  <2> DEFINE c == [worker[w] EXCEPT !.pc = "failing", !.failing = {e}]
  <2>2. c \in Worker
    BY <1>0 DEF Worker
  <2>3. [c EXCEPT !.permanent = permanent] \in Worker
    <3> HIDE DEF c
    <3> QED BY <2>2 DEF Worker
  <2>4. worker' = [worker EXCEPT ![w] = [c EXCEPT !.permanent = permanent]]
    BY <2>1
  <2> QED BY <2>3, <2>4
<1>5. ASSUME NEW e \in Events, FailRead(w, e)
      PROVE  worker' \in [Workers -> Worker]
  <2>1. row[e].attempts \in Nat
    BY DEF Row
  <2>2. [worker[w] EXCEPT !.pc = "marking", !.seen = row[e].attempts] \in Worker
    BY <1>0, <2>1 DEF Worker
  <2> QED BY <1>0, <1>5, <2>2 DEF FailRead
<1>6. CASE Crash(w)
  BY <1>6 DEF Crash
<1> QED BY <1>1, <1>2, <1>3, <1>4, <1>5, <1>6 DEF Poll

\* A claim: every row is taken, recovered, swept or left as it is.
LEMMA ClaimedRows ==
  ASSUME TypeOK, NEW w \in Workers, ClaimWrite(w)
  PROVE  /\ row' \in [Events -> Row]
         /\ \A e \in worker'[w].batch : Owned(row'[e], w) /\ ~row'[e].lapsed
         /\ \A e \in Events :
              /\ RowOK(row'[e])
              /\ \/ /\ e \in worker'[w].batch
                    /\ row'[e].status = "processing"
                    /\ Claimable(row[e]) \/ Stale(row[e])
                 \/ e \notin worker'[w].batch /\ Stale(row[e]) /\ row'[e].status = "failed"
                 \/ e \notin worker'[w].batch /\ Waiting(row[e]) /\ row'[e].status = "expired"
                 \/ e \notin worker'[w].batch /\ row'[e] = row[e]
<1> USE TypeOKRows
<1> DEFINE c     == worker[w]
           fresh == {e \in c.ready : Claimable(row[e])}
           again == {e \in c.stale : Stale(row[e])}
           taken == fresh \cup {e \in again : row[e].attempts < MaxAttempts}
           swept == {e \in Events \ (c.ready \cup c.stale) : Waiting(row[e]) /\ row[e].late}
<1>1. /\ row' = [e \in Events |->
           CASE e \in taken -> Taken(row[e], w)
             [] e \in again \ taken -> Recovered(row[e])
             [] e \in swept -> Closed(row[e], "expired")
             [] OTHER -> row[e]]
      /\ worker' = [worker EXCEPT ![w] =
           IF taken = {} THEN Idle ELSE [Idle EXCEPT !.pc = "working", !.batch = taken]]
  BY DEF ClaimWrite
<1>2. worker'[w].batch = taken
  <2> HIDE DEF taken
  <2> QED BY <1>1 DEF Idle
<1>3. \A e \in taken : Claimable(row[e]) \/ Stale(row[e])
  OBVIOUS
<1>4. \A e \in again : Stale(row[e])
  OBVIOUS
<1>5. \A e \in swept : Waiting(row[e]) /\ e \notin taken /\ e \notin again
  BY DEF Worker
<1> HIDE DEF taken, again, swept, fresh, c
<1>6. ASSUME NEW e \in Events
      PROVE  /\ RowOK(row'[e])
             /\ \/ e \in taken /\ row'[e] = Taken(row[e], w)
                \/ e \notin taken /\ e \in again /\ row'[e] = Recovered(row[e])
                \/ e \notin taken /\ e \in swept /\ row'[e] = Closed(row[e], "expired")
                \/ e \notin taken /\ row'[e] = row[e]
  <2>1. row[e] \in Row /\ RowOK(row[e])
    OBVIOUS
  <2>2. row'[e] = CASE e \in taken -> Taken(row[e], w)
                    [] e \in again \ taken -> Recovered(row[e])
                    [] e \in swept -> Closed(row[e], "expired")
                    [] OTHER -> row[e]
    BY <1>1
  <2>3. CASE e \in taken
    BY <2>1, <2>2, <2>3, <1>5, TakenRow
  <2>4. CASE e \in again \ taken
    BY <2>1, <2>2, <2>4, <1>5, RecoveredRow
  <2>5. CASE e \in swept /\ e \notin again
    BY <2>1, <2>2, <2>5, <1>5, ClosedRow
  <2>6. CASE e \notin taken /\ e \notin again /\ e \notin swept
    BY <2>1, <2>2, <2>6
  <2> QED BY <2>3, <2>4, <2>5, <2>6, <1>5
<1>7. row' \in [Events -> Row]
  <2>1. \A e \in Events : row'[e] \in Row
    BY <1>6 DEF RowOK
  <2>2. row' = [e \in Events |-> row'[e]]
    BY <1>1
  <2> QED BY <2>1, <2>2
<1>8. ASSUME NEW e \in Events, e \in taken, row'[e] = Taken(row[e], w)
      PROVE  /\ Owned(row'[e], w)
             /\ ~row'[e].lapsed
             /\ row'[e].status = "processing"
             /\ Claimable(row[e]) \/ Stale(row[e])
  BY <1>3, <1>8, TakenRow
<1>9. ASSUME NEW e \in Events, e \in again, row'[e] = Recovered(row[e])
      PROVE  Stale(row[e]) /\ row'[e].status = "failed"
  BY <1>4, <1>9, RecoveredRow
<1>10. ASSUME NEW e \in Events, e \in swept, row'[e] = Closed(row[e], "expired")
       PROVE  Waiting(row[e]) /\ row'[e].status = "expired"
  BY <1>5, <1>10, ClosedRow
<1>11. \A e \in worker'[w].batch : Owned(row'[e], w) /\ ~row'[e].lapsed
  <2>1. taken \subseteq Events
    BY DEF taken, fresh, again, c, Worker
  <2> QED BY <1>2, <1>6, <1>8, <2>1
<1> QED BY <1>2, <1>6, <1>7, <1>8, <1>9, <1>10, <1>11

\* Processing an event closes it, and cancels only events that wait.
LEMMA ProcessedRows ==
  ASSUME TypeOK, NEW w \in Workers, NEW e \in Events, Process(w, e)
  PROVE  /\ row' \in [Events -> Row]
         /\ row'[e].status = "processed"
         /\ \A f \in Events :
              /\ RowOK(row'[f])
              /\ f # e => \/ row'[f] = row[f]
                          \/ Waiting(row[f]) /\ row'[f].status = "cancelled"
<1> USE TypeOKRows
<1> DEFINE moot == IF e \in Endings THEN {r \in Reminders : Cancellable(row[r])} ELSE {}
<1>1. row' = [f \in Events |->
        IF f = e THEN Closed(row[f], "processed")
        ELSE IF f \in moot THEN Closed(row[f], "cancelled")
        ELSE row[f]]
  BY DEF Process
<1>2. \A f \in moot : Waiting(row[f])
  BY DEF Cancellable
<1> HIDE DEF moot
<1>3. ASSUME NEW f \in Events
      PROVE  /\ RowOK(row'[f])
             /\ f = e => row'[f].status = "processed"
             /\ f # e => \/ row'[f] = row[f]
                         \/ Waiting(row[f]) /\ row'[f].status = "cancelled"
  BY <1>1, <1>2, ClosedRow
<1>4. row' \in [Events -> Row]
  <2>1. \A f \in Events : row'[f] \in Row
    BY <1>3 DEF RowOK
  <2>2. row' = [f \in Events |-> row'[f]]
    BY <1>1
  <2> QED BY <2>1, <2>2
<1> QED BY <1>3, <1>4

LEMMA TypeStep == TypeOK /\ [Next]_vars => TypeOK'
<1> SUFFICES ASSUME TypeOK, [Next]_vars PROVE TypeOK'
  OBVIOUS
<1>1. ASSUME NEW e \in Events, Enqueue(e) \/ Elapse(e) \/ Expire(e) \/ Lapse(e)
      PROVE  TypeOK'
  BY <1>1, TypeEvent
<1>2. ASSUME NEW w \in Workers, Poll(w) \/ Crash(w)
      PROVE  TypeOK'
  <2> USE TypeOKRows
  <2>0. worker' \in [Workers -> Worker]
    BY <1>2, TypeWorker
  <2>1. CASE ClaimRead(w) \/ Crash(w) \/ \E e \in Events : Fail(w, e) \/ FailRead(w, e)
    <3>1. row' = row /\ notified' \subseteq Events /\ faults' \in Nat
      <4>1. CASE Crash(w)
        BY <4>1 DEF Crash
      <4>2. ASSUME NEW e \in Events, ClaimRead(w) \/ Fail(w, e) \/ FailRead(w, e)
            PROVE  row' = row /\ notified' = notified /\ faults' = faults
        BY <4>2 DEF ClaimRead, Fail, FailRead
      <4>3. CASE ClaimRead(w)
        BY <4>3 DEF ClaimRead
      <4> QED BY <2>1, <4>1, <4>2, <4>3
    <3> QED BY <2>0, <3>1, NoRowStep
  <2>2. CASE ClaimWrite(w)
    <3>1. notified' = notified /\ faults' = faults
      BY <2>2 DEF ClaimWrite
    <3>2. row' \in [Events -> Row] /\ \A e \in Events : RowOK(row'[e])
      BY <2>2, ClaimedRows
    <3> QED BY <2>0, <3>1, <3>2 DEF TypeOK, RowOK
  <2>3. ASSUME NEW e \in Events, Process(w, e)
        PROVE  TypeOK'
    <3>1. notified' \subseteq Events /\ faults' = faults
      BY <2>3 DEF Process
    <3>2. row' \in [Events -> Row] /\ \A f \in Events : RowOK(row'[f])
      BY <2>3, ProcessedRows
    <3> QED BY <2>0, <3>1, <3>2 DEF TypeOK, RowOK
  <2>4. ASSUME NEW e \in Events, Discard(w, e)
        PROVE  TypeOK'
    BY <2>0, <2>4, ClosedRow, OneRow DEF Discard
  <2>5. ASSUME NEW e \in Events, FailWrite(w, e)
        PROVE  TypeOK'
    BY <2>0, <2>5, ReturnedRow, OneRow DEF FailWrite
  <2> QED BY <1>2, <2>1, <2>2, <2>3, <2>4, <2>5 DEF Poll
<1>3. CASE UNCHANGED vars
  BY <1>3, NoRowStep DEF vars, TypeOK
<1> QED BY <1>1, <1>2, <1>3 DEF Next

\* Rows and workers are well typed in every reachable state, and a row is
\* locked exactly while it is processing.
THEOREM OutboxTypeCorrect == Spec => []TypeOK
BY TypeInit, TypeStep, PTL DEF Spec

-----------------------------------------------------------------------------
(* Leases, when no worker outlives its own *)

LEMMA LeaseInit == Init => LeaseInv
<1> SUFFICES ASSUME Init PROVE LeaseInv
  OBVIOUS
<1>1. \A w \in Workers : worker[w].batch = {} /\ worker[w].failing = {}
  BY IdleWorker DEF Init
<1> QED BY <1>1, TypeInit DEF LeaseInv, WorkIsLeased, FailingHeld

\* What worker v is working on survives a step of the others, or of time,
\* that leaves v's batch alone and every row it is working on leased to v.
LEMMA LeaseStep ==
  ASSUME ~SlowWorkers
  PROVE  LeaseInv /\ [Next]_vars => LeaseInv'
<1> SUFFICES ASSUME LeaseInv, [Next]_vars PROVE LeaseInv'
  OBVIOUS
<1> USE DEF LeaseInv
<1>0. TypeOK'
  BY TypeStep
<1> DEFINE Good(w) == /\ \A e \in worker[w].batch : Owned(row[e], w) /\ ~row[e].lapsed
                      /\ worker[w].failing \subseteq worker[w].batch
<1>g. (\A w \in Workers : Good(w)) /\ worker \in [Workers -> Worker] /\ row \in [Events -> Row]
  BY DEF WorkIsLeased, FailingHeld, TypeOK
<1>t. \A w \in Workers : worker[w].batch \subseteq Events
  BY <1>g DEF Worker
<1> SUFFICES \A v \in Workers : Good(v)'
  BY <1>0 DEF WorkIsLeased, FailingHeld
<1>1. ASSUME NEW e \in Events, Enqueue(e) \/ Elapse(e) \/ Expire(e) \/ Lapse(e), NEW v \in Workers
      PROVE  Good(v)'
  <2>1. worker' = worker /\ \A f \in Events \ {e} : row'[f] = row[f]
    BY <1>1, <1>g DEF Enqueue, Elapse, Expire, Lapse
  <2>2. ASSUME e \in worker[v].batch
        PROVE  Owned(row'[e], v) /\ ~row'[e].lapsed
    <3>1. Owned(row[e], v) /\ ~row[e].lapsed
      BY <1>g, <2>2
    <3>2. ~Enqueue(e) /\ ~Elapse(e)
      BY <3>1 DEF Enqueue, Elapse, Owned
    <3>3. ~Lapse(e)
      BY <2>2, <3>1 DEF Lapse, Abandoned, Owned
    <3>4. CASE Expire(e)
      BY <3>1, <3>4, <1>g DEF Expire, Owned, Row
    <3> QED BY <1>1, <3>2, <3>3, <3>4
  <2> QED BY <1>g, <1>t, <2>1, <2>2
\* Steps of w that keep the rows: it keeps its batch, or drops it.
<1>2. ASSUME NEW w \in Workers, row' = row,
             worker' = [worker EXCEPT ![w] = worker'[w]],
             worker'[w].batch \subseteq worker[w].batch,
             worker'[w].failing \subseteq worker'[w].batch,
             NEW v \in Workers
      PROVE  Good(v)'
  BY <1>2, <1>g
<1>3. ASSUME NEW w \in Workers, ClaimRead(w) \/ Crash(w), NEW v \in Workers
      PROVE  Good(v)'
  <2>1. row' = row /\ worker' = [worker EXCEPT ![w] = worker'[w]]
        /\ worker'[w].batch = {} /\ worker'[w].failing = {}
    <3>1. CASE ClaimRead(w)
      <4>1. PICK c : worker' = [worker EXCEPT ![w] = c] /\ c.batch = {} /\ c.failing = {}
        <5> DEFINE c == [Idle EXCEPT !.pc = "claiming",
                           !.ready = {e \in Events : Ready(row[e]) /\ ~row[e].late},
                           !.stale = {e \in Events : Stale(row[e])}]
        <5>1. worker' = [worker EXCEPT ![w] = c]
          BY <3>1 DEF ClaimRead
        <5>2. c.batch = {} /\ c.failing = {}
          BY DEF Idle
        <5> HIDE DEF c
        <5> QED BY <5>1, <5>2
      <4> QED BY <3>1, <4>1, <1>g DEF ClaimRead
    <3>2. CASE Crash(w)
      BY <3>2, <1>g, IdleWorker DEF Crash
    <3> QED BY <1>3, <3>1, <3>2
  <2> QED BY <2>1, <1>2
<1>4. ASSUME NEW w \in Workers, NEW e \in Events, Fail(w, e) \/ FailRead(w, e), NEW v \in Workers
      PROVE  Good(v)'
  <2>1. row' = row /\ worker' = [worker EXCEPT ![w] = worker'[w]]
    BY <1>4, <1>g DEF Fail, FailRead
  <2>2. worker'[w].batch \subseteq worker[w].batch /\ worker'[w].failing \subseteq worker'[w].batch
    <3>1. CASE Fail(w, e)
      <4>1. e \in worker[w].batch /\ worker'[w].batch = worker[w].batch /\ worker'[w].failing = {e}
        BY <3>1, <1>g DEF Fail, Worker
      <4> QED BY <4>1
    <3>2. CASE FailRead(w, e) /\ row[e].owner = w
      <4>1. worker'[w].batch = worker[w].batch /\ worker'[w].failing = worker[w].failing
        BY <3>2, <1>g DEF FailRead, Worker
      <4> QED BY <4>1, <1>g
    <3>3. CASE FailRead(w, e) /\ row[e].owner # w
      <4>1. worker'[w] = Idle
        BY <3>3, <1>g DEF FailRead
      <4> QED BY <4>1, IdleWorker
    <3> QED BY <1>4, <3>1, <3>2, <3>3
  <2> QED BY <2>1, <2>2, <1>2
\* Steps that close row e, which w was working on, or failed to.
<1>5. ASSUME NEW w \in Workers, NEW e \in Events,
             e \in worker[w].batch,
             worker' = [worker EXCEPT ![w] = Rest(worker[w], e)],
             \A f \in Events \ {e} : row'[f] = row[f] \/ Waiting(row[f]),
             NEW v \in Workers
      PROVE  Good(v)'
  <2>1. Owned(row[e], w)
    BY <1>5, <1>g
  <2>2. e \notin worker'[v].batch
    <3>1. CASE v = w
      BY <3>1, <1>5, <1>g, RestWorker
    <3>2. CASE v # w
      BY <3>2, <2>1, <1>5, <1>g DEF Owned
    <3> QED BY <3>1, <3>2
  <2>3. worker'[v].batch \subseteq worker[v].batch /\ worker'[v].failing \subseteq worker'[v].batch
    BY <1>5, <1>g, RestWorker
  <2>4. ASSUME NEW f \in worker'[v].batch
        PROVE  Owned(row'[f], v) /\ ~row'[f].lapsed
    <3>1. f \in Events \ {e} /\ Owned(row[f], v) /\ ~row[f].lapsed
      BY <2>2, <2>3, <2>4, <1>g, <1>t
    <3>2. ~Waiting(row[f])
      BY <3>1 DEF Owned, Waiting
    <3> QED BY <3>1, <3>2, <1>5
  <2> QED BY <2>3, <2>4
<1>6. ASSUME NEW w \in Workers, NEW e \in Events, Process(w, e), NEW v \in Workers
      PROVE  Good(v)'
  <2>1. e \in worker[w].batch /\ worker' = [worker EXCEPT ![w] = Rest(worker[w], e)]
    BY <1>6 DEF Process
  <2>2. \A f \in Events \ {e} : row'[f] = row[f] \/ Waiting(row[f])
    BY <1>6, ProcessedRows
  <2> QED BY <2>1, <2>2, <1>5
<1>7. ASSUME NEW w \in Workers, NEW e \in Events, Discard(w, e) \/ FailWrite(w, e), NEW v \in Workers
      PROVE  Good(v)'
  <2>1. e \in worker[w].batch /\ worker' = [worker EXCEPT ![w] = Rest(worker[w], e)]
    BY <1>7, <1>g DEF Discard, FailWrite
  <2>2. \A f \in Events \ {e} : row'[f] = row[f]
    BY <1>7, <1>g DEF Discard, FailWrite
  <2> QED BY <2>1, <2>2, <1>5
<1>8. ASSUME NEW w \in Workers, ClaimWrite(w), NEW v \in Workers
      PROVE  Good(v)'
  <2>1. worker' = [worker EXCEPT ![w] = worker'[w]] /\ worker'[w].failing = {}
    BY <1>8, <1>g DEF ClaimWrite, Idle
  <2>2. worker'[w].batch \subseteq Events
    BY <1>0 DEF TypeOK, Worker
  <2>3. CASE v = w
    <3>1. ASSUME NEW e \in worker'[w].batch
          PROVE  Owned(row'[e], w) /\ ~row'[e].lapsed
      <4>1. TypeOK /\ e \in Events
        BY <3>1, <2>2
      <4> HIDE DEF LeaseInv
      <4> QED BY <4>1, <3>1, <1>8, ClaimedRows
    <3> QED BY <3>1, <2>1, <2>3
  <2>4. CASE v # w
    <3>1. worker'[v] = worker[v]
      BY <2>1, <2>4, <1>g
    <3>2. ASSUME NEW e \in worker[v].batch
          PROVE  row'[e] = row[e]
      <4>1. e \in Events /\ Owned(row[e], v) /\ ~row[e].lapsed
        BY <1>g, <1>t, <3>2
      <4>2. ~Claimable(row[e]) /\ ~Stale(row[e]) /\ ~Waiting(row[e])
        BY <4>1 DEF Owned, Claimable, Stale, Waiting
      <4> QED BY <4>1, <4>2, <1>8, ClaimedRows
    <3> QED BY <3>1, <3>2, <1>g
  <2> QED BY <2>3, <2>4
<1>9. ASSUME UNCHANGED vars, NEW v \in Workers
      PROVE  Good(v)'
  BY <1>9, <1>g DEF vars
<1> QED BY <1>1, <1>3, <1>4, <1>6, <1>7, <1>8, <1>9 DEF Next, Poll

\* When no worker outlives its lease, an event some worker is working on is
\* leased to that worker and to no other, whatever crashes and is recovered.
THEOREM LeasesExclude ==
  ASSUME ~SlowWorkers
  PROVE  Spec => []WorkIsLeased
<1>1. LeaseInv /\ [Next]_vars => LeaseInv'
  BY LeaseStep
<1>2. LeaseInv => WorkIsLeased
  BY DEF LeaseInv
<1> QED BY LeaseInit, <1>1, <1>2, PTL DEF Spec

-----------------------------------------------------------------------------
(* The outbox is a durable queue *)

LEMMA StageOf ==
  ASSUME NEW r
  PROVE  /\ r.status = "absent" => Stage(r) = "absent"
         /\ Waiting(r) => Stage(r) = "waiting"
         /\ r.status = "failed" => Stage(r) = "waiting"
         /\ r.status = "queued" => Stage(r) = "waiting"
         /\ r.status = "processing" => Stage(r) = "leased"
         /\ r.status = "processed" => Stage(r) = "finished"
         /\ r.status \in {"expired", "cancelled"} => Stage(r) = "dropped"
BY DEF Stage, Waiting

\* How one row may move in a step of the outbox.
Moved(r, s) == Stage(s) = Stage(r) \/ <<Stage(r), Stage(s)>> \in Queue!Moves

LEMMA MovedCases ==
  ASSUME NEW r, NEW s
  PROVE  /\ s = r => Moved(r, s)
         /\ r.status = "absent" /\ s.status = "queued" => Moved(r, s)
         /\ s.status = r.status /\ r.status \in Statuses => Moved(r, s)
         /\ Waiting(r) /\ s.status = "processing" => Moved(r, s)
         /\ r.status = "processing" /\ s.status \in {"processing", "failed", "processed", "expired"}
              => Moved(r, s)
         /\ Waiting(r) /\ s.status \in {"expired", "cancelled"} => Moved(r, s)
<1>1. \A q : /\ q.status = "absent" => Stage(q) = "absent"
             /\ Waiting(q) => Stage(q) = "waiting"
             /\ q.status = "failed" => Stage(q) = "waiting"
             /\ q.status = "queued" => Stage(q) = "waiting"
             /\ q.status = "processing" => Stage(q) = "leased"
             /\ q.status = "processed" => Stage(q) = "finished"
             /\ q.status \in {"expired", "cancelled"} => Stage(q) = "dropped"
  BY StageOf
<1> QED BY <1>1 DEF Moved, Queue!Moves, Statuses

\* A step in which every row moves along an edge, and the notifications are
\* those of the events that become processed, is a step of the queue.
LEMMA QueueNext ==
  ASSUME \A e \in Events : Moved(row[e], row'[e]),
         notified' = notified \cup {e \in Events : /\ Stage(row[e]) # "finished"
                                                   /\ Stage(row'[e]) = "finished"}
  PROVE  Queue!Next
BY DEF Queue!Next, Moved

LEMMA Finishing ==
  ASSUME NEW r, r.status \in Statuses
  PROVE  Stage(r) = "finished" <=> r.status = "processed"
BY DEF Stage, Statuses

LEMMA QueueStep ==
  ASSUME LeaseInv, [Next]_vars
  PROVE  [Queue!Next]_(Queue!queueVars)
<1>t. TypeOK /\ TypeOK' /\ row \in [Events -> Row]
      /\ \A f \in Events : row[f].status \in Statuses /\ row'[f].status \in Statuses
  BY TypeStep DEF LeaseInv, TypeOK, Row
\* Every event a worker is working on is processing.
<1>p. ASSUME NEW w \in Workers, NEW e \in worker[w].batch
      PROVE  row[e].status = "processing"
  BY <1>p DEF LeaseInv, WorkIsLeased, Owned
\* No row becomes processed, and no notification is created.
<1>n. ASSUME notified' = notified, \A f \in Events : Moved(row[f], row'[f]),
             \A f \in Events : row'[f].status = "processed" => row[f].status = "processed"
      PROVE  Queue!Next
  <2>1. \A f \in Events : ~(Stage(row[f]) # "finished" /\ Stage(row'[f]) = "finished")
    BY <1>t, <1>n, Finishing
  <2> QED BY <1>n, <2>1, QueueNext
<1>1. ASSUME NEW e \in Events, Enqueue(e) \/ Elapse(e) \/ Expire(e) \/ Lapse(e)
      PROVE  Queue!Next
  <2>1. notified' = notified /\ \A f \in Events \ {e} : row'[f] = row[f]
    BY <1>1, <1>t DEF Enqueue, Elapse, Expire, Lapse
  <2>2. \/ row[e].status = "absent" /\ row'[e].status = "queued"
        \/ row'[e].status = row[e].status
    <3>1. CASE Enqueue(e)
      BY <3>1, <1>t, NewRow DEF Enqueue
    <3>2. CASE Elapse(e) \/ Expire(e) \/ Lapse(e)
      BY <3>2, <1>t DEF Elapse, Expire, Lapse, Row
    <3> QED BY <1>1, <3>1, <3>2
  <2>3. \A f \in Events : Moved(row[f], row'[f])
    BY <1>t, <2>1, <2>2, MovedCases
  <2> QED BY <1>n, <2>1, <2>2, <2>3
<1>2. ASSUME row' = row, notified' = notified
      PROVE  Queue!Next
  BY <1>2, <1>n, MovedCases
<1>3. ASSUME NEW w \in Workers, ClaimWrite(w)
      PROVE  Queue!Next
  <2>1. notified' = notified
    BY <1>3 DEF ClaimWrite
  <2>2. ASSUME NEW f \in Events
        PROVE  /\ Moved(row[f], row'[f])
               /\ row'[f].status = "processed" => row[f].status = "processed"
    <3>1. \/ row'[f].status = "processing" /\ (Waiting(row[f]) \/ row[f].status = "processing")
          \/ row[f].status = "processing" /\ row'[f].status = "failed"
          \/ Waiting(row[f]) /\ row'[f].status = "expired"
          \/ row'[f] = row[f]
      <4>1. \/ row'[f].status = "processing" /\ (Claimable(row[f]) \/ Stale(row[f]))
            \/ Stale(row[f]) /\ row'[f].status = "failed"
            \/ Waiting(row[f]) /\ row'[f].status = "expired"
            \/ row'[f] = row[f]
        BY <1>3, <1>t, ClaimedRows
      <4> QED BY <4>1 DEF Claimable, Stale
    <3> QED BY <3>1, MovedCases
  <2> QED BY <2>1, <2>2, <1>n
<1>4. ASSUME NEW w \in Workers, NEW e \in Events, Process(w, e)
      PROVE  Queue!Next
  <2>1. row[e].status = "processing" /\ notified' = notified \cup {e}
    BY <1>4 DEF Process, Owned
  <2>2. row'[e].status = "processed"
        /\ \A f \in Events \ {e} : \/ row'[f] = row[f]
                                   \/ Waiting(row[f]) /\ row'[f].status = "cancelled"
    BY <1>4, <1>t, ProcessedRows
  <2>3. \A f \in Events : Moved(row[f], row'[f])
    BY <2>1, <2>2, MovedCases
  <2>4. \A f \in Events : (Stage(row[f]) # "finished" /\ Stage(row'[f]) = "finished") <=> f = e
    BY <1>t, <2>1, <2>2, Finishing
  <2> QED BY <2>1, <2>3, <2>4, QueueNext
<1>5. ASSUME NEW w \in Workers, NEW e \in Events, Discard(w, e) \/ FailWrite(w, e)
      PROVE  Queue!Next
  <2>1. notified' = notified /\ \A f \in Events \ {e} : row'[f] = row[f]
    BY <1>5, <1>t DEF Discard, FailWrite
  <2>2. row[e].status = "processing"
    BY <1>5, <1>p DEF Discard, FailWrite, LeaseInv, FailingHeld
  <2>3. row'[e].status \in {"failed", "expired"}
    <3>1. row[e] \in Row /\ worker[w] \in Worker
      BY <1>t DEF TypeOK
    <3>2. CASE Discard(w, e)
      BY <3>1, <3>2, <1>t, ClosedRow DEF Discard
    <3>3. CASE FailWrite(w, e)
      BY <3>1, <3>3, <1>t, ReturnedRow DEF FailWrite
    <3> QED BY <1>5, <3>2, <3>3
  <2>4. \A f \in Events : Moved(row[f], row'[f])
    BY <2>1, <2>2, <2>3, MovedCases
  <2> QED BY <1>n, <2>1, <2>3, <2>4
<1>6. ASSUME NEW w \in Workers, NEW e \in Events,
             ClaimRead(w) \/ Crash(w) \/ Fail(w, e) \/ FailRead(w, e)
      PROVE  row' = row /\ notified' = notified
  BY <1>6 DEF ClaimRead, Crash, Fail, FailRead
<1>7. ASSUME NEW w \in Workers, ClaimRead(w) \/ Crash(w)
      PROVE  row' = row /\ notified' = notified
  BY <1>7 DEF ClaimRead, Crash
<1>8. CASE UNCHANGED vars
  BY <1>8, <1>2 DEF vars
<1> QED BY <1>1, <1>2, <1>3, <1>4, <1>5, <1>6, <1>7, <1>8 DEF Next, Poll

LEMMA QueueInit == Init => Queue!Init
<1> SUFFICES ASSUME Init PROVE Queue!Init
  OBVIOUS
<1>1. Stage(NoRow) = "absent"
  BY StageOf DEF NoRow
<1>2. [e \in Events |-> Stage(row[e])] = [e \in Events |-> "absent"]
  BY <1>1 DEF Init
<1> QED BY <1>2 DEF Init, Queue!Init

\* When no worker outlives its lease, a notification is created in the one
\* step that processes its event, and no processed, expired or cancelled event
\* comes back, whatever fails, crashes or is claimed twice.
THEOREM OutboxIsQueue ==
  ASSUME ~SlowWorkers
  PROVE  Spec => ImplementsQueue
<1>1. LeaseInv /\ [Next]_vars => LeaseInv'
  BY LeaseStep
<1>2. LeaseInv /\ [Next]_vars => [Queue!Next]_(Queue!queueVars)
  BY QueueStep
<1> QED BY LeaseInit, QueueInit, <1>1, <1>2, PTL DEF Spec, ImplementsQueue, Queue!Spec

-----------------------------------------------------------------------------
(* NotificationInbox *)

(* Time: quiet hours and decisions *)

LEMMA DivFacts ==
  ASSUME NEW n \in Nat, NEW d \in Nat \ {0}
  PROVE  n % d \in 0 .. d - 1 /\ n \div d \in Nat /\ n = d * (n \div d) + (n % d)
<1>1. n \div d \in Nat
  BY SMT
<1>2. n % d \in 0 .. d - 1
  BY SMT
<1>3. n % d = n - d * (n \div d)
  BY SMT
<1>4. d * (n \div d) \in Nat
  BY <1>1
<1>5. n = d * (n \div d) + (n % d)
  <2> DEFINE p == d * (n \div d)
             r == n % d
  <2>1. r = n - p /\ p \in Nat
    BY <1>3, <1>4
  <2> HIDE DEF p, r
  <2>2. n = p + r
    BY <2>1
  <2> QED BY <2>2 DEF p, r
<1> QED BY <1>1, <1>2, <1>5

\* A moment in the day that begins at a multiple of its length.
LEMMA SlotIs ==
  ASSUME NEW k \in Nat, NEW d \in Nat \ {0}, NEW q \in 0 .. d - 1
  PROVE  d * k + q \in Nat /\ (d * k + q) % d = q
<1>1. d * k \in Nat
  OBVIOUS
<1> DEFINE n == d * k + q
           j == n \div d
           r == n % d
<1>2. n \in Nat
  BY <1>1
<1>3. r \in 0 .. d - 1 /\ j \in Nat /\ n = d * j + r
  BY <1>2, DivFacts
<1>4. d * k + q = d * j + r
  BY <1>3
<1> HIDE DEF j, r, n
<1>5. j = k
  <2>1. ASSUME j < k PROVE FALSE
    <3>1. d * (j + 1) <= d * k
      BY <1>3, <2>1
    <3>2. d * (j + 1) = d * j + d
      BY <1>3
    <3>3. d * j \in Nat
      BY <1>3
    <3> QED BY <1>1, <1>3, <1>4, <3>1, <3>2, <3>3
  <2>2. ASSUME k < j PROVE FALSE
    <3>1. d * (k + 1) <= d * j
      BY <1>3, <2>2
    <3>2. d * (k + 1) = d * k + d
      OBVIOUS
    <3>3. d * j \in Nat
      BY <1>3
    <3> QED BY <1>1, <1>3, <1>4, <3>1, <3>2, <3>3
  <2> QED BY <1>3, <2>1, <2>2
<1>6. r = q
  BY <1>1, <1>3, <1>4, <1>5
<1> QED BY <1>2, <1>6 DEF n, r

QuietPair == (0 .. DaySlots - 1) \X (0 .. DaySlots - 1)

\* Quiet hours end, later, at a moment that is not in them.
LEMMA QuietHoursEnd ==
  ASSUME NEW q \in {<<>>} \cup QuietPair, NEW n \in Nat, AreQuiet(q, n)
  PROVE  QuietEnd(q, n) \in Nat /\ QuietEnd(q, n) > n /\ ~AreQuiet(q, QuietEnd(q, n))
<1> DEFINE d == DaySlots
           k == n \div d
           a == q[1]
           b == q[2]
           slot == n % d
<1>1. a \in 0 .. d - 1 /\ b \in 0 .. d - 1 /\ a # b /\ d \in Nat \ {0}
  BY DayAssumption DEF AreQuiet, QuietPair
<1>2. k \in Nat /\ slot \in 0 .. d - 1 /\ n = d * k + slot
  BY <1>1, DivFacts
<1>3. Inside(q, slot)
  BY DEF AreQuiet
<1>4. ~Inside(q, b)
  BY <1>1 DEF Inside
<1>5. QuietEnd(q, n) = IF a > b /\ slot >= a THEN (n - slot) + d + b ELSE (n - slot) + b
  BY DEF QuietEnd
<1>6. IF a > b THEN slot >= a \/ slot < b ELSE a <= slot /\ slot < b
  BY <1>3 DEF Inside
<1>10. \A m : m % DaySlots = b => ~AreQuiet(q, m)
  BY <1>4 DEF AreQuiet
<1> HIDE DEF d, k, a, b, slot
<1>7. d * k \in Nat /\ n - slot = d * k
  BY <1>1, <1>2
<1>8. CASE a > b /\ slot >= a
  <2>1. QuietEnd(q, n) = d * (k + 1) + b
    <3>1. d * (k + 1) = d * k + d
      BY <1>1, <1>2
    <3> QED BY <1>5, <1>7, <1>8, <3>1
  <2>2. QuietEnd(q, n) \in Nat /\ QuietEnd(q, n) % d = b
    <3>1. k + 1 \in Nat
      BY <1>2
    <3>2. d * (k + 1) + b \in Nat /\ (d * (k + 1) + b) % d = b
      BY <1>1, <3>1, SlotIs
    <3> QED BY <2>1, <3>2
  <2>3. QuietEnd(q, n) > n
    BY <1>1, <1>2, <1>5, <1>7, <1>8
  <2> QED BY <2>2, <2>3, <1>10 DEF d
<1>9. CASE ~(a > b /\ slot >= a)
  <2>1. QuietEnd(q, n) = d * k + b
    BY <1>5, <1>7, <1>9
  <2>2. QuietEnd(q, n) \in Nat /\ QuietEnd(q, n) % d = b
    <3>1. d * k + b \in Nat /\ (d * k + b) % d = b
      BY <1>1, <1>2, SlotIs
    <3> QED BY <2>1, <3>1
  <2>3. slot < b
    BY <1>1, <1>2, <1>6, <1>9
  <2>4. QuietEnd(q, n) > n
    BY <1>1, <1>2, <1>7, <2>1, <2>3
  <2> QED BY <2>2, <2>4, <1>10 DEF d
<1> QED BY <1>8, <1>9

LEMMA PolicyType ==
  ASSUME NEW k \in DOMAIN Policy
  PROVE  Policy[k].hours \in Nat /\ Policy[k].under \in Types
<1>1. Policy[k].hours \in Nat
  BY DEF Policy
<1>2. Policy[k].under \in Types
  BY DEF Types
<1> QED BY <1>1, <1>2

LEMMA HoursType == ASSUME NEW h \in Nat PROVE Hours(h) \in Nat
<1>1. h * DaySlots \in Nat
  BY DayAssumption
<1>2. (h * DaySlots) \div 24 \in Nat
  BY <1>1, SMT
<1> QED BY <1>2 DEF Hours

\* What DueInTime says of a notification, of the decision on its event.
InTime(e, due, expires, decided, under) ==
  /\ due < expires /\ decided < expires
  /\ \/ Policy[EventOf[e].kind].urgent
     \/ EventOf[e].fire # <<>> /\ due = EventOf[e].fire[1]
     \/ ~AreQuiet(under.quiet, due)

Outcomes == [due : Nat, expires : Nat, local : BOOLEAN, suppressed : BOOLEAN]

LEMMA EventType ==
  ASSUME NEW e \in NoticeIds
  PROVE  /\ EventOf[e].kind \in DOMAIN Policy
         /\ EventOf[e].fire = <<>> \/ EventOf[e].fire \in Nat \X Nat
<1>1. EventOf \in Seq([kind : DOMAIN Policy, task : Nat, fire : {<<>>} \cup (Nat \X Nat)])
  BY InboxAssumption
<1>2. EventOf[e] \in [kind : DOMAIN Policy, task : Nat, fire : {<<>>} \cup (Nat \X Nat)]
  <2> DEFINE R == [kind : DOMAIN Policy, task : Nat, fire : {<<>>} \cup (Nat \X Nat)]
  <2>1. EventOf \in Seq(R)
    BY <1>1
  <2> HIDE DEF R
  <2>2. e \in 1 .. Len(EventOf)
    BY <2>1 DEF NoticeIds
  <2>3. EventOf[e] \in R
    BY <2>1, <2>2
  <2> QED BY <2>3 DEF R
<1> QED BY <1>2

\* A decision that does not suppress its event is in time.
LEMMA DecisionsAreTimely ==
  ASSUME NEW e \in NoticeIds, NEW n \in Nat, NEW s \in UserSettings, NEW cooling \in BOOLEAN,
         EventOf[e].fire # <<>> => n < EventOf[e].fire[2]
  PROVE  LET d == Decision(EventOf[e], n, s, cooling) IN
         /\ d \in Outcomes
         /\ ~d.suppressed => InTime(e, d.due, d.expires, n, s) /\ ~cooling
<1> DEFINE event == EventOf[e]
           policy == Policy[event.kind]
           own == IF event.fire = <<>> THEN n ELSE event.fire[1]
           due == Due(event, n, s)
           expires == IF event.fire = <<>> THEN Later(n, due) + Hours(policy.hours) ELSE event.fire[2]
           suppressed == \/ policy.silent
                         \/ ~s.types[policy.under].enabled
                         \/ policy.optional /\ ~s.optedIn
                         \/ cooling
                         \/ due >= expires
<1>1. event.fire = <<>> \/ (event.fire[1] \in Nat /\ event.fire[2] \in Nat)
  BY EventType
<1>2. own \in Nat
  BY <1>1
<1>3. s.quiet \in {<<>>} \cup QuietPair
  BY DEF UserSettings, QuietPair
<1>4. s.types[policy.under].local \in BOOLEAN
  BY EventType, PolicyType DEF UserSettings
<1>5. Hours(policy.hours) \in Nat
  BY EventType, PolicyType, HoursType
<1>6. due = IF AreQuiet(s.quiet, n) /\ ~policy.urgent THEN Later(own, QuietEnd(s.quiet, n)) ELSE own
  BY DEF Due
<1>7. /\ due \in Nat
      /\ policy.urgent \/ (event.fire # <<>> /\ due = event.fire[1]) \/ ~AreQuiet(s.quiet, due)
      /\ event.fire = <<>> => due >= n
  <2>1. CASE AreQuiet(s.quiet, n) /\ ~policy.urgent
    <3> DEFINE z == QuietEnd(s.quiet, n)
    <3>1. z \in Nat /\ z > n /\ ~AreQuiet(s.quiet, z)
      BY <1>3, <2>1, QuietHoursEnd
    <3>2. due = Later(own, z)
      BY <1>6, <2>1
    <3> HIDE DEF z, due
    <3> QED BY <1>2, <3>1, <3>2 DEF Later
  <2>2. CASE ~(AreQuiet(s.quiet, n) /\ ~policy.urgent)
    <3>1. due = own
      BY <1>6, <2>2
    <3> HIDE DEF due, policy
    <3> QED BY <1>2, <2>2, <3>1
  <2> QED BY <2>1, <2>2
<1>8. Decision(event, n, s, cooling) =
        [due |-> due, expires |-> expires, local |-> s.types[policy.under].local, suppressed |-> suppressed]
  BY DEF Decision
<1> HIDE DEF due, policy
<1>9. expires \in Nat /\ n <= expires
  BY <1>1, <1>5, <1>7 DEF Later
<1>10. ~suppressed => due < expires /\ n < expires /\ ~cooling
  BY <1>1, <1>7, <1>9 DEF Later
<1>11. suppressed \in BOOLEAN
  OBVIOUS
<1> HIDE DEF suppressed, expires
<1>12. ~suppressed => InTime(e, due, expires, n, s) /\ ~cooling
  BY <1>7, <1>10 DEF InTime, policy
<1> QED BY <1>4, <1>7, <1>8, <1>9, <1>11, <1>12 DEF Outcomes

-----------------------------------------------------------------------------
(* Rows *)

NoticeStatuses == {"none", "suppressed", "expired", "active", "cancelled"}
Rows == [status : NoticeStatuses, due : Nat, expires : Nat, local : BOOLEAN, read : BOOLEAN,
         acted : BOOLEAN, revision : Nat, made : Nat, decided : Nat,
         under : {{}} \cup UserSettings, after : SUBSET NoticeIds, by : SUBSET InboxWorkers]
Decisions == [at : SUBSET NoticeIds, decided : Nat, decision : Outcomes, under : UserSettings,
              after : SUBSET NoticeIds]
Shows == [status : NoticeStatuses, read : BOOLEAN, acted : BOOLEAN]

IsOut(r) == r.status \notin {"none", "suppressed"}

\* A row that is written again: with a newer revision, and what it was made of.
Rewritten(r, q, n) ==
  /\ q \in Rows /\ q.revision > n
  /\ q.due = r.due /\ q.expires = r.expires /\ q.made = r.made /\ q.decided = r.decided /\ q.under = r.under
  /\ q.after = r.after /\ q.by = r.by
  /\ q.status = "none" <=> r.status = "none"
  /\ q.status = "suppressed" <=> r.status = "suppressed"

EndRow(r, s, m) == [r EXCEPT !.status = s, !.revision = m]
ReadRow(r, m) == [r EXCEPT !.read = TRUE, !.revision = m]
ActedRow(r, m) == [r EXCEPT !.acted = TRUE, !.read = TRUE, !.revision = m]

LEMMA RowEnds ==
  ASSUME NEW r \in Rows, NEW n \in Nat, NEW m \in Nat, m > n, r.status = "active",
         NEW s \in {"expired", "cancelled"},
         NEW q, q = EndRow(r, s, m)
  PROVE  Rewritten(r, q, n) /\ q.revision = m
<1> DEFINE y == [r EXCEPT !.status = s]
<1>1. y \in Rows
  BY DEF Rows, NoticeStatuses
<1>2. q = [y EXCEPT !.revision = m]
  BY DEF Rows, EndRow
<1>3. /\ q.status = s /\ q.revision = m /\ q.due = r.due /\ q.expires = r.expires
      /\ q.made = r.made /\ q.decided = r.decided /\ q.under = r.under
      /\ q.after = r.after /\ q.by = r.by
  BY DEF Rows, EndRow
<1> HIDE DEF y
<1>4. q \in Rows
  BY <1>1, <1>2 DEF Rows
<1>5. Rewritten(r, q, n)
  BY <1>3, <1>4 DEF Rewritten
<1> QED BY <1>3, <1>5

LEMMA RowRead ==
  ASSUME NEW r \in Rows, NEW n \in Nat, NEW m \in Nat, m > n,
         NEW q, q = ReadRow(r, m)
  PROVE  Rewritten(r, q, n) /\ q.revision = m
<1> DEFINE y == [r EXCEPT !.read = TRUE]
<1>1. y \in Rows
  BY DEF Rows
<1>2. q = [y EXCEPT !.revision = m]
  BY DEF Rows, ReadRow
<1>3. /\ q.status = r.status /\ q.revision = m /\ q.due = r.due /\ q.expires = r.expires
      /\ q.made = r.made /\ q.decided = r.decided /\ q.under = r.under
      /\ q.after = r.after /\ q.by = r.by
  BY DEF Rows, ReadRow
<1> HIDE DEF y
<1>4. q \in Rows
  BY <1>1, <1>2 DEF Rows
<1>5. Rewritten(r, q, n)
  BY <1>3, <1>4 DEF Rewritten
<1> QED BY <1>3, <1>5

LEMMA RowActed ==
  ASSUME NEW r \in Rows, NEW n \in Nat, NEW m \in Nat, m > n,
         NEW q, q = ActedRow(r, m)
  PROVE  Rewritten(r, q, n) /\ q.revision = m
<1> DEFINE x == [r EXCEPT !.acted = TRUE]
           y == [x EXCEPT !.read = TRUE]
<1>1. x \in Rows
  BY DEF Rows
<1>2. y \in Rows
  <2> HIDE DEF x
  <2> QED BY <1>1 DEF Rows
<1>3. q = [y EXCEPT !.revision = m]
  BY DEF Rows, ActedRow
<1>4. /\ q.status = r.status /\ q.revision = m /\ q.due = r.due /\ q.expires = r.expires
      /\ q.made = r.made /\ q.decided = r.decided /\ q.under = r.under
      /\ q.after = r.after /\ q.by = r.by
  BY DEF Rows, ActedRow
<1> HIDE DEF x, y
<1>5. q \in Rows
  BY <1>2, <1>3 DEF Rows
<1>6. Rewritten(r, q, n)
  BY <1>4, <1>5 DEF Rewritten
<1> QED BY <1>4, <1>6

LEMMA IdsFinite == IsFiniteSet(NoticeIds)
<1> DEFINE R == [kind : DOMAIN Policy, task : Nat, fire : {<<>>} \cup (Nat \X Nat)]
<1>1. EventOf \in Seq(R)
  BY InboxAssumption
<1> HIDE DEF R
<1>2. NoticeIds = 1 .. Len(EventOf) /\ Len(EventOf) \in Nat
  BY <1>1 DEF NoticeIds
<1>3. IsFiniteSet(1 .. Len(EventOf))
  BY <1>2, FS_Interval
<1> QED BY <1>2, <1>3

LEMMA SomeFinite ==
  ASSUME NEW S \in SUBSET NoticeIds
  PROVE  IsFiniteSet(S) /\ Cardinality(S) \in Nat
BY IdsFinite, FS_Subset, FS_CardinalityType

\* The revisions of rows that end together follow that of the user, in order.
LEMMA EndedRows ==
  ASSUME notice \in [NoticeIds -> Rows], syncRevision \in Nat, NEW which \in SUBSET NoticeIds,
         \A e \in which : notice[e].status = "active", NEW s \in {"expired", "cancelled"}
  PROVE  LET rows == Ended(notice, which, s, syncRevision) IN
         /\ rows \in [NoticeIds -> Rows]
         /\ \A e \in NoticeIds :
              \/ rows[e] = notice[e]
              \/ /\ Rewritten(notice[e], rows[e], syncRevision)
                 /\ rows[e].revision <= syncRevision + Cardinality(which)
         /\ Cardinality(which) \in Nat
<1> DEFINE rows == Ended(notice, which, s, syncRevision)
<1>1. Cardinality(which) \in Nat /\ IsFiniteSet(which)
  BY SomeFinite
<1>2. ASSUME NEW e \in which
      PROVE  Before(which, e) \in Nat /\ Before(which, e) > 0 /\ Before(which, e) <= Cardinality(which)
  <2> DEFINE B == {f \in which : f <= e}
  <2>1. e \in B
    <3>1. e \in Nat
      <4> DEFINE R == [kind : DOMAIN Policy, task : Nat, fire : {<<>>} \cup (Nat \X Nat)]
      <4>1. EventOf \in Seq(R)
        BY InboxAssumption
      <4> HIDE DEF R
      <4> QED BY <4>1 DEF NoticeIds
    <3> QED BY <3>1
  <2>2. B \subseteq which
    OBVIOUS
  <2> HIDE DEF B
  <2>3. IsFiniteSet(B) /\ Cardinality(B) <= Cardinality(which)
    BY <1>1, <2>2, FS_Subset
  <2>4. Cardinality(B) \in Nat
    BY <2>3, FS_CardinalityType
  <2>5. Cardinality(B) # 0
    BY <2>1, <2>3, FS_EmptySet
  <2>6. Before(which, e) = Cardinality(B)
    BY DEF Before, B
  <2> QED BY <2>3, <2>4, <2>5, <2>6
<1>3. \A e \in NoticeIds : rows[e] =
        IF e \in which THEN [notice[e] EXCEPT !.status = s, !.revision = syncRevision + Before(which, e)]
                       ELSE notice[e]
  BY DEF Ended
<1>4. ASSUME NEW e \in which
      PROVE  /\ Rewritten(notice[e], rows[e], syncRevision)
             /\ rows[e].revision <= syncRevision + Cardinality(which)
  <2> DEFINE m == syncRevision + Before(which, e)
  <2>1. m \in Nat /\ m > syncRevision /\ m <= syncRevision + Cardinality(which)
    BY <1>1, <1>2
  <2>2. rows[e] = [notice[e] EXCEPT !.status = s, !.revision = m] /\ notice[e] \in Rows
    BY <1>3
  <2> HIDE DEF m, rows
  <2>3. Rewritten(notice[e], rows[e], syncRevision) /\ rows[e].revision = m
    <3> DEFINE r == notice[e]
               q == rows[e]
    <3>1. r \in Rows /\ r.status = "active" /\ q = EndRow(r, s, m)
      BY <2>2 DEF EndRow
    <3> HIDE DEF r, q
    <3>2. Rewritten(r, q, syncRevision) /\ q.revision = m
      BY <2>1, <3>1, RowEnds
    <3> QED BY <3>2 DEF r, q
  <2> QED BY <2>1, <2>3
<1>5. rows = [e \in NoticeIds |-> rows[e]]
  BY DEF Ended
<1> HIDE DEF rows
<1>6. \A e \in NoticeIds : rows[e] \in Rows
  BY <1>3, <1>4 DEF Rewritten
<1>7. rows \in [NoticeIds -> Rows]
  BY <1>5, <1>6
<1> QED BY <1>1, <1>3, <1>4, <1>7 DEF rows

-----------------------------------------------------------------------------
(* The invariant *)

InboxTypeOK ==
  /\ now \in Nat /\ syncRevision \in Nat /\ settings.value \in UserSettings
  /\ notice \in [NoticeIds -> Rows]
  /\ queue \in [NoticeIds -> {"none", "queued", "taken", "over"}]
  /\ deciding \in [InboxWorkers -> Decisions \cup {NoDecision}]
  /\ mobile \in [asked : SUBSET Nat, cursor : Nat, shows : [NoticeIds -> Shows]]

\* Every row the device has passed is shown as it is.
DeviceOK ==
  /\ \A e \in NoticeIds : notice[e].revision <= syncRevision
  /\ mobile.cursor <= syncRevision
  /\ \A a \in mobile.asked : mobile.cursor <= a /\ a <= syncRevision
  /\ \A e \in NoticeIds : notice[e].revision <= mobile.cursor => mobile.shows[e] = Seen(notice[e])

\* An event has no row until its processing is over.
FreshOK == \A e \in NoticeIds : queue[e] # "over" => notice[e].status = "none"

\* A decision that is not written yet.
DecisionOK(w) ==
  \A e \in deciding[w].at :
    /\ deciding[w] \in Decisions /\ deciding[w].at = {e} /\ queue[e] = "taken"
    /\ deciding[w].decided <= now
    /\ ~deciding[w].decision.suppressed =>
         InTime(e, deciding[w].decision.due, deciding[w].decision.expires,
                deciding[w].decided, deciding[w].under)

NoticeOK(e) ==
  IsOut(notice[e]) =>
    /\ InTime(e, notice[e].due, notice[e].expires, notice[e].decided, notice[e].under)
    /\ notice[e].made <= now

OneDecides ==
  \A v, w \in InboxWorkers : \A e \in deciding[v].at : e \in deciding[w].at => v = w

InboxInv ==
  /\ InboxTypeOK /\ DeviceOK /\ FreshOK /\ OneDecides
  /\ \A w \in InboxWorkers : DecisionOK(w)
  /\ \A e \in NoticeIds : NoticeOK(e)

-----------------------------------------------------------------------------
(* Steps that write rows again, or none *)

Rewrites ==
  /\ notice' \in [NoticeIds -> Rows]
  /\ syncRevision' \in Nat /\ syncRevision <= syncRevision'
  /\ \A e \in NoticeIds :
       \/ notice'[e] = notice[e]
       \/ Rewritten(notice[e], notice'[e], syncRevision) /\ notice'[e].revision <= syncRevision'

LEMMA RewritesDevice ==
  ASSUME InboxInv, Rewrites, UNCHANGED mobile PROVE DeviceOK'
<1>1. /\ syncRevision \in Nat /\ syncRevision' \in Nat /\ syncRevision <= syncRevision'
      /\ mobile.cursor \in Nat /\ mobile.cursor <= syncRevision /\ mobile.asked \subseteq Nat
  BY DEF InboxInv, InboxTypeOK, DeviceOK, Rewrites
<1>2. \A a \in mobile.asked : mobile.cursor <= a /\ a <= syncRevision'
  BY <1>1 DEF InboxInv, DeviceOK
<1>3. ASSUME NEW e \in NoticeIds
      PROVE  /\ notice'[e].revision <= syncRevision'
             /\ notice'[e].revision <= mobile.cursor => mobile.shows[e] = Seen(notice'[e])
  <2>1. notice[e] \in Rows /\ notice[e].revision \in Nat /\ notice[e].revision <= syncRevision
        /\ (notice[e].revision <= mobile.cursor => mobile.shows[e] = Seen(notice[e]))
    BY DEF InboxInv, InboxTypeOK, DeviceOK, Rows
  <2>2. CASE notice'[e] = notice[e]
    BY <1>1, <2>1, <2>2
  <2>3. CASE Rewritten(notice[e], notice'[e], syncRevision) /\ notice'[e].revision <= syncRevision'
    <3>1. notice'[e].revision \in Nat /\ notice'[e].revision > syncRevision
      BY <2>3 DEF Rewritten, Rows
    <3> QED BY <1>1, <2>3, <3>1
  <2> QED BY <2>2, <2>3 DEF Rewrites
<1> QED BY <1>1, <1>2, <1>3 DEF DeviceOK

LEMMA RewritesRows ==
  ASSUME InboxInv, Rewrites, now' \in Nat, now <= now'
  PROVE  /\ \A e \in NoticeIds : NoticeOK(e)'
         /\ \A e \in NoticeIds : notice[e].status = "none" => notice'[e].status = "none"
<1>1. ASSUME NEW e \in NoticeIds PROVE NoticeOK(e)' /\ (notice[e].status = "none" => notice'[e].status = "none")
  <2>1. notice[e].made \in Nat /\ NoticeOK(e) /\ now \in Nat
    BY DEF InboxInv, InboxTypeOK, Rows
  <2>2. /\ IsOut(notice'[e]) => IsOut(notice[e])
        /\ notice'[e].due = notice[e].due /\ notice'[e].expires = notice[e].expires
        /\ notice'[e].made = notice[e].made /\ notice'[e].decided = notice[e].decided
        /\ notice'[e].under = notice[e].under
        /\ notice[e].status = "none" => notice'[e].status = "none"
    BY DEF Rewrites, Rewritten, IsOut
  <2> QED BY <2>1, <2>2 DEF NoticeOK
<1> QED BY <1>1

\* Steps of the clock, the user, the queue and the rows that decide nothing.
LEMMA RewritesStep ==
  ASSUME InboxInv, Rewrites, UNCHANGED <<mobile, deciding>>,
         now' \in Nat, now <= now', settings'.value \in UserSettings,
         queue' \in [NoticeIds -> {"none", "queued", "taken", "over"}],
         \A e \in NoticeIds : queue'[e] # "over" => queue[e] # "over",
         \A e \in NoticeIds : queue[e] = "taken" => queue'[e] = "taken"
  PROVE  InboxInv'
<1>1. InboxTypeOK'
  BY DEF InboxInv, InboxTypeOK, Rewrites
<1>2. DeviceOK'
  BY RewritesDevice
<1>3. \A e \in NoticeIds : NoticeOK(e)'
  BY RewritesRows
<1>4. FreshOK'
  BY RewritesRows DEF InboxInv, FreshOK
<1>5. ASSUME NEW w \in InboxWorkers PROVE DecisionOK(w)'
  <2>1. ASSUME NEW e \in deciding[w].at
        PROVE  deciding[w].decided \in Nat /\ e \in NoticeIds /\ now \in Nat
    BY DEF InboxInv, DecisionOK, Decisions, InboxTypeOK
  <2> QED BY <2>1 DEF InboxInv, DecisionOK
<1>6. OneDecides'
  BY DEF InboxInv, OneDecides
<1> QED BY <1>1, <1>2, <1>3, <1>4, <1>5, <1>6 DEF InboxInv

LEMMA NoRewrites ==
  ASSUME InboxInv, UNCHANGED <<notice, syncRevision>> PROVE Rewrites
BY DEF InboxInv, InboxTypeOK, Rewrites

LEMMA ClockStep ==
  ASSUME InboxInv, Tick \/ TakeRevision \/ (UNCHANGED inboxVars) \/ (\E e \in NoticeIds : AcceptAction(e))
  PROVE  InboxInv'
<1>1. /\ now' \in Nat /\ now <= now' /\ UNCHANGED <<mobile, deciding, settings, queue, notice>>
      /\ syncRevision' \in Nat /\ syncRevision <= syncRevision'
  BY DEF InboxInv, InboxTypeOK, Tick, TakeRevision, inboxVars, AcceptAction
<1>2. Rewrites
  BY <1>1 DEF InboxInv, InboxTypeOK, Rewrites
<1> QED BY <1>1, <1>2, RewritesStep DEF InboxInv, InboxTypeOK

LEMMA ArriveStep == ASSUME InboxInv, NEW e \in NoticeIds, Arrive(e) PROVE InboxInv'
<1>1. /\ UNCHANGED <<now, settings, notice, syncRevision, deciding, mobile>>
      /\ queue[e] = "none" /\ queue' = [queue EXCEPT ![e] = "queued"]
  BY DEF Arrive
<1>2. /\ queue' \in [NoticeIds -> {"none", "queued", "taken", "over"}]
      /\ \A f \in NoticeIds : queue'[f] = IF f = e THEN "queued" ELSE queue[f]
  BY <1>1 DEF InboxInv, InboxTypeOK
<1>3. now \in Nat /\ settings.value \in UserSettings
  BY DEF InboxInv, InboxTypeOK
<1> QED BY <1>1, <1>2, <1>3, NoRewrites, RewritesStep

\* Rows that end together, by a change of preferences, of a task or of the time.
LEMMA EndsRewrite ==
  ASSUME InboxInv, NEW which \in SUBSET NoticeIds, \A e \in which : notice[e].status = "active",
         NEW s \in {"expired", "cancelled"}, notice' = Ended(notice, which, s, syncRevision),
         syncRevision' = syncRevision + Cardinality(which)
  PROVE  Rewrites
<1>1. notice \in [NoticeIds -> Rows] /\ syncRevision \in Nat
  BY DEF InboxInv, InboxTypeOK
<1> DEFINE rows == Ended(notice, which, s, syncRevision)
<1>2. /\ rows \in [NoticeIds -> Rows]
      /\ \A e \in NoticeIds :
           \/ rows[e] = notice[e]
           \/ /\ Rewritten(notice[e], rows[e], syncRevision)
              /\ rows[e].revision <= syncRevision + Cardinality(which)
      /\ Cardinality(which) \in Nat
  BY <1>1, EndedRows
<1>3. notice' = rows
  OBVIOUS
<1> HIDE DEF rows
<1> QED BY <1>1, <1>2, <1>3 DEF Rewrites

LEMMA SaveRewrites == ASSUME InboxInv, NEW s \in Settings, SavePreferences(s) PROVE Rewrites
<1> DEFINE which == OfTypes(TypesAffected(s))
<1>1. /\ notice' = Ended(notice, which, "cancelled", syncRevision)
      /\ syncRevision' = syncRevision + Cardinality(which)
  BY DEF SavePreferences
<1>2. which \in SUBSET NoticeIds /\ \A e \in which : notice[e].status = "active"
  BY DEF OfTypes, Local
<1> HIDE DEF which
<1> QED BY <1>1, <1>2, EndsRewrite

LEMMA SaveStep == ASSUME InboxInv, NEW s \in Settings, SavePreferences(s) PROVE InboxInv'
<1>1. settings' = Stored(s) /\ UNCHANGED <<now, deciding, mobile>>
  BY DEF SavePreferences
<1>2. queue' = [e \in NoticeIds |->
       IF EventOf[e].kind = "reminder" /\ "reminder" \in TypesAffected(s) /\ queue[e] = "queued"
       THEN "over" ELSE queue[e]]
  BY DEF SavePreferences
<1>4. Rewrites
  BY SaveRewrites
<1>5. settings'.value \in UserSettings
  BY <1>1, InboxAssumption DEF Stored
<1>6. now \in Nat /\ queue \in [NoticeIds -> {"none", "queued", "taken", "over"}]
  BY DEF InboxInv, InboxTypeOK
<1>7. /\ queue' \in [NoticeIds -> {"none", "queued", "taken", "over"}]
      /\ \A e \in NoticeIds : queue'[e] # "over" => queue[e] # "over"
      /\ \A e \in NoticeIds : queue[e] = "taken" => queue'[e] = "taken"
  BY <1>2, <1>6
<1> QED BY <1>1, <1>4, <1>5, <1>6, <1>7, RewritesStep

LEMMA ExpireRewrites == ASSUME InboxInv, ExpireDue PROVE Rewrites
<1> DEFINE which == {e \in NoticeIds : notice[e].status = "active" /\ notice[e].expires <= now}
<1>1. /\ notice' = Ended(notice, which, "expired", syncRevision)
      /\ syncRevision' = syncRevision + Cardinality(which)
  BY DEF ExpireDue
<1>2. which \in SUBSET NoticeIds /\ \A e \in which : notice[e].status = "active"
  OBVIOUS
<1> HIDE DEF which
<1> QED BY <1>1, <1>2, EndsRewrite

LEMMA ExpireStep == ASSUME InboxInv, ExpireDue PROVE InboxInv'
<1>1. UNCHANGED <<now, settings, queue, deciding, mobile>>
  BY DEF ExpireDue
<1>3. Rewrites
  BY ExpireRewrites
<1>4. now \in Nat /\ settings.value \in UserSettings
      /\ queue \in [NoticeIds -> {"none", "queued", "taken", "over"}]
  BY DEF InboxInv, InboxTypeOK
<1> QED BY <1>1, <1>3, <1>4, RewritesStep

LEMMA TouchRewrites ==
  ASSUME InboxInv, NEW e \in NoticeIds, MarkRead(e) \/ MarkActed(e) PROVE Rewrites
<1> DEFINE m == syncRevision + 1
           q == IF MarkRead(e) THEN ReadRow(notice[e], m) ELSE ActedRow(notice[e], m)
<1>1. syncRevision' = m /\ notice' = [notice EXCEPT ![e] = q]
  BY DEF MarkRead, MarkActed, ReadRow, ActedRow
<1>2. notice \in [NoticeIds -> Rows] /\ syncRevision \in Nat
  BY DEF InboxInv, InboxTypeOK
<1>3. m \in Nat /\ m > syncRevision
  BY <1>2
<1>4. Rewritten(notice[e], q, syncRevision) /\ q.revision = m
  <2> HIDE DEF m
  <2> QED BY <1>2, <1>3, RowRead, RowActed
<1>5. q \in Rows
  BY <1>4 DEF Rewritten
<1> HIDE DEF q, m
<1> QED BY <1>1, <1>2, <1>3, <1>4, <1>5 DEF Rewrites

LEMMA TouchStep ==
  ASSUME InboxInv, NEW e \in NoticeIds, MarkRead(e) \/ MarkActed(e) PROVE InboxInv'
<1>1. UNCHANGED <<now, settings, queue, deciding, mobile>>
  BY DEF MarkRead, MarkActed
<1>2. /\ now \in Nat /\ settings.value \in UserSettings
      /\ queue \in [NoticeIds -> {"none", "queued", "taken", "over"}]
  BY DEF InboxInv, InboxTypeOK
<1> QED BY <1>1, <1>2, TouchRewrites, RewritesStep

-----------------------------------------------------------------------------
(* The worker *)

\* Steps that leave the rows and the device alone.
LEMMA DecidingStep ==
  ASSUME InboxInv, UNCHANGED <<now, settings, notice, syncRevision, mobile>>,
         queue' \in [NoticeIds -> {"none", "queued", "taken", "over"}],
         deciding' \in [InboxWorkers -> Decisions \cup {NoDecision}],
         \A e \in NoticeIds : queue'[e] # "over" => queue[e] # "over",
         \A w \in InboxWorkers : DecisionOK(w)', OneDecides'
  PROVE  InboxInv'
<1>1. InboxTypeOK'
  BY DEF InboxInv, InboxTypeOK
<1>2. DeviceOK' /\ FreshOK'
  BY DEF InboxInv, DeviceOK, FreshOK
<1>3. \A e \in NoticeIds : NoticeOK(e)'
  BY DEF InboxInv, NoticeOK
<1> QED BY <1>1, <1>2, <1>3 DEF InboxInv

\* Another worker's decision is about another event.
LEMMA OthersDecide ==
  ASSUME InboxInv, NEW w \in InboxWorkers, DecisionOK(w), NEW e \in NoticeIds, e \notin deciding[w].at,
         deciding'[w] = deciding[w], now' = now, \A f \in NoticeIds : f # e => queue'[f] = queue[f]
  PROVE  DecisionOK(w)'
BY DEF DecisionOK, Decisions

LEMMA DecideStep ==
  ASSUME InboxInv, NEW w \in InboxWorkers, NEW e \in NoticeIds, Decide(w, e) PROVE InboxInv'
<1>1. /\ deciding[w] = NoDecision /\ queue[e] = "queued"
      /\ UNCHANGED <<now, settings, notice, syncRevision, mobile>>
  BY DEF Decide
<1>2. /\ now \in Nat /\ settings.value \in UserSettings
      /\ queue \in [NoticeIds -> {"none", "queued", "taken", "over"}]
      /\ deciding \in [InboxWorkers -> Decisions \cup {NoDecision}]
  BY DEF InboxInv, InboxTypeOK
<1>3. \A v \in InboxWorkers : e \notin deciding[v].at
  BY <1>1 DEF InboxInv, DecisionOK
<1>4. CASE EventOf[e].fire # <<>> /\ EventOf[e].fire[2] <= now
  <2>1. queue' = [queue EXCEPT ![e] = "over"] /\ UNCHANGED deciding
    BY <1>4 DEF Decide
  <2>2. /\ queue' \in [NoticeIds -> {"none", "queued", "taken", "over"}]
        /\ \A f \in NoticeIds : f # e => queue'[f] = queue[f]
        /\ queue'[e] = "over"
    BY <1>2, <2>1
  <2>3. \A v \in InboxWorkers : DecisionOK(v)'
    BY <1>1, <1>3, <2>1, <2>2, OthersDecide DEF InboxInv
  <2>4. OneDecides'
    BY <2>1 DEF InboxInv, OneDecides
  <2> QED BY <1>1, <1>2, <2>1, <2>2, <2>3, <2>4, DecidingStep
<1>5. CASE ~(EventOf[e].fire # <<>> /\ EventOf[e].fire[2] <= now)
  <2> DEFINE d == Decision(EventOf[e], now, settings.value, Cooling(e))
             known == {f \in NoticeIds : Delivered(f)}
             q == [at |-> {e}, decided |-> now, under |-> settings.value, decision |-> d, after |-> known]
  <2>1. queue' = [queue EXCEPT ![e] = "taken"] /\ deciding' = [deciding EXCEPT ![w] = q]
    BY <1>5 DEF Decide
  <2>2. EventOf[e].fire # <<>> => now < EventOf[e].fire[2]
    <3>1. EventOf[e].fire = <<>> \/ EventOf[e].fire[2] \in Nat
      BY EventType
    <3> QED BY <1>2, <1>5, <3>1
  <2>3. Cooling(e) \in BOOLEAN
    BY DEF Cooling
  <2>4. d \in Outcomes /\ (~d.suppressed => InTime(e, d.due, d.expires, now, settings.value))
    <3> DEFINE c == Cooling(e)
               s == settings.value
    <3>1. c \in BOOLEAN /\ s \in UserSettings
      BY <1>2, <2>3
    <3> HIDE DEF c, s
    <3>2. LET x == Decision(EventOf[e], now, s, c) IN
          x \in Outcomes /\ (~x.suppressed => InTime(e, x.due, x.expires, now, s) /\ ~c)
      BY <1>2, <2>2, <3>1, DecisionsAreTimely
    <3> QED BY <3>2 DEF c, s
  <2> HIDE DEF d
  <2>5. q \in Decisions /\ q.at = {e} /\ q.decided = now /\ q.under = settings.value /\ q.decision = d
    BY <1>2, <2>4 DEF Decisions
  <2> HIDE DEF q
  <2>6. /\ queue' \in [NoticeIds -> {"none", "queued", "taken", "over"}]
        /\ \A f \in NoticeIds : f # e => queue'[f] = queue[f]
        /\ queue'[e] = "taken"
        /\ deciding' \in [InboxWorkers -> Decisions \cup {NoDecision}]
        /\ deciding'[w] = q
        /\ \A v \in InboxWorkers : v # w => deciding'[v] = deciding[v]
    BY <1>2, <2>1, <2>5
  <2>7. DecisionOK(w)'
    BY <1>1, <1>2, <2>4, <2>5, <2>6 DEF DecisionOK
  <2>8. \A v \in InboxWorkers : v # w => DecisionOK(v)'
    BY <1>1, <1>3, <2>6, OthersDecide DEF InboxInv
  <2>9. OneDecides'
    BY <1>3, <2>5, <2>6 DEF InboxInv, OneDecides
  <2> QED BY <1>1, <2>6, <2>7, <2>8, <2>9, DecidingStep
<1> QED BY <1>4, <1>5

LEMMA AbandonStep ==
  ASSUME InboxInv, NEW w \in InboxWorkers, NEW e \in NoticeIds, Abandon(w, e) PROVE InboxInv'
<1>1. /\ e \in deciding[w].at /\ UNCHANGED <<now, settings, notice, syncRevision, mobile>>
      /\ queue' = [queue EXCEPT ![e] = "queued"]
      /\ deciding' = [deciding EXCEPT ![w] = NoDecision]
  BY DEF Abandon
<1>2. /\ queue \in [NoticeIds -> {"none", "queued", "taken", "over"}]
      /\ deciding \in [InboxWorkers -> Decisions \cup {NoDecision}] /\ queue[e] = "taken"
  BY <1>1 DEF InboxInv, InboxTypeOK, DecisionOK
<1>3. /\ queue' \in [NoticeIds -> {"none", "queued", "taken", "over"}]
      /\ \A f \in NoticeIds : f # e => queue'[f] = queue[f]
      /\ deciding' \in [InboxWorkers -> Decisions \cup {NoDecision}]
      /\ deciding'[w] = NoDecision
      /\ \A v \in InboxWorkers : v # w => deciding'[v] = deciding[v]
  BY <1>1, <1>2
<1>4. NoDecision.at = {}
  BY DEF NoDecision
<1>5. DecisionOK(w)'
  BY <1>3, <1>4 DEF DecisionOK
<1>6. ASSUME NEW v \in InboxWorkers, v # w PROVE DecisionOK(v)'
  <2>1. e \notin deciding[v].at
    BY <1>1, <1>6 DEF InboxInv, OneDecides
  <2> QED BY <1>1, <1>3, <1>6, <2>1, OthersDecide DEF InboxInv
<1>7. OneDecides'
  BY <1>3, <1>4 DEF InboxInv, OneDecides
<1>8. \A f \in NoticeIds : queue'[f] # "over" => queue[f] # "over"
  BY <1>1, <1>2
<1> QED BY <1>1, <1>3, <1>5, <1>6, <1>7, <1>8, DecidingStep

\* The row that is made of a decision.
LEMMA CreatedRow ==
  ASSUME NEW w \in InboxWorkers, NEW d \in Decisions, NEW n \in Nat, now \in Nat
  PROVE  LET r == Created(w, d, n) IN
         /\ r \in Rows /\ r.revision = n /\ r.status # "none"
         /\ r.due = d.decision.due /\ r.expires = d.decision.expires /\ r.made = now
         /\ r.decided = d.decided /\ r.under = d.under /\ r.after = d.after /\ r.by = {w}
         /\ IsOut(r) => ~d.decision.suppressed
<1> DEFINE r == Created(w, d, n)
           s == IF d.decision.suppressed THEN "suppressed"
                ELSE IF d.decision.expires <= d.decided THEN "expired" ELSE "active"
<1>1. d.decision \in Outcomes /\ d.decided \in Nat /\ d.under \in UserSettings
      /\ d.after \in SUBSET NoticeIds
  BY DEF Decisions
<1>2. /\ d.decision.due \in Nat /\ d.decision.expires \in Nat /\ d.decision.local \in BOOLEAN
      /\ d.decision.suppressed \in BOOLEAN
  BY <1>1 DEF Outcomes
<1>3. s \in NoticeStatuses /\ s # "none" /\ (d.decision.suppressed => s = "suppressed")
  BY DEF NoticeStatuses
<1>4. r = [status |-> s, due |-> d.decision.due, expires |-> d.decision.expires,
           local |-> d.decision.local, read |-> FALSE, acted |-> FALSE, revision |-> n, made |-> now,
           decided |-> d.decided, under |-> d.under, after |-> d.after, by |-> {w}]
  BY DEF Created
<1> HIDE DEF r, s
<1>5. r \in Rows
  BY <1>1, <1>2, <1>3, <1>4 DEF Rows
<1>6. /\ r.revision = n /\ r.status = s /\ r.due = d.decision.due /\ r.expires = d.decision.expires
      /\ r.made = now /\ r.decided = d.decided /\ r.under = d.under /\ r.after = d.after /\ r.by = {w}
  BY <1>4
<1>7. IsOut(r) => ~d.decision.suppressed
  BY <1>3, <1>6 DEF IsOut
<1>8. /\ r \in Rows /\ r.revision = n /\ r.status # "none"
      /\ r.due = d.decision.due /\ r.expires = d.decision.expires /\ r.made = now
      /\ r.decided = d.decided /\ r.under = d.under /\ r.after = d.after /\ r.by = {w}
      /\ IsOut(r) => ~d.decision.suppressed
  BY <1>3, <1>5, <1>6, <1>7
<1> QED BY <1>8 DEF r

\* What Create writes: rows that end first, and the new one.
CreateWrites(w, e, rows, n) ==
  /\ e \in deciding[w].at
  /\ rows \in [NoticeIds -> Rows] /\ n \in Nat /\ n > syncRevision
  /\ \A f \in NoticeIds :
       \/ rows[f] = notice[f]
       \/ Rewritten(notice[f], rows[f], syncRevision) /\ rows[f].revision <= n
  /\ notice' = [rows EXCEPT ![e] = Created(w, deciding[w], n)] /\ syncRevision' = n
  /\ queue' = [queue EXCEPT ![e] = "over"]
  /\ deciding' = [deciding EXCEPT ![w] = NoDecision]
  /\ UNCHANGED <<now, settings, acting, touches, mobile>>

LEMMA CreateWritten ==
  ASSUME InboxInv, NEW w \in InboxWorkers, NEW e \in NoticeIds, Create(w, e)
  PROVE  \E rows, n : CreateWrites(w, e, rows, n)
<1> DEFINE which == IF EventOf[e].kind = "ended" THEN OfTask(EventOf[e].task) ELSE {}
           rows == Ended(notice, which, "cancelled", syncRevision)
           n == syncRevision + Cardinality(which) + 1
<1>1. notice \in [NoticeIds -> Rows] /\ syncRevision \in Nat
  BY DEF InboxInv, InboxTypeOK
<1>2. which \in SUBSET NoticeIds /\ \A f \in which : notice[f].status = "active"
  BY DEF OfTask, Local
<1>3. /\ e \in deciding[w].at
      /\ notice' = [rows EXCEPT ![e] = Created(w, deciding[w], n)] /\ syncRevision' = n
      /\ queue' = [queue EXCEPT ![e] = "over"]
      /\ deciding' = [deciding EXCEPT ![w] = NoDecision]
      /\ UNCHANGED <<now, settings, acting, touches, mobile>>
  BY DEF Create
<1> HIDE DEF which
<1>4. /\ rows \in [NoticeIds -> Rows]
      /\ \A f \in NoticeIds :
           \/ rows[f] = notice[f]
           \/ /\ Rewritten(notice[f], rows[f], syncRevision)
              /\ rows[f].revision <= syncRevision + Cardinality(which)
      /\ Cardinality(which) \in Nat
  BY <1>1, <1>2, EndedRows
<1>5. n \in Nat /\ n > syncRevision
  BY <1>1, <1>4
<1> HIDE DEF rows
<1>6. \A f \in NoticeIds :
           \/ rows[f] = notice[f]
           \/ Rewritten(notice[f], rows[f], syncRevision) /\ rows[f].revision <= n
  <2>1. \A f \in NoticeIds : rows[f].revision \in Nat
    BY <1>4 DEF Rows
  <2> QED BY <1>1, <1>4, <2>1
<1> HIDE DEF n
<1>7. CreateWrites(w, e, rows, n)
  BY <1>3, <1>4, <1>5, <1>6 DEF CreateWrites
<1> QED BY <1>7

LEMMA CreateStep ==
  ASSUME InboxInv, NEW w \in InboxWorkers, NEW e \in NoticeIds, NEW rows, NEW n, CreateWrites(w, e, rows, n)
  PROVE  InboxInv'
<1> DEFINE d == deciding[w]
           r == Created(w, d, n)
<1>1. /\ e \in d.at /\ d \in Decisions /\ d.decided <= now /\ n \in Nat /\ now \in Nat
      /\ n > syncRevision /\ syncRevision \in Nat
      /\ ~d.decision.suppressed => InTime(e, d.decision.due, d.decision.expires, d.decided, d.under)
  BY DEF CreateWrites, InboxInv, DecisionOK, InboxTypeOK
<1>2. /\ r \in Rows /\ r.revision = n /\ r.status # "none"
      /\ r.due = d.decision.due /\ r.expires = d.decision.expires /\ r.made = now
      /\ r.decided = d.decided /\ r.under = d.under
      /\ IsOut(r) => ~d.decision.suppressed
  <2> HIDE DEF d
  <2> QED BY <1>1, CreatedRow
<1>3. /\ notice' = [rows EXCEPT ![e] = r] /\ rows \in [NoticeIds -> Rows] /\ syncRevision' = n
      /\ queue' = [queue EXCEPT ![e] = "over"] /\ deciding' = [deciding EXCEPT ![w] = NoDecision]
      /\ UNCHANGED <<now, settings, mobile>>
  BY DEF CreateWrites
<1> HIDE DEF d, r
<1>4. /\ notice' \in [NoticeIds -> Rows]
      /\ \A f \in NoticeIds : notice'[f] = IF f = e THEN r ELSE rows[f]
  BY <1>2, <1>3
<1>5. /\ queue \in [NoticeIds -> {"none", "queued", "taken", "over"}]
      /\ deciding \in [InboxWorkers -> Decisions \cup {NoDecision}]
  BY DEF InboxInv, InboxTypeOK
<1>6. /\ queue' \in [NoticeIds -> {"none", "queued", "taken", "over"}]
      /\ \A f \in NoticeIds : queue'[f] = IF f = e THEN "over" ELSE queue[f]
      /\ deciding' \in [InboxWorkers -> Decisions \cup {NoDecision}]
      /\ deciding'[w] = NoDecision
      /\ \A v \in InboxWorkers : v # w => deciding'[v] = deciding[v]
  BY <1>3, <1>5
<1>7. InboxTypeOK'
  BY <1>1, <1>3, <1>4, <1>6 DEF InboxInv, InboxTypeOK
<1>8. ASSUME NEW f \in NoticeIds, f # e
      PROVE  /\ notice'[f].revision <= n
             /\ notice'[f].revision <= mobile.cursor => mobile.shows[f] = Seen(notice'[f])
             /\ NoticeOK(f)' /\ (notice[f].status = "none" => notice'[f].status = "none")
  <2>1. /\ notice[f] \in Rows /\ notice[f].revision \in Nat /\ notice[f].revision <= syncRevision
        /\ (notice[f].revision <= mobile.cursor => mobile.shows[f] = Seen(notice[f]))
        /\ mobile.cursor \in Nat /\ mobile.cursor <= syncRevision /\ NoticeOK(f)
    BY DEF InboxInv, InboxTypeOK, DeviceOK, Rows
  <2>2. CASE rows[f] = notice[f]
    <3>1. notice'[f] = notice[f]
      BY <1>4, <1>8, <2>2
    <3>2. NoticeOK(f)'
      BY <1>3, <2>1, <3>1 DEF NoticeOK
    <3> QED BY <1>1, <2>1, <3>1, <3>2
  <2>3. CASE Rewritten(notice[f], rows[f], syncRevision) /\ rows[f].revision <= n
    <3>1. notice'[f] = rows[f]
      BY <1>4, <1>8
    <3>2. rows[f].revision \in Nat /\ rows[f].revision > syncRevision
      BY <2>3 DEF Rewritten, Rows
    <3>3. NoticeOK(f)' /\ (notice[f].status = "none" => notice'[f].status = "none")
      BY <1>3, <2>1, <2>3, <3>1 DEF NoticeOK, Rewritten, IsOut
    <3> QED BY <1>1, <2>1, <2>3, <3>1, <3>2, <3>3
  <2> QED BY <2>2, <2>3 DEF CreateWrites
<1>9. DeviceOK'
  <2>1. mobile.cursor \in Nat /\ mobile.cursor <= syncRevision /\ mobile.asked \subseteq Nat
        /\ \A a \in mobile.asked : mobile.cursor <= a /\ a <= syncRevision
    BY DEF InboxInv, DeviceOK, InboxTypeOK
  <2>2. mobile.cursor <= n /\ \A a \in mobile.asked : mobile.cursor <= a /\ a <= n
    BY <1>1, <2>1
  <2>3. notice'[e].revision = n /\ ~(n <= mobile.cursor) /\ n <= n
    BY <1>1, <1>2, <1>4, <2>1
  <2>4. ASSUME NEW f \in NoticeIds
        PROVE  /\ notice'[f].revision <= n
               /\ notice'[f].revision <= mobile.cursor => mobile.shows[f] = Seen(notice'[f])
    BY <1>8, <2>3
  <2> QED BY <1>3, <2>2, <2>4 DEF DeviceOK
<1>10. NoticeOK(e)'
  <2>1. notice'[e] = r /\ now <= now
    BY <1>1, <1>4
  <2> QED BY <1>1, <1>2, <1>3, <2>1 DEF NoticeOK
<1>11. FreshOK'
  BY <1>6, <1>8 DEF InboxInv, FreshOK
<1>12. NoDecision.at = {}
  BY DEF NoDecision
<1>13. DecisionOK(w)'
  BY <1>6, <1>12 DEF DecisionOK
<1>14. ASSUME NEW v \in InboxWorkers, v # w PROVE DecisionOK(v)'
  <2>1. e \notin deciding[v].at
    BY <1>1, <1>14 DEF InboxInv, OneDecides, d
  <2> QED BY <1>3, <1>6, <1>14, <2>1, OthersDecide DEF InboxInv
<1>15. OneDecides'
  BY <1>6, <1>12 DEF InboxInv, OneDecides
<1> QED BY <1>7, <1>8, <1>9, <1>10, <1>11, <1>13, <1>14, <1>15 DEF InboxInv

-----------------------------------------------------------------------------
(* The device *)

\* A set of numbers has a least one.
LEMMA LeastNumber ==
  ASSUME NEW T, T \subseteq Nat, T # {} PROVE \E x \in T : \A y \in T : x <= y
<1> DEFINE R == OpToRel(<, Nat)
<1>1. IsWellFoundedOn(R, Nat)
  BY NatLessThanWellFounded
<1>2. PICK x \in T : \A y \in T : ~(<<y, x>> \in R)
  <2> HIDE DEF R
  <2> QED BY <1>1, WFMin
<1>3. \A y \in T : ~(y < x)
  BY <1>2 DEF OpToRel
<1>4. \A y \in T : x <= y
  BY <1>3
<1> QED BY <1>4

\* The end of a page that has rows is the revision of one of them, the last.
LEMMA LastRow ==
  ASSUME NEW rows \in SUBSET NoticeIds, rows # {}, NEW current \in Nat,
         \A e \in rows : notice[e].revision \in Nat /\ notice[e].revision <= current
  PROVE  /\ \E e \in rows : PageEnd(rows, current) = notice[e].revision
         /\ \A e \in rows : notice[e].revision <= PageEnd(rows, current)
<1> DEFINE T == {n \in Nat : \A e \in rows : notice[e].revision <= n}
           S == {notice[e].revision : e \in rows}
<1>1. current \in T /\ T \subseteq Nat
  OBVIOUS
<1>2. PICK x \in T : \A y \in T : x <= y
  <2> HIDE DEF T
  <2> QED BY <1>1, LeastNumber
<1>3. x \in S
  <2> SUFFICES ASSUME x \notin S PROVE FALSE
    OBVIOUS
  <2>1. x \in Nat /\ \A e \in rows : notice[e].revision < x
    BY <1>2
  <2>2. x - 1 \in Nat
    BY <2>1
  <2>3. x - 1 \in T
    BY <2>1, <2>2
  <2> QED BY <1>2, <2>1, <2>3
<1>4. \E r \in S : \A e \in rows : notice[e].revision <= r
  BY <1>2, <1>3
<1>5. PageEnd(rows, current) = CHOOSE r \in S : \A e \in rows : notice[e].revision <= r
  BY DEF PageEnd
<1> DEFINE Last(r) == \A e \in rows : notice[e].revision <= r
<1>6. PageEnd(rows, current) \in S /\ Last(PageEnd(rows, current))
  <2>1. \E r \in S : Last(r)
    BY <1>4
  <2>2. PageEnd(rows, current) = CHOOSE r \in S : Last(r)
    BY <1>5
  <2> HIDE DEF S, Last
  <2> QED BY <2>1, <2>2
<1> QED BY <1>6

PageRange(current) ==
  {e \in NoticeIds : mobile.cursor < notice[e].revision /\ notice[e].revision <= current}

\* A page has the first rows in its range: one if there is any, and with a row
\* all those before it.
LEMMA PageIsFirst ==
  ASSUME NEW current \in Nat, \A e \in NoticeIds : notice[e].revision \in Nat
  PROVE  /\ PageRows(current) \subseteq PageRange(current)
         /\ PageRange(current) # {} => PageRows(current) # {}
         /\ \A r \in PageRows(current) : \A e \in PageRange(current) :
              notice[e].revision <= notice[r].revision => e \in PageRows(current)
<1> DEFINE range == PageRange(current)
           Under(e) == {f \in range : notice[f].revision < notice[e].revision}
<1>1. PageRows(current) = {e \in range : Cardinality(Under(e)) < InboxPage}
  BY DEF PageRows, PageRange
<1>2. \A e : Under(e) \in SUBSET NoticeIds /\ range \in SUBSET NoticeIds
  BY DEF PageRange
<1>3. ASSUME range # {} PROVE PageRows(current) # {}
  <2> DEFINE T == {notice[e].revision : e \in range}
  <2>1. T \subseteq Nat /\ T # {}
    BY <1>2, <1>3
  <2>2. PICK x \in T : \A y \in T : x <= y
    <3> HIDE DEF T
    <3> QED BY <2>1, LeastNumber
  <2>3. PICK e \in range : x = notice[e].revision
    OBVIOUS
  <2>4. Under(e) = {}
    BY <1>2, <2>1, <2>2, <2>3
  <2>5. Cardinality(Under(e)) = 0
    BY <2>4, FS_EmptySet
  <2>6. 0 < InboxPage
    BY InboxAssumption
  <2> HIDE DEF Under, range
  <2> QED BY <1>1, <2>3, <2>5, <2>6
<1>4. ASSUME NEW r \in PageRows(current), NEW e \in range, notice[e].revision <= notice[r].revision
      PROVE  e \in PageRows(current)
  <2>1. r \in range /\ Cardinality(Under(r)) < InboxPage
    BY <1>1
  <2>2. Under(e) \subseteq Under(r)
    <3>1. notice[e].revision \in Nat /\ notice[r].revision \in Nat
      BY <1>2, <2>1
    <3>2. \A f \in range : notice[f].revision \in Nat
      BY <1>2
    <3> HIDE DEF range
    <3> QED BY <1>4, <3>1, <3>2
  <2>3. IsFiniteSet(Under(r)) /\ Cardinality(Under(r)) \in Nat /\ Cardinality(Under(e)) \in Nat
    <3> HIDE DEF Under
    <3> QED BY <1>2, SomeFinite
  <2>4. Cardinality(Under(e)) <= Cardinality(Under(r))
    <3> HIDE DEF Under
    <3> QED BY <2>2, <2>3, FS_Subset
  <2>5. InboxPage \in Nat
    BY InboxAssumption
  <2>6. Cardinality(Under(e)) < InboxPage
    <3> HIDE DEF Under
    <3> QED BY <2>1, <2>3, <2>4, <2>5
  <2> HIDE DEF Under, range
  <2> QED BY <1>1, <2>6
<1> QED BY <1>1, <1>3, <1>4

LEMMA ReceiveStep ==
  ASSUME InboxInv, NEW current \in mobile.asked, ReceivePage(current) PROVE InboxInv'
<1> DEFINE rows == PageRows(current)
           end == PageEnd(rows, current)
           shows == [e \in NoticeIds |-> IF e \in rows THEN Seen(notice[e]) ELSE mobile.shows[e]]
<1>1. mobile' = [asked |-> {}, cursor |-> end, shows |-> shows]
      /\ UNCHANGED <<now, settings, queue, notice, syncRevision, deciding>>
  BY DEF ReceivePage
<1>2. /\ current \in Nat /\ mobile.cursor \in Nat /\ mobile.cursor <= current /\ current <= syncRevision
      /\ syncRevision \in Nat /\ \A e \in NoticeIds : notice[e].revision \in Nat /\ notice[e] \in Rows
      /\ mobile.shows \in [NoticeIds -> Shows]
  BY DEF InboxInv, InboxTypeOK, DeviceOK, Rows
<1>3. /\ rows \subseteq PageRange(current)
      /\ PageRange(current) # {} => rows # {}
      /\ \A r \in rows : \A e \in PageRange(current) :
           notice[e].revision <= notice[r].revision => e \in rows
  BY <1>2, PageIsFirst
<1> HIDE DEF rows
<1>4. /\ end \in Nat /\ end <= current
      /\ \A e \in PageRange(current) : notice[e].revision <= end => e \in rows
  <2>1. CASE rows = {}
    <3>1. end = current
      BY <2>1 DEF PageEnd
    <3> QED BY <1>2, <1>3, <2>1, <3>1
  <2>2. CASE rows # {}
    <3>1. rows \in SUBSET NoticeIds
      BY <1>3 DEF PageRange
    <3>2. \A e \in rows : notice[e].revision \in Nat /\ notice[e].revision <= current
      BY <1>2, <1>3 DEF PageRange
    <3>3. PICK r \in rows : end = notice[r].revision
      BY <1>2, <2>2, <3>1, <3>2, LastRow
    <3> QED BY <1>3, <3>2, <3>3
  <2> QED BY <2>1, <2>2
<1> HIDE DEF end
<1>5. \A e \in NoticeIds : Seen(notice[e]) \in Shows
  BY <1>2 DEF Seen, Shows, Rows
<1>6. /\ shows \in [NoticeIds -> Shows]
      /\ \A e \in NoticeIds : shows[e] = IF e \in rows THEN Seen(notice[e]) ELSE mobile.shows[e]
  BY <1>2, <1>5
<1> HIDE DEF shows
<1>7. /\ mobile'.asked = {} /\ mobile'.cursor = end /\ mobile'.shows = shows
      /\ mobile' \in [asked : SUBSET Nat, cursor : Nat, shows : [NoticeIds -> Shows]]
  BY <1>1, <1>4, <1>6
<1>8. InboxTypeOK'
  BY <1>1, <1>7 DEF InboxInv, InboxTypeOK
<1>9. ASSUME NEW e \in NoticeIds, notice[e].revision <= end PROVE shows[e] = Seen(notice[e])
  <2>1. CASE notice[e].revision <= mobile.cursor
    BY <1>6, <2>1 DEF InboxInv, DeviceOK
  <2>2. CASE ~(notice[e].revision <= mobile.cursor)
    <3>1. e \in PageRange(current)
      BY <1>2, <1>4, <1>9, <2>2 DEF PageRange
    <3> QED BY <1>4, <1>6, <1>9, <3>1
  <2> QED BY <2>1, <2>2
<1>10. DeviceOK'
  <2>1. end <= syncRevision
    BY <1>2, <1>4
  <2> QED BY <1>1, <1>7, <1>9, <2>1 DEF InboxInv, DeviceOK
<1>11. FreshOK' /\ OneDecides'
  BY <1>1 DEF InboxInv, FreshOK, OneDecides
<1>12. \A w \in InboxWorkers : DecisionOK(w)'
  BY <1>1 DEF InboxInv, DecisionOK
<1>13. \A e \in NoticeIds : NoticeOK(e)'
  BY <1>1 DEF InboxInv, NoticeOK
<1> QED BY <1>8, <1>10, <1>11, <1>12, <1>13 DEF InboxInv

LEMMA AskStep == ASSUME InboxInv, AskForPage \/ LosePage PROVE InboxInv'
<1> DEFINE a == IF AskForPage THEN {syncRevision} ELSE {}
<1>1. mobile' = [mobile EXCEPT !.asked = a]
      /\ UNCHANGED <<now, settings, queue, notice, syncRevision, deciding>>
  BY DEF AskForPage, LosePage
<1>2. syncRevision \in Nat /\ mobile \in [asked : SUBSET Nat, cursor : Nat, shows : [NoticeIds -> Shows]]
      /\ mobile.cursor <= syncRevision
  BY DEF InboxInv, InboxTypeOK, DeviceOK
<1>3. a \in SUBSET Nat /\ \A x \in a : x = syncRevision
  BY <1>2
<1> HIDE DEF a
<1>4. /\ mobile' \in [asked : SUBSET Nat, cursor : Nat, shows : [NoticeIds -> Shows]]
      /\ mobile'.asked = a /\ mobile'.cursor = mobile.cursor /\ mobile'.shows = mobile.shows
  BY <1>1, <1>2, <1>3
<1>5. InboxTypeOK'
  BY <1>1, <1>4 DEF InboxInv, InboxTypeOK
<1>6. DeviceOK'
  <2>1. \A x \in a : mobile.cursor <= x /\ x <= syncRevision
    BY <1>2, <1>3
  <2> QED BY <1>1, <1>2, <1>4, <2>1 DEF InboxInv, DeviceOK
<1>7. FreshOK' /\ OneDecides'
  BY <1>1 DEF InboxInv, FreshOK, OneDecides
<1>8. \A w \in InboxWorkers : DecisionOK(w)'
  BY <1>1 DEF InboxInv, DecisionOK
<1>9. \A e \in NoticeIds : NoticeOK(e)'
  BY <1>1 DEF InboxInv, NoticeOK
<1> QED BY <1>5, <1>6, <1>7, <1>8, <1>9 DEF InboxInv

LEMMA InboxStep == ASSUME InboxInv, [InboxNext]_inboxVars PROVE InboxInv'
<1>1. CASE UNCHANGED inboxVars
  BY <1>1, ClockStep
<1>2. ASSUME NEW w \in InboxWorkers, NEW e \in NoticeIds, Create(w, e) PROVE InboxInv'
  BY <1>2, CreateWritten, CreateStep
<1> QED BY <1>1, <1>2, ClockStep, ArriveStep, SaveStep, ExpireStep, TouchStep, DecideStep, AbandonStep,
           ReceiveStep, AskStep DEF InboxNext

LEMMA InboxInitInv == ASSUME InboxInit PROVE InboxInv
<1>1. /\ now = 0 /\ syncRevision = 0 /\ queue = [e \in NoticeIds |-> "none"]
      /\ notice = [e \in NoticeIds |-> Absent]
      /\ deciding = [w \in InboxWorkers |-> NoDecision]
      /\ mobile = [asked |-> {}, cursor |-> 0, shows |-> [e \in NoticeIds |-> Seen(Absent)]]
  BY DEF InboxInit
<1>2. settings.value \in UserSettings
  BY InboxAssumption DEF InboxInit
<1>3. Absent \in Rows /\ Absent.revision = 0 /\ Absent.status = "none"
  BY DEF Absent, Rows, NoticeStatuses
<1>4. Seen(Absent) \in Shows
  BY <1>3 DEF Seen, Shows, Rows
<1>5. InboxTypeOK
  BY <1>1, <1>2, <1>3, <1>4 DEF InboxTypeOK
<1>6. \A e \in NoticeIds : notice[e] = Absent /\ queue[e] = "none" /\ mobile.shows[e] = Seen(notice[e])
  BY <1>1
<1>7. DeviceOK /\ FreshOK
  BY <1>1, <1>3, <1>6 DEF DeviceOK, FreshOK
<1>8. \A w \in InboxWorkers : deciding[w].at = {}
  BY <1>1 DEF NoDecision
<1> QED BY <1>3, <1>5, <1>6, <1>7, <1>8 DEF InboxInv, DecisionOK, NoticeOK, OneDecides, IsOut

\* A device whose cursor has reached the user's revision shows every notification
\* as it is: every write of a row takes a revision beyond the cursor, and a page
\* ends at or before the first row it leaves out (sync_since).
THEOREM InboxStaysCurrent == InboxSpec => []InboxIsCurrent
<1>1. InboxInv => InboxIsCurrent
  <2> SUFFICES ASSUME InboxInv, mobile.cursor = syncRevision, NEW e \in NoticeIds
               PROVE  mobile.shows[e] = Seen(notice[e])
    BY DEF InboxIsCurrent
  <2> QED BY DEF InboxInv, DeviceOK
<1> QED BY <1>1, InboxInitInv, InboxStep, PTL DEF InboxSpec

\* A notification that was delivered is due before it expires and outside the
\* quiet hours it was decided under, but for urgent ones and those with a time of
\* their own (NotificationPolicy.decide, quiet_hours_end_utc).
THEOREM NoticesInTime == InboxSpec => []NoticesAreTimely
<1>1. InboxInv => NoticesAreTimely
  BY DEF InboxInv, NoticeOK, NoticesAreTimely, Delivered, IsOut, DueInTime, InTime
<1> QED BY <1>1, InboxInitInv, InboxStep, PTL DEF InboxSpec

-----------------------------------------------------------------------------
(* Cooldowns *)

Alike(e, f) ==
  /\ EventOf[e].task = EventOf[f].task
  /\ Policy[EventOf[e].kind].under = Policy[EventOf[f].kind].under

Cooldown(e, s) == s.types[Policy[EventOf[e].kind].under].cooldown

\* Of its type and task, nothing it came after has been delivered in the cooldown
\* of an event that is decided.
ClearOK(w) ==
  \A e \in deciding[w].at : ~deciding[w].decision.suppressed =>
    \A f \in deciding[w].after :
      Alike(e, f) /\ Cooldown(e, deciding[w].under) > 0
      => notice[f].made + Cooldown(e, deciding[w].under) < deciding[w].decided

\* What a worker did not come after is not its own.
OwnOK(w) ==
  deciding[w].at # {} =>
    /\ \A f \in deciding[w].after : IsOut(notice[f])
    /\ \A f \in NoticeIds \ deciding[w].after : IsOut(notice[f]) => notice[f].by # {w}

KnownOK ==
  \A f \in NoticeIds :
    /\ \A e \in notice[f].after : IsOut(notice[e])
    /\ IsOut(notice[f]) => \E w \in InboxWorkers : notice[f].by = {w}

SpacedInv ==
  InboxInv /\ NoticesAreSpaced /\ KnownOK /\ \A w \in InboxWorkers : ClearOK(w) /\ OwnOK(w)

\* A row is delivered if it was, and it keeps how it was made.
Remembered(e) ==
  /\ IsOut(notice'[e]) <=> IsOut(notice[e])
  /\ notice'[e].made = notice[e].made /\ notice'[e].under = notice[e].under
  /\ notice'[e].after = notice[e].after /\ notice'[e].by = notice[e].by

HistoryKept == \A e \in NoticeIds : Remembered(e)

LEMMA RewritesKeep == ASSUME Rewrites PROVE HistoryKept
BY DEF Rewrites, Rewritten, HistoryKept, Remembered, IsOut

LEMMA RowSets ==
  ASSUME InboxInv
  PROVE  /\ \A f \in NoticeIds : notice[f].after \in SUBSET NoticeIds /\ notice[f].made \in Nat
         /\ \A w \in InboxWorkers : deciding[w].after \in SUBSET NoticeIds
BY DEF InboxInv, InboxTypeOK, Rows, Decisions, NoDecision

LEMMA SpacedKept ==
  ASSUME SpacedInv, InboxInv', HistoryKept,
         \A w \in InboxWorkers : deciding'[w] = deciding[w] \/ deciding'[w] = NoDecision
  PROVE  SpacedInv'
<1>1. ASSUME NEW e \in NoticeIds, NEW f \in NoticeIds, InCooldownOf(e, f)' PROVE MadeBeside(e, f)'
  <2>1. InCooldownOf(e, f)
    BY <1>1 DEF InCooldownOf, HistoryKept, Remembered, Delivered, IsOut, CooldownOf
  <2>2. MadeBeside(e, f)
    BY <2>1 DEF SpacedInv, NoticesAreSpaced
  <2> QED BY <2>2 DEF MadeBeside, HistoryKept, Remembered
<1>2. ASSUME NEW w \in InboxWorkers PROVE ClearOK(w)' /\ OwnOK(w)'
  <2>1. CASE deciding'[w] = deciding[w]
    BY <1>2, <2>1, RowSets DEF SpacedInv, ClearOK, OwnOK, HistoryKept, Remembered
  <2>2. CASE deciding'[w] = NoDecision
    BY <2>2 DEF ClearOK, OwnOK, NoDecision
  <2> QED BY <1>2, <2>1, <2>2
<1>3. KnownOK'
  BY RowSets DEF SpacedInv, KnownOK, HistoryKept, Remembered
<1> QED BY <1>1, <1>2, <1>3 DEF SpacedInv, NoticesAreSpaced

LEMMA SpacedDecide ==
  ASSUME SpacedInv, InboxInv', NEW w \in InboxWorkers, NEW e \in NoticeIds, Decide(w, e)
  PROVE  SpacedInv'
<1>1. now \in Nat /\ settings.value \in UserSettings /\ notice \in [NoticeIds -> Rows]
      /\ deciding \in [InboxWorkers -> Decisions \cup {NoDecision}] /\ notice' = notice
  BY DEF SpacedInv, InboxInv, InboxTypeOK, Decide
<1>2. HistoryKept
  BY <1>1 DEF HistoryKept, Remembered
<1>3. CASE EventOf[e].fire # <<>> /\ EventOf[e].fire[2] <= now
  <2>1. deciding' = deciding
    BY <1>3 DEF Decide
  <2> QED BY <1>2, <2>1, SpacedKept
<1>4. CASE ~(EventOf[e].fire # <<>> /\ EventOf[e].fire[2] <= now)
  <2> DEFINE s == settings.value
             d == Decision(EventOf[e], now, s, Cooling(e))
             known == {f \in NoticeIds : Delivered(f)}
             q == [at |-> {e}, decided |-> now, under |-> s, decision |-> d, after |-> known]
  <2>1. deciding' = [deciding EXCEPT ![w] = q]
    BY <1>4 DEF Decide
  <2>2. /\ deciding'[w] = q /\ \A v \in InboxWorkers : v # w => deciding'[v] = deciding[v]
    <3> HIDE DEF q
    <3> QED BY <1>1, <2>1
  <2>3. EventOf[e].fire # <<>> => now < EventOf[e].fire[2]
    <3>1. EventOf[e].fire = <<>> \/ EventOf[e].fire[2] \in Nat
      BY EventType
    <3> QED BY <1>1, <1>4, <3>1
  <2>4. ~d.suppressed => ~Cooling(e)
    <3> DEFINE c == Cooling(e)
    <3>1. c \in BOOLEAN /\ s \in UserSettings
      BY <1>1 DEF Cooling
    <3> HIDE DEF c, s
    <3>2. LET x == Decision(EventOf[e], now, s, c) IN ~x.suppressed => ~c
      BY <1>1, <2>3, <3>1, DecisionsAreTimely
    <3> QED BY <3>2 DEF c, s
  <2>5. Cooldown(e, s) \in Nat
    <3>1. Policy[EventOf[e].kind].under \in Types
      BY EventType, PolicyType
    <3> HIDE DEF s
    <3>2. s \in UserSettings
      BY <1>1 DEF s
    <3> QED BY <3>1, <3>2 DEF Cooldown, UserSettings
  <2>6. ASSUME ~d.suppressed, NEW f \in NoticeIds, IsOut(notice[f]), Alike(e, f), Cooldown(e, s) > 0
        PROVE  notice[f].made + Cooldown(e, s) < now
    <3>1. ~(notice[f].made + Cooldown(e, s) >= now)
      BY <2>4, <2>6 DEF Cooling, Cooldown, Alike, IsOut
    <3>2. notice[f].made \in Nat
      BY <1>1 DEF Rows
    <3> HIDE DEF s
    <3> QED BY <1>1, <2>5, <3>1, <3>2
  <2>7. /\ q.at = {e} /\ q.decided = now /\ q.under = s /\ q.decision = d /\ q.after = known
        /\ \A f : f \in known <=> f \in NoticeIds /\ IsOut(notice[f])
    BY DEF Delivered, IsOut
  <2> HIDE DEF q, d, s, known
  <2>8. ClearOK(w)' /\ OwnOK(w)'
    <3>1. ClearOK(w)'
      BY <1>1, <2>2, <2>6, <2>7 DEF ClearOK
    <3>2. OwnOK(w)'
      BY <1>1, <2>2, <2>7 DEF OwnOK
    <3> QED BY <3>1, <3>2
  <2>9. \A v \in InboxWorkers : v # w => ClearOK(v)' /\ OwnOK(v)'
    BY <1>1, <2>2 DEF SpacedInv, ClearOK, OwnOK
  <2>10. NoticesAreSpaced' /\ KnownOK'
    BY <1>1 DEF SpacedInv, KnownOK, NoticesAreSpaced, InCooldownOf, MadeBeside, Delivered, CooldownOf
  <2> QED BY <2>8, <2>9, <2>10 DEF SpacedInv
<1> QED BY <1>3, <1>4

LEMMA SpacedCreate ==
  ASSUME SpacedInv, InboxInv',
         NEW w \in InboxWorkers, NEW c \in NoticeIds, NEW rows, NEW n, CreateWrites(w, c, rows, n)
  PROVE  SpacedInv'
<1> DEFINE d == deciding[w]
           r == Created(w, d, n)
<1>1. /\ c \in d.at /\ d \in Decisions /\ d.decided <= now /\ d.decided \in Nat /\ n \in Nat /\ now \in Nat
      /\ d.under \in UserSettings /\ notice[c].status = "none"
  BY DEF CreateWrites, SpacedInv, InboxInv, DecisionOK, FreshOK, InboxTypeOK, Decisions
<1>2. /\ r.made = now /\ r.under = d.under /\ (IsOut(r) => ~d.decision.suppressed) /\ r \in Rows
      /\ r.after = d.after /\ r.by = {w}
  <2> HIDE DEF d
  <2> QED BY <1>1, CreatedRow
<1>3. /\ notice' = [rows EXCEPT ![c] = r] /\ rows \in [NoticeIds -> Rows]
      /\ deciding' = [deciding EXCEPT ![w] = NoDecision] /\ notice \in [NoticeIds -> Rows]
      /\ deciding \in [InboxWorkers -> Decisions \cup {NoDecision}]
  BY DEF CreateWrites, SpacedInv, InboxInv, InboxTypeOK
<1>4. ASSUME NEW f \in NoticeIds, f # c PROVE Remembered(f)
  <2>1. notice'[f] = rows[f]
    <3> HIDE DEF r
    <3> QED BY <1>3, <1>4
  <2>2. rows[f] = notice[f] \/ Rewritten(notice[f], rows[f], syncRevision)
    BY DEF CreateWrites
  <2> QED BY <2>1, <2>2 DEF Remembered, Rewritten, IsOut
<1>5. notice'[c] = r
  <2> HIDE DEF r
  <2> QED BY <1>3
<1>6. Cooldown(c, d.under) \in Nat
  <2>1. Policy[EventOf[c].kind].under \in Types
    BY EventType, PolicyType
  <2> DEFINE s == d.under
  <2>2. s \in UserSettings
    BY <1>1
  <2> HIDE DEF s
  <2>3. Cooldown(c, s) \in Nat
    BY <2>1, <2>2 DEF Cooldown, UserSettings
  <2> QED BY <2>3 DEF s
<1>7. ~IsOut(notice[c]) /\ d.at # {} /\ OwnOK(w) /\ ClearOK(w)
  BY <1>1 DEF SpacedInv, IsOut
\* What its worker came after is not in its cooldown; and the rest, not its own.
<1>8. ASSUME NEW g \in NoticeIds, g # c, IsOut(notice'[g]), IsOut(r), Alike(c, g), Cooldown(c, d.under) > 0
      PROVE  \/ notice'[g].made + Cooldown(c, d.under) < r.made /\ notice'[g].made < r.made
             \/ g \notin r.after /\ notice'[g].by # r.by
  <2>1. IsOut(notice[g]) /\ notice'[g].made = notice[g].made /\ notice[g].made \in Nat
        /\ notice'[g].by = notice[g].by
    BY <1>3, <1>4, <1>8 DEF Rows, Remembered
  <2>2. CASE g \in d.after
    <3>1. notice[g].made + Cooldown(c, d.under) < d.decided
      BY <1>1, <1>2, <1>7, <1>8, <2>2 DEF ClearOK
    <3> HIDE DEF d, r
    <3> QED BY <1>1, <1>2, <1>6, <2>1, <3>1
  <2>3. CASE g \notin d.after
    BY <1>2, <1>7, <2>1, <2>3 DEF OwnOK
  <2> QED BY <2>2, <2>3
<1>9. CooldownOf(c)' = Cooldown(c, d.under)
  BY <1>2, <1>5 DEF CooldownOf, Cooldown
<1>10. \A f \in NoticeIds : f # c => CooldownOf(f)' = CooldownOf(f)
  BY <1>4 DEF CooldownOf, Remembered
<1>11. \A e \in NoticeIds : Delivered(e)' <=> IsOut(notice'[e])
  BY DEF Delivered, IsOut
<1>12. \A g \in NoticeIds : g # c => c \notin notice'[g].after
  BY <1>4, <1>7 DEF SpacedInv, KnownOK, Remembered
<1>13. ASSUME NEW e \in NoticeIds, NEW f \in NoticeIds, InCooldownOf(e, f)' PROVE MadeBeside(e, f)'
  <2>1. /\ e # f /\ IsOut(notice'[e]) /\ IsOut(notice'[f]) /\ Alike(e, f)
        /\ CooldownOf(e)' > 0 /\ CooldownOf(f)' > 0
        /\ notice'[e].made <= notice'[f].made
        /\ notice'[f].made <= notice'[e].made + CooldownOf(f)'
    BY <1>11, <1>13 DEF InCooldownOf, Alike
  <2>2. notice'[f].made \in Nat /\ notice'[e].made \in Nat
    BY RowSets, <1>3 DEF InboxInv, InboxTypeOK, Rows
  <2>3. CASE e = c
    <3>1. ~(notice'[f].made < r.made)
      BY <1>5, <2>1, <2>2, <2>3
    <3>2. notice'[f].by # r.by
      BY <1>5, <1>8, <1>9, <2>1, <2>3, <3>1
    <3> QED BY <1>5, <1>12, <2>1, <2>3, <3>2 DEF MadeBeside
  <2>4. CASE f = c
    <3>1. Alike(c, e)
      BY <2>1, <2>4 DEF Alike
    <3> DEFINE k == Cooldown(c, d.under)
    <3>2. k \in Nat /\ r.made <= notice'[e].made + k
      BY <1>5, <1>6, <1>9, <2>1, <2>4
    <3>3. r.made \in Nat
      BY <1>2 DEF Rows
    <3>4. ~(notice'[e].made + k < r.made)
      <4> HIDE DEF k, r
      <4> QED BY <2>2, <3>2, <3>3
    <3>5. e \notin r.after /\ notice'[e].by # r.by
      BY <1>5, <1>8, <1>9, <2>1, <2>4, <3>1, <3>4
    <3> QED BY <1>5, <2>4, <3>5 DEF MadeBeside
  <2>5. CASE e # c /\ f # c
    <3>1. InCooldownOf(e, f)
      <4>1. Remembered(e) /\ Remembered(f)
        BY <1>4, <2>5
      <4>2. CooldownOf(e)' = CooldownOf(e) /\ CooldownOf(f)' = CooldownOf(f)
        BY <1>10, <2>5
      <4>3. Delivered(e) /\ Delivered(f)
        BY <2>1, <4>1 DEF Remembered, Delivered, IsOut
      <4> QED BY <2>1, <4>1, <4>2, <4>3 DEF InCooldownOf, Remembered, Alike
    <3>2. MadeBeside(e, f)
      BY <3>1 DEF SpacedInv, NoticesAreSpaced
    <3> QED BY <1>4, <2>5, <3>2 DEF MadeBeside, Remembered
  <2> QED BY <2>3, <2>4, <2>5
<1>14. \A v \in InboxWorkers : deciding'[v] = IF v = w THEN NoDecision ELSE deciding[v]
  BY <1>3
<1>15. ASSUME NEW v \in InboxWorkers PROVE ClearOK(v)' /\ OwnOK(v)'
  <2>1. CASE v = w
    BY <1>14, <2>1 DEF ClearOK, OwnOK, NoDecision
  <2>2. CASE v # w /\ deciding[v].at = {}
    BY <1>14, <2>2 DEF ClearOK, OwnOK
  <2>3. CASE v # w /\ deciding[v].at # {}
    <3>1. deciding'[v] = deciding[v] /\ ClearOK(v) /\ OwnOK(v)
      BY <1>14, <2>3 DEF SpacedInv
    <3>2. deciding[v].after \in SUBSET NoticeIds /\ c \notin deciding[v].after
      BY <1>7, <2>3, <3>1, RowSets DEF OwnOK, SpacedInv
    <3>3. \A f \in deciding[v].after : Remembered(f)
      BY <1>4, <3>2
    <3>4. ClearOK(v)'
      BY <3>1, <3>3 DEF ClearOK, Remembered
    <3>5. \A f \in deciding[v].after : IsOut(notice'[f])
      BY <2>3, <3>1, <3>3 DEF OwnOK, Remembered
    <3>6. \A f \in NoticeIds \ deciding[v].after : IsOut(notice'[f]) => notice'[f].by # {v}
      <4>1. notice'[c].by # {v}
        BY <1>2, <1>5, <2>3
      <4>2. \A f \in NoticeIds : f # c => Remembered(f)
        BY <1>4
      <4> QED BY <2>3, <3>1, <4>1, <4>2 DEF OwnOK, Remembered
    <3> QED BY <3>1, <3>4, <3>5, <3>6 DEF OwnOK
  <2> QED BY <2>1, <2>2, <2>3
<1>16. KnownOK'
  <2>1. ASSUME NEW f \in NoticeIds, NEW e \in notice'[f].after PROVE IsOut(notice'[e])
    <3>1. e \in NoticeIds /\ e # c /\ IsOut(notice[e])
      <4>1. CASE f = c
        <5>1. e \in d.after
          BY <1>2, <1>5, <2>1, <4>1
        <5>2. d.after \in SUBSET NoticeIds
          BY RowSets DEF SpacedInv
        <5> QED BY <1>7, <5>1, <5>2 DEF OwnOK
      <4>2. CASE f # c
        <5>1. e \in notice[f].after
          BY <1>4, <2>1, <4>2 DEF Remembered
        <5> QED BY <1>7, <5>1, RowSets DEF SpacedInv, KnownOK
      <4> QED BY <4>1, <4>2
    <3> QED BY <1>4, <3>1 DEF Remembered
  <2>2. ASSUME NEW f \in NoticeIds, IsOut(notice'[f]) PROVE \E v \in InboxWorkers : notice'[f].by = {v}
    <3>1. CASE f = c
      BY <1>2, <1>5, <3>1
    <3>2. CASE f # c
      BY <1>4, <2>2, <3>2 DEF SpacedInv, KnownOK, Remembered
    <3> QED BY <3>1, <3>2
  <2> QED BY <2>1, <2>2 DEF KnownOK
<1> QED BY <1>13, <1>15, <1>16 DEF SpacedInv, NoticesAreSpaced

LEMMA SpacedStep == ASSUME SpacedInv, [InboxNext]_inboxVars PROVE SpacedInv'
<1>1. InboxInv'
  BY InboxStep DEF SpacedInv
<1>2. CASE UNCHANGED <<notice, deciding>>
  <2>1. HistoryKept
    BY <1>2 DEF HistoryKept, Remembered
  <2> QED BY <1>1, <1>2, <2>1, SpacedKept
<1>3. ASSUME NEW s \in Settings, SavePreferences(s) PROVE SpacedInv'
  <2>1. Rewrites /\ UNCHANGED deciding
    BY <1>3, SaveRewrites DEF SpacedInv, SavePreferences
  <2> QED BY <1>1, <2>1, RewritesKeep, SpacedKept
<1>4. CASE ExpireDue
  <2>1. Rewrites /\ UNCHANGED deciding
    BY <1>4, ExpireRewrites DEF SpacedInv, ExpireDue
  <2> QED BY <1>1, <2>1, RewritesKeep, SpacedKept
<1>5. ASSUME NEW e \in NoticeIds, MarkRead(e) \/ MarkActed(e) PROVE SpacedInv'
  <2>1. Rewrites /\ UNCHANGED deciding
    BY <1>5, TouchRewrites DEF SpacedInv, MarkRead, MarkActed
  <2> QED BY <1>1, <2>1, RewritesKeep, SpacedKept
<1>6. ASSUME NEW w \in InboxWorkers, NEW e \in NoticeIds, Abandon(w, e) PROVE SpacedInv'
  <2>1. deciding' = [deciding EXCEPT ![w] = NoDecision] /\ UNCHANGED notice
    BY <1>6 DEF Abandon
  <2>2. \A v \in InboxWorkers : deciding'[v] = deciding[v] \/ deciding'[v] = NoDecision
    <3> DEFINE o == NoDecision
    <3>1. deciding' = [deciding EXCEPT ![w] = o] /\ \E S : deciding \in [InboxWorkers -> S]
      BY <2>1 DEF SpacedInv, InboxInv, InboxTypeOK
    <3> HIDE DEF o
    <3>2. \A v \in InboxWorkers : deciding'[v] = deciding[v] \/ deciding'[v] = o
      BY <3>1
    <3> QED BY <3>2 DEF o
  <2>3. HistoryKept
    BY <2>1 DEF HistoryKept, Remembered
  <2> QED BY <1>1, <2>2, <2>3, SpacedKept
<1>7. ASSUME NEW w \in InboxWorkers, NEW e \in NoticeIds, Create(w, e) PROVE SpacedInv'
  BY <1>1, <1>7, CreateWritten, SpacedCreate DEF SpacedInv
<1>8. ASSUME NEW w \in InboxWorkers, NEW e \in NoticeIds, Decide(w, e) PROVE SpacedInv'
  BY <1>1, <1>8, SpacedDecide
<1>9. CASE UNCHANGED inboxVars \/ Tick \/ TakeRevision \/ AskForPage \/ LosePage
  BY <1>2, <1>9 DEF inboxVars, Tick, TakeRevision, AskForPage, LosePage
<1>10. ASSUME NEW e \in NoticeIds, Arrive(e) \/ AcceptAction(e) PROVE SpacedInv'
  BY <1>2, <1>10 DEF Arrive, AcceptAction
<1>11. ASSUME NEW current \in mobile.asked, ReceivePage(current) PROVE SpacedInv'
  BY <1>2, <1>11 DEF ReceivePage
<1> QED BY <1>3, <1>4, <1>5, <1>6, <1>7, <1>8, <1>9, <1>10, <1>11 DEF InboxNext

LEMMA SpacedAlways == InboxSpec => []SpacedInv
<1>1. ASSUME InboxInit PROVE SpacedInv
  <2>1. InboxInv
    BY <1>1, InboxInitInv
  <2>2. /\ \A e \in NoticeIds : notice[e].status = "none" /\ notice[e].after = {}
        /\ \A w \in InboxWorkers : deciding[w].at = {}
    BY <1>1 DEF InboxInit, Absent, NoDecision
  <2> QED BY <2>1, <2>2
         DEF SpacedInv, NoticesAreSpaced, InCooldownOf, KnownOK, ClearOK, OwnOK, Delivered, IsOut
<1> QED BY <1>1, SpacedStep, PTL DEF InboxSpec

\* With any number of workers, a notification is made within the cooldown of
\* another of its type and task only when a second worker decided it before the
\* first was written (cooldown_active).
THEOREM NoticesApart == InboxSpec => []NoticesAreSpaced
<1>1. SpacedInv => NoticesAreSpaced
  BY DEF SpacedInv
<1> QED BY <1>1, SpacedAlways, PTL

\* One worker keeps the cooldown: between its reads and its write no other
\* notification is made.
COROLLARY OneWorkerKeepsCooldown ==
  ASSUME \A v, w \in InboxWorkers : v = w
  PROVE  InboxSpec => []CooldownIsKept
<1>1. ASSUME SpacedInv, NEW e \in NoticeIds, NEW f \in NoticeIds PROVE ~InCooldownOf(e, f)
  <2>1. SUFFICES ASSUME InCooldownOf(e, f) PROVE FALSE
    OBVIOUS
  <2>2. notice[e].by # notice[f].by /\ IsOut(notice[e]) /\ IsOut(notice[f])
    BY <1>1, <2>1 DEF SpacedInv, NoticesAreSpaced, InCooldownOf, MadeBeside, Delivered, IsOut
  <2>3. /\ \E v \in InboxWorkers : notice[e].by = {v}
        /\ \E w \in InboxWorkers : notice[f].by = {w}
    BY <1>1, <2>2 DEF SpacedInv, KnownOK
  <2> QED BY <2>2, <2>3
<1>2. SpacedInv => CooldownIsKept
  BY <1>1 DEF CooldownIsKept
<1> QED BY <1>2, SpacedAlways, PTL
=============================================================================
