----------------------------- MODULE PagesProofs -----------------------------
(***************************************************************************)
(* Proofs about what pages show and do: the results of commands that the   *)
(* sessions of one server share, for any sessions and accounts; the        *)
(* dialogue of Future Planning, for any titles, scopes and changes of the  *)
(* plans; and the sums of a task's timer, for any lengths of a second, a   *)
(* minute and a day, any estimate and any number of pauses and pages.      *)
(***************************************************************************)
EXTENDS PageResults, PlanningDialogue, TaskTimer, TLAPS

(* PageResults *)

CommandKinds == {"run", "add", "move"}
Operation == [by : Tabs, kind : CommandKinds, rev : Nat, undoneBy : Tabs \cup {Nil}]
Result == [op : Nat \cup {Nil}, unplaced : AccountsOf \cup {Nil}]
Doing == [pc : {"idle", "asked", "done", "captured", "half"}, kind : CommandKinds,
          rev : Nat, op : Nat \cup {Nil}]

ResultsTypeOK ==
  /\ done \in Seq(Operation)
  /\ rev \in [AccountsOf -> Nat]
  /\ last \in Result
  /\ page \in [Tabs -> Result]
  /\ doing \in [Tabs -> Doing]
  /\ mixed \in SUBSET Tabs

\* An operation of the session's account.
Own(s, o) == o \in 1 .. Len(done) /\ Account[done[o].by] = Account[s]

PageIsOwn(s) ==
  /\ page[s].op # Nil => Own(s, page[s].op)
  /\ page[s].unplaced \in {Nil, Account[s]}

\* What services.py remembers and what each page shows are operations.
ResultsAreKnown ==
  /\ last.op # Nil => last.op \in 1 .. Len(done)
  /\ \A s \in Tabs : page[s].op # Nil => page[s].op \in 1 .. Len(done)

\* A command that was answered has an operation of its own account; one whose
\* run failed has none, and its page is given up.
AnswerIsOwn(s) ==
  doing[s].pc \in {"done", "captured", "half"} =>
    \/ Own(s, doing[s].op)
    \/ doing[s].pc # "done" /\ doing[s].kind = "run" /\ s \in mixed

\* Unless it was overtaken, a session that reads finds its own results.
ReadsItsOwn(s) ==
  s \notin mixed =>
    /\ doing[s].pc \in {"idle", "asked", "done"} => PageIsOwn(s)
    /\ doing[s].pc = "captured" /\ doing[s].kind = "move" => PageIsOwn(s)
    /\ doing[s].pc = "captured" /\ doing[s].kind # "move" =>
         last.op = doing[s].op /\ last.unplaced = Account[s]
    /\ doing[s].pc = "half" =>
         /\ last.op = doing[s].op /\ last.unplaced = Account[s]
         /\ page[s].op # Nil => Own(s, page[s].op)

SessionOK(s) == AnswerIsOwn(s) /\ ReadsItsOwn(s)

UndosAreOwn ==
  \A o \in 1 .. Len(done) :
    done[o].undoneBy # Nil => Account[done[o].undoneBy] = Account[done[o].by]

ResultsInv ==
  ResultsTypeOK /\ ResultsAreKnown /\ (\A s \in Tabs : SessionOK(s)) /\ UndosAreOwn

LEMMA AccountKnown == ASSUME NEW s \in Tabs PROVE Account[s] \in AccountsOf
BY DEF AccountsOf

LEMMA ResultsInitInv == ResultsInit => ResultsInv
<1> SUFFICES ASSUME ResultsInit PROVE ResultsInv
  OBVIOUS
<1>1. done = << >> /\ Len(done) = 0 /\ done \in Seq(Operation) /\ mixed = {}
  BY DEF ResultsInit
<1>2. \A s \in Tabs : doing[s] = NoCommand /\ page[s] = [op |-> Nil, unplaced |-> Nil]
  BY DEF ResultsInit
<1>3. ResultsTypeOK
  <2>1. NoCommand \in Doing /\ [op |-> Nil, unplaced |-> Nil] \in Result
    BY DEF NoCommand, Doing, Result, CommandKinds
  <2>2. rev \in [AccountsOf -> Nat]
    BY DEF ResultsInit
  <2> QED BY <1>1, <2>1, <2>2 DEF ResultsInit, ResultsTypeOK
<1>4. last.op = Nil
  BY DEF ResultsInit
<1>5. ASSUME NEW s \in Tabs PROVE SessionOK(s)
  <2>1. doing[s].pc = "idle" /\ page[s].op = Nil /\ page[s].unplaced = Nil
    BY <1>2 DEF NoCommand
  <2> QED BY <2>1 DEF SessionOK, AnswerIsOwn, ReadsItsOwn, PageIsOwn
<1> QED BY <1>1, <1>2, <1>3, <1>4, <1>5 DEF ResultsInv, ResultsAreKnown, UndosAreOwn

\* A session that another's step does not touch, unless it overtakes it.
LEMMA Untouched ==
  ASSUME NEW t \in Tabs, SessionOK(t), doing'[t] = doing[t], page'[t] = page[t],
         t \in mixed => t \in mixed',
         \A o : Own(t, o) => Own(t, o)',
         last' = last \/ (doing[t].pc \in {"captured", "half"} => t \in mixed')
  PROVE  SessionOK(t)'
BY DEF SessionOK, AnswerIsOwn, ReadsItsOwn, PageIsOwn

\* Steps that record nothing.
LEMMA Steps ==
  ASSUME ResultsInv, NEW s \in Tabs, NEW d \in Doing, NEW p \in Result,
         doing' = [doing EXCEPT ![s] = d], page' = [page EXCEPT ![s] = p],
         done' = done, rev' = rev, last' \in Result, mixed' \in SUBSET Tabs,
         mixed \ {s} \subseteq mixed',
         last' = last \/ Overtaken(s) \subseteq mixed',
         last'.op # Nil => last'.op \in 1 .. Len(done),
         p.op # Nil => p.op \in 1 .. Len(done),
         SessionOK(s)'
  PROVE  ResultsInv'
<1>1. ResultsTypeOK'
  BY DEF ResultsInv, ResultsTypeOK
<1>2. ResultsAreKnown'
  <2>1. \A t \in Tabs : page'[t] = IF t = s THEN p ELSE page[t]
    BY DEF ResultsInv, ResultsTypeOK
  <2> QED BY <2>1 DEF ResultsInv, ResultsAreKnown
<1>3. ASSUME NEW t \in Tabs PROVE SessionOK(t)'
  <2>1. CASE t # s
    <3>1. doing'[t] = doing[t] /\ page'[t] = page[t]
      BY <2>1 DEF ResultsInv, ResultsTypeOK
    <3>2. last' = last \/ (doing[t].pc \in {"captured", "half"} => t \in mixed')
      BY <2>1 DEF Overtaken
    <3>3. \A o : Own(t, o) => Own(t, o)'
      BY DEF Own
    <3>4. SessionOK(t) /\ (t \in mixed => t \in mixed')
      BY <2>1 DEF ResultsInv
    <3> QED BY <3>1, <3>2, <3>3, <3>4, Untouched
  <2> QED BY <2>1
<1>4. UndosAreOwn'
  BY DEF ResultsInv, UndosAreOwn
<1> QED BY <1>1, <1>2, <1>3, <1>4 DEF ResultsInv

LEMMA RequestInv ==
  ASSUME ResultsInv, NEW s \in Tabs, NEW k \in CommandKinds, Request(s, k) PROVE ResultsInv'
<1> DEFINE d == [pc |-> "asked", kind |-> k, rev |-> rev[Account[s]], op |-> Nil]
<1>1. rev[Account[s]] \in Nat
  BY AccountKnown DEF ResultsInv, ResultsTypeOK
<1>2. d \in Doing
  BY <1>1 DEF Doing
<1>3. /\ doing' = [doing EXCEPT ![s] = d] /\ page' = [page EXCEPT ![s] = page[s]]
      /\ doing[s].pc = "idle" /\ doing'[s] = d /\ page[s] \in Result
  BY DEF Request, ResultsInv, ResultsTypeOK
<1>4. UNCHANGED <<done, rev, last, page, mixed>>
  BY DEF Request
<1>5. SessionOK(s)'
  BY <1>3, <1>4 DEF ResultsInv, SessionOK, AnswerIsOwn, ReadsItsOwn, PageIsOwn, Own
<1>6. last \in Result /\ mixed \in SUBSET Tabs /\ (last.op # Nil => last.op \in 1 .. Len(done))
      /\ (page[s].op # Nil => page[s].op \in 1 .. Len(done))
  BY DEF ResultsInv, ResultsTypeOK, ResultsAreKnown
<1> HIDE DEF d
<1> QED BY <1>2, <1>3, <1>4, <1>5, <1>6, Steps

LEMMA ReplayInv ==
  ASSUME ResultsInv, NEW s \in Tabs, Replay(s) PROVE ResultsInv'
<1>1. PICK o \in 1 .. Len(done) :
        /\ Account[done[o].by] = Account[s]
        /\ doing' = [doing EXCEPT ![s].pc = "done", ![s].op = o, ![s].rev = 0]
  BY DEF Replay
<1> DEFINE d == [doing[s] EXCEPT !.pc = "done", !.op = o, !.rev = 0]
<1>2. doing[s] \in Doing /\ page[s] \in Result /\ doing[s].pc = "asked"
      /\ Len(done) \in Nat
  BY DEF Replay, ResultsInv, ResultsTypeOK
<1>3. d \in Doing /\ d.pc = "done" /\ d.op = o
  <2>1. o \in Nat
    BY <1>2
  <2> QED BY <1>2, <2>1 DEF Doing
<1>4. doing' = [doing EXCEPT ![s] = d] /\ page' = [page EXCEPT ![s] = page[s]] /\ doing'[s] = d
  <2>1. doing' = [doing EXCEPT ![s] = d] /\ doing'[s] = d
    BY <1>1, <1>2 DEF ResultsInv, ResultsTypeOK
  <2>2. page' = [page EXCEPT ![s] = page[s]]
    BY DEF Replay, ResultsInv, ResultsTypeOK
  <2> QED BY <2>1, <2>2
<1>5. UNCHANGED <<done, rev, last, page, mixed>>
  BY DEF Replay
<1> HIDE DEF d
<1>6. SessionOK(s)'
  BY <1>1, <1>2, <1>3, <1>4, <1>5 DEF ResultsInv, SessionOK, AnswerIsOwn, ReadsItsOwn, PageIsOwn, Own
<1>7. last \in Result /\ mixed \in SUBSET Tabs /\ (last.op # Nil => last.op \in 1 .. Len(done))
      /\ (page[s].op # Nil => page[s].op \in 1 .. Len(done))
  BY DEF ResultsInv, ResultsTypeOK, ResultsAreKnown
<1> QED BY <1>2, <1>3, <1>4, <1>5, <1>6, <1>7, Steps

\* A script that ends or goes on without having shown anything.
LEMMA EndsInv ==
  ASSUME ResultsInv, NEW s \in Tabs, RunFails(s) \/ CommandFails(s) \/ Stop(s)
  PROVE  ResultsInv'
<1>1. doing[s] \in Doing /\ page[s] \in Result
  BY DEF ResultsInv, ResultsTypeOK
<1>2. PICK d \in Doing :
        /\ doing' = [doing EXCEPT ![s] = d]
        /\ \/ d.pc = "captured" /\ d.kind = "run" /\ s \in mixed'
           \/ d.pc = "idle" /\ (doing[s].pc = "asked" \/ s \in mixed')
  <2>1. CASE RunFails(s)
    <3> DEFINE d == [doing[s] EXCEPT !.pc = "captured", !.rev = 0]
    <3>1. d \in Doing /\ d.pc = "captured" /\ d.kind = "run" /\ s \in mixed'
      BY <1>1, <2>1 DEF RunFails, Doing
    <3>2. doing' = [doing EXCEPT ![s] = d]
      BY <1>1, <2>1 DEF RunFails, ResultsInv, ResultsTypeOK
    <3> QED BY <3>1, <3>2
  <2>2. CASE CommandFails(s) \/ Stop(s)
    <3>1. NoCommand \in Doing /\ NoCommand.pc = "idle"
      BY DEF NoCommand, Doing, CommandKinds
    <3> QED BY <2>2, <3>1 DEF CommandFails, Stop
  <2> QED BY <2>1, <2>2
<1>3. page' = [page EXCEPT ![s] = page[s]] /\ doing'[s] = d
  BY <1>2 DEF RunFails, CommandFails, Stop, ResultsInv, ResultsTypeOK
<1>4. UNCHANGED <<done, rev, last, page>> /\ mixed' \in {mixed, mixed \cup {s}}
  BY DEF RunFails, CommandFails, Stop
<1>5. SessionOK(s)'
  BY <1>1, <1>2, <1>3, <1>4 DEF ResultsInv, SessionOK, AnswerIsOwn, ReadsItsOwn, PageIsOwn, Own
<1>6. last \in Result /\ mixed' \in SUBSET Tabs /\ (last.op # Nil => last.op \in 1 .. Len(done))
      /\ (page[s].op # Nil => page[s].op \in 1 .. Len(done))
  BY <1>4 DEF ResultsInv, ResultsTypeOK, ResultsAreKnown
<1> QED BY <1>1, <1>2, <1>3, <1>4, <1>5, <1>6, Steps

LEMMA CaptureInv ==
  ASSUME ResultsInv, NEW s \in Tabs, Capture(s) PROVE ResultsInv'
<1> DEFINE d == [doing[s] EXCEPT !.pc = "captured"]
           r == [op |-> doing[s].op, unplaced |-> Account[s]]
<1>1. doing[s] \in Doing /\ page[s] \in Result /\ doing[s].pc = "done" /\ Own(s, doing[s].op)
  BY DEF Capture, ResultsInv, ResultsTypeOK, SessionOK, AnswerIsOwn
<1>2. /\ d \in Doing /\ d.pc = "captured" /\ d.op = doing[s].op /\ d.kind = doing[s].kind
      /\ r \in Result /\ r.op = doing[s].op /\ r.unplaced = Account[s]
  BY <1>1, AccountKnown DEF Doing, Result
<1>3. /\ doing' = [doing EXCEPT ![s] = d] /\ page' = [page EXCEPT ![s] = page[s]] /\ doing'[s] = d
      /\ last' = r /\ UNCHANGED <<done, rev, page>>
  BY <1>1 DEF Capture, ResultsInv, ResultsTypeOK
<1>4. mixed' = Reread(s) \cup Overtaken(s)
  BY DEF Capture
<1> HIDE DEF d, r
<1>5. SessionOK(s)'
  <2>1. \A o : Own(s, o) => Own(s, o)'
    BY <1>1, <1>3 DEF Own
  <2>2. d.kind = "move" /\ s \notin mixed' => PageIsOwn(s)'
    BY <1>1, <1>2, <1>3, <1>4 DEF ResultsInv, SessionOK, ReadsItsOwn, PageIsOwn, Own, Reread
  <2> QED BY <1>1, <1>2, <1>3, <2>1, <2>2 DEF SessionOK, AnswerIsOwn, ReadsItsOwn
<1>6. /\ mixed' \in SUBSET Tabs /\ mixed \ {s} \subseteq mixed' /\ Overtaken(s) \subseteq mixed'
      /\ r.op \in 1 .. Len(done)
      /\ (page[s].op # Nil => page[s].op \in 1 .. Len(done))
  BY <1>1, <1>2, <1>4 DEF ResultsInv, ResultsTypeOK, ResultsAreKnown, Reread, Overtaken, Own
<1> QED BY <1>1, <1>2, <1>3, <1>5, <1>6, Steps

\* What a page reads back: its own results, unless it is overtaken.
LEMMA ReadsInv ==
  ASSUME ResultsInv, NEW s \in Tabs,
         ReadOperation(s) \/ AddResult(s) \/ MoveResult(s) \/ ReadUnplaced(s)
  PROVE  ResultsInv'
<1>1. /\ doing[s] \in Doing /\ page[s] \in Result /\ last \in Result /\ SessionOK(s)
      /\ mixed \in SUBSET Tabs /\ (last.op # Nil => last.op \in 1 .. Len(done))
      /\ (page[s].op # Nil => page[s].op \in 1 .. Len(done))
      /\ UNCHANGED <<done, rev, last, mixed>>
  BY DEF ReadOperation, AddResult, MoveResult, ReadUnplaced, ResultsInv, ResultsTypeOK,
         ResultsAreKnown
<1>2. NoCommand \in Doing /\ NoCommand.pc = "idle"
  BY DEF NoCommand, Doing, CommandKinds
<1>3. \A o : Own(s, o)' <=> Own(s, o)
  BY <1>1 DEF Own
<1>4. PICK p \in Result, d \in Doing :
        /\ doing' = [doing EXCEPT ![s] = d] /\ page' = [page EXCEPT ![s] = p]
        /\ p.op # Nil => p.op \in 1 .. Len(done)
        /\ \/ /\ d.pc = "half" /\ d.op = doing[s].op /\ d.kind = doing[s].kind
              /\ Own(s, d.op) \/ (d.kind = "run" /\ s \in mixed)
              /\ s \notin mixed => /\ last.op = d.op /\ last.unplaced = Account[s]
                                   /\ p.op # Nil => Own(s, p.op)
           \/ /\ d.pc = "idle"
              /\ s \notin mixed => /\ p.op # Nil => Own(s, p.op)
                                   /\ p.unplaced \in {Nil, Account[s]}
  <2>1. CASE ReadOperation(s)
    <3> DEFINE p == [page[s] EXCEPT !.op = IF last.op # Nil THEN last.op ELSE @]
               d == [doing[s] EXCEPT !.pc = "half"]
    <3>1. p \in Result /\ d \in Doing /\ d.pc = "half" /\ d.op = doing[s].op /\ d.kind = doing[s].kind
      BY <1>1 DEF Result, Doing
    <3>2. p.op = IF last.op # Nil THEN last.op ELSE page[s].op
      BY <1>1 DEF Result
    <3>3. doing' = [doing EXCEPT ![s] = d] /\ page' = [page EXCEPT ![s] = p]
      BY <2>1, <1>1 DEF ReadOperation, ResultsInv, ResultsTypeOK
    <3>4. doing[s].pc = "captured" /\ doing[s].kind = "run"
      BY <2>1 DEF ReadOperation
    <3> HIDE DEF p, d
    <3>5. Own(s, d.op) \/ s \in mixed
      BY <1>1, <3>1, <3>4 DEF SessionOK, AnswerIsOwn
    <3>6. s \notin mixed => last.op = d.op /\ last.unplaced = Account[s]
      BY <1>1, <3>1, <3>4 DEF SessionOK, ReadsItsOwn
    <3>7. d.op \in 1 .. Len(done) => d.op # Nil
      BY ResultsAssumption
    <3>8. p.op # Nil => p.op \in 1 .. Len(done)
      BY <1>1, <3>2
    <3>9. s \notin mixed => p.op = d.op /\ Own(s, d.op)
      BY <3>2, <3>5, <3>6, <3>7 DEF Own
    <3> QED BY <3>1, <3>3, <3>4, <3>5, <3>6, <3>8, <3>9
  <2>2. CASE AddResult(s)
    <3> DEFINE p == [page[s] EXCEPT !.op = doing[s].op]
               d == [doing[s] EXCEPT !.pc = "half"]
    <3>1. /\ p \in Result /\ d \in Doing /\ d.pc = "half" /\ d.op = doing[s].op
          /\ d.kind = doing[s].kind /\ p.op = doing[s].op
      BY <1>1 DEF Result, Doing
    <3>2. doing' = [doing EXCEPT ![s] = d] /\ page' = [page EXCEPT ![s] = p]
      BY <2>2, <1>1 DEF AddResult, ResultsInv, ResultsTypeOK
    <3>3. doing[s].pc = "captured" /\ doing[s].kind = "add"
      BY <2>2 DEF AddResult
    <3> HIDE DEF p, d
    <3>4. Own(s, d.op) /\ (s \notin mixed => last.op = d.op /\ last.unplaced = Account[s])
      BY <1>1, <3>1, <3>3 DEF SessionOK, AnswerIsOwn, ReadsItsOwn
    <3>5. p.op = d.op /\ p.op \in 1 .. Len(done)
      BY <3>1, <3>4 DEF Own
    <3>6. Own(s, p.op)
      BY <3>4, <3>5
    <3> QED BY <3>1, <3>2, <3>4, <3>5, <3>6
  <2>3. CASE MoveResult(s)
    <3> DEFINE p == [page[s] EXCEPT !.op = doing[s].op]
    <3>1. p \in Result /\ p.op = doing[s].op /\ p.unplaced = page[s].unplaced
      BY <1>1 DEF Result, Doing
    <3>2. doing' = [doing EXCEPT ![s] = NoCommand] /\ page' = [page EXCEPT ![s] = p]
      BY <2>3, <1>1 DEF MoveResult, ResultsInv, ResultsTypeOK
    <3>3. doing[s].pc = "captured" /\ doing[s].kind = "move"
      BY <2>3 DEF MoveResult
    <3> HIDE DEF p
    <3>4. Own(s, p.op) /\ (s \notin mixed => p.unplaced \in {Nil, Account[s]})
      BY <1>1, <3>1, <3>3 DEF SessionOK, AnswerIsOwn, ReadsItsOwn, PageIsOwn
    <3> QED BY <1>1, <1>2, <3>1, <3>2, <3>3, <3>4 DEF Own
  <2>4. CASE ReadUnplaced(s)
    <3> DEFINE p == [page[s] EXCEPT !.unplaced = IF last.op = Nil THEN Nil ELSE last.unplaced]
    <3>1. /\ p \in Result /\ p.op = page[s].op
          /\ p.unplaced = IF last.op = Nil THEN Nil ELSE last.unplaced
      BY <1>1 DEF Result, Doing
    <3>2. doing' = [doing EXCEPT ![s] = NoCommand] /\ page' = [page EXCEPT ![s] = p]
      BY <2>4, <1>1 DEF ReadUnplaced, ResultsInv, ResultsTypeOK
    <3>3. doing[s].pc = "half"
      BY <2>4 DEF ReadUnplaced
    <3> HIDE DEF p
    <3>4. s \notin mixed => (p.op # Nil => Own(s, p.op)) /\ p.unplaced \in {Nil, Account[s]}
      BY <1>1, <3>1, <3>3 DEF SessionOK, ReadsItsOwn
    <3> QED BY <1>1, <1>2, <3>1, <3>2, <3>3, <3>4
  <2> QED BY <2>1, <2>2, <2>3, <2>4
<1>5. doing'[s] = d /\ page'[s] = p
  BY <1>4 DEF ResultsInv, ResultsTypeOK
<1>6. SessionOK(s)'
  BY <1>1, <1>3, <1>4, <1>5 DEF SessionOK, AnswerIsOwn, ReadsItsOwn, PageIsOwn
<1> QED BY <1>1, <1>4, <1>6, Steps

\* A new operation: those there were stay.
LEMMA CarryOutInv ==
  ASSUME ResultsInv, NEW s \in Tabs, CarryOut(s) PROVE ResultsInv'
<1> DEFINE a == Account[s]
           new == [by |-> s, kind |-> doing[s].kind, rev |-> rev[a], undoneBy |-> Nil]
           n == Len(done) + 1
           d == [doing[s] EXCEPT !.pc = "done", !.op = n, !.rev = 0]
<1>1. /\ doing[s] \in Doing /\ page[s] \in Result /\ last \in Result
      /\ done \in Seq(Operation) /\ Len(done) \in Nat /\ rev[a] \in Nat /\ SessionOK(s)
  BY AccountKnown DEF ResultsInv, ResultsTypeOK
<1>2. new \in Operation /\ new.by = s /\ new.undoneBy = Nil
  BY <1>1 DEF Doing, Operation
<1>3. done' = Append(done, new) /\ rev' = [rev EXCEPT ![a] = @ + 1] /\ UNCHANGED <<last, page, mixed>>
      /\ doing[s].pc = "asked"
  BY DEF CarryOut
<1> HIDE DEF new
<1>4. /\ done' \in Seq(Operation) /\ Len(done') = n /\ done'[n] = new
      /\ \A o \in 1 .. Len(done) : done'[o] = done[o]
  BY <1>1, <1>2, <1>3
<1>5. doing' = [doing EXCEPT ![s].pc = "done", ![s].op = Len(done'), ![s].rev = 0]
  BY DEF CarryOut
<1>6. doing' = [doing EXCEPT ![s] = d]
  BY <1>4, <1>5 DEF ResultsInv, ResultsTypeOK
<1>7. d \in Doing /\ d.pc = "done" /\ d.op = n
  <2>1. n \in Nat
    BY <1>1
  <2> HIDE DEF n
  <2> QED BY <1>1, <2>1 DEF Doing
<1> HIDE DEF d
<1>8. ResultsTypeOK'
  <2>1. rev' \in [AccountsOf -> Nat]
    <3>1. rev \in [AccountsOf -> Nat] /\ rev' = [rev EXCEPT ![a] = rev[a] + 1] /\ rev[a] + 1 \in Nat
      BY <1>1, <1>3 DEF ResultsInv, ResultsTypeOK
    <3> HIDE DEF a
    <3> QED BY <3>1
  <2> QED BY <2>1, <1>1, <1>3, <1>4, <1>6, <1>7 DEF ResultsInv, ResultsTypeOK
<1>9. ResultsAreKnown'
  BY <1>1, <1>3, <1>4 DEF ResultsInv, ResultsAreKnown
<1>10. \A t, o : Own(t, o) => Own(t, o)'
  BY <1>1, <1>4 DEF Own
<1>11. ASSUME NEW t \in Tabs, t # s PROVE SessionOK(t)'
  <2>1. doing'[t] = doing[t] /\ page'[t] = page[t] /\ SessionOK(t)
    BY <1>3, <1>6, <1>11 DEF ResultsInv, ResultsTypeOK
  <2> QED BY <1>3, <1>10, <2>1, Untouched
<1>12. SessionOK(s)'
  <2>1. doing'[s] = d
    BY <1>6 DEF ResultsInv, ResultsTypeOK
  <2>2. \A o : o = n => Own(s, o)'
    BY <1>1, <1>2, <1>4 DEF Own
  <2>3. s \notin mixed => PageIsOwn(s)'
    BY <1>1, <1>3, <1>10 DEF SessionOK, ReadsItsOwn, PageIsOwn
  <2> QED BY <1>3, <1>7, <2>1, <2>2, <2>3 DEF SessionOK, AnswerIsOwn, ReadsItsOwn
<1>13. UndosAreOwn'
  BY <1>1, <1>2, <1>4 DEF ResultsInv, UndosAreOwn
<1> QED BY <1>8, <1>9, <1>11, <1>12, <1>13 DEF ResultsInv

LEMMA UndoInv ==
  ASSUME ResultsInv, NEW s \in Tabs, UndoShown(s) PROVE ResultsInv'
<1> DEFINE o == page[s].op
           none == [op |-> Nil, unplaced |-> Nil]
<1>1. /\ doing[s].pc = "idle" /\ o # Nil /\ last' = none
      /\ page' = [page EXCEPT ![s] = none] /\ mixed' = (mixed \ {s}) \cup Overtaken(s)
      /\ doing' = doing /\ o \in 1 .. Len(done) /\ mixed' \in SUBSET Tabs
      /\ doing = [doing EXCEPT ![s] = doing[s]] /\ doing[s] \in Doing
  BY DEF UndoShown, ResultsInv, ResultsAreKnown, ResultsTypeOK, Overtaken
<1>2. none \in Result /\ none.op = Nil /\ none.unplaced = Nil
  BY DEF Result
<1>3. /\ done' \in Seq(Operation) /\ rev' \in [AccountsOf -> Nat] /\ Len(done') = Len(done)
      /\ \A i \in 1 .. Len(done) : done'[i].by = done[i].by
      /\ UndosAreOwn'
  <2>1. CASE MayUndo(s, o) /\ done' = [done EXCEPT ![o].undoneBy = s]
             /\ rev' = [x \in AccountsOf |-> IF x = Account[done[o].by] THEN rev[x] + 1 ELSE rev[x]]
    <3> DEFINE new == [done[o] EXCEPT !.undoneBy = s]
    <3>1. done \in Seq(Operation) /\ done[o] \in Operation
      BY <1>1 DEF ResultsInv, ResultsTypeOK
    <3>2. new \in Operation /\ new.by = done[o].by /\ new.undoneBy = s
      BY <3>1 DEF Operation
    <3>3. done' = [done EXCEPT ![o] = new]
      BY <2>1, <3>1
    <3> HIDE DEF new
    <3>4. /\ done' \in Seq(Operation) /\ Len(done') = Len(done)
          /\ \A i \in 1 .. Len(done) : done'[i] = IF i = o THEN new ELSE done[i]
      BY <1>1, <3>1, <3>2, <3>3
    <3>5. rev' \in [AccountsOf -> Nat]
      BY <2>1 DEF ResultsInv, ResultsTypeOK
    <3>6. Account[done[o].by] = Account[s]
      BY <2>1 DEF MayUndo
    <3>7. UndosAreOwn'
      BY <3>2, <3>4, <3>6 DEF ResultsInv, UndosAreOwn
    <3> QED BY <3>2, <3>4, <3>5, <3>7
  <2>2. CASE UNCHANGED <<done, rev>>
    BY <2>2 DEF ResultsInv, ResultsTypeOK, UndosAreOwn
  <2> QED BY <2>1, <2>2 DEF UndoShown
<1> HIDE DEF none
<1>4. \A t, i : Own(t, i) => Own(t, i)'
  BY <1>3 DEF Own
<1>5. ResultsTypeOK'
  BY <1>1, <1>2, <1>3 DEF ResultsInv, ResultsTypeOK
<1>6. ResultsAreKnown'
  <2>1. \A t \in Tabs : page'[t] = IF t = s THEN none ELSE page[t]
    BY <1>1 DEF ResultsInv, ResultsTypeOK
  <2> QED BY <1>1, <1>2, <1>3, <2>1 DEF ResultsInv, ResultsAreKnown
<1>7. ASSUME NEW t \in Tabs, t # s PROVE SessionOK(t)'
  <2>1. doing'[t] = doing[t] /\ page'[t] = page[t] /\ SessionOK(t)
    BY <1>1, <1>7 DEF ResultsInv, ResultsTypeOK
  <2>2. doing[t].pc \in {"captured", "half"} => t \in mixed'
    BY <1>1, <1>7 DEF Overtaken
  <2>3. t \in mixed => t \in mixed'
    BY <1>1, <1>7
  <2> QED BY <1>4, <2>1, <2>2, <2>3, Untouched
<1>8. SessionOK(s)'
  <2>1. page'[s] = none
    BY <1>1 DEF ResultsInv, ResultsTypeOK
  <2> QED BY <1>1, <1>2, <2>1 DEF SessionOK, AnswerIsOwn, ReadsItsOwn, PageIsOwn
<1> QED BY <1>3, <1>5, <1>6, <1>7, <1>8 DEF ResultsInv

LEMMA ResultsStep == ASSUME ResultsInv, [ResultsNext]_resultVars PROVE ResultsInv'
<1>1. CASE UNCHANGED resultVars
  BY <1>1 DEF resultVars, ResultsInv, ResultsTypeOK, ResultsAreKnown, SessionOK, AnswerIsOwn,
              ReadsItsOwn, PageIsOwn, Own, UndosAreOwn
<1>2. ASSUME NEW s \in Tabs, ClickRun(s) \/ ClickAdd(s) \/ ClickMove(s) PROVE ResultsInv'
  BY <1>2, RequestInv DEF ClickRun, ClickAdd, ClickMove, CommandKinds
<1> QED BY <1>1, <1>2, CarryOutInv, ReplayInv, EndsInv, CaptureInv, ReadsInv, UndoInv DEF ResultsNext

\* However commands, undos, re-runs and other sessions meet in one process, a
\* page whose command nobody overtook shows results of its own account, and no
\* page undoes another account's operation (the module variables of services.py).
THEOREM PagesAreApart == ResultsInit /\ [][ResultsNext]_resultVars => []PagesStayApart
<1>1. ResultsInv => PagesStayApart
  BY DEF ResultsInv, PagesStayApart, UndosAreOwn, SessionOK, ReadsItsOwn, PageIsOwn, Own
<1> QED BY <1>1, ResultsInitInv, ResultsStep, PTL

-----------------------------------------------------------------------------
(* PlanningDialogue *)

Previews == [request : Requests, revision : Nat, by : {"me", "them", "anyone"}]
Shows == [scope : Scopes \cup {Nothing}, request : Requests, method : Methods \cup {Nothing},
          form : Forms, edited : BOOLEAN]
Applied == [preview : Previews, shown : Shows,
            before : [Titles -> 0..2], result : Nat, undone : BOOLEAN]
Dialogues == [scope : Scopes \cup {Nothing}, method : Methods \cup {Nothing},
              request : Requests \cup {Nothing}, preview : Previews \cup {Nothing},
              operation : Nat \cup {Nothing}, form : Forms, edited : BOOLEAN]

PlansOK == matching \in [Titles -> 0..2] /\ revision \in Nat

FormOK(d) == d.method = "manual" => d.edited \/ d.request.work = d.form

\* The request on the page is within the dates chosen; the preview is of that
\* request and of an unedited form, and current unless the plans have changed.
PageOK(d) ==
  /\ d \in Dialogues
  /\ d.request # Nothing => d.request.scope = d.scope
  /\ d.preview # Nothing =>
       /\ d.request # Nothing /\ d.preview.request = d.request /\ d.method # Nothing
       /\ FormOK(d)
       /\ d.preview.revision <= revision
       /\ d.preview.revision = revision => StillThere(d.preview.request)
  /\ d.operation # Nothing => d.operation \in 1 .. Len(operations)

AppliedOK ==
  /\ operations \in Seq(Applied)
  /\ \A o \in 1 .. Len(operations) :
       LET q == operations[o] IN
       /\ q.preview.request = q.shown.request /\ q.shown.request.scope = q.shown.scope
       /\ FormSays(q.shown)
       /\ \A t \in DOMAIN q.shown.request.work :
            q.shown.request.work[t] \in {"kept", "stated"} => q.before[t] > 0

DialogueInv == PlansOK /\ PageOK(dialogue) /\ AppliedOK

LEMMA NoForm == EmptyForm \in Forms
<1>1. {} \in SUBSET Titles /\ EmptyForm \in [{} -> {"stated", "draft"}]
  BY DEF EmptyForm
<1> QED BY <1>1 DEF Forms

LEMMA WhatIsShown ==
  ASSUME NEW d \in Dialogues, d.request \in Requests
  PROVE  /\ ShownBy(d) \in Shows /\ ShownBy(d).request = d.request /\ ShownBy(d).scope = d.scope
         /\ FormOK(d) <=> FormSays(ShownBy(d))
<1>1. /\ ShownBy(d).request = d.request /\ ShownBy(d).scope = d.scope /\ ShownBy(d).method = d.method
      /\ ShownBy(d).form = d.form /\ ShownBy(d).edited = d.edited
  BY DEF ShownBy
<1>2. ShownBy(d) \in Shows
  BY DEF ShownBy, Shows, Dialogues
<1> QED BY <1>1, <1>2 DEF FormOK, FormSays

\* What the page shows without a request.
LEMMA Cleared ==
  ASSUME NEW d \in Dialogues, NEW w \in Scopes \cup {Nothing}, NEW m \in Methods \cup {Nothing}
  PROVE  /\ AfterMethod([d EXCEPT !.method = m]) \in Dialogues
         /\ AfterMethod([d EXCEPT !.method = m]).request = Nothing
         /\ AfterMethod([d EXCEPT !.method = m]).preview = Nothing
         /\ AfterMethod([d EXCEPT !.method = m]).operation = d.operation
         /\ AfterScope([d EXCEPT !.scope = w]) \in Dialogues
         /\ AfterScope([d EXCEPT !.scope = w]).request = Nothing
         /\ AfterScope([d EXCEPT !.scope = w]).preview = Nothing
         /\ AfterScope([d EXCEPT !.scope = w]).operation = d.operation
BY NoForm DEF AfterMethod, AfterScope, Dialogues

LEMMA Emptied ==
  ASSUME NEW d \in Dialogues, NEW o \in Nat \cup {Nothing}
  PROVE  /\ AfterMethod([d EXCEPT !.operation = o]) \in Dialogues
         /\ AfterMethod([d EXCEPT !.operation = o]).request = Nothing
         /\ AfterMethod([d EXCEPT !.operation = o]).preview = Nothing
         /\ AfterMethod([d EXCEPT !.operation = o]).operation = o
BY NoForm DEF AfterMethod, Dialogues

LEMMA PageStep ==
  ASSUME DialogueInv, NEW d, Page(d), PageOK(d) PROVE DialogueInv'
BY DEF Page, DialogueInv, PlansOK, PageOK, AppliedOK, StillThere

LEMMA ScopeInv ==
  ASSUME DialogueInv, ChangeScope \/ \E w \in Scopes : ChooseScope(w) \/ ChangeDates(w)
  PROVE  DialogueInv'
<1>1. dialogue \in Dialogues /\ PageOK(dialogue)
  BY DEF DialogueInv, PageOK
<1>2. ASSUME NEW w \in Scopes, ChooseScope(w) PROVE DialogueInv'
  <2> DEFINE d == AfterScope([dialogue EXCEPT !.scope = w])
  <2>1. PageOK(d)
    BY <1>1, Cleared DEF PageOK
  <2> QED BY <1>2, <2>1, PageStep DEF ChooseScope
<1>3. CASE ChangeScope
  <2> DEFINE d == AfterScope([dialogue EXCEPT !.scope = Nothing])
  <2>1. PageOK(d)
    BY <1>1, Cleared DEF PageOK
  <2> QED BY <1>3, <2>1, PageStep DEF ChangeScope
<1>4. ASSUME NEW w \in Scopes, ChangeDates(w) PROVE DialogueInv'
  <2> DEFINE d == [dialogue EXCEPT !.scope = w]
  <2>1. CASE d.request # Nothing /\ d.request.scope # w
    <3>1. d \in Dialogues /\ d.operation = dialogue.operation
      BY <1>1 DEF Dialogues
    <3>2. /\ AfterMethod(d) \in Dialogues /\ AfterMethod(d).request = Nothing
          /\ AfterMethod(d).preview = Nothing /\ AfterMethod(d).operation = dialogue.operation
      BY <3>1, NoForm DEF AfterMethod, Dialogues
    <3>3. PageOK(AfterMethod(d))
      BY <1>1, <3>2 DEF PageOK
    <3> QED BY <1>4, <2>1, <3>3, PageStep DEF ChangeDates
  <2>2. CASE ~(d.request # Nothing /\ d.request.scope # w)
    <3>1. /\ d \in Dialogues /\ d.operation = dialogue.operation /\ d.request = dialogue.request
          /\ d.preview = dialogue.preview /\ d.scope = w
      BY <1>1 DEF Dialogues
    <3>2. dialogue.scope # w
      BY <1>4 DEF ChangeDates
    <3>3. d.request = Nothing /\ d.preview = Nothing
      BY <1>1, <2>2, <3>1, <3>2 DEF PageOK
    <3>4. PageOK(d)
      BY <1>1, <3>1, <3>3 DEF PageOK
    <3> QED BY <1>4, <2>2, <3>4, PageStep DEF ChangeDates
  <2> QED BY <2>1, <2>2
<1> QED BY <1>2, <1>3, <1>4

LEMMA MethodInv ==
  ASSUME DialogueInv, NEW m \in Methods, ChooseMethod(m) \/ ChangeMethod PROVE DialogueInv'
<1>1. dialogue \in Dialogues /\ PageOK(dialogue)
  BY DEF DialogueInv, PageOK
<1>2. ASSUME NEW x \in Methods \cup {Nothing}, Page(AfterMethod([dialogue EXCEPT !.method = x]))
      PROVE  DialogueInv'
  <2> DEFINE d == AfterMethod([dialogue EXCEPT !.method = x])
  <2>1. PageOK(d)
    BY <1>1, Cleared DEF PageOK
  <2> QED BY <1>2, <2>1, PageStep
<1> QED BY <1>2 DEF ChooseMethod, ChangeMethod

LEMMA UnderstandInv ==
  ASSUME DialogueInv, NEW intent \in Intents, Understand(intent) PROVE DialogueInv'
<1> DEFINE r == [scope |-> dialogue.scope, work |-> Understood(intent)]
           d == WithRequest(dialogue, r)
<1>1. dialogue \in Dialogues /\ PageOK(dialogue)
  BY DEF DialogueInv, PageOK
<1>2. r \in Requests
  <2>1. Named(intent) \in SUBSET Titles
    BY DEF Named
  <2>2. Understood(intent) \in [Named(intent) -> {"kept", "stated", "draft"}]
    BY DEF Understood
  <2>3. dialogue.scope \in Scopes \cup {Nothing}
    BY <1>1 DEF Dialogues
  <2> QED BY <2>1, <2>2, <2>3 DEF Requests
<1> HIDE DEF r
<1>3. /\ d \in Dialogues /\ d.request = r /\ d.preview = Nothing /\ d.scope = dialogue.scope
      /\ d.operation = dialogue.operation
  BY <1>1, <1>2 DEF WithRequest, Dialogues
<1>4. PageOK(d)
  BY <1>1, <1>3 DEF PageOK, r
<1> QED BY <1>4, PageStep DEF Understand, r

\* The form is edited, and what stands below it stays.
LEMMA FormInv == ASSUME DialogueInv, NEW work \in Forms, EditForm(work) PROVE DialogueInv'
<1> DEFINE e == dialogue.preview # Nothing
           d == [dialogue EXCEPT !.form = work, !.edited = e]
<1>1. dialogue \in Dialogues /\ PageOK(dialogue)
  BY DEF DialogueInv, PageOK
<1>2. e \in BOOLEAN
  OBVIOUS
<1>3. Page(d)
  BY DEF EditForm
<1>4. e => dialogue.preview # Nothing
  OBVIOUS
<1>5. dialogue.preview # Nothing => e = TRUE
  OBVIOUS
<1> HIDE DEF e
<1>6. /\ d \in Dialogues /\ d.request = dialogue.request /\ d.preview = dialogue.preview
      /\ d.scope = dialogue.scope /\ d.operation = dialogue.operation
      /\ d.method = dialogue.method /\ d.edited = e
  BY <1>1, <1>2 DEF Dialogues
<1> HIDE DEF d
<1>7. d.preview # Nothing => FormOK(d)
  BY <1>5, <1>6 DEF FormOK
<1>8. PageOK(d)
  BY <1>1, <1>6, <1>7 DEF PageOK
<1> QED BY <1>3, <1>8, PageStep

LEMMA PreviewInv ==
  ASSUME DialogueInv, NEW r \in Requests, r.scope = dialogue.scope, dialogue.method # Nothing,
         dialogue.method = "manual" => r.work = dialogue.form, Previewed(r)
  PROVE  DialogueInv'
<1> DEFINE p == PreviewBy("me", r)
           d == [dialogue EXCEPT !.request = r, !.preview = p, !.edited = FALSE]
<1>1. dialogue \in Dialogues /\ PageOK(dialogue) /\ revision \in Nat
  BY DEF DialogueInv, PageOK, PlansOK
<1>2. p \in Previews /\ p.request = r /\ p.revision = revision
  BY <1>1 DEF PreviewBy, Previews
<1> HIDE DEF p
<1>3. /\ d \in Dialogues /\ d.request = r /\ d.preview = p /\ d.scope = dialogue.scope
      /\ d.operation = dialogue.operation /\ d.method = dialogue.method
      /\ d.form = dialogue.form
  BY <1>1, <1>2 DEF Dialogues
<1>4. r # Nothing /\ StillThere(r)
  BY DialogueAssumption DEF Previewed
<1>5. Page(d)
  BY DEF Previewed, p
<1> HIDE DEF d
<1>6. FormOK(d)
  BY <1>3 DEF FormOK
<1>7. PageOK(d)
  BY <1>1, <1>2, <1>3, <1>4, <1>6 DEF PageOK
<1> QED BY <1>5, <1>7, PageStep

LEMMA PreviewsInv ==
  ASSUME DialogueInv, PreviewText \/ PreviewManual PROVE DialogueInv'
<1>1. CASE PreviewText
  <2>1. dialogue.request \in Requests /\ dialogue.request.scope = dialogue.scope
    BY <1>1 DEF PreviewText, DialogueInv, PageOK, Dialogues
  <2>2. dialogue.method # Nothing /\ dialogue.method # "manual"
    BY <1>1, DialogueAssumption DEF PreviewText, Methods
  <2> QED BY <1>1, <2>1, <2>2, PreviewInv DEF PreviewText
<1>2. CASE PreviewManual
  <2> DEFINE work == dialogue.form
             r == [scope |-> dialogue.scope, work |-> work]
  <2>0. work \in Forms
    BY DEF DialogueInv, PageOK, Dialogues
  <2>1. PICK S \in SUBSET Titles : work \in [S -> {"stated", "draft"}]
    BY <2>0 DEF Forms
  <2>2. work \in [S -> {"kept", "stated", "draft"}]
    BY <2>1
  <2>3. dialogue.scope \in Scopes \cup {Nothing}
    BY DEF DialogueInv, PageOK, Dialogues
  <2>4. r \in Requests /\ r.scope = dialogue.scope /\ r.work = dialogue.form
    BY <2>2, <2>3 DEF Requests
  <2>5. dialogue.method # Nothing
    BY <1>2, DialogueAssumption DEF PreviewManual, Methods
  <2> HIDE DEF r
  <2> QED BY <1>2, <2>4, <2>5, PreviewInv DEF PreviewManual, r
<1> QED BY <1>1, <1>2

\* Of a change of the plans, the preview is no longer current.
LEMMA PageStays ==
  ASSUME DialogueInv, revision' = revision + 1, Len(operations) <= Len(operations'),
         Len(operations') \in Nat, NEW d \in Dialogues,
         d \in {dialogue, [dialogue EXCEPT !.operation = Nothing]}
  PROVE  PageOK(d)'
<1>1. /\ d.request = dialogue.request /\ d.preview = dialogue.preview /\ d.scope = dialogue.scope
      /\ d.operation \in {Nothing, dialogue.operation} /\ d.method = dialogue.method
      /\ d.form = dialogue.form /\ d.edited = dialogue.edited
  BY DEF DialogueInv, PageOK, Dialogues
<1>2. dialogue.preview # Nothing => dialogue.preview.revision \in Nat
  BY DEF DialogueInv, PageOK, Dialogues, Previews
<1> QED BY <1>1, <1>2 DEF DialogueInv, PageOK, PlansOK, AppliedOK, FormOK

LEMMA CommitInv ==
  ASSUME DialogueInv, NEW p \in Previews, NEW r \in Requests, NEW w \in Scopes \cup {Nothing},
         p.request = r, r.scope = w, StillThere(r),
         NEW x \in Shows, x.request = r, x.scope = w, FormSays(x), CommitPreview(p, x)
  PROVE  /\ PlansOK' /\ AppliedOK' /\ revision' = revision + 1
         /\ Len(operations) \in Nat /\ Len(operations') = Len(operations) + 1
<1> DEFINE q == [preview |-> p, shown |-> x, before |-> matching,
                 result |-> revision + 1, undone |-> FALSE]
<1>1. operations \in Seq(Applied) /\ PlansOK
  BY DEF DialogueInv, AppliedOK
<1>2. revision' = revision + 1 /\ operations' = Append(operations, q)
  BY DEF CommitPreview
<1>3. PlansOK'
  <2>1. \A t \in Titles : matching[t] \in 0..2 /\ (matching[t] < 2 => matching[t] + 1 \in 0..2)
    BY <1>1 DEF PlansOK
  <2>2. matching' = [t \in Titles |->
          IF t \in DOMAIN p.request.work /\ p.request.work[t] = "draft" /\ matching[t] < 2
          THEN matching[t] + 1 ELSE matching[t]]
    BY DEF CommitPreview
  <2>3. matching' \in [Titles -> 0..2]
    BY <2>1, <2>2
  <2> QED BY <1>1, <1>2, <2>3 DEF PlansOK
<1>4. /\ q \in Applied /\ q.preview.request = r /\ q.shown = x
      /\ q.before = matching
  BY <1>1 DEF Applied, PlansOK
<1> HIDE DEF q
<1>5. /\ Len(operations) \in Nat /\ Len(operations') = Len(operations) + 1
      /\ operations' \in Seq(Applied) /\ operations'[Len(operations) + 1] = q
      /\ \A o \in 1 .. Len(operations) : operations'[o] = operations[o]
  BY <1>1, <1>2, <1>4
<1>6. \A t \in DOMAIN r.work : r.work[t] \in {"kept", "stated"} => matching[t] > 0
  BY DEF StillThere
<1>7. AppliedOK'
  <2> SUFFICES ASSUME NEW o \in 1 .. Len(operations) + 1
               PROVE  LET z == operations'[o] IN
                      /\ z.preview.request = z.shown.request /\ z.shown.request.scope = z.shown.scope
                      /\ FormSays(z.shown)
                      /\ \A t \in DOMAIN z.shown.request.work :
                           z.shown.request.work[t] \in {"kept", "stated"} => z.before[t] > 0
    BY <1>5 DEF AppliedOK
  <2>1. CASE o = Len(operations) + 1
    <3>1. operations'[o] = q
      BY <1>5, <2>1
    <3> QED BY <1>4, <1>6, <3>1
  <2>2. CASE o # Len(operations) + 1
    <3>1. o \in 1 .. Len(operations) /\ operations'[o] = operations[o]
      BY <1>5, <2>2
    <3> QED BY <3>1 DEF DialogueInv, AppliedOK
  <2> QED BY <2>1, <2>2
<1> QED BY <1>2, <1>3, <1>5, <1>7

LEMMA ApplyInv == ASSUME DialogueInv, Apply PROVE DialogueInv'
<1>1. dialogue \in Dialogues /\ PageOK(dialogue) /\ operations \in Seq(Applied)
  BY DEF DialogueInv, PageOK, AppliedOK
<1>2. ASSUME NEW o \in 1 .. Len(operations), UNCHANGED <<matching, revision, operations>>,
             dialogue' = AfterMethod([dialogue EXCEPT !.operation = o])
      PROVE  DialogueInv'
  <2> DEFINE d == AfterMethod([dialogue EXCEPT !.operation = o])
  <2>1. o \in Nat \cup {Nothing}
    BY <1>1
  <2>2. PageOK(d)
    BY <1>1, <2>1, Emptied DEF PageOK
  <2>3. Page(d)
    BY <1>2 DEF Page
  <2> QED BY <2>2, <2>3, PageStep
<1>3. CASE CommitPreview(dialogue.preview, ShownBy(dialogue))
           /\ dialogue' = AfterMethod([dialogue EXCEPT !.operation = Len(operations) + 1])
  <2> DEFINE n == Len(operations) + 1
             d == AfterMethod([dialogue EXCEPT !.operation = n])
  <2>1. /\ dialogue.preview \in Previews /\ dialogue.request \in Requests
        /\ dialogue.scope \in Scopes \cup {Nothing}
        /\ dialogue.preview.request = dialogue.request /\ dialogue.request.scope = dialogue.scope
    BY <1>1 DEF Apply, PageOK, Dialogues
  <2>2. StillThere(dialogue.request)
    <3>1. dialogue.preview.revision = revision
      BY <1>3 DEF CommitPreview
    <3> QED BY <1>1, <2>1, <3>1 DEF Apply, PageOK
  <2>3. PlansOK' /\ AppliedOK' /\ Len(operations) \in Nat /\ Len(operations') = n
    <3>1. /\ ShownBy(dialogue) \in Shows /\ ShownBy(dialogue).request = dialogue.request
          /\ ShownBy(dialogue).scope = dialogue.scope /\ FormSays(ShownBy(dialogue))
      BY <1>1, <2>1, WhatIsShown DEF PageOK, Apply
    <3> QED BY <1>3, <2>1, <2>2, <3>1, CommitInv
  <2>4. n \in Nat \cup {Nothing}
    BY <2>3
  <2>5. PageOK(dialogue)'
    <3>1. dialogue' = d
      BY <1>3
    <3> HIDE DEF n
    <3>2. d \in Dialogues /\ d.request = Nothing /\ d.preview = Nothing /\ d.operation = n
      BY <1>1, <2>4, Emptied
    <3>3. n \in 1 .. Len(operations')
      BY <2>3 DEF n
    <3> HIDE DEF d
    <3> QED BY <3>1, <3>2, <3>3 DEF PageOK
  <2> QED BY <2>3, <2>5 DEF DialogueInv
<1>4. DOMAIN operations = 1 .. Len(operations)
  BY <1>1
<1> QED BY <1>2, <1>3, <1>4 DEF Apply, Answered

LEMMA UndoneInv ==
  ASSUME DialogueInv, NEW o \in 1 .. Len(operations), UndoOperation(o)
  PROVE  PlansOK' /\ AppliedOK' /\ revision' = revision + 1 /\ Len(operations') = Len(operations)
<1> DEFINE q == [operations[o] EXCEPT !.undone = TRUE]
<1>1. operations \in Seq(Applied) /\ operations[o] \in Applied /\ PlansOK
  BY DEF DialogueInv, AppliedOK
<1>2. revision' = revision + 1 /\ operations' = [operations EXCEPT ![o] = q]
      /\ matching' = operations[o].before
  BY <1>1 DEF UndoOperation
<1>3. /\ q \in Applied /\ q.preview = operations[o].preview /\ q.shown = operations[o].shown
      /\ q.before = operations[o].before /\ operations[o].before \in [Titles -> 0..2]
  BY <1>1 DEF Applied
<1> HIDE DEF q
<1>4. /\ operations' \in Seq(Applied) /\ Len(operations') = Len(operations)
      /\ \A i \in 1 .. Len(operations) : operations'[i] = IF i = o THEN q ELSE operations[i]
  BY <1>1, <1>2, <1>3
<1>5. AppliedOK'
  <2> SUFFICES ASSUME NEW i \in 1 .. Len(operations)
               PROVE  LET x == operations'[i] IN
                      /\ x.preview.request = x.shown.request /\ x.shown.request.scope = x.shown.scope
                      /\ FormSays(x.shown)
                      /\ \A t \in DOMAIN x.shown.request.work :
                           x.shown.request.work[t] \in {"kept", "stated"} => x.before[t] > 0
    BY <1>4 DEF AppliedOK
  <2>1. /\ operations'[i].preview = operations[i].preview /\ operations'[i].shown = operations[i].shown
        /\ operations'[i].before = operations[i].before
    BY <1>3, <1>4
  <2> QED BY <2>1 DEF DialogueInv, AppliedOK
<1> QED BY <1>1, <1>2, <1>3, <1>4, <1>5 DEF PlansOK

LEMMA UndoLastInv == ASSUME DialogueInv, UndoLast PROVE DialogueInv'
<1> DEFINE d == [dialogue EXCEPT !.operation = Nothing]
<1>1. /\ dialogue \in Dialogues /\ PageOK(dialogue) /\ operations \in Seq(Applied)
      /\ Len(operations) \in Nat
  BY DEF DialogueInv, PageOK, AppliedOK
<1>2. d \in Dialogues /\ dialogue' = d
  BY <1>1 DEF Dialogues, UndoLast
<1>3. CASE UndoOperation(dialogue.operation)
  <2>1. dialogue.operation \in 1 .. Len(operations)
    BY <1>1 DEF UndoLast, PageOK
  <2>2. PlansOK' /\ AppliedOK' /\ revision' = revision + 1 /\ Len(operations') = Len(operations)
    BY <1>3, <2>1, UndoneInv
  <2>3. PageOK(dialogue)'
    <3>1. Len(operations') \in Nat /\ Len(operations) <= Len(operations')
      BY <1>1, <2>2
    <3> HIDE DEF d
    <3>2. \A x \in Dialogues : x \in {dialogue, [dialogue EXCEPT !.operation = Nothing]} => PageOK(x)'
      BY <2>2, <3>1, PageStays
    <3> QED BY <1>2, <3>2 DEF d, PageOK
  <2> QED BY <2>2, <2>3 DEF DialogueInv
<1>4. CASE UNCHANGED <<matching, revision, operations>>
  <2>1. PageOK(d)
    BY <1>1, <1>2 DEF PageOK, Dialogues, FormOK
  <2>2. Page(d)
    BY <1>2, <1>4 DEF Page
  <2> QED BY <2>1, <2>2, PageStep
<1> QED BY <1>3, <1>4 DEF UndoLast

\* The plans change and the page stays.
LEMMA ElsewhereInv ==
  ASSUME DialogueInv, UNCHANGED dialogue, revision' = revision + 1, PlansOK', AppliedOK',
         Len(operations') \in Nat, Len(operations) <= Len(operations')
  PROVE  DialogueInv'
<1>1. \A x \in Dialogues : x = dialogue => PageOK(x)'
  BY PageStays
<1> QED BY <1>1 DEF DialogueInv, PageOK

LEMMA OthersInv ==
  ASSUME DialogueInv,
         \/ UndoElsewhere
         \/ \E w \in Scopes, work \in Forms : ApplyElsewhere(w, work)
         \/ \E t \in Titles : EditElsewhere(t)
  PROVE  DialogueInv'
<1>1. operations \in Seq(Applied) /\ Len(operations) \in Nat /\ DOMAIN operations = 1 .. Len(operations)
      /\ revision \in Nat /\ matching \in [Titles -> 0..2]
  BY DEF DialogueInv, AppliedOK, PlansOK
<1>2. CASE UndoElsewhere
  <2>1. PICK o \in 1 .. Len(operations) : UndoOperation(o) /\ UNCHANGED dialogue
    BY <1>1, <1>2 DEF UndoElsewhere
  <2>2. PlansOK' /\ AppliedOK' /\ revision' = revision + 1 /\ Len(operations') = Len(operations)
    BY <2>1, UndoneInv
  <2> QED BY <1>1, <2>1, <2>2, ElsewhereInv
<1>3. ASSUME NEW w \in Scopes, NEW work \in Forms, ApplyElsewhere(w, work) PROVE DialogueInv'
  <2> DEFINE r == [scope |-> w, work |-> work]
             p == PreviewBy("them", r)
  <2>1. PICK S \in SUBSET Titles : work \in [S -> {"stated", "draft"}]
    BY DEF Forms
  <2>2. work \in [S -> {"kept", "stated", "draft"}]
    BY <2>1
  <2>3. r \in Requests /\ r.scope = w
    BY <2>2 DEF Requests
  <2>4. StillThere(r) /\ UNCHANGED dialogue
    BY <1>3 DEF ApplyElsewhere
  <2>a. PICK edited \in BOOLEAN, form \in Forms :
          /\ edited \/ form = work
          /\ CommitPreview(p, [scope |-> w, request |-> r, method |-> "manual",
                               form |-> form, edited |-> edited])
    BY <1>3 DEF ApplyElsewhere
  <2> DEFINE x == [scope |-> w, request |-> r, method |-> "manual", form |-> form, edited |-> edited]
  <2>b. r.work = work
    OBVIOUS
  <2> HIDE DEF r
  <2>5. p \in Previews /\ p.request = r
    BY <1>1, <2>3 DEF PreviewBy, Previews
  <2> HIDE DEF p
  <2>c. x \in Shows /\ x.request = r /\ x.scope = w /\ FormSays(x)
    <3>1. x \in Shows
      BY <2>3 DEF Shows, Methods
    <3> QED BY <2>a, <2>b, <3>1 DEF FormSays
  <2>d. CommitPreview(p, x)
    BY <2>a
  <2> HIDE DEF x
  <2>6. /\ PlansOK' /\ AppliedOK' /\ revision' = revision + 1
        /\ Len(operations') = Len(operations) + 1
    BY <2>3, <2>4, <2>5, <2>c, <2>d, CommitInv
  <2> QED BY <1>1, <2>4, <2>6, ElsewhereInv
<1>4. ASSUME NEW t \in Titles, EditElsewhere(t) PROVE DialogueInv'
  <2>1. revision' = revision + 1 /\ UNCHANGED <<dialogue, operations>>
    BY <1>4 DEF EditElsewhere
  <2>2. PlansOK'
    BY <1>1, <1>4 DEF EditElsewhere, PlansOK
  <2>3. AppliedOK'
    BY <2>1 DEF DialogueInv, AppliedOK
  <2> QED BY <1>1, <2>1, <2>2, <2>3, ElsewhereInv
<1> QED BY <1>2, <1>3, <1>4

LEMMA DialogueInitInv == DialogueInit => DialogueInv
<1> SUFFICES ASSUME DialogueInit PROVE DialogueInv
  OBVIOUS
<1>1. operations \in Seq(Applied) /\ Len(operations) = 0
  BY DEF DialogueInit
<1>2. PageOK(dialogue)
  BY NoForm DEF DialogueInit, Fresh, PageOK, Dialogues
<1> QED BY <1>1, <1>2 DEF DialogueInit, DialogueInv, AppliedOK, PlansOK

LEMMA ReloadInv == ASSUME DialogueInv, Reload PROVE DialogueInv'
<1>1. PageOK(Fresh)
  BY NoForm DEF Fresh, PageOK, Dialogues
<1> QED BY <1>1, PageStep DEF Reload

LEMMA DialogueStep == ASSUME DialogueInv, [DialogueNext]_dialogueVars PROVE DialogueInv'
<1>1. CASE UNCHANGED dialogueVars
  BY <1>1 DEF dialogueVars, DialogueInv, PlansOK, PageOK, AppliedOK, StillThere
<1>2. Methods # {}
  BY DEF Methods
<1> QED BY <1>1, <1>2, ScopeInv, MethodInv, UnderstandInv, FormInv, PreviewsInv, ApplyInv, UndoLastInv, OthersInv,
           ReloadInv DEF DialogueNext

\* Whatever else changes the plans or the form meanwhile, the operation that a
\* dialogue records carried out the request of its preview, which its page showed
\* or its form held until somebody edited it, and the work it names was still
\* there (the preview and apply buttons of Future Planning).
THEOREM AppliedWasSeen == DialogueInit /\ [][DialogueNext]_dialogueVars => []AppliedWasShown
<1>1. DialogueInv => AppliedWasShown
  <2> SUFFICES ASSUME DialogueInv PROVE AppliedWasShown
    OBVIOUS
  <2>1. ASSUME dialogue.preview # Nothing
        PROVE  /\ dialogue.preview.request = dialogue.request
               /\ dialogue.request.scope = dialogue.scope /\ dialogue.method # Nothing
               /\ FormSays(ShownBy(dialogue))
    <3>1. /\ dialogue \in Dialogues /\ dialogue.request \in Requests
          /\ dialogue.preview.request = dialogue.request
          /\ dialogue.request.scope = dialogue.scope /\ dialogue.method # Nothing /\ FormOK(dialogue)
      BY <2>1 DEF DialogueInv, PageOK, Dialogues
    <3> QED BY <3>1, WhatIsShown
  <2>2. DOMAIN operations = 1 .. Len(operations)
    BY DEF DialogueInv, AppliedOK
  <2> QED BY <2>1, <2>2 DEF DialogueInv, PageOK, AppliedOK, AppliedWasShown
<1> QED BY <1>1, DialogueInitInv, DialogueStep, PTL

-----------------------------------------------------------------------------
(* TaskTimer *)

Timed == [status : {"pending", "in_progress", "finished", "closed"}, isBreak : BOOLEAN,
          started : Nat \cup {NoTime}, running : Nat \cup {NoTime}, pausedAt : Nat \cup {NoTime},
          banked : Nat, rested : Nat, pauses : Nat, minutes : Nat, version : Nat]
Shown == [left : Int, at : Nat, version : Nat]

TimerTypeOK ==
  /\ clock \in Nat
  /\ timed \in Timed /\ timed.version > 0
  /\ truth \in [ran : Nat, paused : Nat, counted : Nat]
  /\ shown \in [Pages -> Shown]

PendingOK ==
  timed.status = "pending" =>
    /\ timed.started = NoTime /\ timed.running = NoTime /\ timed.pausedAt = NoTime
    /\ timed.banked = 0 /\ timed.rested = 0 /\ timed.pauses = 0
    /\ truth.ran = 0 /\ truth.paused = 0 /\ truth.counted = 0

\* What ran before the present segment is banked, with one sum for each pause;
\* the clean-up may count the part of the segment before the day's end.
RunningOK ==
  timed.status = "in_progress" /\ timed.running # NoTime =>
    LET before == truth.ran - (clock - timed.running) IN
    /\ timed.running <= clock /\ timed.pausedAt = NoTime /\ before >= 0
    /\ Sums(timed.banked, before, timed.pauses)
    /\ Sums(timed.rested, truth.paused, timed.pauses)
    /\ truth.counted = before + (IF timed.running >= DayOver THEN 0
                                 ELSE IF clock < DayOver THEN clock - timed.running
                                 ELSE DayOver - timed.running)

PausedOK ==
  timed.status = "in_progress" /\ timed.running = NoTime =>
    LET before == truth.paused - (clock - timed.pausedAt) IN
    /\ timed.pausedAt # NoTime /\ timed.pausedAt <= clock /\ timed.pauses > 0 /\ before >= 0
    /\ Sums(timed.banked, truth.ran, timed.pauses)
    /\ Sums(timed.rested, before, timed.pauses - 1)
    /\ truth.counted = truth.ran

ElapsedOK ==
  timed.status = "in_progress" =>
    timed.started # NoTime /\ timed.started <= clock /\ truth.ran + truth.paused = clock - timed.started

EndedOK ==
  timed.status \in {"finished", "closed"} => timed.running = NoTime /\ timed.pausedAt = NoTime

\* A page of the present version was rendered from the present row.
RenderedOK(s) ==
  /\ s.version <= timed.version
  /\ s.version = timed.version =>
       /\ timed.status = "in_progress" /\ s.at <= clock
       /\ timed.isBreak =>
            /\ timed.started <= s.at
            /\ s.left = Estimate * Minute - ((s.at - timed.started) \div PerSecond)
       /\ ~timed.isBreak =>
            /\ timed.running # NoTime /\ timed.running <= s.at
            /\ s.left = Estimate * Minute - (timed.banked + ((s.at - timed.running) \div PerSecond))

PagesOK == \A p \in Pages : RenderedOK(shown[p])

TimerInv ==
  TimerTypeOK /\ PendingOK /\ RunningOK /\ PausedOK /\ ElapsedOK /\ EndedOK /\ PagesOK /\ EndIsAccounted

-----------------------------------------------------------------------------
LEMMA DivBounds ==
  ASSUME NEW a \in Nat, NEW b \in Nat, b > 0
  PROVE  a \div b \in Nat /\ (a \div b) * b <= a /\ a <= (a \div b) * b + (b - 1)
<1>1. a \div b \in Nat
  BY SMT
<1>2. b * (a \div b) <= a
  BY SMT
<1>3. a < b * (a \div b) + b
  BY SMT
<1>4. (a \div b) * b = b * (a \div b) /\ b * (a \div b) \in Nat
  BY <1>1
<1> QED BY <1>1, <1>2, <1>3, <1>4

LEMMA DivIs ==
  ASSUME NEW a \in Nat, NEW b \in Nat, b > 0, NEW q \in Nat, q * b <= a, a <= q * b + (b - 1)
  PROVE  a \div b = q
<1> DEFINE r == a \div b
<1>1. r \in Nat /\ r * b <= a /\ a <= r * b + (b - 1)
  BY DivBounds
<1> HIDE DEF r
<1>2. ~(r < q)
  <2> SUFFICES ASSUME r < q PROVE FALSE
    OBVIOUS
  <2>1. (r + 1) * b <= q * b
    BY <1>1
  <2>2. (r + 1) * b = r * b + b
    BY <1>1
  <2> QED BY <1>1, <2>1, <2>2
<1>3. ~(q < r)
  <2> SUFFICES ASSUME q < r PROVE FALSE
    OBVIOUS
  <2>1. (q + 1) * b <= r * b
    BY <1>1
  <2>2. (q + 1) * b = q * b + b
    BY <1>1
  <2> QED BY <1>1, <2>1, <2>2
<1> QED BY <1>1, <1>2, <1>3 DEF r

\* Two segments rounded down lose at most one second more than their sum.
LEMMA DivSplit ==
  ASSUME NEW x \in Nat, NEW y \in Nat, NEW b \in Nat, b > 0
  PROVE  ((x + y) \div b) - (x \div b) - (y \div b) \in 0..1
<1> DEFINE p == x \div b
           q == y \div b
           r == (x + y) \div b
<1>1. p \in Nat /\ p * b <= x /\ x <= p * b + (b - 1)
  BY DivBounds
<1>2. q \in Nat /\ q * b <= y /\ y <= q * b + (b - 1)
  BY DivBounds
<1>3. (p + q) * b = p * b + q * b /\ (p + q + 1) * b = p * b + q * b + b
      /\ p + q \in Nat /\ p + q + 1 \in Nat
  BY <1>1, <1>2
<1> HIDE DEF p, q
<1>4. x + y \in Nat
  OBVIOUS
<1>5. CASE x + y <= p * b + q * b + (b - 1)
  <2>1. r = p + q
    BY <1>1, <1>2, <1>3, <1>4, <1>5, DivIs
  <2> QED BY <1>1, <1>2, <2>1 DEF p, q
<1>6. CASE x + y > p * b + q * b + (b - 1)
  <2>1. (p + q + 1) * b <= x + y /\ x + y <= (p + q + 1) * b + (b - 1)
    BY <1>1, <1>2, <1>3, <1>6
  <2>2. r = p + q + 1
    BY <1>3, <1>4, <2>1, DivIs
  <2> QED BY <1>1, <1>2, <2>2 DEF p, q
<1> QED BY <1>1, <1>2, <1>5, <1>6

\* One more segment is summed.
LEMMA SumsOne ==
  ASSUME NEW s \in Nat, NEW t \in Nat, NEW n \in Nat, Sums(s, t, n), NEW d \in Nat
  PROVE  s + (d \div PerSecond) \in Nat /\ Sums(s + (d \div PerSecond), t + d, n + 1)
<1> DEFINE q == d \div PerSecond
<1>1. q \in Nat /\ q * PerSecond <= d /\ d <= q * PerSecond + (PerSecond - 1)
  BY TimerAssumption, DivBounds
<1> HIDE DEF q
<1>2. /\ (s + q) * PerSecond = s * PerSecond + q * PerSecond
      /\ (n + 1) * (PerSecond - 1) = n * (PerSecond - 1) + (PerSecond - 1)
      /\ s * PerSecond \in Nat /\ q * PerSecond \in Nat /\ n * (PerSecond - 1) \in Nat
  BY <1>1, TimerAssumption
<1> QED BY <1>1, <1>2, TimerAssumption DEF Sums, q

LEMMA SumsMore ==
  ASSUME NEW s \in Nat, NEW t \in Nat, NEW n \in Nat, Sums(s, t, n) PROVE Sums(s, t, n + 1)
<1>1. /\ (n + 1) * (PerSecond - 1) = n * (PerSecond - 1) + (PerSecond - 1)
      /\ s * PerSecond \in Nat /\ n * (PerSecond - 1) \in Nat
  BY TimerAssumption
<1> QED BY <1>1, TimerAssumption DEF Sums

\* Minutes are credited to the nearest.
LEMMA RoundedCredits ==
  ASSUME NEW u \in Nat, u > 0, NEW s \in Nat
  PROVE  RoundedTo(u, s) \in Nat /\ Credits(RoundedTo(u, s), u, s)
<1> DEFINE q == s \div u
           r == s % u
<1>2. q \in Nat /\ r \in 0..u - 1
  BY SMT
<1>3. s = u * q + r
  BY SMT
<1> DEFINE up == 2 * r > u \/ (2 * r = u /\ q % 2 = 1)
<1>4. RoundedTo(u, s) = IF up THEN q + 1 ELSE IF q = 0 THEN 1 ELSE q
  BY DEF RoundedTo
<1>5. /\ up => 2 * r >= u
      /\ ~up => 2 * r <= u
  BY <1>2
<1> HIDE DEF q, r, up
<1>6. /\ 2 * (q + 1) * u = 2 * (u * q) + 2 * u
      /\ 2 * q * u = 2 * (u * q) /\ u * q \in Nat
  BY <1>2
<1>7. CASE up
  <2>1. RoundedTo(u, s) = q + 1
    BY <1>4, <1>7
  <2>2. 2 * (q + 1) * u <= 2 * s + u /\ 2 * s <= 2 * (q + 1) * u + u
    BY <1>2, <1>3, <1>5, <1>6, <1>7
  <2> QED BY <1>2, <2>1, <2>2 DEF Credits
<1>8. CASE ~up /\ q # 0
  <2>1. RoundedTo(u, s) = q
    BY <1>4, <1>8
  <2>2. 2 * q * u <= 2 * s + u /\ 2 * s <= 2 * q * u + u
    BY <1>2, <1>3, <1>5, <1>6, <1>8
  <2> QED BY <1>2, <2>1, <2>2 DEF Credits
<1>9. CASE ~up /\ q = 0
  BY <1>4, <1>9 DEF Credits
<1> QED BY <1>7, <1>8, <1>9

LEMMA MinutesAre == MinuteTicks \in Nat /\ MinuteTicks > 0
BY TimerAssumption DEF MinuteTicks

-----------------------------------------------------------------------------
LEMMA WholeNone == ASSUME NEW to \in Nat PROVE Whole(NoTime, to) = 0
<1>1. 0 \div PerSecond = 0
  BY TimerAssumption, DivIs
<1> QED BY <1>1 DEF Whole, Ticks

LEMMA WholeIs ==
  ASSUME NEW from \in Nat, NEW to \in Nat, from <= to
  PROVE  Whole(from, to) = (to - from) \div PerSecond /\ Whole(from, to) \in Nat /\ to - from \in Nat
<1>1. (to - from) \div PerSecond \in Nat
  BY TimerAssumption, DivBounds
<1> QED BY <1>1, TimerAssumption DEF Whole, Ticks

LEMMA Fields ==
  ASSUME timed \in Timed
  PROVE  /\ timed.status \in {"pending", "in_progress", "finished", "closed"} /\ timed.isBreak \in BOOLEAN
         /\ timed.started \in Nat \cup {NoTime} /\ timed.running \in Nat \cup {NoTime}
         /\ timed.pausedAt \in Nat \cup {NoTime} /\ timed.banked \in Nat /\ timed.rested \in Nat
         /\ timed.pauses \in Nat /\ timed.minutes \in Nat /\ timed.version \in Nat
BY DEF Timed

\* What the commands sum while the task is in progress.
LEMMA InProgress ==
  ASSUME TimerInv, timed.status = "in_progress"
  PROVE  /\ Elapsed(timed) \in Nat /\ Sums(Elapsed(timed), truth.ran, timed.pauses + 1)
         /\ PausedFor(timed) \in Nat /\ Sums(PausedFor(timed), truth.paused, timed.pauses)
<1>1. /\ clock \in Nat /\ timed.banked \in Nat /\ timed.rested \in Nat /\ timed.pauses \in Nat
      /\ truth.ran \in Nat /\ truth.paused \in Nat
      /\ timed.running \in Nat \cup {NoTime} /\ timed.pausedAt \in Nat \cup {NoTime}
  BY DEF TimerInv, TimerTypeOK, Timed
<1>2. CASE timed.running # NoTime
  <2> DEFINE d == clock - timed.running
  <2>1. /\ timed.running <= clock /\ timed.pausedAt = NoTime /\ truth.ran - d >= 0
        /\ Sums(timed.banked, truth.ran - d, timed.pauses)
        /\ Sums(timed.rested, truth.paused, timed.pauses)
    BY <1>2 DEF TimerInv, RunningOK
  <2>2. Elapsed(timed) = timed.banked + (d \div PerSecond) /\ d \in Nat
    BY <1>1, <1>2, <2>1, WholeIs DEF Elapsed
  <2>3. PausedFor(timed) = timed.rested
    BY <1>1, <2>1, WholeNone DEF PausedFor
  <2> HIDE DEF d
  <2>4. truth.ran - d \in Nat /\ (truth.ran - d) + d = truth.ran
    BY <1>1, <2>1, <2>2
  <2>5. Elapsed(timed) \in Nat /\ Sums(Elapsed(timed), truth.ran, timed.pauses + 1)
    <3> DEFINE b == truth.ran - d
    <3>1. b \in Nat /\ b + d = truth.ran /\ Sums(timed.banked, b, timed.pauses)
      BY <2>1, <2>4
    <3> HIDE DEF b
    <3>2. timed.banked + (d \div PerSecond) \in Nat
          /\ Sums(timed.banked + (d \div PerSecond), b + d, timed.pauses + 1)
      BY <1>1, <2>2, <3>1, SumsOne
    <3> QED BY <2>2, <3>1, <3>2
  <2> QED BY <1>1, <2>1, <2>3, <2>5
<1>3. CASE timed.running = NoTime
  <2> DEFINE d == clock - timed.pausedAt
  <2>1. /\ timed.pausedAt # NoTime /\ timed.pausedAt <= clock /\ timed.pauses > 0 /\ truth.paused - d >= 0
        /\ Sums(timed.banked, truth.ran, timed.pauses)
        /\ Sums(timed.rested, truth.paused - d, timed.pauses - 1)
    BY <1>3 DEF TimerInv, PausedOK
  <2>2. PausedFor(timed) = timed.rested + (d \div PerSecond) /\ d \in Nat
    BY <1>1, <2>1, WholeIs DEF PausedFor
  <2>3. Elapsed(timed) = timed.banked
    BY <1>1, <1>3, WholeNone DEF Elapsed
  <2> HIDE DEF d
  <2>4. truth.paused - d \in Nat /\ (truth.paused - d) + d = truth.paused
        /\ timed.pauses - 1 \in Nat /\ (timed.pauses - 1) + 1 = timed.pauses
    BY <1>1, <2>1, <2>2
  <2>5. PausedFor(timed) \in Nat /\ Sums(PausedFor(timed), truth.paused, timed.pauses)
    BY <1>1, <2>1, <2>2, <2>4, SumsOne
  <2>6. Sums(timed.banked, truth.ran, timed.pauses + 1)
    BY <1>1, <2>1, SumsMore
  <2> QED BY <1>1, <2>3, <2>5, <2>6
<1> QED BY <1>2, <1>3

\* After a command no page shows the row.
LEMMA CommandPages ==
  ASSUME TimerInv, timed' \in Timed, timed'.version = timed.version + 1, UNCHANGED shown
  PROVE  PagesOK'
<1>1. ASSUME NEW p \in Pages PROVE shown'[p].version < timed'.version
  BY DEF TimerInv, TimerTypeOK, PagesOK, RenderedOK, Timed, Shown
<1>2. \A p \in Pages : shown'[p].version \in Nat /\ timed'.version \in Nat
  BY DEF TimerInv, TimerTypeOK, Timed, Shown
<1> QED BY <1>1, <1>2 DEF PagesOK, RenderedOK

LEMMA StartInv == ASSUME TimerInv, Start, UNCHANGED <<clock, shown>> PROVE TimerInv'
<1>1. /\ clock \in Nat /\ timed \in Timed /\ timed.version \in Nat /\ timed.status = "pending"
      /\ timed.pausedAt = NoTime /\ timed.pauses = 0 /\ truth.ran = 0 /\ truth.paused = 0 /\ truth.counted = 0
  BY DEF TimerInv, TimerTypeOK, Timed, PendingOK, Start
<1>2. /\ timed' \in Timed /\ timed'.version = timed.version + 1 /\ timed'.status = "in_progress"
      /\ timed'.started = clock /\ timed'.running = clock /\ timed'.banked = 0 /\ timed'.rested = 0
      /\ timed'.pauses = 0 /\ timed'.pausedAt = NoTime
  <2>1. timed' = [status |-> "in_progress", isBreak |-> timed.isBreak, started |-> clock, running |-> clock,
                  pausedAt |-> timed.pausedAt, banked |-> 0, rested |-> 0, pauses |-> timed.pauses,
                  minutes |-> timed.minutes, version |-> timed.version + 1]
    BY <1>1 DEF Start, Timed
  <2> QED BY <1>1, <2>1, Fields DEF Timed
<1>3. truth' = truth /\ clock' = clock /\ clock # NoTime
  BY <1>1, TimerAssumption DEF Start
<1>4. TimerTypeOK'
  BY <1>1, <1>2, <1>3 DEF TimerInv, TimerTypeOK
<1>5. Sums(0, 0, 0)
  BY TimerAssumption DEF Sums
<1>6. RunningOK'
  BY <1>1, <1>2, <1>3, <1>5, TimerAssumption DEF RunningOK
<1>7. ElapsedOK'
  BY <1>1, <1>2, <1>3 DEF ElapsedOK
<1>8. PendingOK' /\ PausedOK' /\ EndedOK' /\ EndIsAccounted'
  BY <1>2, <1>3 DEF PendingOK, PausedOK, EndedOK, EndIsAccounted
<1>9. PagesOK'
  BY <1>2, CommandPages
<1> QED BY <1>4, <1>6, <1>7, <1>8, <1>9 DEF TimerInv

LEMMA PauseInv == ASSUME TimerInv, Pause, UNCHANGED <<clock, shown>> PROVE TimerInv'
<1>1. /\ clock \in Nat /\ timed \in Timed /\ timed.version \in Nat /\ timed.pauses \in Nat
      /\ truth \in [ran : Nat, paused : Nat, counted : Nat] /\ timed.rested \in Nat
  BY DEF TimerInv, TimerTypeOK, Timed
<1>2. timed.status = "in_progress" /\ timed.running # NoTime
  BY <1>1 DEF Pause, TimerInv, PendingOK, EndedOK, Timed
<1>3. Elapsed(timed) \in Nat /\ Sums(Elapsed(timed), truth.ran, timed.pauses + 1)
  BY <1>2, InProgress
<1>4. /\ timed' \in Timed /\ timed'.version = timed.version + 1 /\ timed'.status = "in_progress"
      /\ timed'.started = timed.started /\ timed'.running = NoTime /\ timed'.banked = Elapsed(timed)
      /\ timed'.rested = timed.rested /\ timed'.pauses = timed.pauses + 1 /\ timed'.pausedAt = clock
  <2>1. timed' = [status |-> timed.status, isBreak |-> timed.isBreak, started |-> timed.started, running |-> NoTime,
                  pausedAt |-> clock, banked |-> Elapsed(timed), rested |-> timed.rested, pauses |-> timed.pauses + 1,
                  minutes |-> timed.minutes, version |-> timed.version + 1]
    BY <1>1, <1>2, <1>3 DEF Pause, Timed
  <2> QED BY <1>1, <2>1, Fields, <1>2, <1>3 DEF Timed
<1>5. /\ truth'.ran = truth.ran /\ truth'.paused = truth.paused /\ truth'.counted = truth.ran
      /\ truth' \in [ran : Nat, paused : Nat, counted : Nat] /\ clock' = clock /\ clock # NoTime
  BY <1>1, TimerAssumption DEF Pause
<1>6. TimerTypeOK'
  BY <1>1, <1>4, <1>5 DEF TimerInv, TimerTypeOK
<1>7. Sums(timed.rested, truth.paused, timed.pauses)
  BY <1>2 DEF TimerInv, RunningOK
<1>8. PausedOK'
  <2>1. timed.pauses + 1 > 0 /\ (timed.pauses + 1) - 1 = timed.pauses /\ clock - clock = 0
        /\ truth.paused - 0 = truth.paused /\ truth.paused >= 0
    BY <1>1
  <2> QED BY <1>1, <1>3, <1>4, <1>5, <1>7, <2>1 DEF PausedOK
<1>9. PendingOK' /\ RunningOK' /\ EndedOK' /\ EndIsAccounted'
  BY <1>4 DEF PendingOK, RunningOK, EndedOK, EndIsAccounted
<1>10. ElapsedOK'
  BY <1>2, <1>4, <1>5 DEF TimerInv, ElapsedOK
<1>11. PagesOK'
  BY <1>4, CommandPages
<1> QED BY <1>6, <1>8, <1>9, <1>10, <1>11 DEF TimerInv

LEMMA ResumeInv == ASSUME TimerInv, Resume, UNCHANGED <<clock, shown>> PROVE TimerInv'
<1>1. /\ clock \in Nat /\ timed \in Timed /\ timed.version \in Nat /\ timed.pauses \in Nat
      /\ truth \in [ran : Nat, paused : Nat, counted : Nat] /\ timed.banked \in Nat
  BY DEF TimerInv, TimerTypeOK, Timed
<1>2. timed.status = "in_progress" /\ timed.running = NoTime
  BY DEF Resume
<1>3. PausedFor(timed) \in Nat /\ Sums(PausedFor(timed), truth.paused, timed.pauses)
  BY <1>2, InProgress
<1>4. /\ timed' \in Timed /\ timed'.version = timed.version + 1 /\ timed'.status = "in_progress"
      /\ timed'.started = timed.started /\ timed'.running = clock /\ timed'.rested = PausedFor(timed)
      /\ timed'.banked = timed.banked /\ timed'.pauses = timed.pauses /\ timed'.pausedAt = NoTime
  <2>1. timed' = [status |-> timed.status, isBreak |-> timed.isBreak, started |-> timed.started, running |-> clock,
                  pausedAt |-> NoTime, banked |-> timed.banked, rested |-> PausedFor(timed), pauses |-> timed.pauses,
                  minutes |-> timed.minutes, version |-> timed.version + 1]
    BY <1>1, <1>2, <1>3 DEF Resume, Resumed, Timed
  <2> QED BY <1>1, <2>1, Fields, <1>2, <1>3 DEF Timed
<1>5. truth' = truth /\ clock' = clock /\ clock # NoTime
  BY <1>1, TimerAssumption DEF Resume
<1>6. TimerTypeOK'
  BY <1>1, <1>4, <1>5 DEF TimerInv, TimerTypeOK
<1>7. Sums(timed.banked, truth.ran, timed.pauses) /\ truth.counted = truth.ran
  BY <1>2 DEF TimerInv, PausedOK
<1>8. RunningOK'
  <2>1. clock - clock = 0 /\ truth.ran - 0 = truth.ran /\ truth.ran + 0 = truth.ran /\ truth.ran >= 0
    BY <1>1
  <2>2. 0 = IF clock >= DayOver THEN 0 ELSE IF clock < DayOver THEN clock - clock ELSE DayOver - clock
    BY <1>1, TimerAssumption
  <2> QED BY <1>1, <1>3, <1>4, <1>5, <1>7, <2>1, <2>2 DEF RunningOK
<1>9. PendingOK' /\ PausedOK' /\ EndedOK' /\ EndIsAccounted'
  BY <1>4, <1>5 DEF PendingOK, PausedOK, EndedOK, EndIsAccounted
<1>10. ElapsedOK'
  BY <1>2, <1>4, <1>5 DEF TimerInv, ElapsedOK
<1>11. PagesOK'
  BY <1>4, CommandPages
<1> QED BY <1>6, <1>8, <1>9, <1>10, <1>11 DEF TimerInv

LEMMA FinishInv == ASSUME TimerInv, Finish, UNCHANGED <<clock, shown>> PROVE TimerInv'
<1>1. /\ clock \in Nat /\ timed \in Timed /\ timed.version \in Nat /\ timed.pauses \in Nat
      /\ truth \in [ran : Nat, paused : Nat, counted : Nat] /\ Estimate \in Nat
  BY TimerAssumption DEF TimerInv, TimerTypeOK, Timed
<1>2. /\ Elapsed(timed) \in Nat /\ Sums(Elapsed(timed), truth.ran, timed.pauses + 1)
      /\ PausedFor(timed) \in Nat /\ Sums(PausedFor(timed), truth.paused, timed.pauses)
  <2>1. CASE timed.status = "pending"
    <3>1. Elapsed(timed) = 0 /\ PausedFor(timed) = 0 /\ timed.pauses = 0
          /\ truth.ran = 0 /\ truth.paused = 0
      BY <1>1, <2>1, WholeNone DEF TimerInv, PendingOK, Elapsed, PausedFor
    <3> QED BY <3>1, TimerAssumption DEF Sums
  <2> QED BY <2>1, InProgress DEF Finish, Ongoing
<1> DEFINE m == IF Elapsed(timed) > 0 THEN Rounded(Elapsed(timed)) ELSE Estimate
<1>3. m \in Nat /\ (Elapsed(timed) > 0 => Credits(m, Minute, Elapsed(timed)))
  <2>1. Minute \in Nat /\ Minute > 0
    BY TimerAssumption
  <2>2. \A s \in Nat : Rounded(s) \in Nat /\ Credits(Rounded(s), Minute, s)
    BY <2>1, RoundedCredits DEF Rounded
  <2> QED BY <1>1, <1>2, <2>2
<1>4. /\ timed' = [timed EXCEPT
           !.status = "finished", !.banked = Elapsed(timed), !.rested = PausedFor(timed),
           !.running = NoTime, !.pausedAt = NoTime, !.version = @ + 1, !.minutes = m]
      /\ truth' = truth
  BY DEF Finish
<1> HIDE DEF m
<1>5. /\ timed' \in Timed /\ timed'.version = timed.version + 1 /\ timed'.status = "finished"
      /\ timed'.running = NoTime /\ timed'.rested = PausedFor(timed) /\ timed'.minutes = m
      /\ timed'.banked = Elapsed(timed) /\ timed'.pauses = timed.pauses /\ timed'.pausedAt = NoTime
  <2>1. timed' = [status |-> "finished", isBreak |-> timed.isBreak, started |-> timed.started, running |-> NoTime,
                  pausedAt |-> NoTime, banked |-> Elapsed(timed), rested |-> PausedFor(timed), pauses |-> timed.pauses,
                  minutes |-> m, version |-> timed.version + 1]
    BY <1>1, <1>2, <1>3, <1>4 DEF Timed
  <2> QED BY <1>1, <2>1, Fields, <1>2, <1>3, <1>4 DEF Timed
<1>6. TimerTypeOK'
  BY <1>1, <1>4, <1>5 DEF TimerInv, TimerTypeOK
<1>7. EndIsAccounted'
  BY <1>2, <1>3, <1>4, <1>5 DEF EndIsAccounted
<1>8. PendingOK' /\ RunningOK' /\ PausedOK' /\ ElapsedOK' /\ EndedOK'
  BY <1>5 DEF PendingOK, RunningOK, PausedOK, ElapsedOK, EndedOK
<1>9. PagesOK'
  BY <1>5, CommandPages
<1> QED BY <1>6, <1>7, <1>8, <1>9 DEF TimerInv

-----------------------------------------------------------------------------
\* What the clean-up credits: all that counts, but for what the pauses dropped.
LEMMA StaleCredits ==
  ASSUME TimerInv, clock > DayOver, Ongoing(timed), truth.counted >= timed.pauses * PerSecond
  PROVE  \E lost \in 0..timed.pauses * (PerSecond - 1) :
           Credits(StaleMinutes(timed), MinuteTicks, truth.counted - lost)
<1> DEFINE n == timed.pauses
           b == timed.banked * PerSecond
<1>1. /\ clock \in Nat /\ timed.banked \in Nat /\ n \in Nat
      /\ truth.ran \in Nat /\ truth.counted \in Nat /\ timed.running \in Nat \cup {NoTime}
      /\ PerSecond \in Nat /\ PerSecond > 0 /\ DayOver \in Nat
  BY TimerAssumption DEF TimerInv, TimerTypeOK, Timed
<1>2. b \in Nat /\ n * (PerSecond - 1) \in Nat
  BY <1>1
<1>3. ASSUME NEW t \in Nat, t <= truth.counted, truth.counted <= t + n * (PerSecond - 1),
             StaleMinutes(timed) = RoundedTo(MinuteTicks, t)
      PROVE  \E lost \in 0..n * (PerSecond - 1) :
               Credits(StaleMinutes(timed), MinuteTicks, truth.counted - lost)
  <2> DEFINE lost == truth.counted - t
  <2>1. lost \in 0..n * (PerSecond - 1) /\ truth.counted - lost = t
    BY <1>1, <1>2, <1>3
  <2>2. Credits(StaleMinutes(timed), MinuteTicks, truth.counted - lost)
    BY <1>3, <2>1, RoundedCredits, MinutesAre
  <2> HIDE DEF lost
  <2> QED BY <2>1, <2>2
<1>4. CASE timed.status = "pending"
  <2>1. truth.counted = 0 /\ StaleMinutes(timed) = 0
    BY <1>4 DEF TimerInv, PendingOK, StaleMinutes
  <2>2. 0 \in 0..n * (PerSecond - 1)
    BY <1>2
  <2>3. Credits(0, MinuteTicks, 0 - 0)
    BY MinutesAre DEF Credits
  <2> QED BY <2>1, <2>2, <2>3
<1>5. CASE timed.status = "in_progress" /\ timed.running # NoTime
  <2> DEFINE before == truth.ran - (clock - timed.running)
             d == IF timed.running >= DayOver THEN 0 ELSE DayOver - timed.running
  <2>1. /\ timed.running <= clock /\ before >= 0 /\ Sums(timed.banked, before, n)
        /\ truth.counted = before + d
    BY <1>1, <1>5 DEF TimerInv, RunningOK
  <2>2. before \in Nat /\ d \in Nat
    BY <1>1, <1>5, <2>1
  <2>3. Ticks(timed.running, DayOver) = d
    BY <1>1, <1>5, TimerAssumption DEF Ticks
  <2>4. StaleMinutes(timed) = RoundedTo(MinuteTicks, b + d)
    <3>1. (IF clock < DayOver THEN clock ELSE DayOver) = DayOver
      BY <1>1
    <3> QED BY <1>5, <2>3, <3>1 DEF StaleMinutes
  <2> HIDE DEF before, d
  <2>5. b <= before /\ before <= b + n * (PerSecond - 1)
    BY <2>1 DEF Sums
  <2> HIDE DEF b
  <2>6. b + d \in Nat /\ b + d <= truth.counted /\ truth.counted <= (b + d) + n * (PerSecond - 1)
    BY <1>1, <1>2, <2>1, <2>2, <2>5
  <2> QED BY <1>3, <2>4, <2>6
<1>6. CASE timed.status = "in_progress" /\ timed.running = NoTime
  <2>1. Sums(timed.banked, truth.ran, n) /\ truth.counted = truth.ran /\ n > 0
    BY <1>6 DEF TimerInv, PausedOK
  <2>2. b <= truth.counted /\ truth.counted <= b + n * (PerSecond - 1)
    BY <2>1 DEF Sums
  <2>3. timed.banked > 0
    <3> SUFFICES ASSUME timed.banked = 0 PROVE FALSE
      BY <1>1
    <3>1. b = 0
      BY <1>1
    <3>2. n * (PerSecond - 1) = n * PerSecond - n /\ n * PerSecond \in Nat
      BY <1>1
    <3> HIDE DEF b
    <3> QED BY <1>1, <2>1, <2>2, <3>1, <3>2
  <2>4. StaleMinutes(timed) = RoundedTo(MinuteTicks, b)
    <3>1. \A c : b + Ticks(NoTime, c) = b
      BY <1>2 DEF Ticks
    <3> QED BY <1>6, <2>3, <3>1 DEF StaleMinutes
  <2> HIDE DEF b
  <2> QED BY <1>2, <1>3, <2>2, <2>4
<1> QED BY <1>4, <1>5, <1>6 DEF Ongoing

LEMMA CloseOutInv == ASSUME TimerInv, CloseOut, UNCHANGED <<clock, shown>> PROVE TimerInv'
<1>1. /\ clock \in Nat /\ timed \in Timed /\ timed.version \in Nat /\ timed.pauses \in Nat
      /\ Minute \in Nat /\ DayOver \in Nat /\ timed.banked \in Nat
      /\ timed.running \in Nat \cup {NoTime} /\ timed.started \in Nat \cup {NoTime}
  BY TimerAssumption DEF TimerInv, TimerTypeOK, Timed
<1>2. StaleMinutes(timed) \in Nat
  <2> DEFINE cap == IF clock < DayOver THEN clock ELSE DayOver
             t == timed.banked * PerSecond + Ticks(timed.running, cap)
             u == Ticks(timed.started, cap)
  <2>1. cap \in Nat
    BY <1>1
  <2>2. u \in Nat /\ Ticks(timed.running, cap) \in Nat
    <3> HIDE DEF cap
    <3> QED BY <1>1, <2>1, TimerAssumption DEF Ticks
  <2>3. t \in Nat
    BY <1>1, <2>2, TimerAssumption
  <2>4. StaleMinutes(timed) \in {0, RoundedTo(MinuteTicks, t), RoundedTo(MinuteTicks, u)}
    BY DEF StaleMinutes
  <2> HIDE DEF t, u
  <2> QED BY <2>2, <2>3, <2>4, RoundedCredits, MinutesAre
<1>3. StaleMinutes(timed) * Minute \in Nat
  BY <1>1, <1>2
<1>4. /\ timed' \in Timed /\ timed'.version = timed.version + 1 /\ timed'.status = "closed"
      /\ timed'.running = NoTime /\ timed'.minutes = StaleMinutes(timed)
      /\ timed'.pauses = timed.pauses /\ timed'.pausedAt = NoTime
  <2>1. timed' = [status |-> "closed", isBreak |-> timed.isBreak, started |-> timed.started, running |-> NoTime,
                  pausedAt |-> NoTime, banked |-> StaleMinutes(timed) * Minute, rested |-> timed.rested, pauses |-> timed.pauses,
                  minutes |-> StaleMinutes(timed), version |-> timed.version + 1]
    BY <1>1, <1>2, <1>3 DEF CloseOut, Timed
  <2> QED BY <1>1, <2>1, Fields, <1>2, <1>3 DEF Timed
<1>5. truth' = truth /\ clock > DayOver /\ Ongoing(timed)
  BY DEF CloseOut
<1>6. TimerTypeOK'
  BY <1>1, <1>4, <1>5 DEF TimerInv, TimerTypeOK
<1>7. EndIsAccounted'
  BY <1>4, <1>5, StaleCredits DEF EndIsAccounted
<1>8. PendingOK' /\ RunningOK' /\ PausedOK' /\ ElapsedOK' /\ EndedOK'
  BY <1>4 DEF PendingOK, RunningOK, PausedOK, ElapsedOK, EndedOK
<1>9. PagesOK'
  BY <1>4, CommandPages
<1> QED BY <1>6, <1>7, <1>8, <1>9 DEF TimerInv

-----------------------------------------------------------------------------
LEMMA TickInv == ASSUME TimerInv, TimerTick PROVE TimerInv'
<1>1. /\ clock \in Nat /\ timed \in Timed /\ truth \in [ran : Nat, paused : Nat, counted : Nat]
      /\ DayOver \in Nat /\ timed.running \in Nat \cup {NoTime} /\ timed.pausedAt \in Nat \cup {NoTime}
      /\ timed.started \in Nat \cup {NoTime}
  BY TimerAssumption DEF TimerInv, TimerTypeOK, Timed
<1>2. /\ clock' = clock + 1 /\ timed' = timed /\ shown' = shown
      /\ truth'.ran = truth.ran + (IF timed.running # NoTime THEN 1 ELSE 0)
      /\ truth'.paused = truth.paused + (IF timed.pausedAt # NoTime THEN 1 ELSE 0)
      /\ truth'.counted = truth.counted + (IF timed.running # NoTime /\ clock < DayOver THEN 1 ELSE 0)
      /\ truth' \in [ran : Nat, paused : Nat, counted : Nat]
  BY <1>1 DEF TimerTick
<1>3. TimerTypeOK'
  BY <1>1, <1>2 DEF TimerInv, TimerTypeOK
<1>4. PendingOK'
  BY <1>1, <1>2 DEF TimerInv, PendingOK
<1>5. RunningOK'
  <2> SUFFICES ASSUME timed.status = "in_progress", timed.running # NoTime PROVE RunningOK'
    BY <1>2 DEF RunningOK
  <2> DEFINE before == truth.ran - (clock - timed.running)
  <2>1. /\ timed.running <= clock /\ timed.pausedAt = NoTime /\ before >= 0
        /\ Sums(timed.banked, before, timed.pauses)
        /\ Sums(timed.rested, truth.paused, timed.pauses)
        /\ truth.counted = before + (IF timed.running >= DayOver THEN 0
                                     ELSE IF clock < DayOver THEN clock - timed.running
                                     ELSE DayOver - timed.running)
    BY DEF TimerInv, RunningOK
  <2>2. truth'.ran - (clock' - timed'.running) = before /\ truth'.paused = truth.paused
    BY <1>1, <1>2, <2>1
  <2>3. truth'.counted = before + (IF timed.running >= DayOver THEN 0
                                   ELSE IF clock' < DayOver THEN clock' - timed.running
                                   ELSE DayOver - timed.running)
    BY <1>1, <1>2, <2>1
  <2>4. timed.running <= clock'
    BY <1>1, <1>2, <2>1
  <2> HIDE DEF before
  <2> QED BY <1>2, <2>1, <2>2, <2>3, <2>4 DEF RunningOK
<1>6. PausedOK'
  <2> SUFFICES ASSUME timed.status = "in_progress", timed.running = NoTime PROVE PausedOK'
    BY <1>2 DEF PausedOK
  <2> DEFINE before == truth.paused - (clock - timed.pausedAt)
  <2>1. /\ timed.pausedAt # NoTime /\ timed.pausedAt <= clock /\ timed.pauses > 0 /\ before >= 0
        /\ Sums(timed.banked, truth.ran, timed.pauses)
        /\ Sums(timed.rested, before, timed.pauses - 1)
        /\ truth.counted = truth.ran
    BY DEF TimerInv, PausedOK
  <2>2. truth'.paused - (clock' - timed'.pausedAt) = before /\ truth'.ran = truth.ran
        /\ truth'.counted = truth.counted /\ timed.pausedAt <= clock'
    BY <1>1, <1>2, <2>1
  <2> HIDE DEF before
  <2> QED BY <1>2, <2>1, <2>2 DEF PausedOK
<1>7. ElapsedOK'
  <2> SUFFICES ASSUME timed.status = "in_progress" PROVE ElapsedOK'
    BY <1>2 DEF ElapsedOK
  <2>1. timed.running # NoTime <=> timed.pausedAt = NoTime
    BY DEF TimerInv, RunningOK, PausedOK
  <2> QED BY <1>1, <1>2, <2>1 DEF TimerInv, ElapsedOK
<1>8. EndedOK'
  BY <1>2 DEF TimerInv, EndedOK
<1>9. EndIsAccounted'
  <2> SUFFICES ASSUME timed.status \in {"finished", "closed"} PROVE EndIsAccounted'
    BY <1>2 DEF EndIsAccounted
  <2>1. truth' = truth
    BY <1>1 DEF TimerTick, TimerInv, EndedOK
  <2> QED BY <1>2, <2>1 DEF TimerInv, EndIsAccounted
<1>10. PagesOK'
  <2>1. \A p \in Pages : shown[p].at \in Nat
    BY DEF TimerInv, TimerTypeOK, Shown
  <2> QED BY <1>1, <1>2, <2>1 DEF TimerInv, PagesOK, RenderedOK
<1> QED BY <1>3, <1>4, <1>5, <1>6, <1>7, <1>8, <1>9, <1>10 DEF TimerInv

LEMMA PageInv == ASSUME TimerInv, NEW p \in Pages, Render(p) \/ Hide(p) PROVE TimerInv'
<1>1. /\ clock \in Nat /\ timed \in Timed /\ timed.version \in Nat /\ timed.version > 0
      /\ Estimate * Minute \in Nat /\ shown \in [Pages -> Shown]
      /\ timed.running \in Nat \cup {NoTime} /\ timed.started \in Nat \cup {NoTime} /\ timed.banked \in Nat
  BY TimerAssumption DEF TimerInv, TimerTypeOK, Timed
<1>2. UNCHANGED <<clock, timed, truth>>
  BY DEF Render, Hide
<1>3. PICK s \in Shown : shown' = [shown EXCEPT ![p] = s] /\ RenderedOK(s)
  <2>1. CASE Render(p)
    <3> DEFINE s == [left |-> Left(timed), at |-> clock, version |-> timed.version]
    <3>1. timed.status = "in_progress" /\ (timed.running # NoTime \/ timed.isBreak)
          /\ shown' = [shown EXCEPT ![p] = s]
      BY <2>1 DEF Render
    <3>2. CASE timed.isBreak
      <4>1. timed.started \in Nat /\ timed.started <= clock
        BY <1>1, <3>1 DEF TimerInv, ElapsedOK
      <4>2. Left(timed) = Estimate * Minute - ((clock - timed.started) \div PerSecond)
            /\ (clock - timed.started) \div PerSecond \in Nat
        BY <1>1, <3>2, <4>1, WholeIs DEF Left
      <4>3. s \in Shown
        BY <1>1, <4>2 DEF Shown
      <4>4. s.version = timed.version /\ s.at = clock /\ s.left = Left(timed)
        OBVIOUS
      <4> HIDE DEF s
      <4>5. RenderedOK(s)
        BY <1>1, <3>1, <3>2, <4>1, <4>2, <4>4 DEF RenderedOK
      <4> QED BY <3>1, <4>3, <4>5
    <3>3. CASE ~timed.isBreak
      <4>1. timed.running \in Nat /\ timed.running # NoTime /\ timed.running <= clock
        BY <1>1, <3>1, <3>3 DEF TimerInv, RunningOK
      <4>2. Left(timed) = Estimate * Minute - (timed.banked + ((clock - timed.running) \div PerSecond))
            /\ (clock - timed.running) \div PerSecond \in Nat
        BY <1>1, <3>3, <4>1, WholeIs DEF Left, Elapsed
      <4>3. s \in Shown
        BY <1>1, <4>2 DEF Shown
      <4>4. s.version = timed.version /\ s.at = clock /\ s.left = Left(timed)
        OBVIOUS
      <4> HIDE DEF s
      <4>5. RenderedOK(s)
        BY <1>1, <3>1, <3>3, <4>1, <4>2, <4>4 DEF RenderedOK
      <4> QED BY <3>1, <4>3, <4>5
    <3> QED BY <3>2, <3>3
  <2>2. CASE Hide(p)
    <3>1. NoPage \in Shown /\ NoPage.version = 0 /\ shown' = [shown EXCEPT ![p] = NoPage]
      BY <2>2 DEF Hide, NoPage, Shown
    <3>2. NoPage.version # timed.version /\ NoPage.version <= timed.version
      BY <1>1, <3>1
    <3> HIDE DEF NoPage
    <3> QED BY <3>1, <3>2 DEF RenderedOK
  <2> QED BY <2>1, <2>2
<1>5. TimerTypeOK'
  BY <1>1, <1>2, <1>3 DEF TimerInv, TimerTypeOK
<1>6. PagesOK'
  <2>1. \A q \in Pages : shown'[q] = IF q = p THEN s ELSE shown[q]
    BY <1>1, <1>3
  <2> QED BY <1>2, <1>3, <2>1 DEF TimerInv, PagesOK, RenderedOK
<1> QED BY <1>2, <1>5, <1>6 DEF TimerInv, PendingOK, RunningOK, PausedOK, ElapsedOK, EndedOK, EndIsAccounted

LEMMA TimerStep == ASSUME TimerInv, [TimerNext]_timerVars PROVE TimerInv'
<1>1. CASE UNCHANGED timerVars
  BY <1>1 DEF timerVars, TimerInv, TimerTypeOK, PendingOK, RunningOK, PausedOK, ElapsedOK, EndedOK, PagesOK,
              RenderedOK, EndIsAccounted
<1> QED BY <1>1, StartInv, PauseInv, ResumeInv, FinishInv, CloseOutInv, TickInv, PageInv DEF TimerNext

LEMMA TimerInitInv == TimerInit => TimerInv
<1> SUFFICES ASSUME TimerInit PROVE TimerInv
  OBVIOUS
<1>1. /\ timed \in Timed /\ timed.version = 1 /\ timed.status = "pending"
      /\ timed.started = NoTime /\ timed.running = NoTime /\ timed.pausedAt = NoTime
      /\ timed.banked = 0 /\ timed.rested = 0 /\ timed.pauses = 0
  BY DEF TimerInit, Timed
<1>2. truth \in [ran : Nat, paused : Nat, counted : Nat] /\ truth.ran = 0 /\ truth.paused = 0 /\ truth.counted = 0
  BY DEF TimerInit
<1>3. shown \in [Pages -> Shown] /\ \A p \in Pages : shown[p].version = 0
  BY DEF TimerInit, NoPage, Shown
<1>4. TimerTypeOK
  BY <1>1, <1>2, <1>3 DEF TimerInit, TimerTypeOK
<1> QED BY <1>1, <1>2, <1>3, <1>4 DEF TimerInv, PendingOK, RunningOK, PausedOK, ElapsedOK, EndedOK, PagesOK,
              RenderedOK, EndIsAccounted

LEMMA CountdownHolds == TimerInv => CountdownIsTrue
<1> SUFFICES ASSUME TimerInv, NEW p \in Pages, shown[p].version = timed.version
             PROVE  OnScreen(p) - (IF timed.isBreak /\ Left(timed) < 0 THEN 0 ELSE Left(timed)) \in 0..1
  BY DEF CountdownIsTrue
<1>1. /\ clock \in Nat /\ shown[p].at \in Nat /\ shown[p].at <= clock /\ shown[p].left \in Int
      /\ Estimate * Minute \in Nat /\ timed.banked \in Nat /\ timed.status = "in_progress"
      /\ timed.running \in Nat \cup {NoTime} /\ timed.started \in Nat \cup {NoTime}
      /\ PerSecond \in Nat /\ PerSecond > 0
  BY TimerAssumption DEF TimerInv, TimerTypeOK, Timed, Shown, PagesOK, RenderedOK
<1> DEFINE now == shown[p].left - ((clock - shown[p].at) \div PerSecond)
<1>2. OnScreen(p) = IF timed.isBreak /\ now < 0 THEN 0 ELSE now
  BY <1>1, WholeIs DEF OnScreen
<1>3. (clock - shown[p].at) \div PerSecond \in Nat
  BY <1>1, WholeIs
<1>4. ASSUME NEW f \in Nat, f <= shown[p].at
      PROVE  /\ ((clock - f) \div PerSecond) - ((shown[p].at - f) \div PerSecond)
                - ((clock - shown[p].at) \div PerSecond) \in 0..1
             /\ (clock - f) \div PerSecond \in Nat /\ (shown[p].at - f) \div PerSecond \in Nat
             /\ Whole(f, clock) = (clock - f) \div PerSecond
  <2> DEFINE x == shown[p].at - f
             y == clock - shown[p].at
  <2>1. x \in Nat /\ y \in Nat /\ x + y = clock - f
    BY <1>1, <1>4
  <2>2. ((x + y) \div PerSecond) - (x \div PerSecond) - (y \div PerSecond) \in 0..1
    <3> HIDE DEF x, y
    <3> QED BY <1>1, <2>1, DivSplit
  <2>3. x \div PerSecond \in Nat
    <3> HIDE DEF x
    <3> QED BY <1>1, <2>1, DivBounds
  <2>4. f <= clock
    BY <1>1, <1>4
  <2>5. Whole(f, clock) = (clock - f) \div PerSecond /\ Whole(f, clock) \in Nat
    BY <1>1, <2>4, WholeIs
  <2> QED BY <2>1, <2>2, <2>3, <2>4, <2>5
<1>5. CASE timed.isBreak
  <2>1. timed.started \in Nat /\ timed.started <= shown[p].at
        /\ shown[p].left = Estimate * Minute - ((shown[p].at - timed.started) \div PerSecond)
    BY <1>1, <1>5 DEF TimerInv, PagesOK, RenderedOK, ElapsedOK
  <2>2. Left(timed) = Estimate * Minute - ((clock - timed.started) \div PerSecond)
    BY <1>4, <1>5, <2>1 DEF Left
  <2>3. Left(timed) \in Int /\ now \in Int /\ now - Left(timed) \in 0..1
    <3> DEFINE x == (clock - timed.started) \div PerSecond
               y == (shown[p].at - timed.started) \div PerSecond
               z == (clock - shown[p].at) \div PerSecond
    <3>1. x \in Nat /\ y \in Nat /\ z \in Nat /\ x - y - z \in 0..1
      BY <1>3, <1>4, <2>1
    <3>2. Left(timed) = Estimate * Minute - (0 + x) /\ now = (Estimate * Minute - (0 + y)) - z
      BY <1>1, <2>1, <2>2, <3>1
    <3> HIDE DEF x, y, z
    <3> QED BY <1>1, <3>1, <3>2
  <2> HIDE DEF now
  <2> QED BY <1>2, <1>5, <2>3
<1>6. CASE ~timed.isBreak
  <2>1. timed.running \in Nat /\ timed.running <= shown[p].at /\ timed.running # NoTime
        /\ shown[p].left = Estimate * Minute
             - (timed.banked + ((shown[p].at - timed.running) \div PerSecond))
    BY <1>1, <1>6 DEF TimerInv, PagesOK, RenderedOK
  <2>2. Left(timed) = Estimate * Minute - (timed.banked + ((clock - timed.running) \div PerSecond))
    BY <1>4, <1>6, <2>1 DEF Left, Elapsed
  <2>3. Left(timed) \in Int /\ now \in Int /\ now - Left(timed) \in 0..1
    <3> DEFINE x == (clock - timed.running) \div PerSecond
               y == (shown[p].at - timed.running) \div PerSecond
               z == (clock - shown[p].at) \div PerSecond
    <3>1. x \in Nat /\ y \in Nat /\ z \in Nat /\ x - y - z \in 0..1
      BY <1>3, <1>4, <2>1
    <3>2. Left(timed) = Estimate * Minute - (timed.banked + x) /\ now = (Estimate * Minute - (timed.banked + y)) - z
      BY <1>1, <2>1, <2>2, <3>1
    <3> HIDE DEF x, y, z
    <3> QED BY <1>1, <3>1, <3>2
  <2> HIDE DEF now
  <2> QED BY <1>2, <1>6, <2>3
<1> QED BY <1>5, <1>6

\* For any estimate and any clock, the time that commands and the clean-up
\* credit is what ran, up to the rounding of each pause, and a page that is up
\* to date counts down from it.
THEOREM TimersAccount == TimerInit /\ [][TimerNext]_timerVars => []TimeIsAccounted
<1>1. TimerInv => TimeIsAccounted
  BY CountdownHolds, InProgress DEF TimeIsAccounted, RunningIsAccounted, TimerInv, ElapsedOK
<1> QED BY <1>1, TimerInitInv, TimerStep, PTL
=============================================================================
