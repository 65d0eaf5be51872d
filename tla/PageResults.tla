---------------------------- MODULE PageResults ----------------------------
(***************************************************************************)
(* What Today's page shows of a scheduling command.  The adapters of       *)
(* services.py leave the results of the last command in variables of the   *)
(* module, which all browser sessions of the server share, and the page    *)
(* reads them back, one call at a time, into the state of its own session. *)
(* Sessions run in threads: between any two of these calls another session *)
(* may run a command.  Each session's account has one plan, today's.  The  *)
(* error text and the note that the calendar is behind are kept in         *)
(* variables of the same kind and left out.                                *)
(***************************************************************************)
EXTENDS Naturals, Sequences

CONSTANTS
  Tabs,       \* browser sessions of one server process
  Account,    \* the account that each session is signed in to
  Nil,        \* no operation, no account
  MaxClicks   \* bound: clicks on a command

ASSUME ResultsAssumption == MaxClicks \in Nat /\ Nil \notin Tabs /\ Nil \notin Nat

VARIABLES
  done,     \* schedule operations: who made it, at which revision, who undid it
  rev,      \* schedule_revision of the plan of each account
  last,     \* the variables of services.py
  page,     \* st.session_state of each session
  doing,    \* the command that each session's script is in
  mixed,    \* sessions that show the results of a command that failed, or that was overtaken
  clicks    \* clicks so far

resultVars == <<done, rev, last, page, doing, mixed, clicks>>

AccountsOf == {Account[s] : s \in Tabs}

NoCommand == [pc |-> "idle", kind |-> "run", rev |-> 0, op |-> Nil]

ResultsInit ==
  /\ done = <<>> /\ rev = [a \in AccountsOf |-> 0]
  /\ last = [op |-> Nil, unplaced |-> Nil]
  /\ page = [s \in Tabs |-> [op |-> Nil, unplaced |-> Nil]]
  /\ doing = [s \in Tabs |-> NoCommand]
  /\ mixed = {} /\ clicks = 0

Request(s, k) ==
  /\ doing[s].pc = "idle" /\ clicks < MaxClicks
  /\ clicks' = clicks + 1
  /\ doing' = [doing EXCEPT ![s] = [pc |-> "asked", kind |-> k, rev |-> rev[Account[s]], op |-> Nil]]
  /\ UNCHANGED <<done, rev, last, page, mixed>>

\* Run Scheduler, and the form for a task: the plan's revision is read for the
\* command.  A move has the one that its page was rendered from.
ClickRun(s)  == Request(s, "run")
ClickAdd(s)  == Request(s, "add")
ClickMove(s) == Request(s, "move")

\* The application service: an operation at the revision that was read.
CarryOut(s) ==
  LET a == Account[s] IN
  /\ doing[s].pc = "asked" /\ doing[s].rev = rev[a]
  /\ done' = Append(done, [by |-> s, kind |-> doing[s].kind, rev |-> rev[a], undoneBy |-> Nil])
  /\ rev' = [rev EXCEPT ![a] = @ + 1]
  /\ doing' = [doing EXCEPT ![s].pc = "done", ![s].op = Len(done)', ![s].rev = 0]
  /\ UNCHANGED <<last, page, mixed, clicks>>

\* The same request of another session of the account was recorded under the
\* same idempotency key: its response is given again.
Replay(s) ==
  /\ doing[s].pc = "asked"
  /\ \E o \in 1 .. Len(done) :
       /\ Account[done[o].by] = Account[s]
       /\ done[o].rev = doing[s].rev /\ done[o].kind = doing[s].kind
       /\ doing' = [doing EXCEPT ![s].pc = "done", ![s].op = o, ![s].rev = 0]
  /\ UNCHANGED <<done, rev, last, page, mixed, clicks>>

\* The plan changed meanwhile, or the command is refused.  A run that failed is
\* read as any other, an addition or a move only shows its error.
RunFails(s) ==
  /\ doing[s].pc = "asked" /\ doing[s].kind = "run"
  /\ doing' = [doing EXCEPT ![s].pc = "captured", ![s].rev = 0]
  /\ mixed' = mixed \cup {s}
  /\ UNCHANGED <<done, rev, last, page, clicks>>

CommandFails(s) ==
  /\ doing[s].pc = "asked" /\ doing[s].kind # "run"
  /\ doing' = [doing EXCEPT ![s] = NoCommand]
  /\ UNCHANGED <<done, rev, last, page, mixed, clicks>>

-----------------------------------------------------------------------------
\* Both results of the page are about to be read anew; a move reads but one.
Reread(s) == IF doing[s].kind = "move" THEN mixed ELSE mixed \ {s}

\* Those between a capture and the end of their reading see another's results.
Overtaken(s) ==
  {t \in Tabs \ {s} : doing[t].pc \in {"captured", "half"}}

\* _capture_durable_scheduler_state: from the scheduler that has run, or from
\* the recorded response.
Capture(s) ==
  /\ doing[s].pc = "done"
  /\ last' = [op |-> doing[s].op, unplaced |-> Account[s]]
  /\ doing' = [doing EXCEPT ![s].pc = "captured"]
  /\ mixed' = Reread(s) \cup Overtaken(s)
  /\ UNCHANGED <<done, rev, page, clicks>>

-----------------------------------------------------------------------------
\* The page goes on.  A run reads the operation's id back, if there is one.
ReadOperation(s) ==
  /\ doing[s].pc = "captured" /\ doing[s].kind = "run"
  /\ page' = [page EXCEPT ![s].op = IF last.op # Nil THEN last.op ELSE @]
  /\ doing' = [doing EXCEPT ![s].pc = "half"]
  /\ UNCHANGED <<done, rev, last, mixed, clicks>>

\* An addition or a move has the id in its result.
AddResult(s) ==
  /\ doing[s].pc = "captured" /\ doing[s].kind = "add"
  /\ page' = [page EXCEPT ![s].op = doing[s].op]
  /\ doing' = [doing EXCEPT ![s].pc = "half"]
  /\ UNCHANGED <<done, rev, last, mixed, clicks>>

MoveResult(s) ==
  /\ doing[s].pc = "captured" /\ doing[s].kind = "move"
  /\ page' = [page EXCEPT ![s].op = doing[s].op]
  /\ doing' = [doing EXCEPT ![s] = NoCommand]
  /\ UNCHANGED <<done, rev, last, mixed, clicks>>

\* What was not placed; without an operation the scheduler of the old adapters
\* answers, which has run nothing.
ReadUnplaced(s) ==
  /\ doing[s].pc = "half"
  /\ page' = [page EXCEPT ![s].unplaced = IF last.op = Nil THEN Nil ELSE last.unplaced]
  /\ doing' = [doing EXCEPT ![s] = NoCommand]
  /\ UNCHANGED <<done, rev, last, mixed, clicks>>

-----------------------------------------------------------------------------
\* Mutant of MayUndo: the operation is looked up by its id alone.
MayUndoAny(s, o) == done[o].undoneBy = Nil /\ rev[Account[done[o].by]] = done[o].rev + 1

\* undo finds the account's own operations, and the plan has not changed since.
MayUndo(s, o) ==
  /\ Account[done[o].by] = Account[s]
  /\ done[o].undoneBy = Nil /\ rev[Account[s]] = done[o].rev + 1

\* The Undo button of the page, of the operation that it remembers: undone, or
\* the recorded response of an Undo by another session.
UndoShown(s) ==
  LET o == page[s].op IN
  /\ doing[s].pc = "idle" /\ o # Nil
  /\ \/ /\ MayUndo(s, o)
        /\ done' = [done EXCEPT ![o].undoneBy = s]
        /\ rev' = [x \in AccountsOf |-> IF x = Account[done[o].by] THEN rev[x] + 1 ELSE rev[x]]
     \/ /\ done[o].undoneBy # Nil /\ Account[done[o].undoneBy] = Account[s]
        /\ UNCHANGED <<done, rev>>
  /\ last' = [op |-> Nil, unplaced |-> Nil]
  /\ page' = [page EXCEPT ![s] = [op |-> Nil, unplaced |-> Nil]]
  /\ mixed' = (mixed \ {s}) \cup Overtaken(s)
  /\ UNCHANGED <<doing, clicks>>

\* A click elsewhere, or a closed tab, stops the script between two calls.
Stop(s) ==
  /\ doing[s].pc \notin {"idle", "asked"}
  /\ doing' = [doing EXCEPT ![s] = NoCommand]
  /\ mixed' = mixed \cup {s}
  /\ UNCHANGED <<done, rev, last, page, clicks>>

ResultsNext ==
  \E s \in Tabs :
    \/ ClickRun(s) \/ ClickAdd(s) \/ ClickMove(s)
    \/ CarryOut(s) \/ Replay(s) \/ RunFails(s) \/ CommandFails(s)
    \/ Capture(s) \/ ReadOperation(s) \/ AddResult(s) \/ MoveResult(s) \/ ReadUnplaced(s)
    \/ UndoShown(s) \/ Stop(s)

-----------------------------------------------------------------------------
\* A page shows results of another account only after a command of its own that
\* failed or was stopped, or that another session's command overtook while the
\* results were read; and even then no Undo reaches another account's schedule.
PagesStayApart ==
  /\ \A s \in Tabs \ mixed :
       doing[s].pc = "idle" =>
         /\ page[s].op # Nil => Account[done[page[s].op].by] = Account[s]
         /\ page[s].unplaced \in {Nil, Account[s]}
  /\ \A o \in 1 .. Len(done) :
       done[o].undoneBy # Nil => Account[done[o].undoneBy] = Account[done[o].by]

\* Pages show operations of their own account only.  Not so, as the sessions
\* share the variables.
PageShowsItsOwn ==
  \A s \in Tabs : page[s].op # Nil => Account[done[page[s].op].by] = Account[s]
=============================================================================
