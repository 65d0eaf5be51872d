-------------------------- MODULE TransactionScope --------------------------
(***************************************************************************)
(* One Database object over one connection (database.py): execute, the     *)
(* standalone commit() of its helpers, nested transaction() blocks, and    *)
(* the unit of work that hands the connection back to the pool.            *)
(*                                                                         *)
(* A write is known by the number of its statement.  PostgreSQL is what    *)
(* the code relies on: a rollback drops the writes since the last commit,  *)
(* a lost connection drops them without being asked.                       *)
(***************************************************************************)
EXTENDS Naturals

CONSTANTS
  MaxDepth,    \* bound: nesting of transaction() blocks
  MaxWrites    \* bound: statements

ASSUME ScopeAssumption == MaxDepth \in Nat /\ MaxWrites \in Nat

VARIABLES
  depth,       \* _transaction_depth
  failed,      \* _transaction_failed
  valid,       \* the connection is not invalidated
  raising,     \* an exception is on its way out
  pending,     \* writes of the connection's open transaction
  committed,   \* writes that are durable
  block,       \* writes executed since the outermost block was entered
  unit,        \* writes executed in this unit of work
  next         \* number of the next statement

scopeVars == <<depth, failed, valid, raising, pending, committed, block, unit, next>>

ScopeInit ==
  /\ depth = 0 /\ failed = FALSE /\ valid = TRUE /\ raising = FALSE
  /\ pending = {} /\ committed = {} /\ block = {} /\ unit = {}
  /\ next = 1

-----------------------------------------------------------------------------
\* Mutant of Execute's error path: an error that is caught leaves no trace.
ForgetsFailure(d, f) == f

\* _transaction_failed after an error: it is kept while a block is open.
MarksFailure(d, f) == f \/ d > 0

Enter ==
  /\ ~raising /\ depth < MaxDepth
  /\ depth' = depth + 1
  /\ failed' = (failed /\ depth > 0)
  /\ block' = IF depth = 0 THEN {} ELSE block
  /\ UNCHANGED <<valid, raising, pending, committed, unit, next>>

Execute ==
  /\ ~raising /\ valid /\ next <= MaxWrites
  /\ pending' = pending \cup {next}
  /\ block' = block \cup {next}
  /\ unit' = unit \cup {next}
  /\ next' = next + 1
  /\ UNCHANGED <<depth, failed, valid, raising, committed>>

\* The statement fails, or finds the transaction lost: rollback at once, and
\* the exception goes to the caller.
ExecuteFails ==
  /\ ~raising
  /\ failed' = MarksFailure(depth, failed)
  /\ pending' = {}
  /\ valid' = TRUE
  /\ raising' = TRUE
  /\ UNCHANGED <<depth, committed, block, unit, next>>

\* The connection is gone.  Inside a block the exception goes up; outside, one
\* reconnection and one repetition of this statement.
Disconnected ==
  /\ ~raising /\ valid /\ next <= MaxWrites
  /\ next' = next + 1
  /\ failed' = MarksFailure(depth, failed)
  /\ \/ /\ depth > 0
        /\ valid' = FALSE /\ raising' = TRUE
        /\ pending' = {}
        /\ UNCHANGED <<block, unit>>
     \/ /\ depth = 0
        /\ pending' = {next}
        /\ block' = block \cup {next}
        /\ unit' = unit \cup {next}
        /\ UNCHANGED <<valid, raising>>
  /\ UNCHANGED <<depth, committed>>

\* Mutant of HelperCommit's guard.
AtAnyDepth(d) == TRUE

\* commit() is the boundary of a helper only outside every block.
Standalone(d) == d = 0

HelperCommit ==
  /\ ~raising
  /\ IF Standalone(depth)
     THEN committed' = committed \cup pending /\ pending' = {}
     ELSE UNCHANGED <<committed, pending>>
  /\ UNCHANGED <<depth, failed, valid, raising, block, unit, next>>

\* Some caller between two blocks handles the exception and goes on.
Catch ==
  /\ raising
  /\ raising' = FALSE
  /\ UNCHANGED <<depth, failed, valid, pending, committed, block, unit, next>>

\* The end of a block; only the outermost one touches the connection.
Leave ==
  /\ depth > 0
  /\ depth' = depth - 1
  /\ LET bad == failed \/ raising IN
     IF depth > 1
     THEN failed' = bad /\ UNCHANGED <<valid, pending, committed>>
     ELSE /\ failed' = FALSE
          /\ valid' = TRUE
          /\ pending' = {}
          /\ committed' = IF bad THEN committed ELSE committed \cup pending
  /\ UNCHANGED <<raising, block, unit, next>>

\* UnitOfWork.__exit__: rollback, then close.
RolledBack(p) == {}

\* The unit of work ends; its connection serves the next one.
Release ==
  /\ depth = 0
  /\ raising' = FALSE /\ valid' = TRUE
  /\ pending' = RolledBack(pending)
  /\ block' = {} /\ unit' = {}
  /\ UNCHANGED <<depth, failed, committed, next>>

ScopeNext ==
  \/ Enter \/ Execute \/ ExecuteFails \/ Disconnected
  \/ HelperCommit \/ Catch \/ Leave \/ Release

-----------------------------------------------------------------------------
\* A transaction() block is all or nothing, however deep, with commit() called
\* by the helpers in it, errors swallowed on the way and the connection lost:
\* while it is open none of its writes is durable, and the step that ends it
\* makes all of them durable or none.
BlockIsAtomic ==
  [][/\ depth > 0 => block' \cap committed' = {} \/ depth' = 0
     /\ depth = 1 /\ depth' = 0 =>
          block \subseteq committed' \/ block \cap committed' = {}]_scopeVars
=============================================================================
