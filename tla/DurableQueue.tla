---------------------------- MODULE DurableQueue ----------------------------
(***************************************************************************)
(* What a durable queue with leases promises to those who put jobs in it:  *)
(* a job is leased before it is finished, its effect is recorded in the    *)
(* step that finishes it and never otherwise, and a job that is finished   *)
(* or dropped is never taken up again.  Returning a leased job makes it    *)
(* wait once more; how often that may happen is not promised here.         *)
(***************************************************************************)
CONSTANT Jobs

VARIABLES
  state,      \* where each job is
  done        \* the jobs whose effect has been recorded

queueVars == <<state, done>>

\* The ways a job may move; finished and dropped are ends.
Moves ==
  {<<"absent", "waiting">>, <<"waiting", "leased">>, <<"leased", "waiting">>,
   <<"leased", "finished">>, <<"leased", "dropped">>, <<"waiting", "dropped">>}

Init ==
  /\ state = [j \in Jobs |-> "absent"]
  /\ done = {}

\* One transaction may move several jobs, each along one edge.
Next ==
  /\ \A j \in Jobs : state'[j] = state[j] \/ <<state[j], state'[j]>> \in Moves
  /\ done' = done \cup {j \in Jobs : state[j] # "finished" /\ state'[j] = "finished"}

Spec == Init /\ [][Next]_queueVars
=============================================================================
