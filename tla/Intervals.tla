----------------------------- MODULE Intervals ------------------------------
(***************************************************************************)
(* Intervals of time, pairs <<start, end>> of minutes, the end excluded,   *)
(* and the order of tasks: what the day's allocator and the multi-day      *)
(* planner share.                                                          *)
(***************************************************************************)
EXTENDS Integers, FiniteSets, FiniteSetsExt

Length(i) == i[2] - i[1]
Meet(i, j) == i[1] < j[2] /\ j[1] < i[2]

\* _merge: the union of the intervals, as disjoint ones that do not touch.
Merged(I) ==
  LET starts == {i[1] : i \in {j \in I : ~\E k \in I : k[1] < j[1] /\ j[1] <= k[2]}}
      ends == {i[2] : i \in {j \in I : ~\E k \in I : k[1] <= j[2] /\ j[2] < k[2]}}
  IN {<<s, Min({e \in ends : e >= s})>> : s \in starts}

\* sorted(T, key=...): the place of each of the tasks, and the first of them.
InOrder(T, before(_, _)) == [t \in T |-> Cardinality({u \in T \ {t} : before(u, t)})]
FirstIn(order, T) == CHOOSE t \in T : \A u \in T : order[t] <= order[u]
=============================================================================
